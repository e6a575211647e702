--------------------------- MODULE SessionsProofs ---------------------------
(***************************************************************************)
(* Proofs about sessions: stored instants are read back as they were       *)
(* written, activity is recorded within the life of its session, the audit *)
(* trail accounts for every session that ended, and no session is swept    *)
(* before its last second.                                                 *)
(***************************************************************************)
EXTENDS Sessions, Recursion, FiniteSetTheorems, SequenceTheorems, TLAPS

-----------------------------------------------------------------------------
(* Stored instants. *)

\* Multiplication is monotone.
LEMMA Monotone ==
  ASSUME NEW m \in Nat, NEW x \in Nat, NEW y \in Nat, x <= y
  PROVE  m * x <= m * y
<1>1. y = x + (y - x) /\ y - x \in Nat
  OBVIOUS
<1> DEFINE z == y - x
<1>2. z \in Nat /\ y = x + z
  BY <1>1
<1> HIDE DEF z
<1>3. m * y = m * x + m * z /\ m * x \in Nat /\ m * z \in Nat
  BY <1>2
<1> QED
  BY <1>3

\* Division twice is division by the product.
LEMMA DivDiv ==
  ASSUME NEW t \in Nat, NEW b \in Nat \ {0}, NEW m \in Nat \ {0}
  PROVE  t \div (b * m) = (t \div m) \div b
<1> DEFINE q == t \div m
           r == t % m
           s == q \div b
           e == q % b
<1>1. q \in Nat /\ r \in 0..(m - 1) /\ t = m * q + r
  OBVIOUS
<1>2. s \in Nat /\ e \in 0..(b - 1) /\ q = b * s + e
  BY <1>1
<1> HIDE DEF q, r, s, e
<1>3. t = (b * m) * s + (m * e + r)
  <2>1. m * q = m * (b * s) + m * e
    BY <1>1, <1>2
  <2>2. m * (b * s) = (b * m) * s
    BY <1>2
  <2>3. m * e \in Nat /\ m * (b * s) \in Nat /\ (b * m) * s \in Nat
    BY <1>2
  <2> QED
    BY <1>1, <2>1, <2>2, <2>3
<1>4. m * e + r \in 0..(b * m - 1)
  <2>1. m * e <= m * (b - 1)
    <3>1. e \in Nat /\ b - 1 \in Nat /\ e <= b - 1
      BY <1>2
    <3> QED
      BY <3>1, Monotone
  <2>2. m * (b - 1) = b * m - m
    OBVIOUS
  <2>3. m * e \in Nat /\ b * m \in Nat /\ m * (b - 1) \in Nat
    BY <1>2
  <2> QED
    BY <1>1, <2>1, <2>2, <2>3
<1> DEFINE d == b * m
           x == m * e + r
<1>5. d \in Nat \ {0} /\ x \in 0..(d - 1) /\ t = d * s + x
  BY <1>3, <1>4
<1> HIDE DEF d, x
<1>6. t \div d = s
  <2>1. t \div d \in Nat /\ t % d \in 0..(d - 1) /\ t = d * (t \div d) + (t % d)
    <3>1. d \in Nat \ {0}
      BY <1>5
    <3> QED
      BY <3>1
  <2> DEFINE u == t \div d
             y == t % d
  <2> HIDE DEF u, y
  <2>2. u \in Nat /\ y \in 0..(d - 1) /\ d * s + x = d * u + y
    BY <1>5, <2>1 DEF u, y
  <2>3. CASE u < s
    <3>1. d * s >= d * u + d
      BY <1>2, <1>5, <2>2, <2>3
    <3>2. d * s \in Nat /\ d * u \in Nat
      BY <1>2, <1>5, <2>2
    <3> QED
      BY <1>5, <2>2, <3>1, <3>2
  <2>4. CASE s < u
    <3>1. d * u >= d * s + d
      BY <1>2, <1>5, <2>2, <2>4
    <3>2. d * s \in Nat /\ d * u \in Nat
      BY <1>2, <1>5, <2>2
    <3> QED
      BY <1>5, <2>2, <3>1, <3>2
  <2>5. CASE u = s
    BY <2>5 DEF u
  <2>6. u < s \/ s < u \/ u = s
    BY <1>2, <2>2
  <2> QED
    BY <2>3, <2>4, <2>5, <2>6
<1> QED
  BY <1>6 DEF d, s, q

\* The powers of the base are positive.
LEMMA Powers ==
  /\ \A n \in 0..Places : Base ^ n \in Nat \ {0}
  /\ TicksPerSecond \in Nat \ {0}
<1> DEFINE P == {n \in 0..Places : Base ^ n \in Nat \ {0}}
<1>1. 0 \in P
  BY TimestampsAssumption, PowersAssumption
<1>2. ASSUME NEW n \in 0..Places, n # Places, n \in P PROVE n + 1 \in P
  <2>1. Base ^ (n + 1) = Base * Base ^ n /\ n + 1 \in 0..Places
    BY <1>2, TimestampsAssumption, PowersAssumption
  <2> DEFINE w == Base ^ n
  <2>2. w \in Nat \ {0}
    BY <1>2
  <2> HIDE DEF w
  <2>3. Base * w \in Nat \ {0}
    BY <2>2, TimestampsAssumption
  <2> QED
    BY <2>1, <2>3 DEF w
<1> HIDE DEF P
<1>3. \A n \in 0..Places : n \in P
  BY <1>1, <1>2, Induction, TimestampsAssumption
<1>4. \A n \in 0..Places : Base ^ n \in Nat \ {0}
  BY <1>3 DEF P
<1>5. Places \in 0..Places
  BY TimestampsAssumption
<1> QED
  BY <1>4, <1>5 DEF TicksPerSecond

\* formatTime keeps the second and writes digits, of which the ones it leaves out
\* are zero.
LEMMA FormatTime ==
  ASSUME NEW t \in Nat
  PROVE  /\ SecondOf(t) \in Nat /\ LastDigit(t) \in 0..Places
         /\ \A p \in 1..Places : Digit(t, p) \in 0..(Base - 1)
         /\ \A p \in 1..Places : p > LastDigit(t) => Digit(t, p) = 0
         /\ formatTime(t).second = SecondOf(t)
         /\ formatTime(t).fraction \in Seq(0..(Base - 1))
         /\ Len(formatTime(t).fraction) = LastDigit(t)
         /\ \A p \in 1..LastDigit(t) : formatTime(t).fraction[p] = Digit(t, p)
         /\ formatTime(t) \in Texts
<1>1. SecondOf(t) \in Nat
  <2> DEFINE T == TicksPerSecond
  <2>1. T \in Nat \ {0}
    BY Powers
  <2> HIDE DEF T
  <2>2. t \div T \in Nat
    BY <2>1
  <2> QED
    BY <2>2 DEF T, SecondOf
<1>2. ASSUME NEW p \in 1..Places PROVE Digit(t, p) \in 0..(Base - 1)
  <2> DEFINE w == Base ^ (Places - p)
  <2>1. Places - p \in 0..Places
    BY TimestampsAssumption
  <2>2. w \in Nat \ {0}
    BY <2>1, Powers
  <2> HIDE DEF w
  <2> DEFINE x == t \div w
  <2>3. x \in Nat
    BY <2>2
  <2> HIDE DEF x
  <2>4. x % Base \in 0..(Base - 1)
    BY <2>3, TimestampsAssumption
  <2> QED
    BY <2>4 DEF Digit, x, w
<1> DEFINE S == {0} \cup {p \in 1..Places : Digit(t, p) # 0}
           m == LastDigit(t)
<1>3. m \in S /\ \A p \in S : m >= p
  <2> DEFINE T == {n \in Nat : \A p \in S : p <= n}
  <2>1. S \subseteq Nat /\ 0 \in S /\ Places \in T /\ T \subseteq Nat
    BY TimestampsAssumption
  <2> HIDE DEF S
  <2>2. PICK n \in T : \A k \in T : n <= k
    BY <2>1, Smallest
  <2>3. n \in S
    <3>1. SUFFICES ASSUME n \notin S PROVE FALSE
      OBVIOUS
    <3>2. n # 0 /\ \A p \in S : p <= n - 1
      BY <2>1, <2>2, <3>1
    <3>3. n - 1 \in T
      BY <2>2, <3>2
    <3> QED
      BY <2>2, <3>3
  <2>4. n \in S /\ \A p \in S : n >= p
    BY <2>1, <2>2, <2>3
  <2>5. Max(S) \in S /\ \A p \in S : Max(S) >= p
    BY <2>4 DEF Max
  <2> QED
    BY <2>5 DEF LastDigit, S
<1>4. m \in 0..Places
  BY <1>3, TimestampsAssumption
<1> HIDE DEF m
<1>5. ASSUME NEW p \in 1..Places, p > m PROVE Digit(t, p) = 0
  <2>1. p \notin S
    BY <1>3, <1>4, <1>5, TimestampsAssumption
  <2> QED
    BY <2>1
<1> HIDE DEF S
<1> DEFINE f == [p \in 1..m |-> Digit(t, p)]
<1>6. f \in [1..m -> 0..(Base - 1)]
  <2>1. \A p \in 1..m : p \in 1..Places
    BY <1>4, TimestampsAssumption
  <2> QED
    BY <1>2, <2>1
<1>7. f \in Seq(0..(Base - 1)) /\ Len(f) = m /\ \A p \in 1..m : f[p] = Digit(t, p)
  <2>1. m \in Nat
    BY <1>4
  <2>2. f \in Seq(0..(Base - 1))
    BY <1>6, <2>1, SeqDef
  <2>3. \A p \in 1..m : f[p] = Digit(t, p)
    OBVIOUS
  <2>4. DOMAIN f = 1..m
    OBVIOUS
  <2> HIDE DEF f
  <2>5. Len(f) = m
    BY <2>1, <2>2, <2>4, LenProperties
  <2> QED
    BY <2>2, <2>3, <2>5
<1>8. formatTime(t) = [second |-> SecondOf(t), fraction |-> f]
  BY DEF formatTime, m
<1> HIDE DEF f
<1>9. formatTime(t).second = SecondOf(t) /\ formatTime(t).fraction = f /\ formatTime(t) \in Texts
  BY <1>1, <1>7, <1>8 DEF Texts
<1> QED
  BY <1>1, <1>2, <1>4, <1>5, <1>7, <1>9 DEF m

\* Reading digits, step by step.
LEMMA ReadDigitsSteps ==
  ASSUME NEW d \in Seq(0..(Base - 1))
  PROVE  \E v : /\ v \in [0..Len(d) -> Nat] /\ v[0] = 0
                /\ \A k \in 1..Len(d) : v[k] = v[k - 1] * Base + d[k]
                /\ ReadDigits(d) = v[Len(d)]
<1> DEFINE N == Len(d)
           step == [k \in 1..N |-> [x \in Nat |-> x * Base + d[k]]]
           Reads(f) == f = [n \in 0..N |-> IF n = 0 THEN 0 ELSE f[n - 1] * Base + d[n]]
           v == CHOOSE f : Reads(f)
<1>1. N \in Nat /\ \A k \in 1..N : d[k] \in Nat
  BY LenProperties, TimestampsAssumption
<1>2. ReadDigits(d) = v[N]
  BY Zenon DEF ReadDigits
<1>3. \A k \in 1..N : \A x \in Nat : x * Base + d[k] \in Nat
  BY <1>1, TimestampsAssumption
<1>4. step \in [1..N -> [Nat -> Nat]]
  BY <1>3
<1>5. \A k \in 1..N, x \in Nat : step[k][x] = x * Base + d[k]
  OBVIOUS
<1> HIDE DEF N, step
<1>6. PICK g : Runs(g, N, 0, step)
  BY <1>1, <1>4, RecursionExists
<1>7. Reads(g)
  <2>1. g \in [0..N -> Nat] /\ g[0] = 0 /\ \A k \in 1..N : g[k] = step[k][g[k - 1]]
    <3>1. g \in [0..N -> Nat]
      <4>1. 0 \in Nat /\ step \in [1..N -> [Nat -> Nat]]
        BY <1>4
      <4> QED
        BY <1>1, <1>6, <4>1, RecursionTyped
    <3> QED
      BY <1>6, <3>1 DEF Runs
  <2>2. \A k \in 1..N : k - 1 \in 0..N
    BY <1>1
  <2>3. \A k \in 1..N : g[k] = g[k - 1] * Base + d[k]
    BY <1>5, <2>1, <2>2
  <2>4. \A n \in 0..N : n # 0 => n \in 1..N
    BY <1>1
  <2>5. \A n \in 0..N : g[n] = IF n = 0 THEN 0 ELSE g[n - 1] * Base + d[n]
    BY <2>1, <2>3, <2>4
  <2>6. g = [n \in 0..N |-> g[n]]
    BY <2>1
  <2> QED
    BY <2>5, <2>6
<1>8. Reads(v)
  BY <1>7
<1> HIDE DEF v
<1>9. v[0] = 0 /\ \A k \in 1..N : v[k] = v[k - 1] * Base + d[k]
  BY <1>1, <1>8
<1>10. v \in [0..N -> Nat]
  <2> DEFINE P == {n \in 0..N : v[n] \in Nat}
  <2>1. 0 \in P
    BY <1>1, <1>9
  <2>2. ASSUME NEW n \in 0..N, n # N, n \in P PROVE n + 1 \in P
    <3>1. n + 1 \in 1..N /\ n + 1 \in 0..N /\ (n + 1) - 1 = n
      BY <1>1, <2>2
    <3>2. v[n + 1] = v[n] * Base + d[n + 1]
      BY <1>9, <3>1
    <3>3. v[n] * Base + d[n + 1] \in Nat
      BY <1>3, <2>2, <3>1
    <3> QED
      BY <3>1, <3>2, <3>3
  <2> HIDE DEF P
  <2>3. \A n \in 0..N : n \in P
    BY <1>1, <2>1, <2>2, Induction
  <2>4. \A n \in 0..N : v[n] \in Nat
    BY <2>3 DEF P
  <2>5. v = [n \in 0..N |-> v[n]]
    BY <1>8
  <2> QED
    BY <2>4, <2>5
<1> QED
  BY <1>2, <1>9, <1>10 DEF N

\* What is left of an instant when its last digits are cut off, and their weight.
Weight(n) == Base ^ (Places - n)
Upto(t, n) == t \div Weight(n)

\* One more digit.
LEMMA OneMoreDigit ==
  ASSUME NEW t \in Nat, NEW n \in 0..Places, n # Places
  PROVE  /\ Weight(n + 1) \in Nat \ {0} /\ Weight(n) = Base * Weight(n + 1)
         /\ Upto(t, n) \in Nat /\ Upto(t, n + 1) \in Nat
         /\ Upto(t, n + 1) = Base * Upto(t, n) + Digit(t, n + 1)
         /\ Digit(t, n + 1) \in Nat
<1> DEFINE k == Places - (n + 1)
           w == Base ^ k
           x == t \div w
<1>1. k \in 0..(Places - 1) /\ k \in 0..Places /\ k + 1 = Places - n
  BY TimestampsAssumption
<1>2. w \in Nat \ {0} /\ Base ^ (k + 1) = Base * w
  BY <1>1, Powers, PowersAssumption
<1>3. Weight(n + 1) = w /\ Weight(n) = Base * w
  BY <1>1, <1>2 DEF Weight
<1> HIDE DEF k, w
<1>4. x \in Nat
  BY <1>2
<1>5. t \div (Base * w) = x \div Base
  BY <1>2, DivDiv, TimestampsAssumption
<1> HIDE DEF x
<1>6. x \div Base \in Nat /\ x % Base \in Nat /\ x = Base * (x \div Base) + (x % Base)
  BY <1>4, TimestampsAssumption
<1>7. Upto(t, n + 1) = x /\ Upto(t, n) = x \div Base
  BY <1>3, <1>5 DEF Upto, x
<1>8. Digit(t, n + 1) = x % Base
  BY DEF Digit, x, w, k
<1> QED
  BY <1>2, <1>3, <1>4, <1>6, <1>7, <1>8

\* An instant that is written and read back is the same instant, whatever digits
\* formatTime drops.
THEOREM RoundTrip ==
  ASSUME NEW t \in Nat
  PROVE  parseTime(formatTime(t)) = t
<1> DEFINE L == LastDigit(t)
           d == formatTime(t).fraction
           S == SecondOf(t) * TicksPerSecond
<1>1. /\ L \in 0..Places /\ d \in Seq(0..(Base - 1)) /\ Len(d) = L
      /\ \A p \in 1..L : d[p] = Digit(t, p)
      /\ \A p \in 1..Places : p > L => Digit(t, p) = 0
      /\ formatTime(t).second = SecondOf(t)
  BY FormatTime
<1>2. S \in Nat
  BY FormatTime, Powers
<1>3. PICK v : /\ v \in [0..L -> Nat] /\ v[0] = 0
               /\ \A k \in 1..L : v[k] = v[k - 1] * Base + d[k]
               /\ ReadDigits(d) = v[L]
  BY <1>1, ReadDigitsSteps
<1> HIDE DEF L, d
<1>4. Upto(t, 0) * Weight(0) = S
  BY TimestampsAssumption DEF Upto, Weight, SecondOf, TicksPerSecond
<1> HIDE DEF S
<1>5. v[L] * Weight(L) + S = Upto(t, L) * Weight(L)
  <2> DEFINE P == {n \in 0..L : v[n] * Weight(n) + S = Upto(t, n) * Weight(n)}
  <2>1. 0 \in P
    <3>1. Weight(0) \in Nat
      BY Powers, TimestampsAssumption DEF Weight
    <3> QED
      BY <1>1, <1>2, <1>3, <1>4, <3>1
  <2>2. ASSUME NEW n \in 0..L, n # L, n \in P PROVE n + 1 \in P
    <3>1. n \in 0..Places /\ n # Places /\ n + 1 \in 1..L /\ n + 1 \in 0..L /\ (n + 1) - 1 = n
      BY <1>1, <2>2, TimestampsAssumption
    <3> DEFINE w == Weight(n + 1)
               q == Upto(t, n)
               c == Digit(t, n + 1)
               x == v[n]
    <3>2. /\ w \in Nat /\ Weight(n) = Base * w /\ q \in Nat /\ c \in Nat
          /\ Upto(t, n + 1) = Base * q + c
      BY <3>1, OneMoreDigit
    <3>3. x \in Nat /\ v[n + 1] = x * Base + c
      BY <1>1, <1>3, <3>1
    <3>4. x * Weight(n) + S = q * Weight(n)
      BY <2>2
    <3> HIDE DEF w, q, c, x
    <3>5. x * (Base * w) + S = q * (Base * w)
      BY <3>2, <3>4
    <3>6. (x * Base + c) * w + S = x * (Base * w) + S + c * w
      BY <1>2, <3>2, <3>3, TimestampsAssumption
    <3>7. (Base * q + c) * w = q * (Base * w) + c * w
      BY <3>2, TimestampsAssumption
    <3>8. v[n + 1] * w + S = Upto(t, n + 1) * w
      BY <3>2, <3>3, <3>5, <3>6, <3>7
    <3> QED
      BY <3>1, <3>8 DEF w
  <2> HIDE DEF P
  <2>3. L \in Nat
    BY <1>1, TimestampsAssumption
  <2>4. \A n \in 0..L : n \in P
    BY <2>1, <2>2, <2>3, Induction
  <2>5. L \in P
    BY <2>3, <2>4
  <2> QED
    BY <2>5 DEF P
<1>6. Upto(t, L) * Weight(L) = t
  <2> DEFINE M == Places - L
             P == {k \in 0..M : Upto(t, Places - k) * Weight(Places - k) = t}
  <2>1. M \in Nat /\ Places \in Nat /\ L \in Nat /\ L = Places - M
    BY <1>1, TimestampsAssumption
  <2>2. 0 \in P
    <3>1. Places - 0 = Places /\ Places - Places = 0
      BY <2>1
    <3>2. Weight(Places) = 1
      BY <3>1, PowersAssumption DEF Weight
    <3>3. Upto(t, Places) = t
      BY <3>2 DEF Upto
    <3> QED
      BY <2>1, <3>1, <3>2, <3>3
  <2>3. ASSUME NEW k \in 0..M, k # M, k \in P PROVE k + 1 \in P
    <3> DEFINE n == Places - (k + 1)
    <3>1. n \in 0..Places /\ n # Places /\ n + 1 = Places - k /\ n >= L /\ k + 1 \in 0..M
      BY <2>1, <2>3
    <3> HIDE DEF n
    <3> DEFINE w == Weight(n + 1)
               q == Upto(t, n)
    <3>2. /\ w \in Nat /\ Weight(n) = Base * w /\ q \in Nat
          /\ Upto(t, n + 1) = Base * q + Digit(t, n + 1)
      BY <3>1, OneMoreDigit
    <3>3. Digit(t, n + 1) = 0
      <4>1. n + 1 \in 1..Places /\ n + 1 > L
        BY <2>1, <3>1
      <4> QED
        BY <1>1, <4>1
    <3>4. Upto(t, n + 1) * w = t
      BY <2>3, <3>1
    <3> HIDE DEF w, q
    <3>5. (Base * q) * w = t
      BY <3>2, <3>3, <3>4, TimestampsAssumption
    <3>6. q * (Base * w) = t
      BY <3>2, <3>5, TimestampsAssumption
    <3> QED
      BY <3>1, <3>2, <3>6 DEF n, q
  <2> HIDE DEF P, M
  <2>4. \A k \in 0..M : k \in P
    BY <2>1, <2>2, <2>3, Induction
  <2>5. M \in P /\ Places - M = L
    BY <2>1, <2>4
  <2> QED
    BY <2>5 DEF P
<1>7. parseTime(formatTime(t)) = S + ReadDigits(d) * Weight(L)
  BY <1>1 DEF parseTime, S, d, Weight
<1>8. v[L] \in Nat /\ Weight(L) \in Nat
  BY <1>1, <1>3, Powers, TimestampsAssumption DEF Weight
<1> QED
  BY <1>2, <1>3, <1>5, <1>6, <1>7, <1>8
-----------------------------------------------------------------------------
(* The invariant. *)

RequestType == [phase : Phases, session : SessionIds \cup {0}, revoked : BOOLEAN, at : Nat]

\* A session lives for TTL from its login, which is past, and its activity lies in
\* that time.
Lives ==
  \A i \in SessionIds :
    /\ sessions[i].issuedAt <= now
    /\ sessions[i].expiresAt = formatTime(sessions[i].issuedAt + TTL)
    /\ sessions[i].issuedAt <= sessions[i].lastSeen
    /\ sessions[i].lastSeen < sessions[i].issuedAt + TTL

\* A request in flight has found a session, and the instant at which it found it
\* valid lies in the life of the session.
RequestsTimely ==
  \A r \in Requests :
    /\ requests[r].phase # "free" => requests[r].session \in SessionIds
    /\ requests[r].phase \in {"valid", "granted"} =>
         /\ sessions[requests[r].session].issuedAt <= requests[r].at
         /\ requests[r].at < sessions[requests[r].session].issuedAt + TTL

IInv == TypeOK /\ Lives /\ RequestsTimely /\ RevocationsAudited /\ OnlyLogoutEndsEarly
-----------------------------------------------------------------------------
(* What single writes do. *)

\* The identifiers are the positions of a sequence.
LEMMA Ids ==
  ASSUME TypeOK
  PROVE  /\ Len(sessions) \in Nat /\ SessionIds = 1..Len(sessions)
         /\ IsFiniteSet(SessionIds)
         /\ Len(audit) \in Nat /\ DOMAIN audit = 1..Len(audit)
<1>1. sessions \in Seq(SessionRow) /\ audit \in Seq(AuditEntry)
  BY DEF TypeOK
<1>2. Len(sessions) \in Nat /\ SessionIds = 1..Len(sessions)
  BY <1>1, LenProperties DEF SessionIds
<1>3. Len(audit) \in Nat /\ DOMAIN audit = 1..Len(audit)
  BY <1>1, LenProperties
<1>4. IsFiniteSet(1..Len(sessions))
  BY <1>2, FS_Interval
<1> QED
  BY <1>2, <1>3, <1>4

\* The fields of a row.
LEMMA RowFields ==
  ASSUME TypeOK, NEW i \in SessionIds
  PROVE  /\ sessions[i] \in SessionRow
         /\ sessions[i].issuedAt \in Nat /\ sessions[i].lastSeen \in Nat
         /\ sessions[i].expiresAt \in Texts
         /\ sessions[i].revokedAt \in Nat \cup {Never}
         /\ Revoked(i) => sessions[i].revokedAt \in Nat
<1>1. sessions[i] \in SessionRow
  BY DEF TypeOK, SessionIds
<1> QED
  BY <1>1 DEF SessionRow, Revoked

\* One row is replaced.
LEMMA RowWrite ==
  ASSUME TypeOK, NEW i \in SessionIds, NEW row \in SessionRow,
         sessions' = [sessions EXCEPT ![i] = row]
  PROVE  /\ sessions' \in Seq(SessionRow) /\ SessionIds' = SessionIds
         /\ sessions'[i] = row /\ \A k \in SessionIds : k # i => sessions'[k] = sessions[k]
<1>1. sessions \in Seq(SessionRow) /\ i \in 1..Len(sessions)
  BY Ids DEF TypeOK
<1>2. sessions' \in Seq(SessionRow) /\ Len(sessions') = Len(sessions)
  BY <1>1, ExceptSeq
<1>3. SessionIds = 1..Len(sessions) /\ SessionIds' = 1..Len(sessions')
  BY <1>1, <1>2 DEF SessionIds
<1> QED
  BY <1>1, <1>2, <1>3 DEF SessionIds

\* One request is replaced.
LEMMA RequestWrite ==
  ASSUME TypeOK, NEW r \in Requests, NEW q \in RequestType, SessionIds' = SessionIds,
         requests' = [requests EXCEPT ![r] = q]
  PROVE  /\ requests' \in [Requests -> RequestType] /\ RequestType' = RequestType
         /\ requests'[r] = q /\ \A p \in Requests : p # r => requests'[p] = requests[p]
<1>1. requests \in [Requests -> RequestType]
  BY DEF TypeOK, RequestType
<1>2. RequestType' = RequestType
  BY DEF RequestType, SessionIds
<1> QED
  BY <1>1, <1>2

\* A request moves to another phase.
LEMMA RequestMoves ==
  ASSUME TypeOK, NEW r \in Requests, NEW phase \in Phases
  PROVE  LET q == [requests[r] EXCEPT !.phase = phase]
         IN  /\ q \in RequestType /\ q.phase = phase
             /\ q.session = requests[r].session /\ q.at = requests[r].at
<1>1. requests[r] \in RequestType
  BY DEF TypeOK, RequestType
<1>2. [requests[r] EXCEPT !.phase = phase] \in RequestType
  BY <1>1, Zenon DEF RequestType
<1> QED
  BY <1>1, <1>2 DEF RequestType

\* An entry is added to the trail.
LEMMA AuditWrite ==
  ASSUME TypeOK, NEW e, audit' = Append(audit, e)
  PROVE  /\ DOMAIN audit' = DOMAIN audit \cup {Len(audit) + 1} /\ Len(audit) + 1 \notin DOMAIN audit
         /\ \A n \in DOMAIN audit : audit'[n] = audit[n]
         /\ audit'[Len(audit) + 1] = e
<1> DEFINE S == AuditEntry \cup {e}
<1>1. audit \in Seq(S) /\ e \in S
  BY DEF TypeOK
<1> HIDE DEF S
<1>2. /\ audit' \in Seq(S) /\ Len(audit') = Len(audit) + 1
      /\ \A n \in 1..Len(audit) : audit'[n] = audit[n]
      /\ audit'[Len(audit) + 1] = e
  BY <1>1, AppendProperties
<1>3. DOMAIN audit' = 1..(Len(audit) + 1) /\ DOMAIN audit = 1..Len(audit) /\ Len(audit) \in Nat
  BY <1>2, Ids
<1> QED
  BY <1>2, <1>3
-----------------------------------------------------------------------------
(* What the actions do to the rows and to the trail. *)

\* The clock readings of an operation that waited for the lock.
LEMMA ReadingsPast ==
  ASSUME TypeOK, NEW at \in Readings
  PROVE  at \in Nat /\ at <= now
BY SessionsAssumption DEF TypeOK, Readings

\* A login adds a row that lives for TTL.
LEMMA LoginEffect ==
  ASSUME TypeOK, NEW at \in Readings, Login(at)
  PROVE  LET n == Len(sessions) + 1 IN
         /\ sessions' \in Seq(SessionRow) /\ SessionIds' = SessionIds \cup {n} /\ n \notin SessionIds
         /\ \A i \in SessionIds : sessions'[i] = sessions[i]
         /\ sessions'[n].issuedAt = at /\ sessions'[n].lastSeen = at
         /\ sessions'[n].expiresAt = formatTime(at + TTL)
         /\ sessions'[n].revokedAt = Never
<1> DEFINE n == Len(sessions) + 1
           row == [issuedAt |-> at, expiresAt |-> formatTime(at + TTL),
                   revokedAt |-> Never, lastSeen |-> at]
<1>1. at \in Nat /\ at + TTL \in Nat
  BY ReadingsPast, SessionsAssumption
<1>2. row \in SessionRow
  BY <1>1, FormatTime DEF SessionRow
<1>3. /\ row.issuedAt = at /\ row.lastSeen = at
      /\ row.expiresAt = formatTime(at + TTL) /\ row.revokedAt = Never
  OBVIOUS
<1>4. sessions' = Append(sessions, row)
  BY DEF Login, CreateSession
<1> HIDE DEF row
<1>5. sessions \in Seq(SessionRow) /\ Len(sessions) \in Nat /\ SessionIds = 1..Len(sessions)
  BY Ids DEF TypeOK
<1>6. /\ sessions' \in Seq(SessionRow) /\ Len(sessions') = n
      /\ \A i \in 1..Len(sessions) : sessions'[i] = sessions[i]
      /\ sessions'[n] = row
  BY <1>2, <1>4, <1>5, AppendProperties
<1>7. SessionIds' = 1..n
  BY <1>5, <1>6 DEF SessionIds
<1> QED
  BY <1>3, <1>5, <1>6, <1>7

\* A touch writes the activity of a live row, or nothing.
LEMMA TouchEffect ==
  ASSUME TypeOK, RequestsTimely, NEW r \in Requests, TouchSession(r)
  PROVE  LET i == requests[r].session IN
         /\ i \in SessionIds /\ requests[r].phase = "valid" /\ audit' = audit /\ now' = now
         /\ sessions' \in Seq(SessionRow) /\ SessionIds' = SessionIds
         /\ \A k \in SessionIds : k # i => sessions'[k] = sessions[k]
         /\ sessions'[i].issuedAt = sessions[i].issuedAt
         /\ sessions'[i].expiresAt = sessions[i].expiresAt
         /\ sessions'[i].revokedAt = sessions[i].revokedAt
         /\ sessions'[i].lastSeen \in {sessions[i].lastSeen, requests[r].at}
         /\ Revoked(i) => sessions'[i] = sessions[i]
         /\ \/ ~Revoked(i) /\ requests' = [requests EXCEPT ![r].phase = "granted"]
            \/ requests' = [requests EXCEPT ![r].phase = "session_revoked"]
<1> DEFINE i == requests[r].session
           row == [sessions[i] EXCEPT !.lastSeen = requests[r].at]
<1>1. requests[r].phase = "valid" /\ i \in SessionIds /\ audit' = audit /\ now' = now
  BY DEF TouchSession, RequestsTimely
<1>2. requests[r].at \in Nat
  BY DEF TypeOK
<1>3. CASE /\ ~Revoked(i)
           /\ sessions' = [sessions EXCEPT ![i].lastSeen = requests[r].at]
           /\ requests' = [requests EXCEPT ![r].phase = "granted"]
  <2>1. sessions[i] \in SessionRow
    BY <1>1, RowFields
  <2>2. row \in SessionRow
    BY <1>2, <2>1, Zenon DEF SessionRow
  <2>3. /\ row.issuedAt = sessions[i].issuedAt /\ row.expiresAt = sessions[i].expiresAt
        /\ row.revokedAt = sessions[i].revokedAt /\ row.lastSeen = requests[r].at
    BY <2>1 DEF SessionRow
  <2>4. sessions' = [sessions EXCEPT ![i] = row]
    BY <1>3
  <2> HIDE DEF row
  <2>5. /\ sessions' \in Seq(SessionRow) /\ SessionIds' = SessionIds
        /\ sessions'[i] = row /\ \A k \in SessionIds : k # i => sessions'[k] = sessions[k]
    BY <1>1, <2>2, <2>4, RowWrite
  <2> QED
    BY <1>1, <1>3, <2>3, <2>5
<1>4. CASE sessions' = sessions /\ requests' = [requests EXCEPT ![r].phase = "session_revoked"]
  BY <1>1, <1>4 DEF TypeOK, SessionIds
<1> QED
  BY <1>3, <1>4 DEF TouchSession, Touchable

\* A logout revokes a live row and leaves its entry, or finds it revoked.
LEMMA LogoutEffect ==
  ASSUME TypeOK, RequestsTimely, NEW r \in Requests, NEW at \in Readings, Logout(r, at)
  PROVE  LET i == requests[r].session IN
         /\ i \in SessionIds /\ requests[r].phase = "granted" /\ now' = now
         /\ requests' = [requests EXCEPT ![r].phase = "done"]
         /\ sessions' \in Seq(SessionRow) /\ SessionIds' = SessionIds
         /\ \/ /\ ~Revoked(i)
               /\ \A k \in SessionIds : k # i => sessions'[k] = sessions[k]
               /\ sessions'[i].issuedAt = sessions[i].issuedAt
               /\ sessions'[i].expiresAt = sessions[i].expiresAt
               /\ sessions'[i].lastSeen = sessions[i].lastSeen
               /\ sessions'[i].revokedAt = at
               /\ audit' = Append(audit, [action |-> "logout", session |-> i])
            \/ sessions' = sessions /\ audit' = audit
<1> DEFINE i == requests[r].session
           row == [sessions[i] EXCEPT !.revokedAt = at]
<1>1. /\ requests[r].phase = "granted" /\ i \in SessionIds /\ now' = now
      /\ requests' = [requests EXCEPT ![r].phase = "done"]
  BY DEF Logout, RequestsTimely
<1>2. at \in Nat
  BY ReadingsPast
<1>3. CASE /\ ~Revoked(i)
           /\ sessions' = [sessions EXCEPT ![i].revokedAt = at]
           /\ audit' = Append(audit, [action |-> "logout", session |-> i])
  <2>1. sessions[i] \in SessionRow
    BY <1>1, RowFields
  <2>2. row \in SessionRow
    <3>1. at \in Nat \cup {Never}
      BY <1>2
    <3> QED
      BY <2>1, <3>1, Zenon DEF SessionRow
  <2>3. /\ row.issuedAt = sessions[i].issuedAt /\ row.expiresAt = sessions[i].expiresAt
        /\ row.lastSeen = sessions[i].lastSeen /\ row.revokedAt = at
    BY <2>1 DEF SessionRow
  <2>4. sessions' = [sessions EXCEPT ![i] = row]
    BY <1>3
  <2> HIDE DEF row
  <2>5. /\ sessions' \in Seq(SessionRow) /\ SessionIds' = SessionIds
        /\ sessions'[i] = row /\ \A k \in SessionIds : k # i => sessions'[k] = sessions[k]
    BY <1>1, <2>2, <2>4, RowWrite
  <2> QED
    BY <1>1, <1>3, <2>3, <2>5
<1>4. CASE sessions' = sessions /\ audit' = audit
  BY <1>1, <1>4 DEF TypeOK, SessionIds
<1> QED
  BY <1>3, <1>4 DEF Logout, Revocable

\* A sweep revokes a batch of live rows that it takes to be expired.
LEMMA SweepEffect ==
  ASSUME TypeOK, NEW at \in Readings, SweepExpiredSessions(at)
  PROVE  /\ requests' = requests /\ now' = now
         /\ sessions' \in Seq(SessionRow) /\ SessionIds' = SessionIds
         /\ \E batch \in SUBSET SessionIds :
              /\ \A i \in batch : /\ ~Revoked(i)
                                  /\ TextAtMost(sessions[i].expiresAt, formatTime(at))
                                  /\ sessions'[i].issuedAt = sessions[i].issuedAt
                                  /\ sessions'[i].expiresAt = sessions[i].expiresAt
                                  /\ sessions'[i].lastSeen = sessions[i].lastSeen
                                  /\ sessions'[i].revokedAt = at
              /\ \A i \in SessionIds \ batch : sessions'[i] = sessions[i]
              /\ audit' = Append(audit, [action |-> "sweep", count |-> Cardinality(batch)])
<1>1. requests' = requests /\ now' = now /\ at \in Nat \cup {Never}
  BY ReadingsPast DEF SweepExpiredSessions
<1>2. PICK batch \in SUBSET SessionIds :
        /\ SweepBatch(batch, at)
        /\ sessions' = [i \in SessionIds |->
             IF i \in batch THEN [sessions[i] EXCEPT !.revokedAt = at] ELSE sessions[i]]
        /\ audit' = Append(audit, [action |-> "sweep", count |-> Cardinality(batch)])
  BY DEF SweepExpiredSessions
<1>3. \A i \in batch : ~Revoked(i) /\ TextAtMost(sessions[i].expiresAt, formatTime(at))
  BY <1>2 DEF SweepBatch, Sweepable
<1> DEFINE row(i) == [sessions[i] EXCEPT !.revokedAt = at]
<1>4. ASSUME NEW i \in SessionIds
      PROVE  /\ row(i) \in SessionRow
             /\ row(i).issuedAt = sessions[i].issuedAt /\ row(i).expiresAt = sessions[i].expiresAt
             /\ row(i).lastSeen = sessions[i].lastSeen /\ row(i).revokedAt = at
  <2>1. sessions[i] \in SessionRow
    BY RowFields
  <2>2. row(i) \in SessionRow
    BY <1>1, <2>1, Zenon DEF SessionRow
  <2> QED
    BY <2>1, <2>2 DEF SessionRow
<1> HIDE DEF row
<1>5. sessions' = [i \in SessionIds |-> IF i \in batch THEN row(i) ELSE sessions[i]]
  BY <1>2 DEF row
<1>6. sessions' \in [SessionIds -> SessionRow]
  BY <1>4, <1>5, RowFields
<1>7. sessions' \in Seq(SessionRow) /\ SessionIds' = SessionIds
  <2>1. Len(sessions) \in Nat /\ SessionIds = 1..Len(sessions)
    BY Ids
  <2>2. sessions' \in Seq(SessionRow)
    BY <1>6, <2>1, SeqDef
  <2> QED
    BY <1>5, <2>2 DEF SessionIds
<1>8. /\ \A i \in batch : sessions'[i] = row(i)
      /\ \A i \in SessionIds \ batch : sessions'[i] = sessions[i]
  BY <1>5
<1> QED
  BY <1>1, <1>2, <1>3, <1>4, <1>7, <1>8

\* A validation reads the clock, and finds the session valid only within its life.
LEMMA ValidateEffect ==
  ASSUME TypeOK, Lives, RequestsTimely, NEW r \in Requests, Validate(r)
  PROVE  LET i == requests[r].session IN
         /\ i \in SessionIds /\ requests[r].phase = "found"
         /\ sessions' = sessions /\ audit' = audit /\ now' = now
         /\ \E q \in RequestType :
              /\ requests' = [requests EXCEPT ![r] = q]
              /\ q.session = i /\ q.phase \in {"session_revoked", "session_expired", "valid"}
              /\ q.at = now
              /\ q.phase = "valid" => now < sessions[i].issuedAt + TTL
<1> DEFINE i == requests[r].session
           answer == CASE requests[r].revoked -> "session_revoked"
                       [] ~requests[r].revoked /\ Expired(i, now) -> "session_expired"
                       [] OTHER -> "valid"
           q == [requests[r] EXCEPT !.at = now, !.phase = answer]
<1>1. /\ requests[r].phase = "found" /\ i \in SessionIds
      /\ sessions' = sessions /\ audit' = audit /\ now' = now
  BY DEF Validate, RequestsTimely
<1>2. answer \in {"session_revoked", "session_expired", "valid"} /\ answer \in Phases
  BY DEF Phases, Answers
<1>3. answer = "valid" => ~Expired(i, now)
  BY DEF TypeOK
<1>4. ~Expired(i, now) => now < sessions[i].issuedAt + TTL
  <2>1. sessions[i].issuedAt \in Nat /\ sessions[i].issuedAt + TTL \in Nat /\ now \in Nat
    BY <1>1, RowFields, SessionsAssumption DEF TypeOK
  <2>2. sessions[i].expiresAt = formatTime(sessions[i].issuedAt + TTL)
    BY <1>1 DEF Lives
  <2>3. parseTime(sessions[i].expiresAt) = sessions[i].issuedAt + TTL
    BY <2>1, <2>2, RoundTrip
  <2> QED
    BY <2>1, <2>3 DEF Expired
<1>5. requests' = [requests EXCEPT ![r] = q]
  BY DEF Validate
<1>6. requests[r] \in RequestType /\ now \in Nat
  BY DEF TypeOK, RequestType
<1> HIDE DEF answer
<1>7. q \in RequestType
  BY <1>2, <1>6, Zenon DEF RequestType
<1>8. q.session = i /\ q.phase = answer /\ q.at = now
  BY <1>6 DEF RequestType
<1> HIDE DEF q
<1> QED
  BY <1>1, <1>2, <1>3, <1>4, <1>5, <1>7, <1>8
-----------------------------------------------------------------------------
(* The parts of the invariant, action by action. *)

\* Rows are never removed, so what refers to them stays well typed.
LEMMA ReferencesStay ==
  ASSUME TypeOK, SessionIds \subseteq SessionIds'
  PROVE  requests \in [Requests -> RequestType'] /\ audit \in Seq(AuditEntry')
<1>1. RequestType \subseteq RequestType'
  BY DEF RequestType
<1>2. AuditEntry \subseteq AuditEntry'
  BY DEF AuditEntry
<1>3. requests \in [Requests -> RequestType] /\ audit \in Seq(AuditEntry)
  BY DEF TypeOK, RequestType
<1>4. audit \in Seq(AuditEntry')
  BY <1>2, <1>3
<1> QED
  BY <1>1, <1>3, <1>4

\* Every action keeps the types and removes no row.
LEMMA TypeStep ==
  ASSUME IInv, [Next]_vars
  PROVE  TypeOK' /\ SessionIds \subseteq SessionIds'
<1>0. /\ TypeOK /\ Lives /\ RequestsTimely /\ now \in Nat
      /\ sessions \in Seq(SessionRow) /\ requests \in [Requests -> RequestType]
  BY DEF IInv, TypeOK, RequestType
<1>1. ASSUME NEW at \in Readings, Login(at) PROVE TypeOK' /\ SessionIds \subseteq SessionIds'
  <2> DEFINE n == Len(sessions) + 1
             e == [action |-> "login", session |-> n]
  <2>1. /\ sessions' \in Seq(SessionRow) /\ SessionIds' = SessionIds \cup {n}
        /\ requests' = requests /\ now' = now /\ audit' = Append(audit, e)
    BY <1>0, <1>1, LoginEffect DEF Login
  <2>2. e \in AuditEntry'
    BY <2>1 DEF AuditEntry
  <2> HIDE DEF e
  <2>3. requests \in [Requests -> RequestType'] /\ audit \in Seq(AuditEntry')
    BY <1>0, <2>1, ReferencesStay
  <2>4. audit' \in Seq(AuditEntry')
    BY <2>1, <2>2, <2>3, AppendProperties
  <2> QED
    BY <1>0, <2>1, <2>3, <2>4 DEF TypeOK, RequestType
<1>2. ASSUME NEW at \in Readings, SweepExpiredSessions(at)
      PROVE  TypeOK' /\ SessionIds \subseteq SessionIds'
  <2>1. PICK batch \in SUBSET SessionIds :
          audit' = Append(audit, [action |-> "sweep", count |-> Cardinality(batch)])
    BY <1>0, <1>2, SweepEffect
  <2> DEFINE e == [action |-> "sweep", count |-> Cardinality(batch)]
  <2>2. /\ sessions' \in Seq(SessionRow) /\ SessionIds' = SessionIds
        /\ requests' = requests /\ now' = now
    BY <1>0, <1>2, SweepEffect
  <2>3. e \in AuditEntry'
    <3>1. Cardinality(batch) \in Nat
      BY <1>0, Ids, FS_Subset, FS_CardinalityType
    <3> QED
      BY <3>1 DEF AuditEntry
  <2>4. audit' = Append(audit, e)
    BY <2>1
  <2> HIDE DEF e
  <2>5. requests \in [Requests -> RequestType'] /\ audit \in Seq(AuditEntry')
    BY <1>0, <2>2, ReferencesStay
  <2>6. audit' \in Seq(AuditEntry')
    BY <2>3, <2>4, <2>5, AppendProperties
  <2> QED
    BY <1>0, <2>2, <2>5, <2>6 DEF TypeOK, RequestType
<1>3. ASSUME SessionIds' = SessionIds, sessions' \in Seq(SessionRow),
             requests' \in [Requests -> RequestType], audit' \in Seq(AuditEntry), now' \in Nat
      PROVE  TypeOK' /\ SessionIds \subseteq SessionIds'
  <2>1. RequestType' = RequestType /\ AuditEntry' = AuditEntry
    BY <1>3 DEF RequestType, AuditEntry
  <2> QED
    BY <1>3, <2>1 DEF TypeOK, RequestType
<1>4. audit \in Seq(AuditEntry)
  BY <1>0 DEF TypeOK
<1>5. ASSUME NEW r \in Requests, NEW i \in SessionIds, FindSession(r, i)
      PROVE  TypeOK' /\ SessionIds \subseteq SessionIds'
  <2> DEFINE q == [phase |-> "found", session |-> i, revoked |-> Revoked(i), at |-> 0]
  <2>1. q \in RequestType
    BY DEF RequestType, Phases, Revoked
  <2>2. requests' = [requests EXCEPT ![r] = q] /\ sessions' = sessions /\ audit' = audit /\ now' = now
    BY <1>5 DEF FindSession
  <2> HIDE DEF q
  <2>3. SessionIds' = SessionIds /\ requests' \in [Requests -> RequestType]
    BY <1>0, <2>1, <2>2 DEF SessionIds
  <2> QED
    BY <1>0, <1>3, <1>4, <2>2, <2>3
<1>6. ASSUME NEW r \in Requests, Validate(r) PROVE TypeOK' /\ SessionIds \subseteq SessionIds'
  <2>1. /\ sessions' = sessions /\ audit' = audit /\ now' = now
        /\ \E q \in RequestType : requests' = [requests EXCEPT ![r] = q]
    BY <1>0, <1>6, ValidateEffect
  <2>2. SessionIds' = SessionIds /\ requests' \in [Requests -> RequestType]
    BY <1>0, <2>1 DEF SessionIds
  <2> QED
    BY <1>0, <1>3, <1>4, <2>1, <2>2
<1>7. ASSUME NEW r \in Requests, NEW phase \in Phases, requests' = [requests EXCEPT ![r].phase = phase]
      PROVE  requests' \in [Requests -> RequestType]
  <2> DEFINE q == [requests[r] EXCEPT !.phase = phase]
  <2>1. q \in RequestType
    BY <1>0, RequestMoves
  <2>2. requests' = [requests EXCEPT ![r] = q]
    BY <1>7
  <2> HIDE DEF q
  <2> QED
    BY <1>0, <2>1, <2>2
<1>8. ASSUME NEW r \in Requests, TouchSession(r) PROVE TypeOK' /\ SessionIds \subseteq SessionIds'
  <2>1. /\ sessions' \in Seq(SessionRow) /\ SessionIds' = SessionIds /\ audit' = audit /\ now' = now
        /\ \/ requests' = [requests EXCEPT ![r].phase = "granted"]
           \/ requests' = [requests EXCEPT ![r].phase = "session_revoked"]
    BY <1>0, <1>8, TouchEffect
  <2>2. requests' \in [Requests -> RequestType]
    BY <1>7, <2>1 DEF Phases, Answers
  <2> QED
    BY <1>0, <1>3, <1>4, <2>1, <2>2
<1>9. ASSUME NEW r \in Requests, NEW at \in Readings, Logout(r, at)
      PROVE  TypeOK' /\ SessionIds \subseteq SessionIds'
  <2> DEFINE i == requests[r].session
             e == [action |-> "logout", session |-> i]
  <2>1. /\ i \in SessionIds
        /\ sessions' \in Seq(SessionRow) /\ SessionIds' = SessionIds /\ now' = now
        /\ audit' = Append(audit, e) \/ audit' = audit
        /\ requests' = [requests EXCEPT ![r].phase = "done"]
    BY <1>0, <1>9, LogoutEffect
  <2>2. requests' \in [Requests -> RequestType]
    BY <1>7, <2>1 DEF Phases, Answers
  <2>3. e \in AuditEntry
    BY <2>1 DEF AuditEntry
  <2> HIDE DEF e, i
  <2>4. audit' \in Seq(AuditEntry)
    BY <1>4, <2>1, <2>3, AppendProperties
  <2> QED
    BY <1>0, <1>3, <2>1, <2>2, <2>4
<1>10. ASSUME NEW r \in Requests, Finish(r) PROVE TypeOK' /\ SessionIds \subseteq SessionIds'
  <2>1. Free \in RequestType
    BY DEF Free, RequestType, Phases
  <2>2. requests' = [requests EXCEPT ![r] = Free] /\ sessions' = sessions /\ audit' = audit /\ now' = now
    BY <1>10 DEF Finish
  <2>3. SessionIds' = SessionIds /\ requests' \in [Requests -> RequestType]
    BY <1>0, <2>1, <2>2 DEF SessionIds
  <2> QED
    BY <1>0, <1>3, <1>4, <2>2, <2>3
<1>11. ASSUME Tick \/ UNCHANGED vars PROVE TypeOK' /\ SessionIds \subseteq SessionIds'
  <2>1. sessions' = sessions /\ requests' = requests /\ audit' = audit /\ now' \in Nat
    BY <1>0, <1>11 DEF Tick, vars
  <2>2. SessionIds' = SessionIds
    BY <2>1 DEF SessionIds
  <2> QED
    BY <1>0, <1>3, <1>4, <2>1, <2>2
<1> QED
  BY <1>1, <1>2, <1>5, <1>6, <1>8, <1>9, <1>10, <1>11 DEF Next

\* What one step does to the rows: logins add rows that start now or just before,
\* touches write the instant of a request that found the session valid, a revoked
\* row is left alone, and nothing else changes a life.
LEMMA RowsStep ==
  ASSUME IInv, [Next]_vars
  PROVE  /\ now' \in Nat /\ now <= now'
         /\ \A i \in SessionIds :
              /\ sessions'[i].issuedAt = sessions[i].issuedAt
              /\ sessions'[i].expiresAt = sessions[i].expiresAt
              /\ \/ sessions'[i].lastSeen = sessions[i].lastSeen
                 \/ \E r \in Requests : /\ requests[r].phase = "valid" /\ requests[r].session = i
                                        /\ sessions'[i].lastSeen = requests[r].at
              /\ Revoked(i) => sessions'[i] = sessions[i]
         /\ \A i \in SessionIds' : i \notin SessionIds =>
              \E at \in Nat : /\ at <= now
                              /\ sessions'[i].issuedAt = at /\ sessions'[i].lastSeen = at
                              /\ sessions'[i].expiresAt = formatTime(at + TTL)
<1>0. TypeOK /\ Lives /\ RequestsTimely /\ now \in Nat
  BY DEF IInv, TypeOK
<1>1. ASSUME NEW at \in Readings, Login(at)
      PROVE  /\ now' = now
             /\ \A i \in SessionIds : sessions'[i] = sessions[i]
             /\ \A i \in SessionIds' : i \notin SessionIds =>
                  /\ at \in Nat /\ at <= now
                  /\ sessions'[i].issuedAt = at /\ sessions'[i].lastSeen = at
                  /\ sessions'[i].expiresAt = formatTime(at + TTL)
  BY <1>0, <1>1, LoginEffect, ReadingsPast DEF Login
<1>2. ASSUME NEW at \in Readings, SweepExpiredSessions(at)
      PROVE  /\ now' = now /\ SessionIds' = SessionIds
             /\ \A i \in SessionIds :
                  /\ sessions'[i].issuedAt = sessions[i].issuedAt
                  /\ sessions'[i].expiresAt = sessions[i].expiresAt
                  /\ sessions'[i].lastSeen = sessions[i].lastSeen
                  /\ Revoked(i) => sessions'[i] = sessions[i]
  BY <1>0, <1>2, SweepEffect
<1>3. ASSUME NEW r \in Requests, TouchSession(r)
      PROVE  /\ now' = now /\ SessionIds' = SessionIds
             /\ \A i \in SessionIds :
                  /\ sessions'[i].issuedAt = sessions[i].issuedAt
                  /\ sessions'[i].expiresAt = sessions[i].expiresAt
                  /\ \/ sessions'[i].lastSeen = sessions[i].lastSeen
                     \/ /\ requests[r].phase = "valid" /\ requests[r].session = i
                        /\ sessions'[i].lastSeen = requests[r].at
                  /\ Revoked(i) => sessions'[i] = sessions[i]
  BY <1>0, <1>3, TouchEffect
<1>4. ASSUME NEW r \in Requests, NEW at \in Readings, Logout(r, at)
      PROVE  /\ now' = now /\ SessionIds' = SessionIds
             /\ \A i \in SessionIds :
                  /\ sessions'[i].issuedAt = sessions[i].issuedAt
                  /\ sessions'[i].expiresAt = sessions[i].expiresAt
                  /\ sessions'[i].lastSeen = sessions[i].lastSeen
                  /\ Revoked(i) => sessions'[i] = sessions[i]
  BY <1>0, <1>4, LogoutEffect
<1>5. ASSUME \/ \E r \in Requests : (\E i \in SessionIds : FindSession(r, i)) \/ Validate(r) \/ Finish(r)
             \/ Tick \/ UNCHANGED vars
      PROVE  sessions' = sessions /\ SessionIds' = SessionIds /\ now' \in Nat /\ now <= now'
  <2>1. ASSUME NEW r \in Requests, (\E i \in SessionIds : FindSession(r, i)) \/ Validate(r) \/ Finish(r)
        PROVE  sessions' = sessions /\ now' = now
    BY <2>1, Zenon DEF FindSession, Validate, Finish
  <2>2. ASSUME Tick \/ UNCHANGED vars
        PROVE  sessions' = sessions /\ now' \in {now, now + 1}
    BY <2>2 DEF Tick, vars
  <2>3. sessions' = sessions /\ now' \in {now, now + 1}
    BY <1>5, <2>1, <2>2
  <2> QED
    BY <1>0, <2>3 DEF SessionIds
<1>6. CASE \E at \in Readings : Login(at)
  BY <1>0, <1>1, <1>6
<1>7. CASE \E at \in Readings : SweepExpiredSessions(at)
  BY <1>0, <1>2, <1>7
<1>8. CASE \E r \in Requests : TouchSession(r)
  BY <1>0, <1>3, <1>8
<1>9. CASE \E r \in Requests, at \in Readings : Logout(r, at)
  BY <1>0, <1>4, <1>9
<1> QED
  BY <1>5, <1>6, <1>7, <1>8, <1>9 DEF Next

\* Lives go on within their bounds.
LEMMA LivesStep ==
  ASSUME IInv, [Next]_vars
  PROVE  Lives'
<1>0. TypeOK /\ Lives /\ RequestsTimely /\ now \in Nat
  BY DEF IInv, TypeOK
<1>1. SUFFICES ASSUME NEW i \in SessionIds'
               PROVE  /\ sessions'[i].issuedAt <= now'
                      /\ sessions'[i].expiresAt = formatTime(sessions'[i].issuedAt + TTL)
                      /\ sessions'[i].issuedAt <= sessions'[i].lastSeen
                      /\ sessions'[i].lastSeen < sessions'[i].issuedAt + TTL
  BY DEF Lives
<1>2. CASE i \in SessionIds
  <2>1. /\ sessions'[i].issuedAt = sessions[i].issuedAt
        /\ sessions'[i].expiresAt = sessions[i].expiresAt
        /\ \/ sessions'[i].lastSeen = sessions[i].lastSeen
           \/ \E r \in Requests : /\ requests[r].phase = "valid" /\ requests[r].session = i
                                  /\ sessions'[i].lastSeen = requests[r].at
        /\ now' \in Nat /\ now <= now'
    BY <1>2, RowsStep
  <2>2. /\ sessions[i].issuedAt \in Nat /\ sessions[i].issuedAt <= now
        /\ sessions[i].expiresAt = formatTime(sessions[i].issuedAt + TTL)
        /\ sessions[i].issuedAt <= sessions[i].lastSeen
        /\ sessions[i].lastSeen < sessions[i].issuedAt + TTL
    BY <1>0, <1>2, RowFields DEF Lives
  <2>3. \A r \in Requests : requests[r].phase = "valid" /\ requests[r].session = i =>
          sessions[i].issuedAt <= requests[r].at /\ requests[r].at < sessions[i].issuedAt + TTL
    BY <1>0 DEF RequestsTimely
  <2>4. sessions[i].issuedAt <= now'
    BY <1>0, <2>1, <2>2
  <2> QED
    BY <2>1, <2>2, <2>3, <2>4
<1>3. CASE i \notin SessionIds
  <2>1. PICK at \in Nat : /\ at <= now
                          /\ sessions'[i].issuedAt = at /\ sessions'[i].lastSeen = at
                          /\ sessions'[i].expiresAt = formatTime(at + TTL)
    BY <1>1, <1>3, RowsStep
  <2>2. now' \in Nat /\ now <= now'
    BY RowsStep
  <2>3. at <= now' /\ at <= at /\ at < at + TTL
    BY <1>0, <2>1, <2>2, SessionsAssumption
  <2> QED
    BY <2>1, <2>3
<1> QED
  BY <1>2, <1>3

\* What a request has found stays found.
LEMMA RequestsStep ==
  ASSUME IInv, [Next]_vars
  PROVE  RequestsTimely'
<1>0. /\ TypeOK /\ Lives /\ RequestsTimely /\ now \in Nat
      /\ requests \in [Requests -> RequestType]
  BY DEF IInv, TypeOK, RequestType
<1>1. SessionIds \subseteq SessionIds' /\ \A i \in SessionIds : sessions'[i].issuedAt = sessions[i].issuedAt
  BY TypeStep, RowsStep
<1>2. ASSUME NEW r \in Requests, requests'[r] = requests[r]
      PROVE  /\ requests'[r].phase # "free" => requests'[r].session \in SessionIds'
             /\ requests'[r].phase \in {"valid", "granted"} =>
                  /\ sessions'[requests'[r].session].issuedAt <= requests'[r].at
                  /\ requests'[r].at < sessions'[requests'[r].session].issuedAt + TTL
  <2>1. CASE requests[r].phase = "free"
    BY <1>2, <2>1
  <2>2. CASE requests[r].phase # "free"
    <3>1. requests[r].session \in SessionIds
      BY <1>0, <2>2 DEF RequestsTimely
    <3>2. sessions'[requests[r].session].issuedAt = sessions[requests[r].session].issuedAt
      BY <1>1, <3>1
    <3>3. requests[r].session \in SessionIds'
      BY <1>1, <3>1
    <3>4. requests[r].phase \in {"valid", "granted"} =>
            /\ sessions[requests[r].session].issuedAt <= requests[r].at
            /\ requests[r].at < sessions[requests[r].session].issuedAt + TTL
      BY <1>0 DEF RequestsTimely
    <3> QED
      BY <1>2, <3>2, <3>3, <3>4
  <2> QED
    BY <2>1, <2>2
<1>3. CASE requests' = requests
  BY <1>2, <1>3 DEF RequestsTimely
<1>4. ASSUME NEW r \in Requests, NEW q \in RequestType, requests' = [requests EXCEPT ![r] = q],
             q.phase # "free" => q.session \in SessionIds,
             q.phase \in {"valid", "granted"} =>
               /\ sessions[q.session].issuedAt <= q.at
               /\ q.at < sessions[q.session].issuedAt + TTL
      PROVE  RequestsTimely'
  <2>1. requests'[r] = q /\ \A p \in Requests : p # r => requests'[p] = requests[p]
    BY <1>0, <1>4
  <2>2. q.phase # "free" => /\ q.session \in SessionIds'
                            /\ sessions'[q.session].issuedAt = sessions[q.session].issuedAt
    BY <1>1, <1>4
  <2>3. SUFFICES ASSUME NEW p \in Requests
                 PROVE  /\ requests'[p].phase # "free" => requests'[p].session \in SessionIds'
                        /\ requests'[p].phase \in {"valid", "granted"} =>
                             /\ sessions'[requests'[p].session].issuedAt <= requests'[p].at
                             /\ requests'[p].at < sessions'[requests'[p].session].issuedAt + TTL
    BY DEF RequestsTimely
  <2>4. CASE p = r
    BY <1>4, <2>1, <2>2, <2>4
  <2>5. CASE p # r
    BY <1>2, <2>1, <2>5
  <2> QED
    BY <2>4, <2>5
<1>5. ASSUME NEW r \in Requests, NEW i \in SessionIds, FindSession(r, i) PROVE RequestsTimely'
  <2> DEFINE q == [phase |-> "found", session |-> i, revoked |-> Revoked(i), at |-> 0]
  <2>1. q \in RequestType /\ q.phase = "found" /\ q.session = i
    BY DEF RequestType, Phases, Revoked
  <2>2. requests' = [requests EXCEPT ![r] = q]
    BY <1>5 DEF FindSession
  <2> HIDE DEF q
  <2> QED
    BY <1>4, <2>1, <2>2
<1>6. ASSUME NEW r \in Requests, Validate(r) PROVE RequestsTimely'
  <2> DEFINE i == requests[r].session
  <2>1. i \in SessionIds
    BY <1>0, <1>6, ValidateEffect
  <2>2. PICK q \in RequestType :
          /\ requests' = [requests EXCEPT ![r] = q]
          /\ q.session = i /\ q.phase \in {"session_revoked", "session_expired", "valid"}
          /\ q.at = now
          /\ q.phase = "valid" => now < sessions[i].issuedAt + TTL
    BY <1>0, <1>6, ValidateEffect
  <2>3. sessions[i].issuedAt <= now
    BY <1>0, <2>1 DEF Lives
  <2> HIDE DEF i
  <2> QED
    BY <1>4, <2>1, <2>2, <2>3
<1>7. ASSUME NEW r \in Requests, NEW phase \in Phases, requests' = [requests EXCEPT ![r].phase = phase],
             requests[r].phase # "free",
             phase \in {"valid", "granted"} => requests[r].phase \in {"valid", "granted"}
      PROVE  RequestsTimely'
  <2> DEFINE q == [requests[r] EXCEPT !.phase = phase]
  <2>1. /\ q \in RequestType /\ q.phase = phase
        /\ q.session = requests[r].session /\ q.at = requests[r].at
    BY <1>0, RequestMoves
  <2>2. requests' = [requests EXCEPT ![r] = q]
    BY <1>7
  <2> HIDE DEF q
  <2>3. requests[r].session \in SessionIds
    BY <1>0, <1>7 DEF RequestsTimely
  <2>4. requests[r].phase \in {"valid", "granted"} =>
          /\ sessions[requests[r].session].issuedAt <= requests[r].at
          /\ requests[r].at < sessions[requests[r].session].issuedAt + TTL
    BY <1>0 DEF RequestsTimely
  <2> QED
    BY <1>4, <1>7, <2>1, <2>2, <2>3, <2>4
<1>8. ASSUME NEW r \in Requests, TouchSession(r) PROVE RequestsTimely'
  <2>1. /\ requests[r].phase = "valid"
        /\ \/ requests' = [requests EXCEPT ![r].phase = "granted"]
           \/ requests' = [requests EXCEPT ![r].phase = "session_revoked"]
    BY <1>0, <1>8, TouchEffect
  <2> QED
    BY <1>7, <2>1 DEF Phases, Answers
<1>9. ASSUME NEW r \in Requests, NEW at \in Readings, Logout(r, at) PROVE RequestsTimely'
  <2>1. requests[r].phase = "granted" /\ requests' = [requests EXCEPT ![r].phase = "done"]
    BY <1>0, <1>9, LogoutEffect
  <2> QED
    BY <1>7, <2>1 DEF Phases, Answers
<1>10. ASSUME NEW r \in Requests, Finish(r) PROVE RequestsTimely'
  <2>1. Free \in RequestType /\ Free.phase = "free"
    BY DEF Free, RequestType, Phases
  <2>2. requests' = [requests EXCEPT ![r] = Free]
    BY <1>10 DEF Finish
  <2> QED
    BY <1>4, <2>1, <2>2
<1> QED
  BY <1>3, <1>5, <1>6, <1>8, <1>9, <1>10 DEF Next, Login, SweepExpiredSessions, Tick, vars
-----------------------------------------------------------------------------
(* The trail. *)

\* What an entry says it swept.
Swept(e) == IF e.action = "sweep" THEN e.count ELSE 0

SweptSteps(log) == [k \in 1..Len(log) |-> [x \in Nat |-> x + Swept(log[k])]]

\* Entries say how many sessions they swept.
LEMMA SweptType ==
  ASSUME NEW e \in AuditEntry
  PROVE  Swept(e) \in Nat
BY DEF AuditEntry, Swept

\* Adding up a log, entry by entry.
LEMMA SweptRun ==
  ASSUME NEW S, NEW log \in Seq(S), \A e \in S : Swept(e) \in Nat
  PROVE  \E v : /\ v \in [0..Len(log) -> Nat] /\ Runs(v, Len(log), 0, SweptSteps(log))
                /\ SweptCount(log) = v[Len(log)]
<1> DEFINE N == Len(log)
           step == SweptSteps(log)
           Adds(f) == f = [n \in 0..N |->
                             IF n = 0 THEN 0
                             ELSE f[n - 1] + (IF log[n].action = "sweep" THEN log[n].count ELSE 0)]
           v == CHOOSE f : Adds(f)
<1>1. N \in Nat /\ \A k \in 1..N : log[k] \in S
  BY LenProperties
<1>2. SweptCount(log) = v[N]
  BY Zenon DEF SweptCount
<1>3. \A k \in 1..N : Swept(log[k]) \in Nat
  BY <1>1
<1>4. step \in [1..N -> [Nat -> Nat]] /\ \A k \in 1..N, x \in Nat : step[k][x] = x + Swept(log[k])
  BY <1>3 DEF SweptSteps
<1> HIDE DEF N, step
<1>5. PICK g : Runs(g, N, 0, step)
  BY <1>1, <1>4, RecursionExists
<1>6. Adds(g)
  <2>1. g \in [0..N -> Nat] /\ g[0] = 0 /\ \A k \in 1..N : g[k] = step[k][g[k - 1]]
    <3>1. g \in [0..N -> Nat]
      <4>1. 0 \in Nat /\ step \in [1..N -> [Nat -> Nat]]
        BY <1>4
      <4> QED
        BY <1>1, <1>5, <4>1, RecursionTyped
    <3> QED
      BY <1>5, <3>1 DEF Runs
  <2>2. \A k \in 1..N : k - 1 \in 0..N
    BY <1>1
  <2>3. \A k \in 1..N : g[k] = g[k - 1] + Swept(log[k])
    BY <1>4, <2>1, <2>2
  <2>4. \A n \in 0..N : n # 0 => n \in 1..N
    BY <1>1
  <2>5. \A n \in 0..N : g[n] = IF n = 0 THEN 0
                               ELSE g[n - 1] + (IF log[n].action = "sweep" THEN log[n].count ELSE 0)
    BY <2>1, <2>3, <2>4 DEF Swept
  <2>6. g = [n \in 0..N |-> g[n]]
    BY <2>1
  <2> QED
    BY <2>5, <2>6
<1>7. Adds(v)
  BY <1>6
<1> HIDE DEF v
<1>8. v[0] = 0 /\ \A k \in 1..N : v[k] = v[k - 1] + Swept(log[k])
  BY <1>1, <1>7 DEF Swept
<1>9. v \in [0..N -> Nat]
  <2> DEFINE P == {n \in 0..N : v[n] \in Nat}
  <2>1. 0 \in P
    BY <1>1, <1>8
  <2>2. ASSUME NEW n \in 0..N, n # N, n \in P PROVE n + 1 \in P
    <3>1. n + 1 \in 1..N /\ n + 1 \in 0..N /\ (n + 1) - 1 = n
      BY <1>1, <2>2
    <3>2. v[n + 1] = v[n] + Swept(log[n + 1])
      BY <1>8, <3>1
    <3>3. v[n] + Swept(log[n + 1]) \in Nat
      BY <1>3, <2>2, <3>1
    <3> QED
      BY <3>1, <3>2, <3>3
  <2> HIDE DEF P
  <2>3. \A n \in 0..N : n \in P
    BY <1>1, <2>1, <2>2, Induction
  <2>4. \A n \in 0..N : v[n] \in Nat
    BY <2>3 DEF P
  <2>5. v = [n \in 0..N |-> v[n]]
    BY <1>7
  <2> QED
    BY <2>4, <2>5
<1>10. \A k \in 1..N : v[k] = step[k][v[k - 1]]
  <2>1. \A k \in 1..N : k - 1 \in 0..N
    BY <1>1
  <2>2. \A k \in 1..N : v[k - 1] \in Nat
    BY <1>9, <2>1
  <2> QED
    BY <1>4, <1>8, <2>2
<1>11. v = [n \in 0..N |-> v[n]]
  BY <1>9
<1>12. Runs(v, N, 0, step)
  BY <1>8, <1>10, <1>11 DEF Runs
<1> QED
  BY <1>2, <1>9, <1>12 DEF N, step

\* One more entry adds what it swept.
LEMMA SweptAppend ==
  ASSUME NEW S, NEW log \in Seq(S), NEW e \in S, \A x \in S : Swept(x) \in Nat
  PROVE  /\ SweptCount(log) \in Nat
         /\ SweptCount(Append(log, e)) = SweptCount(log) + Swept(e)
<1> DEFINE more == Append(log, e)
           M == Len(log)
<1>1. /\ more \in Seq(S) /\ M \in Nat /\ Len(more) = M + 1
      /\ more[M + 1] = e /\ \A k \in 1..M : more[k] = log[k]
  BY AppendProperties, LenProperties
<1> HIDE DEF more
<1>2. PICK v : v \in [0..M -> Nat] /\ Runs(v, M, 0, SweptSteps(log)) /\ SweptCount(log) = v[M]
  BY SweptRun
<1>3. PICK w : Runs(w, M + 1, 0, SweptSteps(more)) /\ SweptCount(more) = w[M + 1]
  BY <1>1, SweptRun
<1>4. \A k \in 1..M : SweptSteps(log)[k] = SweptSteps(more)[k]
  <2>1. \A k \in 1..Len(log) : SweptSteps(log)[k] = [x \in Nat |-> x + Swept(log[k])]
    BY DEF SweptSteps
  <2>2. \A k \in 1..Len(more) : SweptSteps(more)[k] = [x \in Nat |-> x + Swept(more[k])]
    BY DEF SweptSteps
  <2>3. \A k \in 1..M : k \in 1..Len(more)
    BY <1>1
  <2> QED
    BY <1>1, <2>1, <2>2, <2>3, Zenon
<1>5. v[M] = w[M]
  <2>1. M + 1 \in Nat /\ M <= M + 1
    BY <1>1
  <2> HIDE DEF M
  <2> QED
    BY <1>1, <1>2, <1>3, <1>4, <2>1, RecursionAgrees
<1>6. v[M] \in Nat
  <2>1. v \in [0..M -> Nat] /\ M \in 0..M
    BY <1>1, <1>2
  <2> HIDE DEF M
  <2> QED
    BY <2>1
<1>7. w[M + 1] = SweptSteps(more)[M + 1][w[M]]
  <2>1. M + 1 \in 1..(M + 1) /\ (M + 1) - 1 = M
    BY <1>1
  <2> QED
    BY <1>3, <2>1 DEF Runs
<1>8. SweptSteps(more)[M + 1][w[M]] = w[M] + Swept(e)
  <2>1. M + 1 \in 1..Len(more) /\ w[M] \in Nat
    BY <1>1, <1>5, <1>6
  <2>2. SweptSteps(more)[M + 1] = [x \in Nat |-> x + Swept(more[M + 1])]
    BY <2>1, Zenon DEF SweptSteps
  <2> QED
    BY <1>1, <2>1, <2>2
<1> QED
  BY <1>2, <1>3, <1>5, <1>6, <1>7, <1>8 DEF more

\* The logout entries of a session, after one more entry.
LEMMA EntryAdded ==
  ASSUME TypeOK, NEW e, audit' = Append(audit, e), NEW i
  PROVE  LogoutEntries(i)' = LogoutEntries(i) \cup
           (IF e.action = "logout" /\ e.session = i THEN {Len(audit) + 1} ELSE {})
<1>1. /\ DOMAIN audit' = DOMAIN audit \cup {Len(audit) + 1} /\ Len(audit) + 1 \notin DOMAIN audit
      /\ \A n \in DOMAIN audit : audit'[n] = audit[n]
      /\ audit'[Len(audit) + 1] = e
  BY AuditWrite
<1>2. LogoutEntries(i)' = {n \in DOMAIN audit' : audit'[n].action = "logout" /\ audit'[n].session = i}
  BY DEF LogoutEntries
<1>3. LogoutEntries(i) = {n \in DOMAIN audit : audit[n].action = "logout" /\ audit[n].session = i}
  BY DEF LogoutEntries
<1> DEFINE m == Len(audit) + 1
           D == DOMAIN audit
<1> HIDE DEF m, D
<1>4. /\ DOMAIN audit' = D \cup {m} /\ m \notin D
      /\ \A n \in D : audit'[n] = audit[n]
      /\ audit'[m] = e
  BY <1>1 DEF m, D
<1>5. LogoutEntries(i)' = {n \in D : audit[n].action = "logout" /\ audit[n].session = i} \cup
        (IF e.action = "logout" /\ e.session = i THEN {m} ELSE {})
  BY <1>2, <1>4
<1> QED
  BY <1>3, <1>5 DEF m, D

\* The sessions that ended without a logout.
SweptSessions == {i \in SessionIds : Revoked(i) /\ LogoutEntries(i) = {}}

\* A trail that grows by an entry accounts for the sessions if these grow with it.
LEMMA TrailGrows ==
  ASSUME IInv, TypeOK', NEW e, audit' = Append(audit, e), e \in AuditEntry',
         \A i \in SessionIds' : /\ Cardinality(LogoutEntries(i)') <= 1
                                /\ LogoutEntries(i)' # {} => Revoked(i)',
         NEW batch, IsFiniteSet(batch), SweptSessions' = SweptSessions \cup batch,
         batch \cap SweptSessions = {}, Swept(e) = Cardinality(batch)
  PROVE  RevocationsAudited'
<1>1. audit \in Seq(AuditEntry \cup {e}) /\ e \in AuditEntry \cup {e}
  BY DEF IInv, TypeOK
<1>2. Swept(e) \in Nat /\ \A x \in AuditEntry : Swept(x) \in Nat
  BY SweptType, FS_CardinalityType
<1>3. \A x \in AuditEntry \cup {e} : Swept(x) \in Nat
  BY <1>2
<1>4. SweptCount(audit') = SweptCount(audit) + Swept(e)
  <2> DEFINE S == AuditEntry \cup {e}
  <2> HIDE DEF S
  <2>1. audit \in Seq(S) /\ e \in S /\ \A x \in S : Swept(x) \in Nat
    BY <1>1, <1>3 DEF S
  <2> QED
    BY <2>1, SweptAppend
<1>5. SweptCount(audit) = Cardinality(SweptSessions)
  BY DEF IInv, RevocationsAudited, SweptSessions
<1>6. IsFiniteSet(SweptSessions)
  <2>1. SweptSessions \subseteq SessionIds /\ IsFiniteSet(SessionIds)
    BY Ids DEF IInv, SweptSessions
  <2> QED
    BY <2>1, FS_Subset
<1>7. Cardinality(SweptSessions') = Cardinality(SweptSessions) + Cardinality(batch)
  <2>1. SweptSessions \cap batch = {} /\ Cardinality({}) = 0
    BY FS_EmptySet
  <2>2. /\ Cardinality(SweptSessions \cup batch) =
             Cardinality(SweptSessions) + Cardinality(batch) - Cardinality(SweptSessions \cap batch)
        /\ Cardinality(SweptSessions) \in Nat /\ Cardinality(batch) \in Nat
    BY <1>6, FS_Union, FS_CardinalityType
  <2>3. /\ Cardinality(SweptSessions \cap batch) = 0
        /\ Cardinality(SweptSessions') = Cardinality(SweptSessions \cup batch)
    BY <2>1, Zenon
  <2> QED
    BY <2>2, <2>3
<1>8. SweptCount(audit') = Cardinality(SweptSessions')
  BY <1>4, <1>5, <1>7
<1> QED
  BY <1>8 DEF RevocationsAudited, SweptSessions

\* A session that ends without a logout has reached its last second.
LEMMA SweptLate ==
  ASSUME TypeOK, Lives, NEW i \in SessionIds, NEW at \in Nat,
         TextAtMost(sessions[i].expiresAt, formatTime(at))
  PROVE  sessions[i].expiresAt.second <= SecondOf(at)
<1>1. formatTime(at).second = SecondOf(at) /\ SecondOf(at) \in Nat
  BY FormatTime
<1>2. sessions[i].expiresAt \in Texts
  BY RowFields
<1>3. sessions[i].expiresAt.second \in Nat
  BY <1>2 DEF Texts
<1>4. sessions[i].expiresAt.second <= formatTime(at).second
  BY <1>1, <1>3 DEF TextAtMost
<1> QED
  BY <1>1, <1>4

\* The trail goes on accounting for the sessions that end, and sweeps take none
\* before its last second.
LEMMA TrailStep ==
  ASSUME IInv, [Next]_vars
  PROVE  RevocationsAudited' /\ OnlyLogoutEndsEarly'
<1>0. /\ TypeOK /\ Lives /\ RequestsTimely /\ RevocationsAudited /\ OnlyLogoutEndsEarly
      /\ TypeOK'
  BY TypeStep DEF IInv
<1>1. \A i \in SessionIds : /\ Cardinality(LogoutEntries(i)) <= 1
                            /\ LogoutEntries(i) # {} => Revoked(i)
  BY <1>0 DEF RevocationsAudited
<1>2. \A i : LogoutEntries(i) # {} => i \in SessionIds
  <2>1. \A n \in DOMAIN audit : audit[n] \in AuditEntry
    BY <1>0 DEF TypeOK
  <2>2. \A n \in DOMAIN audit : audit[n].action = "logout" => audit[n].session \in SessionIds
    BY <2>1 DEF AuditEntry
  <2> QED
    BY <2>2 DEF LogoutEntries
<1>3. \A i \in SessionIds : Revoked(i) /\ LogoutEntries(i) = {} =>
        sessions[i].expiresAt.second <= SecondOf(sessions[i].revokedAt)
  BY <1>0 DEF OnlyLogoutEndsEarly
<1>4. ASSUME audit' = audit, SessionIds' = SessionIds,
             \A i \in SessionIds : /\ sessions'[i].revokedAt = sessions[i].revokedAt
                                   /\ sessions'[i].expiresAt = sessions[i].expiresAt
      PROVE  RevocationsAudited' /\ OnlyLogoutEndsEarly'
  <2>1. \A i : LogoutEntries(i)' = LogoutEntries(i)
    BY <1>4 DEF LogoutEntries
  <2>2. \A i \in SessionIds : Revoked(i)' <=> Revoked(i)
    BY <1>4 DEF Revoked
  <2>3. {i \in SessionIds' : Revoked(i)' /\ LogoutEntries(i)' = {}} =
          {i \in SessionIds : Revoked(i) /\ LogoutEntries(i) = {}}
    BY <1>4, <2>1, <2>2
  <2>4. SweptCount(audit) = Cardinality({i \in SessionIds : Revoked(i) /\ LogoutEntries(i) = {}})
    BY <1>0 DEF RevocationsAudited
  <2>5. SweptCount(audit') = Cardinality({i \in SessionIds' : Revoked(i)' /\ LogoutEntries(i)' = {}})
    BY <1>4, <2>3, <2>4, Zenon
  <2>6. RevocationsAudited'
    BY <1>1, <1>4, <2>1, <2>2, <2>5 DEF RevocationsAudited
  <2>7. OnlyLogoutEndsEarly'
    BY <1>3, <1>4, <2>1, <2>2 DEF OnlyLogoutEndsEarly
  <2> QED
    BY <2>6, <2>7
<1>5. ASSUME NEW at \in Readings, Login(at) PROVE RevocationsAudited' /\ OnlyLogoutEndsEarly'
  <2>0. PICK n : n = Len(sessions) + 1
    OBVIOUS
  <2> DEFINE e == [action |-> "login", session |-> n]
  <2>1. /\ SessionIds' = SessionIds \cup {n} /\ n \notin SessionIds
        /\ \A i \in SessionIds : sessions'[i] = sessions[i]
        /\ sessions'[n].revokedAt = Never
    BY <1>0, <1>5, <2>0, LoginEffect
  <2>2. audit' = Append(audit, e)
    BY <1>5, <2>0 DEF Login
  <2>3. e.action = "login" /\ Swept(e) = 0 /\ e \in AuditEntry'
    BY <2>1 DEF Swept, AuditEntry
  <2> HIDE DEF e
  <2>4. \A i : LogoutEntries(i)' = LogoutEntries(i)
    BY <1>0, <2>2, <2>3, EntryAdded
  <2>5. \A i \in SessionIds : Revoked(i)' <=> Revoked(i)
    BY <2>1 DEF Revoked
  <2>6. ~Revoked(n)' /\ LogoutEntries(n) = {}
    BY <1>2, <2>1 DEF Revoked
  <2>7. \A i \in SessionIds' : /\ Cardinality(LogoutEntries(i)') <= 1
                               /\ LogoutEntries(i)' # {} => Revoked(i)'
    <3>1. Cardinality(LogoutEntries(n)) = 0
      BY <2>6, FS_EmptySet, Zenon
    <3> QED
      BY <1>1, <2>1, <2>4, <2>5, <2>6, <3>1
  <2>8. SweptSessions' = SweptSessions \cup {}
    BY <2>1, <2>4, <2>5, <2>6 DEF SweptSessions
  <2>9. IsFiniteSet({}) /\ Cardinality({}) = 0
    BY FS_EmptySet
  <2>10. RevocationsAudited'
    BY <1>0, <2>2, <2>3, <2>7, <2>8, <2>9, TrailGrows
  <2>11. OnlyLogoutEndsEarly'
    BY <1>3, <2>1, <2>4, <2>5, <2>6 DEF OnlyLogoutEndsEarly
  <2> QED
    BY <2>10, <2>11
<1>6. ASSUME NEW at \in Readings, SweepExpiredSessions(at)
      PROVE  RevocationsAudited' /\ OnlyLogoutEndsEarly'
  <2>1. PICK batch \in SUBSET SessionIds :
              /\ \A i \in batch : /\ ~Revoked(i)
                                  /\ TextAtMost(sessions[i].expiresAt, formatTime(at))
                                  /\ sessions'[i].expiresAt = sessions[i].expiresAt
                                  /\ sessions'[i].revokedAt = at
              /\ \A i \in SessionIds \ batch : sessions'[i] = sessions[i]
              /\ audit' = Append(audit, [action |-> "sweep", count |-> Cardinality(batch)])
    BY <1>0, <1>6, SweepEffect
  <2> DEFINE e == [action |-> "sweep", count |-> Cardinality(batch)]
  <2>2. SessionIds' = SessionIds /\ audit' = Append(audit, e)
    BY <1>0, <1>6, <2>1, SweepEffect
  <2>3. IsFiniteSet(batch) /\ Cardinality(batch) \in Nat
    BY <1>0, <2>1, Ids, FS_Subset, FS_CardinalityType
  <2>4. e.action = "sweep" /\ Swept(e) = Cardinality(batch) /\ e \in AuditEntry'
    BY <2>3 DEF Swept, AuditEntry
  <2> HIDE DEF e
  <2>5. \A i : LogoutEntries(i)' = LogoutEntries(i)
    BY <1>0, <2>2, <2>4, EntryAdded
  <2>6. at \in Nat /\ at # Never
    BY <1>0, ReadingsPast, SessionsAssumption
  <2>7. /\ \A i \in SessionIds \ batch : Revoked(i)' <=> Revoked(i)
        /\ \A i \in batch : Revoked(i)' /\ ~Revoked(i) /\ LogoutEntries(i) = {}
    BY <1>1, <2>1, <2>6 DEF Revoked
  <2>8. \A i \in SessionIds' : /\ Cardinality(LogoutEntries(i)') <= 1
                               /\ LogoutEntries(i)' # {} => Revoked(i)'
    BY <1>1, <2>2, <2>5, <2>7
  <2>9. SweptSessions' = SweptSessions \cup batch /\ batch \cap SweptSessions = {}
    BY <2>1, <2>2, <2>5, <2>7 DEF SweptSessions
  <2>10. RevocationsAudited'
    BY <1>0, <2>2, <2>3, <2>4, <2>8, <2>9, TrailGrows
  <2>11. \A i \in batch : sessions'[i].expiresAt.second <= SecondOf(sessions'[i].revokedAt)
    BY <1>0, <2>1, <2>6, SweptLate
  <2>12. OnlyLogoutEndsEarly'
    BY <1>3, <2>1, <2>2, <2>5, <2>7, <2>11 DEF OnlyLogoutEndsEarly
  <2> QED
    BY <2>10, <2>12
<1>7. ASSUME NEW r \in Requests, NEW at \in Readings, Logout(r, at)
      PROVE  RevocationsAudited' /\ OnlyLogoutEndsEarly'
  <2>0. PICK i : i = requests[r].session
    OBVIOUS
  <2> DEFINE e == [action |-> "logout", session |-> i]
  <2>1. i \in SessionIds /\ SessionIds' = SessionIds
    BY <1>0, <1>7, <2>0, LogoutEffect
  <2>2. CASE sessions' = sessions /\ audit' = audit
    BY <1>4, <2>1, <2>2
  <2>3. CASE /\ ~Revoked(i)
             /\ \A k \in SessionIds : k # i => sessions'[k] = sessions[k]
             /\ sessions'[i].revokedAt = at
             /\ audit' = Append(audit, e)
    <3>1. e.action = "logout" /\ e.session = i /\ Swept(e) = 0 /\ e \in AuditEntry'
      BY <2>1 DEF Swept, AuditEntry
    <3> HIDE DEF e
    <3>2. /\ \A k : k # i => LogoutEntries(k)' = LogoutEntries(k)
          /\ LogoutEntries(i)' = LogoutEntries(i) \cup {Len(audit) + 1}
      BY <1>0, <2>3, <3>1, EntryAdded
    <3>3. LogoutEntries(i) = {}
      BY <1>1, <2>1, <2>3
    <3>4. LogoutEntries(i)' = {Len(audit) + 1} /\ LogoutEntries(i)' # {}
      BY <3>2, <3>3
    <3>5. Cardinality(LogoutEntries(i)') = 1
      BY <3>4, FS_Singleton, Zenon
    <3>6. Revoked(i)' /\ \A k \in SessionIds : k # i => (Revoked(k)' <=> Revoked(k))
      BY <1>0, <2>3, ReadingsPast, SessionsAssumption DEF Revoked
    <3>7. \A k \in SessionIds' : /\ Cardinality(LogoutEntries(k)') <= 1
                                 /\ LogoutEntries(k)' # {} => Revoked(k)'
      <4>1. ASSUME NEW k \in SessionIds, k # i
            PROVE  /\ Cardinality(LogoutEntries(k)') <= 1
                   /\ LogoutEntries(k)' # {} => Revoked(k)'
        BY <1>1, <3>2, <3>6, <4>1
      <4>2. Cardinality(LogoutEntries(i)') <= 1 /\ Revoked(i)'
        BY <3>5, <3>6
      <4> QED
        BY <2>1, <4>1, <4>2
    <3>8. SweptSessions' = SweptSessions \cup {}
      BY <2>1, <2>3, <3>2, <3>4, <3>6 DEF SweptSessions
    <3>9. IsFiniteSet({}) /\ Cardinality({}) = 0
      BY FS_EmptySet
    <3>10. RevocationsAudited'
      BY <1>0, <2>3, <3>1, <3>7, <3>8, <3>9, TrailGrows
    <3>11. OnlyLogoutEndsEarly'
      BY <1>3, <2>1, <2>3, <3>2, <3>4, <3>6 DEF OnlyLogoutEndsEarly
    <3> QED
      BY <3>10, <3>11
  <2> QED
    BY <1>0, <1>7, <2>0, <2>2, <2>3, LogoutEffect
<1>8. ASSUME NEW r \in Requests, TouchSession(r) PROVE RevocationsAudited' /\ OnlyLogoutEndsEarly'
  <2> DEFINE i == requests[r].session
  <2>1. /\ i \in SessionIds /\ audit' = audit /\ SessionIds' = SessionIds
        /\ \A k \in SessionIds : k # i => sessions'[k] = sessions[k]
        /\ sessions'[i].expiresAt = sessions[i].expiresAt
        /\ sessions'[i].revokedAt = sessions[i].revokedAt
    BY <1>0, <1>8, TouchEffect
  <2> HIDE DEF i
  <2> QED
    BY <1>4, <2>1
<1>9. ASSUME \/ \E r \in Requests : (\E i \in SessionIds : FindSession(r, i)) \/ Validate(r) \/ Finish(r)
             \/ Tick \/ UNCHANGED vars
      PROVE  RevocationsAudited' /\ OnlyLogoutEndsEarly'
  <2>1. sessions' = sessions /\ audit' = audit
    BY <1>9, Zenon DEF FindSession, Validate, Finish, Tick, vars
  <2>2. SessionIds' = SessionIds
    BY <2>1 DEF SessionIds
  <2> QED
    BY <1>4, <2>1, <2>2
<1> QED
  BY <1>5, <1>6, <1>7, <1>8, <1>9 DEF Next
-----------------------------------------------------------------------------
(* The theorems. *)

\* The empty store satisfies the invariant.
LEMMA Initially == Init => IInv
<1> SUFFICES ASSUME Init PROVE IInv
  OBVIOUS
<1>1. SessionIds = {} /\ audit = <<>> /\ now = 0 /\ sessions = <<>>
  BY DEF Init, SessionIds
<1>2. TypeOK
  <2>1. Free \in [phase : Phases, session : SessionIds \cup {0}, revoked : BOOLEAN, at : Nat]
    BY DEF Free, Phases
  <2>2. requests \in [Requests -> [phase : Phases, session : SessionIds \cup {0},
                                   revoked : BOOLEAN, at : Nat]]
    BY <2>1 DEF Init
  <2> QED
    BY <1>1, <2>2 DEF TypeOK
<1>3. \A r \in Requests : requests[r].phase = "free"
  BY DEF Init, Free
<1>4. Lives /\ RequestsTimely /\ OnlyLogoutEndsEarly
  BY <1>1, <1>3 DEF Lives, RequestsTimely, OnlyLogoutEndsEarly
<1>5. RevocationsAudited
  <2>1. SweptCount(audit) = 0
    <3>1. audit \in Seq(AuditEntry) /\ Len(audit) = 0
      BY <1>1
    <3>2. PICK v : Runs(v, Len(audit), 0, SweptSteps(audit)) /\ SweptCount(audit) = v[Len(audit)]
      BY <3>1, SweptRun, SweptType
    <3>3. v[0] = 0
      BY <3>2 DEF Runs
    <3> QED
      BY <3>1, <3>2, <3>3, Zenon
  <2>2. {i \in SessionIds : Revoked(i) /\ LogoutEntries(i) = {}} = {}
    BY <1>1
  <2>3. Cardinality({}) = 0
    BY FS_EmptySet
  <2>4. SweptCount(audit) = Cardinality({i \in SessionIds : Revoked(i) /\ LogoutEntries(i) = {}})
    BY <2>1, <2>2, <2>3, Zenon
  <2> QED
    BY <1>1, <2>4 DEF RevocationsAudited
<1> QED
  BY <1>2, <1>4, <1>5 DEF IInv

\* The invariant holds throughout.
LEMMA Invariance == Spec => []IInv
<1>1. IInv /\ [Next]_vars => IInv'
  BY TypeStep, LivesStep, RequestsStep, TrailStep DEF IInv
<1> QED
  BY <1>1, Initially, PTL DEF Spec

\* Every session, request and audit entry is well typed: a request never refers to
\* a session that does not exist.
THEOREM TypeCorrect == Spec => []TypeOK
<1>1. IInv => TypeOK
  BY DEF IInv
<1> QED
  BY <1>1, Invariance, PTL

\* No activity is recorded outside the life of its session, however long a request
\* pauses between the check of the expiry and the write of last_seen_at.
THEOREM ActivityWithinLife == Spec => []SeenWithinLife
<1>1. IInv => SeenWithinLife
  <2>1. SUFFICES ASSUME IInv, NEW i \in SessionIds
                 PROVE  /\ sessions[i].issuedAt <= sessions[i].lastSeen
                        /\ sessions[i].lastSeen < parseTime(sessions[i].expiresAt)
    BY DEF SeenWithinLife
  <2>2. /\ sessions[i].issuedAt <= sessions[i].lastSeen
        /\ sessions[i].lastSeen < sessions[i].issuedAt + TTL
        /\ sessions[i].expiresAt = formatTime(sessions[i].issuedAt + TTL)
    BY <2>1 DEF IInv, Lives
  <2>3. sessions[i].issuedAt + TTL \in Nat
    BY <2>1, RowFields, SessionsAssumption DEF IInv
  <2>4. parseTime(sessions[i].expiresAt) = sessions[i].issuedAt + TTL
    BY <2>2, <2>3, RoundTrip
  <2> QED
    BY <2>2, <2>4
<1> QED
  BY <1>1, Invariance, PTL

\* The trail accounts for every session that ended, once, whatever logouts and
\* sweeps run at the same time.
THEOREM EndsAccountedFor == Spec => []RevocationsAudited
<1>1. IInv => RevocationsAudited
  BY DEF IInv
<1> QED
  BY <1>1, Invariance, PTL

\* Although it compares texts, no sweep ends a session before the second in which
\* it expires.
THEOREM NoEarlySweep == Spec => []OnlyLogoutEndsEarly
<1>1. IInv => OnlyLogoutEndsEarly
  BY DEF IInv
<1> QED
  BY <1>1, Invariance, PTL

\* One step never grants a request on a revoked session and never writes a
\* revoked row.
Immediate ==
  /\ \A r \in Requests : requests'[r].phase = "granted" /\ requests[r].phase # "granted"
                         => ~Revoked(requests[r].session)
  /\ \A i \in SessionIds : Revoked(i) => sessions'[i] = sessions[i]

\* Revocation takes effect at once, also on requests that had found the session
\* valid before it.
THEOREM RevokedAtOnce == Spec => RevocationIsImmediate
<1>1. ASSUME IInv, [Next]_vars PROVE Immediate
  <2>0. /\ TypeOK /\ Lives /\ RequestsTimely /\ requests \in [Requests -> RequestType]
    BY <1>1 DEF IInv, TypeOK, RequestType
  <2>1. \A i \in SessionIds : Revoked(i) => sessions'[i] = sessions[i]
    BY <1>1, RowsStep
  <2>2. ASSUME NEW r \in Requests, requests'[r].phase = "granted", requests[r].phase # "granted"
        PROVE  ~Revoked(requests[r].session)
    <3>1. ASSUME NEW p \in Requests, NEW q \in RequestType, requests' = [requests EXCEPT ![p] = q],
                 q.phase # "granted"
          PROVE  FALSE
      <4>1. requests'[p] = q /\ (r # p => requests'[r] = requests[r])
        BY <2>0, <3>1
      <4> QED
        BY <2>2, <3>1, <4>1
    <3>2. ASSUME NEW p \in Requests, NEW phase \in Phases, requests' = [requests EXCEPT ![p].phase = phase],
                 phase # "granted"
          PROVE  FALSE
      <4> DEFINE q == [requests[p] EXCEPT !.phase = phase]
      <4>1. q \in RequestType /\ q.phase = phase
        BY <2>0, RequestMoves
      <4>2. requests' = [requests EXCEPT ![p] = q]
        BY <3>2
      <4> HIDE DEF q
      <4> QED
        BY <3>1, <3>2, <4>1, <4>2
    <3>3. ASSUME NEW p \in Requests, NEW i \in SessionIds, FindSession(p, i) PROVE FALSE
      <4> DEFINE q == [phase |-> "found", session |-> i, revoked |-> Revoked(i), at |-> 0]
      <4>1. q \in RequestType /\ q.phase # "granted"
        BY DEF RequestType, Phases, Revoked
      <4>2. requests' = [requests EXCEPT ![p] = q]
        BY <3>3 DEF FindSession
      <4> HIDE DEF q
      <4> QED
        BY <3>1, <4>1, <4>2
    <3>4. ASSUME NEW p \in Requests, Validate(p) PROVE FALSE
      <4>1. PICK q \in RequestType :
              /\ requests' = [requests EXCEPT ![p] = q]
              /\ q.phase \in {"session_revoked", "session_expired", "valid"}
        BY <2>0, <3>4, ValidateEffect
      <4> QED
        BY <3>1, <4>1
    <3>5. ASSUME NEW p \in Requests, TouchSession(p) PROVE ~Revoked(requests[r].session)
      <4>1. \/ ~Revoked(requests[p].session) /\ requests' = [requests EXCEPT ![p].phase = "granted"]
            \/ requests' = [requests EXCEPT ![p].phase = "session_revoked"]
        BY <2>0, <3>5, TouchEffect
      <4>2. "session_revoked" \in Phases /\ "granted" \in Phases
        BY DEF Phases, Answers
      <4>3. ~Revoked(requests[p].session) /\ requests' = [requests EXCEPT ![p].phase = "granted"]
        BY <3>2, <4>1, <4>2
      <4>4. r # p => requests'[r] = requests[r]
        BY <2>0, <4>3
      <4> QED
        BY <2>2, <4>3, <4>4
    <3>6. ASSUME NEW p \in Requests, NEW at \in Readings, Logout(p, at) PROVE FALSE
      <4>1. requests' = [requests EXCEPT ![p].phase = "done"]
        BY <2>0, <3>6, LogoutEffect
      <4> QED
        BY <3>2, <4>1 DEF Phases, Answers
    <3>7. ASSUME NEW p \in Requests, Finish(p) PROVE FALSE
      <4>1. Free \in RequestType /\ Free.phase # "granted" /\ requests' = [requests EXCEPT ![p] = Free]
        BY <3>7 DEF Free, RequestType, Phases, Finish
      <4> QED
        BY <3>1, <4>1
    <3>8. CASE requests' = requests
      BY <2>2, <3>8
    <3> QED
      BY <1>1, <3>3, <3>4, <3>5, <3>6, <3>7, <3>8
      DEF Next, Login, SweepExpiredSessions, Tick, vars
  <2> QED
    BY <2>1, <2>2 DEF Immediate
<1>2. IInv /\ [Next]_vars => [Immediate]_vars
  BY <1>1
<1>3. Spec => [][Immediate]_vars
  BY <1>2, Invariance, PTL DEF Spec
<1> QED
  BY <1>3 DEF RevocationIsImmediate, Immediate
=============================================================================
