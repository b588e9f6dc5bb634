--------------------------- MODULE TimerTime_proofs ---------------------------
(***************************************************************************)
(* Proofs about host times, for every rate of the clock's ticks and every  *)
(* int32 value of tmCount: a task is due after its delay and not earlier,  *)
(* and what is left of a delay is exact, also where values wrap around.    *)
(***************************************************************************)
EXTENDS TimerTime, TLAPS

\* The clock moves by less than a second, and no time is further away than an int32 of
\* seconds says.
TimesFit == Step < NsecPerSec /\ MaxSec + MaxMac \div K + 2 <= MaxMac

-----------------------------------------------------------------------------
\* Arithmetic.

\* A multiple of k that is less than k from 0 is 0.
LEMMA SmallMultiple ==
  ASSUME NEW k \in Int, k > 0, NEW d \in Int, d * k < k, -k < d * k
  PROVE  d = 0
<1>1. ASSUME d >= 1 PROVE d * k >= k
  BY <1>1, SMT
<1>2. ASSUME d <= -1 PROVE d * k <= -k
  <2>1. (-d) * k >= k
    BY <1>2, SMT
  <2> QED BY <2>1, SMT
<1> QED BY <1>1, <1>2, SMT

\* What division and remainder are.
LEMMA DivMod ==
  ASSUME NEW a \in Int, NEW k \in Int, k > 0
  PROVE  /\ a \div k \in Int /\ a % k \in 0 .. k - 1
         /\ a = (a \div k) * k + (a % k)
BY SMT

\* Quotient and remainder are the only ones.
LEMMA DivIs ==
  ASSUME NEW q \in Int, NEW r \in Int, NEW k \in Int, k > 0, 0 <= r, r < k
  PROVE  (q * k + r) \div k = q /\ (q * k + r) % k = r
<1> DEFINE a == q * k + r
           d == a \div k
           m == a % k
<1>0. q * k \in Int /\ a \in Int
  BY SMT
<1>1. d \in Int /\ m \in 0 .. k - 1 /\ a = d * k + m
  BY <1>0, DivMod
<1>2. a = q * k + r
  OBVIOUS
<1> HIDE DEF a, d, m
<1>3. (q - d) * k = m - r
  BY <1>0, <1>1, <1>2, SMT
<1>4. q - d \in Int /\ m - r < k /\ -k < m - r
  BY <1>1, SMT
<1>5. q - d = 0
  BY <1>3, <1>4, SmallMultiple
<1>6. d = q
  BY <1>1, <1>5, SMT
<1>7. m = r
  BY <1>0, <1>1, <1>2, <1>6, SMT
<1> QED BY <1>6, <1>7 DEF a, d, m

\* What is assumed of the constants.
LEMMA ConstantFacts ==
  /\ K \in Int /\ K > 1 /\ MaxMac \in Int /\ MaxMac > 0 /\ Step \in Int /\ Step > 0
  /\ MaxSec \in Int /\ 0 <= MaxSec
  /\ Word = 2 * MaxMac + 2
  /\ UsecPerSec = K * K /\ UsecPerSec \in Int /\ UsecPerSec > 1
  /\ NsecPerSec = UsecPerSec * K /\ NsecPerSec \in Int /\ NsecPerSec > 1
<1>1. K \in Int /\ K > 1
  BY TimerTimeAssumption, SMT
<1>2. K * K \in Int /\ K * K > 1
  BY <1>1, SMT
<1> DEFINE u == K * K
<1>3. u * K \in Int /\ u * K > 1
  <2> HIDE DEF u
  <2>1. u \in Int /\ u > 1
    BY <1>2 DEF u
  <2> QED BY <1>1, <2>1, SMT
<1> QED BY <1>1, <1>2, <1>3, TimerTimeAssumption, SMT DEF Word, UsecPerSec, NsecPerSec

\* The second fits in its type.
LEMMA SecIs ==
  ASSUME NEW s \in 0 .. MaxMac
  PROVE  ToSec(s) = s
<1>1. (0 * Word + s) % Word = s
  BY ConstantFacts, DivIs
<1>2. 0 * Word + s = s
  BY ConstantFacts, SMT
<1> QED BY <1>1, <1>2 DEF ToSec

\* The difference of seconds fits in its type.
LEMMA Int32Is ==
  ASSUME NEW d \in -MaxMac .. MaxMac
  PROVE  ToInt32(d) = d
<1>1. CASE d >= 0
  <2>1. (0 * Word + d) % Word = d
    BY <1>1, ConstantFacts, DivIs
  <2>2. 0 * Word + d = d
    BY ConstantFacts, SMT
  <2>3. d % Word = d /\ ~(d > MaxMac)
    BY <2>1, <2>2, ConstantFacts
  <2> QED BY <2>3 DEF ToInt32
<1>2. CASE d < 0
  <2> DEFINE e == d + Word
  <2>1. e \in Int /\ 0 <= e /\ e < Word /\ e > MaxMac /\ e - Word = d
    BY <1>2, ConstantFacts, SMT
  <2>2. ((-1) * Word + e) % Word = e
    BY <2>1, ConstantFacts, DivIs
  <2>3. (-1) * Word + e = d
    BY <2>1, ConstantFacts, SMT
  <2>4. d % Word = e
    BY <2>2, <2>3
  <2> HIDE DEF e
  <2> QED BY <2>1, <2>4 DEF ToInt32
<1> QED BY <1>1, <1>2, ConstantFacts, SMT

-----------------------------------------------------------------------------
\* The operations.

\* A time whose nanoseconds are less than a second, and the second at most max.
HostTimes(max) == [tv_sec : 0 .. max, tv_nsec : 0 .. NsecPerSec - 1]

\* No carry is lost.
LEMMA AddIs ==
  ASSUME NEW p \in Int, NEW q \in Int, NEW a \in HostTimes(p), NEW b \in HostTimes(q),
         p + q + 1 <= MaxMac
  PROVE  /\ timer_add_time(a, b) \in HostTimes(p + q + 1)
         /\ Value(timer_add_time(a, b)) = Value(a) + Value(b)
<1> DEFINE n == a.tv_nsec + b.tv_nsec
           s == a.tv_sec + b.tv_sec
           N == NsecPerSec
<1>1. /\ a.tv_sec \in Int /\ b.tv_sec \in Int /\ a.tv_nsec \in Int /\ b.tv_nsec \in Int
      /\ 0 <= s /\ s <= p + q /\ 0 <= n /\ n < N + N /\ N \in Int
  BY ConstantFacts, SMT DEF HostTimes
<1>2. Value(a) + Value(b) = s * N + n
  BY <1>1, SMT DEF Value
<1>3. CASE n >= N
  <2>1. timer_add_time(a, b) = [tv_sec |-> s + 1, tv_nsec |-> n - N]
    <3>1. ToSec(s + 1) = s + 1
      BY <1>1, SecIs, ConstantFacts
    <3> QED BY <1>3, <3>1 DEF timer_add_time, Time
  <2>2. (s + 1) * N + (n - N) = s * N + n
    BY <1>1, SMT
  <2>3. s + 1 \in 0 .. p + q + 1 /\ n - N \in 0 .. N - 1
    BY <1>1, <1>3, SMT
  <2> HIDE DEF n, s
  <2> QED BY <1>2, <2>1, <2>2, <2>3 DEF HostTimes, Value
<1>4. CASE ~(n >= N)
  <2>1. timer_add_time(a, b) = [tv_sec |-> s, tv_nsec |-> n]
    <3>1. ToSec(s) = s
      BY <1>1, SecIs, ConstantFacts
    <3> QED BY <1>4, <3>1 DEF timer_add_time, Time
  <2>2. s \in 0 .. p + q + 1 /\ n \in 0 .. N - 1
    BY <1>1, <1>4, SMT
  <2> HIDE DEF n, s
  <2> QED BY <1>2, <2>1, <2>2 DEF HostTimes, Value
<1> QED BY <1>3, <1>4

\* The seconds decide, unless they are equal.
LEMMA SecondsFirst ==
  ASSUME NEW a \in HostTimes(MaxMac), NEW b \in HostTimes(MaxMac), a.tv_sec < b.tv_sec
  PROVE  Value(a) < Value(b)
<1> DEFINE s == a.tv_sec
           t == b.tv_sec
           N == NsecPerSec
<1>1. /\ s \in Int /\ t \in Int /\ a.tv_nsec \in Int /\ b.tv_nsec \in Int /\ N \in Int
      /\ a.tv_nsec < N /\ 0 <= b.tv_nsec /\ t - s >= 1 /\ N > 0
  BY ConstantFacts, SMT DEF HostTimes
<1> HIDE DEF N, s, t
<1>2. (t - s) * N >= N
  BY <1>1, SMT
<1>3. t * N >= s * N + N
  BY <1>1, <1>2, SMT
<1>4. s * N \in Int /\ t * N \in Int
  BY <1>1, SMT
<1> QED BY <1>1, <1>3, <1>4, SMT DEF Value, N, s, t

\* Comparing says which time is the earlier one.
LEMMA CmpIs ==
  ASSUME NEW a \in HostTimes(MaxMac), NEW b \in HostTimes(MaxMac)
  PROVE  timer_cmp_time(a, b) < 0 <=> Value(a) < Value(b)
<1>1. /\ a.tv_sec \in 0 .. MaxMac /\ b.tv_sec \in 0 .. MaxMac
      /\ a.tv_nsec \in Int /\ b.tv_nsec \in Int /\ NsecPerSec \in Int /\ MaxMac \in Int
      /\ a.tv_sec * NsecPerSec \in Int /\ b.tv_sec * NsecPerSec \in Int
  BY ConstantFacts, SMT DEF HostTimes
<1>2. CASE a.tv_sec = b.tv_sec
  BY <1>1, <1>2, SMT DEF timer_cmp_time, Value
<1>3. CASE a.tv_sec # b.tv_sec
  <2>1. a.tv_sec - b.tv_sec \in -MaxMac .. MaxMac
    BY <1>1, SMT
  <2>2. timer_cmp_time(a, b) = a.tv_sec - b.tv_sec
    BY <1>3, <2>1, Int32Is DEF timer_cmp_time
  <2>3. a.tv_sec < b.tv_sec => Value(a) < Value(b)
    BY SecondsFirst
  <2>4. b.tv_sec < a.tv_sec => Value(b) < Value(a)
    BY SecondsFirst
  <2>5. Value(a) \in Int /\ Value(b) \in Int
    BY <1>1, SMT DEF Value
  <2> QED BY <1>1, <1>3, <2>2, <2>3, <2>4, <2>5, SMT
<1> QED BY <1>2, <1>3

\* No borrow is lost.
LEMMA SubIs ==
  ASSUME NEW a \in HostTimes(MaxMac), NEW b \in HostTimes(MaxMac), Value(a) >= Value(b)
  PROVE  /\ timer_sub_time(a, b) \in HostTimes(MaxMac)
         /\ Value(timer_sub_time(a, b)) = Value(a) - Value(b)
<1> DEFINE n == a.tv_nsec - b.tv_nsec
           s == a.tv_sec - b.tv_sec
           N == NsecPerSec
<1>1. /\ a.tv_sec \in 0 .. MaxMac /\ b.tv_sec \in 0 .. MaxMac
      /\ a.tv_nsec \in Int /\ b.tv_nsec \in Int /\ N \in Int /\ N > 1 /\ MaxMac \in Int
      /\ s \in Int /\ s <= MaxMac /\ -N < n /\ n < N /\ n \in Int
      /\ a.tv_sec * N \in Int /\ b.tv_sec * N \in Int
  BY ConstantFacts, SMT DEF HostTimes
<1>2. Value(a) - Value(b) = s * N + n
  BY <1>1, SMT DEF Value
<1>3. s >= 0
  <2>1. ~(a.tv_sec < b.tv_sec)
    <3>1. Value(a) \in Int /\ Value(b) \in Int
      BY <1>1, SMT DEF Value
    <3> QED BY <3>1, SecondsFirst
  <2> QED BY <1>1, <2>1, SMT
<1>4. CASE n < 0
  <2>1. s >= 1
    <3>1. s = 0 => Value(a) - Value(b) < 0
      BY <1>1, <1>2, <1>4, SMT
    <3>2. Value(a) \in Int /\ Value(b) \in Int
      BY <1>1, SMT DEF Value
    <3> HIDE DEF s
    <3> QED BY <1>1, <1>3, <3>1, <3>2, SMT
  <2>2. timer_sub_time(a, b) = [tv_sec |-> s - 1, tv_nsec |-> n + N]
    <3>1. ToSec(s - 1) = s - 1
      BY <1>1, <2>1, SecIs, ConstantFacts
    <3> QED BY <1>4, <3>1 DEF timer_sub_time, Time
  <2>3. (s - 1) * N + (n + N) = s * N + n
    BY <1>1, SMT
  <2>4. s - 1 \in 0 .. MaxMac /\ n + N \in 0 .. N - 1
    BY <1>1, <1>4, <2>1, SMT
  <2> HIDE DEF n, s
  <2> QED BY <1>2, <2>2, <2>3, <2>4 DEF HostTimes, Value
<1>5. CASE ~(n < 0)
  <2>1. timer_sub_time(a, b) = [tv_sec |-> s, tv_nsec |-> n]
    <3>1. ToSec(s) = s
      BY <1>1, <1>3, SecIs, ConstantFacts
    <3> QED BY <1>5, <3>1 DEF timer_sub_time, Time
  <2>2. s \in 0 .. MaxMac /\ n \in 0 .. N - 1
    BY <1>1, <1>3, <1>5, SMT
  <2> HIDE DEF n, s
  <2> QED BY <1>2, <2>1, <2>2 DEF HostTimes, Value
<1> QED BY <1>4, <1>5

-----------------------------------------------------------------------------
\* The conversions.

\* A Mac time is so many nanoseconds.
LEMMA MacToHost ==
  ASSUME NEW m \in MacTimes
  PROVE  /\ timer_mac2host_time(m) \in HostTimes(MaxMac \div K)
         /\ Value(timer_mac2host_time(m)) = Duration(m)
<1> DEFINE u == UsecPerSec
           N == NsecPerSec
<1>1. m \in -MaxMac .. MaxMac /\ m \in Int /\ MaxMac \in Int /\ K \in Int /\ K > 1
      /\ u \in Int /\ u > 1 /\ N = u * K /\ u = K * K /\ N \in Int
  BY ConstantFacts, SMT DEF MacTimes
<1>2. MaxMac \div K \in Int /\ MaxMac % K \in 0 .. K - 1
      /\ MaxMac = (MaxMac \div K) * K + (MaxMac % K)
  BY <1>1, DivMod
<1>3. CASE m > 0
  <2> DEFINE q == m \div K
             r == m % K
             n == r * K * K
             M == MaxMac \div K
  <2>1. q \in Int /\ r \in 0 .. K - 1 /\ m = q * K + r
    BY <1>1, DivMod
  <2>2. timer_mac2host_time(m) = [tv_sec |-> ToSec(q), tv_nsec |-> n]
    BY <1>3 DEF timer_mac2host_time, Time
  <2> HIDE DEF q, r, M
  <2>3. 0 <= q
    <3>1. q <= -1 => q * K <= -K
      <4>1. q <= -1 => (-q) * K >= K
        BY <1>1, <2>1, SMT
      <4> QED BY <1>1, <2>1, <4>1, SMT
    <3>2. q * K \in Int
      BY <1>1, <2>1, SMT
    <3> QED BY <1>1, <1>3, <2>1, <3>1, <3>2, SMT
  <2>4. q <= M
    <3>1. M \in Int /\ MaxMac < M * K + K /\ q * K <= MaxMac
      BY <1>1, <1>2, <2>1, SMT DEF M
    <3>2. q >= M + 1 => q * K >= M * K + K
      <4>1. q >= M + 1 => (q - M) * K >= K
        BY <1>1, <2>1, <3>1, SMT
      <4> QED BY <1>1, <2>1, <3>1, <4>1, SMT
    <3>3. q * K \in Int /\ M * K \in Int
      BY <1>1, <2>1, <3>1, SMT
    <3> QED BY <1>1, <2>1, <3>1, <3>2, <3>3, SMT
  <2>5. M <= MaxMac /\ M \in Int
    <3>1. M \in Int /\ M >= 1 => M * K >= M
      BY <1>1, SMT
    <3>2. M \in Int /\ M * K \in Int /\ M * K <= MaxMac
      BY <1>1, <1>2, SMT DEF M
    <3> QED BY <1>1, <3>1, <3>2, SMT
  <2>6. ToSec(q) = q
    BY <1>1, <2>1, <2>3, <2>4, <2>5, SecIs
  <2>7. n = r * u /\ n \in 0 .. N - 1
    <3>1. n = r * u
      BY <1>1, <2>1, SMT
    <3>2. r * u \in Int /\ 0 <= r * u
      BY <1>1, <2>1, SMT
    <3>3. (K - r) * u >= u
      BY <1>1, <2>1, SMT
    <3>4. r * u <= N - u
      BY <1>1, <2>1, <3>2, <3>3, SMT
    <3> HIDE DEF u, N, n
    <3> QED BY <1>1, <3>1, <3>2, <3>4, SMT
  <2>8. q * N + r * u = m * K * K
    <3>1. m * K * K = m * u
      BY <1>1, SMT
    <3>2. m * u = (q * K + r) * u
      BY <2>1
    <3> HIDE DEF u, N
    <3>3. (q * K + r) * u = q * (u * K) + r * u
      BY <1>1, <2>1, SMT
    <3> QED BY <1>1, <3>1, <3>2, <3>3
  <2>9. q \in 0 .. M
    BY <2>1, <2>3, <2>4, <2>5, SMT
  <2> HIDE DEF n
  <2> QED BY <1>3, <2>2, <2>6, <2>7, <2>8, <2>9 DEF HostTimes, Value, Duration, M
<1>4. CASE ~(m > 0)
  <2> DEFINE a == -m
             q == a \div u
             r == a % u
             M == MaxMac \div K
  <2>0. a \in 0 .. MaxMac /\ a \in Int
    BY <1>1, <1>4, SMT
  <2>1. q \in Int /\ r \in 0 .. u - 1 /\ a = q * u + r
    <3> HIDE DEF a, u
    <3>1. a \in Int /\ u \in Int /\ u > 0
      BY <1>1, <2>0, SMT
    <3> QED BY <3>1, DivMod
  <2>2. timer_mac2host_time(m) = [tv_sec |-> ToSec(q), tv_nsec |-> r * K]
    BY <1>4 DEF timer_mac2host_time, Time
  <2>3. Duration(m) = a * K
    <3>1. Duration(m) = -(m * K)
      BY <1>4 DEF Duration
    <3>2. -(m * K) = (-m) * K
      BY <1>1, SMT
    <3> QED BY <3>1, <3>2
  <2> HIDE DEF q, r, M, a, u
  <2>4. 0 <= q
    <3>1. q <= -1 => q * u <= -u
      <4>1. q <= -1 => (-q) * u >= u
        BY <1>1, <2>1, SMT
      <4> QED BY <1>1, <2>1, <4>1, SMT
    <3>2. q * u \in Int
      BY <1>1, <2>1, SMT
    <3> QED BY <1>1, <2>0, <2>1, <3>1, <3>2, SMT
  <2>5. M \in Int /\ MaxMac < M * K + K
    BY <1>1, <1>2, SMT DEF M
  <2>6. q <= M
    <3>1. q * u <= MaxMac /\ q * u \in Int
      BY <1>1, <2>0, <2>1, SMT
    <3>2. q * u >= q * K
      <4>1. u >= K
        BY <1>1, SMT DEF u
      <4>2. q * (u - K) >= 0
        BY <1>1, <2>1, <2>4, <4>1, SMT
      <4> QED BY <1>1, <2>1, <4>2, SMT
    <3>3. q >= M + 1 => q * K >= M * K + K
      <4>1. q >= M + 1 => (q - M) * K >= K
        BY <1>1, <2>1, <2>5, SMT
      <4> QED BY <1>1, <2>1, <2>5, <4>1, SMT
    <3>4. q * K \in Int /\ M * K \in Int
      BY <1>1, <2>1, <2>5, SMT
    <3> QED BY <1>1, <2>1, <2>5, <3>1, <3>2, <3>3, <3>4, SMT
  <2>7. q <= MaxMac
    <3>1. q * u >= q /\ q * u \in Int
      BY <1>1, <2>1, <2>4, SMT
    <3> QED BY <1>1, <2>0, <2>1, <3>1, SMT
  <2>8. ToSec(q) = q
    BY <1>1, <2>1, <2>4, <2>7, SecIs
  <2>9. r * K \in 0 .. N - 1
    <3>1. r * K \in Int /\ 0 <= r * K
      BY <1>1, <2>1, SMT
    <3>2. (u - r) * K >= K
      BY <1>1, <2>1, SMT
    <3>3. r * K <= u * K - K
      BY <1>1, <2>1, <3>2, SMT
    <3> QED BY <1>1, <3>1, <3>3, SMT
  <2>10. q * N + r * K = a * K
    <3>1. (q * u + r) * K = q * (u * K) + r * K
      BY <1>1, <2>1, SMT
    <3> QED BY <1>1, <2>1, <3>1
  <2>11. q \in 0 .. M
    BY <2>1, <2>4, <2>5, <2>6, SMT
  <2> QED BY <2>2, <2>3, <2>8, <2>9, <2>10, <2>11 DEF HostTimes, Value, M
<1> QED BY <1>3, <1>4

\* A time that is not too long is so many microseconds, or milliseconds if these are too
\* many for a Mac time.
LEMMA HostToMac ==
  ASSUME NEW h \in HostTimes(MaxMac), Value(h) <= MaxMac * K * K
  PROVE  LET v == Value(h)
             r == timer_host2mac_time(h) IN
         IF v \div K <= MaxMac
           THEN r \in Int /\ r <= 0 /\ Duration(r) = (v \div K) * K
           ELSE Duration(r) = ((v \div K) \div K) * K * K
<1> DEFINE s == h.tv_sec
           n == h.tv_nsec
           u == UsecPerSec
           N == NsecPerSec
           c == n \div K
           d == n % K
           t == s * u + c
           e == t \div K
           f == t % K
           v == Value(h)
           r == timer_host2mac_time(h)
<1>1. /\ s \in Int /\ 0 <= s /\ n \in Int /\ 0 <= n /\ K \in Int /\ K > 1
      /\ MaxMac \in Int /\ MaxMac > 0
      /\ u \in Int /\ u > 1 /\ N = u * K /\ N \in Int /\ v = s * N + n
  BY ConstantFacts, SMT DEF HostTimes, Value
<1>2. v <= MaxMac * K * K
  OBVIOUS
<1>3. r = IF s < 0 THEN 0 ELSE IF t > MaxMac THEN ToInt32(e) ELSE -t
  BY DEF timer_host2mac_time
<1> HIDE DEF v, r, s, n, u, N
<1>4. c \in Int /\ d \in 0 .. K - 1 /\ n = c * K + d
  BY <1>1, DivMod
<1> HIDE DEF c, d
<1>5. t \in Int /\ v = t * K + d
  <2>1. s * u \in Int
    BY <1>1, SMT
  <2>2. (s * u + c) * K = s * (u * K) + c * K
    BY <1>1, <1>4, SMT
  <2>3. s * N \in Int /\ c * K \in Int
    BY <1>1, <1>4, SMT
  <2> QED BY <1>1, <1>4, <2>1, <2>2, <2>3, SMT
<1> HIDE DEF t
<1>6. v \div K = t
  BY <1>1, <1>4, <1>5, DivIs
<1>7. e \in Int /\ f \in 0 .. K - 1 /\ t = e * K + f
  BY <1>1, <1>5, DivMod
<1>8. ~(s < 0)
  BY <1>1
<1>9. 0 <= t
  <2>1. 0 <= c
    <3>1. c <= -1 => c * K <= -K
      <4>1. c <= -1 => (-c) * K >= K
        BY <1>1, <1>4, SMT
      <4> QED BY <1>1, <1>4, <4>1, SMT
    <3>2. c * K \in Int
      BY <1>1, <1>4, SMT
    <3> QED BY <1>1, <1>4, <3>1, <3>2, SMT
  <2>2. s * u >= 0 /\ s * u \in Int
    BY <1>1, SMT
  <2> QED BY <1>4, <2>1, <2>2, SMT DEF t
<1>10. CASE t <= MaxMac
  <2>1. r = -t
    BY <1>1, <1>3, <1>5, <1>8, <1>10, SMT
  <2>2. r \in Int /\ r <= 0
    BY <1>5, <1>9, <2>1, SMT
  <2>3. Duration(r) = t * K
    <3>1. Duration(r) = -(r * K)
      BY <2>2, SMT DEF Duration
    <3>2. -((-t) * K) = t * K
      BY <1>1, <1>5, SMT
    <3> QED BY <2>1, <3>1, <3>2
  <2> QED BY <1>6, <1>10, <2>2, <2>3 DEF v, r
<1>11. CASE ~(t <= MaxMac)
  <2> HIDE DEF e, f
  <2>1. e <= MaxMac
    <3>1. t * K <= MaxMac * K * K
      <4>1. t * K \in Int /\ MaxMac * K * K \in Int
        BY <1>1, <1>5, SMT
      <4> QED BY <1>2, <1>4, <1>5, <4>1, SMT
    <3>2. t <= MaxMac * K
      <4>1. t >= MaxMac * K + 1 => t * K >= MaxMac * K * K + K
        <5>1. t >= MaxMac * K + 1 => (t - MaxMac * K) * K >= K
          BY <1>1, <1>5, SMT
        <5> QED BY <1>1, <1>5, <5>1, SMT
      <4>2. t * K \in Int /\ MaxMac * K * K \in Int /\ MaxMac * K \in Int
        BY <1>1, <1>5, SMT
      <4> QED BY <1>1, <1>5, <3>1, <4>1, <4>2, SMT
    <3>3. e >= MaxMac + 1 => e * K >= MaxMac * K + K
      <4>1. e >= MaxMac + 1 => (e - MaxMac) * K >= K
        BY <1>1, <1>7, SMT
      <4> QED BY <1>1, <1>7, <4>1, SMT
    <3>4. e * K \in Int /\ MaxMac * K \in Int
      BY <1>1, <1>7, SMT
    <3> QED BY <1>1, <1>5, <1>7, <3>2, <3>3, <3>4, SMT
  <2>2. 0 <= e
    <3>1. e <= -1 => e * K <= -K
      <4>1. e <= -1 => (-e) * K >= K
        BY <1>1, <1>7, SMT
      <4> QED BY <1>1, <1>7, <4>1, SMT
    <3>2. e * K \in Int
      BY <1>1, <1>7, SMT
    <3> QED BY <1>1, <1>7, <1>9, <3>1, <3>2, SMT
  <2>3. ToInt32(e) = e
    BY <1>1, <1>7, <2>1, <2>2, Int32Is
  <2>4. r = e
    BY <1>3, <1>8, <1>11, <1>1, <1>5, <2>3, SMT
  <2>5. Duration(r) = e * K * K
    <3>1. CASE e > 0
      BY <2>4, <3>1 DEF Duration
    <3>2. CASE e = 0
      <4>1. Duration(r) = -(0 * K)
        BY <2>4, <3>2 DEF Duration
      <4>2. -(0 * K) = 0 /\ 0 * K * K = 0
        BY <1>1, SMT
      <4> QED BY <3>2, <4>1, <4>2
    <3> QED BY <1>7, <2>2, <3>1, <3>2, SMT
  <2> QED BY <1>6, <1>11, <2>5 DEF v, r, e
<1> QED BY <1>10, <1>11

-----------------------------------------------------------------------------
\* The invariant: both times are normalised, and near enough to be compared.
LastWakeup == MaxSec + MaxMac \div K + 1

TimesInv == now \in HostTimes(MaxSec) /\ wakeup \in HostTimes(LastWakeup)

\* What the bounds leave room for.
LEMMA Bounds ==
  ASSUME TimesFit
  PROVE  /\ MaxMac \div K \in Int /\ 0 <= MaxMac \div K
         /\ MaxSec + (MaxMac \div K) + 2 <= MaxMac
         /\ LastWakeup \in Int /\ LastWakeup + 1 <= MaxMac /\ MaxSec <= LastWakeup
<1> DEFINE M == MaxMac \div K
           r == MaxMac % K
<1>1. M \in Int /\ r \in 0 .. K - 1 /\ MaxMac = M * K + r
  BY ConstantFacts, DivMod
<1>2. MaxSec + M + 2 <= MaxMac /\ LastWakeup = MaxSec + M + 1
  BY DEF TimesFit, LastWakeup
<1> HIDE DEF M, r
<1>3. 0 <= M
  <2>1. M <= -1 => M * K <= -K
    <3>1. M <= -1 => (-M) * K >= K
      BY <1>1, ConstantFacts, SMT
    <3> QED BY <1>1, <3>1, ConstantFacts, SMT
  <2>2. M * K \in Int
    BY <1>1, ConstantFacts, SMT
  <2> QED BY <1>1, <2>1, <2>2, ConstantFacts, SMT
<1> QED BY <1>1, <1>2, <1>3, ConstantFacts, SMT DEF M

\* A time stays one when later seconds are allowed.
LEMMA HostTimesGrow ==
  ASSUME NEW p \in Int, NEW q \in Int, p <= q, NEW h \in HostTimes(p)
  PROVE  h \in HostTimes(q)
BY SMT DEF HostTimes

\* The invariant holds at first,
LEMMA TimesInit == Init /\ TimesFit => TimesInv
<1> SUFFICES ASSUME Init, TimesFit PROVE TimesInv
  OBVIOUS
<1>1. ToSec(0) = 0
  BY SecIs, ConstantFacts
<1>2. 0 \in 0 .. MaxSec /\ 0 \in 0 .. LastWakeup /\ 0 \in 0 .. NsecPerSec - 1
  BY ConstantFacts, Bounds, SMT
<1> QED BY <1>1, <1>2 DEF Init, Time, TimesInv, HostTimes

\* ... every step keeps it,
LEMMA TimesStep ==
  ASSUME TimesInv, TimesFit, [Next]_vars
  PROVE  TimesInv'
<1> USE DEF TimesInv
<1>1. CASE Tick
  <2> DEFINE r == timer_add_time(now, Time(0, Step))
  <2>1. Time(0, Step) \in HostTimes(0)
    <3>1. ToSec(0) = 0
      BY SecIs, ConstantFacts
    <3>2. Step \in 0 .. NsecPerSec - 1 /\ 0 \in 0 .. 0
      BY ConstantFacts, SMT DEF TimesFit
    <3> QED BY <3>1, <3>2 DEF Time, HostTimes
  <2>2. now.tv_sec \in 0 .. MaxSec - 1 /\ now.tv_nsec \in 0 .. NsecPerSec - 1
        /\ now = [tv_sec |-> now.tv_sec, tv_nsec |-> now.tv_nsec]
    BY <1>1, ConstantFacts DEF Tick, HostTimes
  <2>3. now \in HostTimes(MaxSec - 1)
    BY <2>2 DEF HostTimes
  <2>4. r \in HostTimes((MaxSec - 1) + 0 + 1)
    BY <2>1, <2>3, AddIs, Bounds, ConstantFacts
  <2>5. (MaxSec - 1) + 0 + 1 = MaxSec
    BY ConstantFacts
  <2> HIDE DEF r
  <2> QED BY <1>1, <2>4, <2>5 DEF Tick, r
<1>2. CASE \E m \in MacTimes, relative \in BOOLEAN : PrimeTime(m, relative)
  <2>1. PICK m \in MacTimes, relative \in BOOLEAN : PrimeTime(m, relative)
    BY <1>2
  <2> DEFINE from == IF relative THEN wakeup ELSE now
             d == timer_mac2host_time(m)
             M == MaxMac \div K
  <2>2. from \in HostTimes(MaxSec)
    <3>1. wakeup.tv_sec \in 0 .. MaxSec /\ wakeup.tv_nsec \in 0 .. NsecPerSec - 1
          /\ wakeup = [tv_sec |-> wakeup.tv_sec, tv_nsec |-> wakeup.tv_nsec]
      BY <2>1, ConstantFacts, Bounds DEF PrimeTime, HostTimes
    <3>2. wakeup \in HostTimes(MaxSec)
      BY <3>1 DEF HostTimes
    <3> QED BY <3>2
  <2>3. d \in HostTimes(M)
    BY MacToHost
  <2>4. wakeup' = timer_add_time(from, d) /\ now' = now
    BY <2>1 DEF PrimeTime
  <2> HIDE DEF from, d
  <2>5. timer_add_time(from, d) \in HostTimes(MaxSec + M + 1)
    BY <2>2, <2>3, AddIs, Bounds, ConstantFacts
  <2> QED BY <2>4, <2>5 DEF LastWakeup
<1>3. CASE UNCHANGED vars
  BY <1>3 DEF vars
<1> QED BY <1>1, <1>2, <1>3 DEF Next

\* ... and so it always holds, as far as times fit.
LEMMA TimesAlways ==
  ASSUME TimesFit
  PROVE  Spec => []TimesInv
<1>1. Init => TimesInv
  BY TimesInit
<1>2. TimesInv /\ [Next]_vars => TimesInv'
  BY TimesStep
<1> QED BY <1>1, <1>2, PTL DEF Spec

-----------------------------------------------------------------------------
\* A task is due as long after now as its Mac time says.
LEMMA DueIs ==
  ASSUME TimesInv, TimesFit, NEW m \in MacTimes
  PROVE  LET at == timer_add_time(now, timer_mac2host_time(m)) IN
         at \in HostTimes(MaxMac) /\ Value(at) = Value(now) + Duration(m)
<1> DEFINE d == timer_mac2host_time(m)
           M == MaxMac \div K
           at == timer_add_time(now, d)
<1>1. d \in HostTimes(M) /\ Value(d) = Duration(m)
  BY MacToHost
<1> HIDE DEF d
<1>2. at \in HostTimes(MaxSec + M + 1) /\ Value(at) = Value(now) + Value(d)
  BY <1>1, AddIs, Bounds, ConstantFacts DEF TimesInv
<1> HIDE DEF at
<1>3. at \in HostTimes(MaxMac)
  BY <1>2, HostTimesGrow, Bounds, ConstantFacts
<1> QED BY <1>1, <1>2, <1>3 DEF at, d

\* For every Mac time, clock and wakeup time: PrimeTime makes a task due to the nanosecond
\* (timer_mac2host_time and timer_add_time in timer_unix.cpp), and it expires when its time
\* has passed (timer_cmp_time).
THEOREM TasksAreDue ==
  ASSUME TimesFit
  PROVE  Spec => []DueAfterDelay
<1>1. TimesInv => DueAfterDelay
  <2> SUFFICES ASSUME TimesInv PROVE DueAfterDelay
    OBVIOUS
  <2>1. \A m \in MacTimes :
          Value(timer_add_time(now, timer_mac2host_time(m))) = Value(now) + Duration(m)
    BY DueIs
  <2>2. now \in HostTimes(MaxMac) /\ wakeup \in HostTimes(MaxMac)
    BY HostTimesGrow, Bounds, ConstantFacts DEF TimesInv
  <2>3. timer_cmp_time(wakeup, now) < 0 <=> Value(wakeup) < Value(now)
    BY <2>2, CmpIs
  <2> QED BY <2>1, <2>3 DEF DueAfterDelay
<1> QED BY <1>1, TimesAlways, PTL

\* What is left of less than the longest Mac time is rounded down, and no more than that.
LEMMA LeftIsRounded ==
  ASSUME NEW h \in HostTimes(MaxMac), Value(h) <= MaxMac * K * K
  PROVE  LET v == Value(h)
             r == timer_host2mac_time(h) IN
         /\ v - Duration(r) \in 0 .. (IF v \div K <= MaxMac THEN K - 1 ELSE UsecPerSec - 1)
         /\ r > 0 => v \div K > MaxMac
<1> DEFINE v == Value(h)
           r == timer_host2mac_time(h)
           t == v \div K
           a == v % K
           e == t \div K
           b == t % K
<1>1. v \in Int /\ K \in Int /\ K > 1 /\ MaxMac \in Int /\ UsecPerSec = K * K
      /\ UsecPerSec \in Int
  BY ConstantFacts, SMT DEF HostTimes, Value
<1>2. IF t <= MaxMac THEN r \in Int /\ r <= 0 /\ Duration(r) = t * K
      ELSE Duration(r) = e * K * K
  BY HostToMac
<1> HIDE DEF v, r
<1>3. t \in Int /\ a \in 0 .. K - 1 /\ v = t * K + a
  BY <1>1, DivMod
<1> HIDE DEF t, a
<1>4. e \in Int /\ b \in 0 .. K - 1 /\ t = e * K + b
  BY <1>1, <1>3, DivMod
<1> HIDE DEF e, b
<1>5. CASE t <= MaxMac
  <2>1. t * K \in Int
    BY <1>1, <1>3, SMT
  <2>2. v - Duration(r) \in 0 .. K - 1 /\ ~(r > 0)
    BY <1>1, <1>2, <1>3, <1>5, <2>1, SMT
  <2> QED BY <1>5, <2>2 DEF t, v, r
<1>6. CASE ~(t <= MaxMac)
  <2>1. b * K \in Int /\ 0 <= b * K /\ b * K <= K * K - K
    <3>1. (K - b) * K >= K
      BY <1>1, <1>4, SMT
    <3>2. b * K \in Int /\ 0 <= b * K
      BY <1>1, <1>4, SMT
    <3> QED BY <1>1, <1>4, <3>1, <3>2, SMT
  <2>2. t * K = e * K * K + b * K
    BY <1>1, <1>4, SMT
  <2>3. t * K \in Int /\ e * K * K \in Int
    BY <1>1, <1>3, <1>4, SMT
  <2>4. v - Duration(r) \in 0 .. UsecPerSec - 1
    BY <1>1, <1>2, <1>3, <1>6, <2>1, <2>2, <2>3, SMT
  <2>5. t > MaxMac
    BY <1>1, <1>3, <1>6, SMT
  <2> QED BY <1>6, <2>4, <2>5 DEF t, v, r
<1> QED BY <1>5, <1>6

\* A Mac time survives the way to the host and back.
LEMMA RoundTrip ==
  ASSUME NEW m \in MacTimes, NEW h \in HostTimes(MaxMac), Value(h) = Duration(m)
  PROVE  Duration(timer_host2mac_time(h)) = Duration(m)
<1> DEFINE v == Value(h)
           r == timer_host2mac_time(h)
           c == IF m > 0 THEN m * K ELSE -m
<1>1. m \in Int /\ m <= MaxMac /\ -m <= MaxMac /\ K \in Int /\ K > 1 /\ MaxMac \in Int
      /\ MaxMac > 0
  BY ConstantFacts, SMT DEF MacTimes
<1>2. c \in Int /\ v = c * K
  <2>1. m * K \in Int /\ -(m * K) = (-m) * K
    BY <1>1, SMT
  <2> QED BY <1>1, <2>1, SMT DEF Duration
<1>3. v <= MaxMac * K * K
  <2>1. c <= MaxMac * K
    <3>1. m > 0 => (MaxMac - m) * K >= 0
      BY <1>1, SMT
    <3>2. MaxMac * K >= MaxMac
      BY <1>1, SMT
    <3>3. MaxMac * K \in Int /\ m * K \in Int
      BY <1>1, SMT
    <3>4. m > 0 => m * K <= MaxMac * K
      BY <1>1, <3>1, SMT
    <3> QED BY <1>1, <3>2, <3>3, <3>4, SMT
  <2> HIDE DEF c, v
  <2>2. (MaxMac * K - c) * K >= 0
    BY <1>1, <1>2, <2>1, SMT
  <2> QED BY <1>1, <1>2, <2>2, SMT
<1>4. v \div K = c
  <2> HIDE DEF c, v
  <2>1. (c * K + 0) \div K = c
    BY <1>1, <1>2, DivIs
  <2>2. c * K + 0 = v
    BY <1>1, <1>2, SMT
  <2> QED BY <2>1, <2>2
<1>5. IF c <= MaxMac THEN Duration(r) = c * K ELSE Duration(r) = (c \div K) * K * K
  BY <1>3, <1>4, HostToMac
<1>6. CASE c <= MaxMac
  BY <1>2, <1>5, <1>6
<1>7. CASE ~(c <= MaxMac)
  <2>1. m > 0 /\ c = m * K
    BY <1>1, <1>7, SMT
  <2>2. c \div K = m
    <3>1. (m * K + 0) \div K = m
      BY <1>1, DivIs
    <3>2. m * K + 0 = m * K
      BY <1>1, SMT
    <3> QED BY <2>1, <3>1, <3>2
  <2> QED BY <1>5, <1>7, <2>1, <2>2 DEF Duration
<1> QED BY <1>6, <1>7

\* For every Mac time, clock and wakeup time: RmvTime reports the time that is left
\* (timer_sub_time and timer_host2mac_time in timer_unix.cpp), rounded down to what a Mac
\* time can say, and a task that is removed as it is primed has all of its time left.
THEOREM TimeLeftIsExact ==
  ASSUME TimesFit
  PROVE  Spec => []RemainingIsExact
<1>1. TimesInv => RemainingIsExact
  <2> SUFFICES ASSUME TimesInv PROVE RemainingIsExact
    OBVIOUS
  <2> DEFINE left == Value(wakeup) - Value(now)
             h == timer_sub_time(wakeup, now)
  <2>1. now \in HostTimes(MaxMac) /\ wakeup \in HostTimes(MaxMac)
    BY HostTimesGrow, Bounds, ConstantFacts DEF TimesInv
  <2>2. Value(wakeup) \in Int /\ Value(now) \in Int
    BY <2>1, ConstantFacts, SMT DEF Value, HostTimes
  <2>3. Duration(MaxMac) = MaxMac * K * K
    BY ConstantFacts DEF Duration
  <2>4. ASSUME left >= 0, left <= Duration(MaxMac)
        PROVE  /\ left - Duration(Remaining) \in
                    0 .. (IF left \div K <= MaxMac THEN K - 1 ELSE UsecPerSec - 1)
               /\ Remaining > 0 => left \div K > MaxMac
    <3>1. h \in HostTimes(MaxMac) /\ Value(h) = left
      BY <2>1, <2>2, <2>4, SubIs
    <3>2. Remaining = timer_host2mac_time(h)
      BY DEF Remaining
    <3> HIDE DEF h, left
    <3> QED BY <2>3, <2>4, <3>1, <3>2, LeftIsRounded
  <2>5. ASSUME NEW m \in MacTimes
        PROVE  LET at == timer_add_time(now, timer_mac2host_time(m)) IN
               Duration(timer_host2mac_time(timer_sub_time(at, now))) = Duration(m)
    <3> DEFINE at == timer_add_time(now, timer_mac2host_time(m))
               g == timer_sub_time(at, now)
    <3>1. at \in HostTimes(MaxMac) /\ Value(at) = Value(now) + Duration(m)
      BY DueIs
    <3>2. Duration(m) \in Int /\ Duration(m) >= 0
      <4>1. m \in Int /\ K \in Int /\ K > 1
        BY ConstantFacts, SMT DEF MacTimes
      <4>2. m > 0 => m * K * K > 0 /\ m * K * K \in Int
        <5>1. m > 0 => m * K \in Int /\ m * K > 0
          BY <4>1, SMT
        <5> DEFINE p == m * K
        <5> HIDE DEF p
        <5>2. p \in Int /\ p > 0 => p * K > 0 /\ p * K \in Int
          BY <4>1, SMT
        <5> QED BY <5>1, <5>2 DEF p
      <4>3. ~(m > 0) => -(m * K) >= 0 /\ m * K \in Int
        BY <4>1, SMT
      <4> QED BY <4>1, <4>2, <4>3, SMT DEF Duration
    <3> HIDE DEF at
    <3>3. Value(at) >= Value(now)
      BY <2>2, <3>1, <3>2, SMT
    <3>4. g \in HostTimes(MaxMac) /\ Value(g) = Duration(m)
      <4>1. g \in HostTimes(MaxMac) /\ Value(g) = Value(at) - Value(now)
        BY <2>1, <3>1, <3>3, SubIs
      <4> QED BY <2>2, <3>1, <3>2, <4>1, SMT
    <3> HIDE DEF g
    <3>5. Duration(timer_host2mac_time(g)) = Duration(m)
      BY <3>4, RoundTrip
    <3> QED BY <3>5 DEF g, at
  <2> HIDE DEF left
  <2> QED BY <2>4, <2>5 DEF RemainingIsExact, left
<1> QED BY <1>1, TimesAlways, PTL
=============================================================================
