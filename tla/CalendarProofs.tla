----------------------------- MODULE CalendarProofs -----------------------------
(***************************************************************************)
(* Theorems about the clocks: the docket's schedules, and the reset that a *)
(* limit notice speaks of.  Both are for every calendar, so most of it is  *)
(* arithmetic, by induction on numbers.                                    *)
(***************************************************************************)
EXTENDS Docket, LimitNotice, WellFoundedInduction, TLAPS

-----------------------------------------------------------------------------
(* Induction: a set of numbers has a least element, so one that is closed  *)
(* under successor is Nat, and a function is defined by recursion on Nat.  *)

LEMMA LeastOf ==
  ASSUME NEW T \in SUBSET Nat, T # {}
  PROVE  \E x \in T : \A y \in T : x <= y
<1> DEFINE R == OpToRel(<, Nat)
<1>1. PICK x \in T : \A y \in T : ~(<<y, x>> \in R)
  <2>1. IsWellFoundedOn(R, Nat) BY NatLessThanWellFounded
  <2> HIDE DEF R
  <2> QED BY <2>1, WFMin
<1>2. ASSUME NEW y \in T PROVE x <= y
  <2>1. x \in Nat /\ y \in Nat OBVIOUS
  <2>2. ASSUME y < x PROVE FALSE
    <3>1. <<y, x>> \in {ss \in Nat \X Nat : ss[1] < ss[2]} BY <2>1, <2>2
    <3> QED BY <1>1, <3>1 DEF OpToRel
  <2> QED BY <2>1, <2>2
<1> QED BY <1>2

LEMMA GreatestOf ==
  ASSUME NEW n \in Nat, NEW T \in SUBSET (0 .. n), T # {}
  PROVE  \E x \in T : \A y \in T : y <= x
<1> DEFINE U == {k \in Nat : n - k \in T}
<1>1. U # {}
  <2>1. PICK t \in T : TRUE OBVIOUS
  <2>2. n - t \in Nat /\ n - (n - t) = t OBVIOUS
  <2>3. n - t \in U BY <2>2
  <2> QED BY <2>3
<1>2. PICK k \in U : \A l \in U : k <= l
  <2>1. U \in SUBSET Nat OBVIOUS
  <2> HIDE DEF U
  <2> QED BY <1>1, <2>1, LeastOf
<1>3. ASSUME NEW y \in T PROVE y <= n - k
  <2>1. n - y \in Nat /\ n - (n - y) = y OBVIOUS
  <2>2. n - y \in U BY <2>1
  <2> QED BY <1>2, <2>2
<1> QED BY <1>2, <1>3

LEMMA SetInduction ==
  ASSUME NEW T \in SUBSET Nat, 0 \in T, \A n \in Nat : n \in T => n + 1 \in T
  PROVE  T = Nat
<1> SUFFICES ASSUME Nat \ T # {} PROVE FALSE OBVIOUS
<1>1. PICK x \in Nat \ T : \A y \in Nat \ T : x <= y
  BY LeastOf
<1>2. x - 1 \in Nat OBVIOUS
<1>3. x - 1 \in T BY <1>1, <1>2
<1> QED BY <1>2, <1>3

\* The functions b, g(1, b), g(2, g(1, b)), ... on the first n numbers.
Unfolds(D, b, g, h) == h = [k \in D |-> IF k = 0 THEN b ELSE g[<<k, h[k - 1]>>]]

LEMMA UnfoldsOnPrefix ==
  ASSUME NEW S, NEW b \in S, NEW g \in [Nat \X S -> S], NEW n \in Nat
  PROVE  \E h \in [0 .. n -> S] : Unfolds(0 .. n, b, g, h)
<1> DEFINE T == {m \in Nat : \E h \in [0 .. m -> S] : Unfolds(0 .. m, b, g, h)}
<1>1. 0 \in T
  <2> DEFINE h == [k \in 0 .. 0 |-> b]
  <2>1. h \in [0 .. 0 -> S] /\ Unfolds(0 .. 0, b, g, h) BY DEF Unfolds
  <2> QED BY <2>1
<1>2. ASSUME NEW m \in Nat, m \in T PROVE m + 1 \in T
  <2>1. PICK h \in [0 .. m -> S] : Unfolds(0 .. m, b, g, h) BY <1>2
  <2> DEFINE i == [k \in 0 .. m + 1 |-> IF k = m + 1 THEN g[<<m + 1, h[m]>>] ELSE h[k]]
  <2>2. i \in [0 .. m + 1 -> S] OBVIOUS
  <2>3. ASSUME NEW k \in 0 .. m + 1
        PROVE  i[k] = IF k = 0 THEN b ELSE g[<<k, i[k - 1]>>]
    <3>1. CASE k = m + 1
      <4>1. i[k] = g[<<m + 1, h[m]>>] BY <3>1
      <4>2. k - 1 = m /\ m \in 0 .. m + 1 /\ m # m + 1 BY <3>1
      <4>3. i[k - 1] = h[m] BY <4>2
      <4>4. k # 0 BY <3>1
      <4> HIDE DEF i
      <4> QED BY <3>1, <4>1, <4>3, <4>4
    <3>2. CASE k # m + 1
      <4>1. k \in 0 .. m BY <3>2
      <4>2. h[k] = IF k = 0 THEN b ELSE g[<<k, h[k - 1]>>] BY <2>1, <4>1 DEF Unfolds
      <4>3. i[k] = h[k] /\ (k # 0 => i[k - 1] = h[k - 1]) BY <3>2, <4>1
      <4> QED BY <4>2, <4>3
    <3> QED BY <3>1, <3>2
  <2>4. Unfolds(0 .. m + 1, b, g, i) BY <2>3 DEF Unfolds
  <2> QED BY <2>2, <2>4
<1>3. T = Nat
  <2>1. T \in SUBSET Nat OBVIOUS
  <2> HIDE DEF T
  <2> QED BY <1>1, <1>2, <2>1, SetInduction
<1> QED BY <1>3

LEMMA UnfoldsAgree ==
  ASSUME NEW b, NEW g, NEW n \in Nat, NEW m \in Nat, n <= m,
         NEW h, Unfolds(0 .. n, b, g, h), NEW i, Unfolds(0 .. m, b, g, i)
  PROVE  \A k \in 0 .. n : h[k] = i[k]
<1> DEFINE T == {k \in Nat : k <= n => h[k] = i[k]}
<1>1. 0 \in T BY DEF Unfolds
<1>2. ASSUME NEW k \in Nat, k \in T PROVE k + 1 \in T
  <2> SUFFICES ASSUME k + 1 <= n PROVE h[k + 1] = i[k + 1] OBVIOUS
  <2>1. /\ k + 1 \in 0 .. n /\ k + 1 \in 0 .. m /\ k + 1 # 0 /\ (k + 1) - 1 = k /\ k <= n
    OBVIOUS
  <2>2. h[k] = i[k] BY <1>2, <2>1
  <2>3. h[k + 1] = g[<<k + 1, h[k]>>] BY <2>1 DEF Unfolds
  <2>4. i[k + 1] = g[<<k + 1, i[k]>>] BY <2>1 DEF Unfolds
  <2> QED BY <2>2, <2>3, <2>4
<1>3. T = Nat
  <2>1. T \in SUBSET Nat OBVIOUS
  <2> HIDE DEF T
  <2> QED BY <1>1, <1>2, <2>1, SetInduction
<1> QED BY <1>3

LEMMA UnfoldsOnNat ==
  ASSUME NEW S, NEW b \in S, NEW g \in [Nat \X S -> S]
  PROVE  \E h \in [Nat -> S] : Unfolds(Nat, b, g, h)
<1> DEFINE P(n, h) == h \in [0 .. n -> S] /\ Unfolds(0 .. n, b, g, h)
           F(n) == CHOOSE h : P(n, h)
           H == [n \in Nat |-> F(n)[n]]
<1>1. ASSUME NEW n \in Nat PROVE P(n, F(n))
  <2>1. \E h : P(n, h) BY UnfoldsOnPrefix
  <2> HIDE DEF P
  <2> QED BY <2>1
<1>2. ASSUME NEW n \in Nat PROVE H[n] \in S
  BY <1>1
<1>3. H[0] = b
  <2>1. PICK f : f = F(0) OBVIOUS
  <2>2. P(0, f) BY <1>1, <2>1
  <2>3. H[0] = f[0] BY <2>1
  <2>4. 0 \in 0 .. 0 OBVIOUS
  <2> HIDE DEF F, H
  <2> QED BY <2>2, <2>3, <2>4 DEF Unfolds
<1>4. ASSUME NEW n \in Nat PROVE H[n + 1] = g[<<n + 1, H[n]>>]
  <2>1. PICK f : f = F(n) OBVIOUS
  <2>2. PICK i : i = F(n + 1) OBVIOUS
  <2>3. P(n, f) /\ P(n + 1, i) BY <1>1, <2>1, <2>2
  <2>4. H[n] = f[n] /\ H[n + 1] = i[n + 1] BY <2>1, <2>2
  <2> HIDE DEF F, H
  <2>5. f[n] = i[n]
    <3>1. n + 1 \in Nat /\ n <= n + 1 /\ n \in 0 .. n OBVIOUS
    <3>2. Unfolds(0 .. n, b, g, f) /\ Unfolds(0 .. n + 1, b, g, i)
      BY <2>3
    <3> HIDE DEF P
    <3>3. \A k \in 0 .. n : f[k] = i[k] BY <3>1, <3>2, UnfoldsAgree, SMTT(60)
    <3> QED BY <3>1, <3>3
  <2>6. n + 1 \in 0 .. n + 1 /\ n + 1 # 0 /\ (n + 1) - 1 = n OBVIOUS
  <2>7. i[n + 1] = g[<<n + 1, i[n]>>] BY <2>3, <2>6 DEF Unfolds
  <2> QED BY <2>4, <2>5, <2>7
<1>5. H = [n \in Nat |-> H[n]] OBVIOUS
<1> HIDE DEF F, P, H
<1>6. ASSUME NEW n \in Nat PROVE H[n] = IF n = 0 THEN b ELSE g[<<n, H[n - 1]>>]
  <2>1. CASE n = 0 BY <1>3, <2>1
  <2>2. CASE n # 0
    <3>1. n - 1 \in Nat /\ (n - 1) + 1 = n BY <2>2
    <3> QED BY <1>4, <2>2, <3>1
  <2> QED BY <2>1, <2>2
<1>7. H \in [Nat -> S] BY <1>2, <1>5
<1>8. Unfolds(Nat, b, g, H) BY <1>5, <1>6 DEF Unfolds
<1> QED BY <1>7, <1>8

-----------------------------------------------------------------------------
(* Numbers.                                                                *)

LEMMA Remainder ==
  ASSUME NEW a \in Nat, NEW n \in Nat \ {0}
  PROVE  /\ a % n \in 0 .. n - 1 /\ a \div n \in Nat
         /\ a = (a \div n) * n + (a % n)
<1>1. a \div n \in Int /\ a % n \in 0 .. n - 1 OBVIOUS
<1>2. a = n * (a \div n) + (a % n) OBVIOUS
<1>3. a \div n >= 0 OBVIOUS
<1>4. n * (a \div n) = (a \div n) * n BY <1>1
<1> QED BY <1>1, <1>2, <1>3, <1>4

LEMMA RemainderOf ==
  ASSUME NEW n \in Nat \ {0}, NEW q \in Nat, NEW r \in 0 .. n - 1
  PROVE  (q * n + r) \div n = q /\ (q * n + r) % n = r
OBVIOUS

LEMMA DigitsAreUnique ==
  ASSUME NEW n \in Nat \ {0}, NEW q \in Nat, NEW r \in 0 .. n - 1,
         NEW p \in Nat, NEW s \in 0 .. n - 1, q * n + r = p * n + s
  PROVE  q = p /\ r = s
<1>1. (q * n + r) \div n = q /\ (q * n + r) % n = r BY RemainderOf
<1>2. (p * n + s) \div n = p /\ (p * n + s) % n = s BY RemainderOf
<1> QED BY <1>1, <1>2

\* Numbers with the same remainder are the divisor apart.
LEMMA SameRemainder ==
  ASSUME NEW n \in Nat \ {0}, NEW a \in Nat, NEW b \in Nat, a < b, a % n = b % n
  PROVE  a + n <= b
<1>1. PICK q \in Nat, p \in Nat, r \in 0 .. n - 1 : a = q * n + r /\ b = p * n + r
  BY Remainder
<1>2. q < p BY <1>1
<1>3. q + 1 <= p BY <1>2
<1>4. (q + 1) * n <= p * n BY <1>3
<1> QED BY <1>1, <1>4

LEMMA TimesMonotone ==
  ASSUME NEW n \in Nat, NEW q \in Nat, NEW p \in Nat, q <= p
  PROVE  q * n <= p * n /\ q * n \in Nat /\ p * n \in Nat
OBVIOUS

-----------------------------------------------------------------------------
(* The calendar.                                                           *)

LEMMA Units ==
  /\ Hour \in Nat \ {0} /\ Day \in Nat \ {0} /\ Week \in Nat \ {0}
  /\ HoursPerDay \in Nat \ {0} /\ DaysPerWeek \in Nat \ {0}
  /\ Day = HoursPerDay * Hour /\ Week = DaysPerWeek * Day
<1>1. TicksPerHour \in Nat \ {0} /\ HoursPerDay \in Nat \ {0} /\ DaysPerWeek \in Nat \ {0}
  BY DocketAssumption
<1>2. ASSUME NEW a \in Nat \ {0}, NEW b \in Nat \ {0} PROVE a * b \in Nat \ {0}
  OBVIOUS
<1> QED BY <1>1, <1>2 DEF Hour, Day, Week

LEMMA MonthsLast == \A m \in Nat : MonthLength(m) \in Nat \ {0}
<1> SUFFICES ASSUME NEW m \in Nat PROVE MonthLength(m) \in Nat \ {0} OBVIOUS
<1>1. MonthLengths \in Seq(Nat \ {0}) /\ Len(MonthLengths) \in Nat \ {0}
  BY DocketAssumption
<1>2. m % Len(MonthLengths) \in 0 .. Len(MonthLengths) - 1
  BY <1>1, Remainder
<1> QED BY <1>1, <1>2 DEF MonthLength

LEMMA MonthStarts ==
  /\ MonthStart[0] = 0
  /\ \A m \in Nat : /\ MonthStart[m] \in Nat
                    /\ MonthStart[m + 1] = MonthStart[m] + MonthLength(m) * Day
<1> DEFINE Q(f) == f = [m \in Nat |-> IF m = 0 THEN 0
                                      ELSE f[m - 1] + MonthLength(m - 1) * Day]
           g == [x \in Nat \X Nat |-> IF x[1] = 0 THEN 0
                                      ELSE x[2] + MonthLength(x[1] - 1) * Day]
<1>1. \A m \in Nat : MonthLength(m) * Day \in Nat
  <2> SUFFICES ASSUME NEW m \in Nat PROVE MonthLength(m) * Day \in Nat OBVIOUS
  <2>1. MonthLength(m) \in Nat /\ Day \in Nat BY MonthsLast, Units
  <2> QED BY <2>1
<1>2. g \in [Nat \X Nat -> Nat]
  <2> SUFFICES ASSUME NEW x \in Nat \X Nat
               PROVE  (IF x[1] = 0 THEN 0 ELSE x[2] + MonthLength(x[1] - 1) * Day) \in Nat
    OBVIOUS
  <2>1. CASE x[1] = 0 BY <2>1
  <2>2. CASE x[1] # 0
    <3>1. x[1] - 1 \in Nat BY <2>2
    <3>2. MonthLength(x[1] - 1) * Day \in Nat BY <1>1, <3>1
    <3> QED BY <2>2, <3>2
  <2> QED BY <2>1, <2>2
<1>3. PICK h \in [Nat -> Nat] : Unfolds(Nat, 0, g, h)
  <2> HIDE DEF g
  <2> QED BY <1>2, UnfoldsOnNat
<1>4. Q(h)
  <2>1. ASSUME NEW m \in Nat, m # 0
        PROVE  g[<<m, h[m - 1]>>] = h[m - 1] + MonthLength(m - 1) * Day
    <3>1. <<m, h[m - 1]>> \in Nat \X Nat BY <2>1
    <3> QED BY <2>1, <3>1
  <2> HIDE DEF g
  <2> QED BY <1>3, <2>1 DEF Unfolds
<1>5. Q(MonthStart)
  <2>1. MonthStart = CHOOSE f : Q(f) BY DEF MonthStart
  <2>2. Q(CHOOSE f : Q(f))
    <3> HIDE DEF Q
    <3> QED BY <1>4
  <2> HIDE DEF Q
  <2> QED BY <2>1, <2>2
<1>6. MonthStart[0] = 0 BY <1>5
<1>7. ASSUME NEW m \in Nat
      PROVE  MonthStart[m + 1] = MonthStart[m] + MonthLength(m) * Day
  <2>1. m + 1 \in Nat /\ m + 1 # 0 /\ (m + 1) - 1 = m OBVIOUS
  <2> QED BY <1>5, <2>1
<1>8. {m \in Nat : MonthStart[m] \in Nat} = Nat
  <2> DEFINE T == {m \in Nat : MonthStart[m] \in Nat}
  <2>1. 0 \in T BY <1>6
  <2>2. ASSUME NEW m \in Nat, m \in T PROVE m + 1 \in T BY <1>1, <1>7, <2>2
  <2>3. T \in SUBSET Nat OBVIOUS
  <2> HIDE DEF T
  <2>4. T = Nat BY <2>1, <2>2, <2>3, SetInduction
  <2> QED BY <2>4 DEF T
<1>9. \A m \in Nat : MonthStart[m] \in Nat BY <1>8
<1> QED BY <1>6, <1>7, <1>9

\* A month ends before a later one starts.
LEMMA MonthsInOrder ==
  ASSUME NEW m \in Nat, NEW k \in Nat, m < k
  PROVE  MonthStart[m + 1] <= MonthStart[k]
<1> DEFINE T == {i \in Nat : MonthStart[m + 1] <= MonthStart[m + 1 + i]}
<1>1. 0 \in T BY MonthStarts
<1>2. ASSUME NEW i \in Nat, i \in T PROVE i + 1 \in T
  <2>1. m + 1 + i \in Nat /\ m + 1 + (i + 1) = (m + 1 + i) + 1 /\ m + 1 \in Nat OBVIOUS
  <2>2. PICK l \in Nat : l = MonthLength(m + 1 + i) * Day
    <3>1. MonthLength(m + 1 + i) \in Nat /\ Day \in Nat BY <2>1, MonthsLast, Units
    <3> QED BY <3>1
  <2>3. MonthStart[(m + 1 + i) + 1] = MonthStart[m + 1 + i] + l BY <2>1, <2>2, MonthStarts
  <2>4. MonthStart[m + 1 + i] \in Nat /\ MonthStart[m + 1] \in Nat BY <2>1, MonthStarts
  <2> QED BY <1>2, <2>1, <2>3, <2>4
<1>3. T = Nat
  <2>1. T \in SUBSET Nat OBVIOUS
  <2> HIDE DEF T
  <2> QED BY <1>1, <1>2, <2>1, SetInduction
<1>4. k - (m + 1) \in Nat /\ m + 1 + (k - (m + 1)) = k OBVIOUS
<1>5. k - (m + 1) \in T BY <1>3, <1>4
<1> QED BY <1>4, <1>5

LEMMA MonthsAreDays == \A m \in Nat : m * Day <= MonthStart[m]
<1> DEFINE T == {m \in Nat : m * Day <= MonthStart[m]}
<1>a. Day \in Nat BY Units
<1>1. 0 \in T BY <1>a, MonthStarts
<1>2. ASSUME NEW m \in Nat, m \in T PROVE m + 1 \in T
  <2>1. PICK l \in Nat \ {0} : l = MonthLength(m) BY MonthsLast
  <2>2. MonthStart[m + 1] = MonthStart[m] + l * Day /\ MonthStart[m] \in Nat
    BY <2>1, MonthStarts
  <2>3. 1 * Day <= l * Day /\ l * Day \in Nat BY <1>a, <2>1, TimesMonotone
  <2>4. (m + 1) * Day = m * Day + Day /\ m * Day \in Nat BY <1>a
  <2> QED BY <1>a, <1>2, <2>2, <2>3, <2>4
<1>3. T = Nat
  <2>1. T \in SUBSET Nat OBVIOUS
  <2> HIDE DEF T
  <2> QED BY <1>1, <1>2, <2>1, SetInduction
<1> QED BY <1>3

\* A time is in its month, and in no other.
LEMMA MonthOfIs ==
  ASSUME NEW t \in Nat
  PROVE  /\ MonthOf(t) \in Nat
         /\ MonthStart[MonthOf(t)] <= t /\ t < MonthStart[MonthOf(t) + 1]
         /\ \A m \in Nat : MonthStart[m] <= t /\ t < MonthStart[m + 1] => m = MonthOf(t)
<1> DEFINE d == t \div Day
           S == {m \in 0 .. d : MonthStart[m] <= t}
<1>1. d \in Nat /\ Day \in Nat \ {0} /\ t % Day \in 0 .. Day - 1 /\ t = d * Day + (t % Day)
  BY Units, Remainder
<1>2. 0 \in S BY <1>1, MonthStarts
<1>3. PICK x \in S : \A y \in S : y <= x
  <2>1. S \in SUBSET (0 .. d) OBVIOUS
  <2> HIDE DEF S, d
  <2> QED BY <1>1, <1>2, <2>1, GreatestOf
<1>4. x \in Nat /\ MonthStart[x] <= t OBVIOUS
<1>5. MonthOf(t) = x
  <2>1. \A y \in S : y \in Int OBVIOUS
  <2>2. \A z \in S : (\A y \in S : z >= y) => z = x BY <1>3, <2>1
  <2>3. \A y \in S : x >= y BY <1>3, <2>1
  <2>4. MonthOf(t) = CHOOSE z \in S : \A y \in S : z >= y BY DEF MonthOf, Max
  <2> HIDE DEF S
  <2> QED BY <2>2, <2>3, <2>4
<1>6. t < MonthStart[x + 1]
  <2> SUFFICES ASSUME MonthStart[x + 1] <= t PROVE FALSE BY <1>1, <1>4, MonthStarts
  <2>1. (x + 1) * Day <= t BY <1>1, <1>4, MonthsAreDays, MonthStarts
  <2>2. x + 1 <= d
    <3> SUFFICES ASSUME d < x + 1 PROVE FALSE BY <1>1, <1>4
    <3>1. d + 1 <= x + 1 BY <1>1, <1>4
    <3>2. (d + 1) * Day <= (x + 1) * Day BY <1>1, <1>4, <3>1, TimesMonotone
    <3>3. (d + 1) * Day = d * Day + Day /\ d * Day \in Nat BY <1>1
    <3>4. (x + 1) * Day \in Nat BY <1>1, <1>4
    <3> HIDE DEF d
    <3> QED BY <1>1, <2>1, <3>2, <3>3, <3>4
  <2>3. x + 1 \in S BY <1>4, <2>2
  <2> QED BY <1>3, <1>4, <2>3
<1>7. ASSUME NEW m \in Nat, MonthStart[m] <= t, t < MonthStart[m + 1] PROVE m = x
  <2>1. \A k \in Nat : MonthStart[k] \in Nat BY MonthStarts
  <2>2. CASE m < x
    <3>1. MonthStart[m + 1] <= MonthStart[x] BY <1>4, <2>2, MonthsInOrder
    <3> QED BY <1>4, <1>7, <2>1, <3>1
  <2>3. CASE x < m
    <3>1. MonthStart[x + 1] <= MonthStart[m] BY <1>4, <2>3, MonthsInOrder
    <3> QED BY <1>4, <1>6, <1>7, <2>1, <3>1
  <2> QED BY <1>4, <2>2, <2>3
<1> QED BY <1>4, <1>5, <1>6, <1>7

-----------------------------------------------------------------------------
(* next_occurrence.                                                        *)

\* After a time, the first that is in phase with another.
FirstInPhase(unit, c, t, n) ==
    /\ n \in Nat /\ n > t /\ n % unit = c % unit
    /\ \A x \in t + 1 .. n - 1 : x % unit # c % unit

\* A candidate less than a unit from the time is the time's next, or its
\* unit's last and the next one after that.
LEMMA StrictlyAfterIs ==
  ASSUME NEW unit \in Nat \ {0}, NEW t \in Nat, NEW c \in Nat,
         t < c + unit, c <= t + unit,
         NEW n, n = StrictlyAfter(c, t, unit)
  PROVE  FirstInPhase(unit, c, t, n)
<1>1. n = (IF c <= t THEN c + unit ELSE c) BY DEF StrictlyAfter
<1>2. n \in Nat /\ n > t BY <1>1
<1>3. n % unit = c % unit
  <2>1. PICK q \in Nat, r \in 0 .. unit - 1 : c = q * unit + r BY Remainder
  <2>2. c + unit = (q + 1) * unit + r /\ q + 1 \in Nat BY <2>1
  <2>3. (c + unit) % unit = r /\ c % unit = r BY <2>1, <2>2, RemainderOf
  <2> QED BY <1>1, <2>3
<1>4. ASSUME NEW x \in t + 1 .. n - 1, x % unit = c % unit PROVE FALSE
  <2>1. x \in Nat /\ x < n /\ x > t BY <1>2
  <2>2. x % unit = n % unit BY <1>3, <1>4
  <2>3. x + unit <= n BY <1>2, <2>1, <2>2, SameRemainder
  <2> QED BY <1>1, <2>1, <2>3
<1> QED BY <1>2, <1>3, <1>4 DEF FirstInPhase

\* What a lemma says of the time that next_occurrence gives.
IsNext(e, t, n) ==
    /\ n \in Nat
    /\ n # NoTime => /\ n > t /\ IsSlot(e, n)
                     /\ \A x \in t + 1 .. n - 1 : ~IsSlot(e, x)

\* The start of the unit a time is in.
LEMMA UnitStart ==
  ASSUME NEW unit \in Nat \ {0}, NEW t \in Nat
  PROVE  /\ t - (t % unit) = (t \div unit) * unit
         /\ t \div unit \in Nat /\ t - (t % unit) \in Nat
         /\ t - (t % unit) <= t /\ t < t - (t % unit) + unit
<1>1. t % unit \in 0 .. unit - 1 /\ t \div unit \in Nat
      /\ t = (t \div unit) * unit + (t % unit)
  BY Remainder
<1>2. PICK r \in 0 .. unit - 1, q \in Nat : r = t % unit /\ q = t \div unit BY <1>1
<1>3. t = q * unit + r /\ q * unit \in Nat BY <1>1, <1>2
<1>4. t - r = q * unit /\ t - r \in Nat /\ t - r <= t /\ t < t - r + unit BY <1>3
<1> QED BY <1>2, <1>4

LEMMA OnceIsNext ==
  ASSUME NEW e \in Schedules, e.freq = "once", NEW t \in Nat
  PROVE  IsNext(e, t, NextOccurrence(e, t))
<1>1. e.start \in Nat BY DocketAssumption
<1>2. NextOccurrence(e, t) = IF e.start > t THEN e.start ELSE NoTime
  BY DEF NextOccurrence
<1>3. \A x : IsSlot(e, x) <=> x = e.start BY DEF IsSlot
<1> QED BY <1>1, <1>2, <1>3 DEF IsNext, NoTime

LEMMA HourlyIsNext ==
  ASSUME NEW e \in Schedules, e.freq = "hourly", NEW t \in Nat
  PROVE  IsNext(e, t, NextOccurrence(e, t))
<1> DEFINE n == NextOccurrence(e, t)
<1>1. e.at \in Nat /\ Hour \in Nat \ {0} BY DocketAssumption, Units
<1>2. PICK r \in 0 .. Hour - 1 : r = e.at % Hour BY <1>1, Remainder
<1>3. PICK q \in Nat : /\ t - (t % Hour) = q * Hour /\ q * Hour \in Nat
                       /\ q * Hour <= t /\ t < q * Hour + Hour
  BY <1>1, UnitStart
<1>4. PICK c \in Nat : c = q * Hour + r /\ t < c + Hour /\ c <= t + Hour
  BY <1>1, <1>3
<1>5. n = StrictlyAfter(c, t, Hour) /\ c % Hour = r
  <2>1. n = StrictlyAfter(q * Hour + r, t, Hour) BY <1>2, <1>3 DEF NextOccurrence
  <2>2. (q * Hour + r) % Hour = r BY <1>1, RemainderOf
  <2> QED BY <1>4, <2>1, <2>2
<1>6. \A x : IsSlot(e, x) <=> x % Hour = r BY <1>2 DEF IsSlot
<1> HIDE DEF n
<1>7. /\ n \in Nat /\ n > t /\ n % Hour = r
      /\ \A x \in t + 1 .. n - 1 : x % Hour # r
  <2>1. Hour \in Nat \ {0} /\ t \in Nat /\ c \in Nat /\ t < c + Hour /\ c <= t + Hour
    BY <1>1, <1>4
  <2>2. n = StrictlyAfter(c, t, Hour) BY <1>5
  <2>3. FirstInPhase(Hour, c, t, n) BY <2>1, <2>2, StrictlyAfterIs
  <2> QED BY <1>5, <2>3 DEF FirstInPhase
<1>8. IsNext(e, t, n) BY <1>6, <1>7 DEF IsNext
<1> QED BY <1>8 DEF n

LEMMA InTheDay == ASSUME NEW e \in Schedules, e.freq # "once" PROVE e.at \in 0 .. Day - 1
BY DocketAssumption DEF Day, Hour

LEMMA DailyIsNext ==
  ASSUME NEW e \in Schedules, e.freq = "daily", NEW t \in Nat
  PROVE  IsNext(e, t, NextOccurrence(e, t))
<1> DEFINE n == NextOccurrence(e, t)
<1>1. Day \in Nat \ {0} BY Units
<1>2. PICK r \in 0 .. Day - 1 : r = e.at BY InTheDay
<1>3. PICK q \in Nat : /\ t - (t % Day) = q * Day /\ q * Day \in Nat
                       /\ q * Day <= t /\ t < q * Day + Day
  BY <1>1, UnitStart
<1>4. PICK c \in Nat : c = q * Day + r /\ t < c + Day /\ c <= t + Day
  BY <1>1, <1>3
<1>5. n = StrictlyAfter(c, t, Day) /\ c % Day = r
  <2>1. n = StrictlyAfter(q * Day + r, t, Day) BY <1>2, <1>3 DEF NextOccurrence
  <2>2. (q * Day + r) % Day = r BY <1>1, RemainderOf
  <2> QED BY <1>4, <2>1, <2>2
<1>6. \A x : IsSlot(e, x) <=> x % Day = r BY <1>2 DEF IsSlot
<1> HIDE DEF n
<1>7. /\ n \in Nat /\ n > t /\ n % Day = r
      /\ \A x \in t + 1 .. n - 1 : x % Day # r
  <2>1. Day \in Nat \ {0} /\ t \in Nat /\ c \in Nat /\ t < c + Day /\ c <= t + Day
    BY <1>1, <1>4
  <2>2. n = StrictlyAfter(c, t, Day) BY <1>5
  <2>3. FirstInPhase(Day, c, t, n) BY <2>1, <2>2, StrictlyAfterIs
  <2> QED BY <1>5, <2>3 DEF FirstInPhase
<1>8. IsNext(e, t, n) BY <1>6, <1>7 DEF IsNext
<1> QED BY <1>8 DEF n

\* A day of the week as a phase of the week.
LEMMA WeekPhase ==
  ASSUME NEW x \in Nat, NEW r \in 0 .. Day - 1, NEW w \in 0 .. DaysPerWeek - 1
  PROVE  (x % Day = r /\ (x \div Day) % DaysPerWeek = w) <=> x % Week = w * Day + r
<1>1. Day \in Nat \ {0} /\ DaysPerWeek \in Nat \ {0} /\ Week \in Nat \ {0}
      /\ Week = DaysPerWeek * Day
  BY Units
<1>2. PICK q \in Nat, s \in 0 .. Day - 1 : x = q * Day + s /\ q = x \div Day /\ s = x % Day
  BY <1>1, Remainder
<1>3. PICK p \in Nat, v \in 0 .. DaysPerWeek - 1 :
         q = p * DaysPerWeek + v /\ v = q % DaysPerWeek
  BY <1>1, <1>2, Remainder
<1>4. ASSUME NEW d \in 0 .. DaysPerWeek - 1, NEW h \in 0 .. Day - 1
      PROVE  d * Day + h \in 0 .. Week - 1
  <2>1. d + 1 \in Nat /\ d + 1 <= DaysPerWeek /\ d \in Nat BY <1>1
  <2>2. (d + 1) * Day <= DaysPerWeek * Day BY <1>1, <2>1, TimesMonotone
  <2>3. (d + 1) * Day = d * Day + Day /\ d * Day \in Nat BY <1>1, <2>1
  <2> QED BY <1>1, <2>2, <2>3
<1>5. x % Week = v * Day + s
  <2>1. q * Day = p * Week + v * Day
    <3>1. \A a \in Nat, b \in Nat, i \in Nat, j \in Nat :
             (a * b + i) * j = a * (b * j) + i * j
      OBVIOUS
    <3>2. (p * DaysPerWeek + v) * Day = p * (DaysPerWeek * Day) + v * Day
      BY <1>1, <3>1
    <3> QED BY <1>1, <1>3, <3>2
  <2>2. PICK y \in 0 .. Week - 1 : y = v * Day + s BY <1>4
  <2>3. x = p * Week + y
    <3>1. v * Day \in Nat /\ p * Week \in Nat BY <1>1
    <3> QED BY <1>2, <2>1, <2>2, <3>1
  <2>4. (p * Week + y) % Week = y BY <1>1, RemainderOf
  <2> QED BY <2>2, <2>3, <2>4
<1>6. (x % Day = r /\ (x \div Day) % DaysPerWeek = w) <=> (s = r /\ v = w)
  BY <1>2, <1>3
<1>7. ASSUME v * Day + s = w * Day + r PROVE s = r /\ v = w
  <2>1. (v * Day + s) \div Day = v /\ (v * Day + s) % Day = s BY <1>1, RemainderOf
  <2>2. (w * Day + r) \div Day = w /\ (w * Day + r) % Day = r BY <1>1, RemainderOf
  <2> QED BY <1>7, <2>1, <2>2
<1> QED BY <1>5, <1>6, <1>7

\* The way from one phase of a cycle to another one.
LEMMA PhaseAhead ==
  ASSUME NEW n \in Nat \ {0}, NEW q \in Nat, NEW d \in 0 .. n - 1
  PROVE  (q + ((n + d - (q % n)) % n)) % n = d
<1>1. PICK p \in Nat, w \in 0 .. n - 1 : q = p * n + w /\ w = q % n BY Remainder
<1>2. CASE w <= d
  <2>1. PICK s \in 0 .. n - 1 : s = d - w BY <1>2
  <2>2. (1 * n + s) % n = s BY RemainderOf
  <2>3. n + d - w = 1 * n + s BY <2>1
  <2>4. q + s = p * n + d BY <1>1, <2>1
  <2>5. (p * n + d) % n = d BY RemainderOf
  <2> QED BY <1>1, <2>2, <2>3, <2>4, <2>5
<1>3. CASE w > d
  <2>1. PICK s \in 0 .. n - 1 : s = n + d - w BY <1>3
  <2>2. (0 * n + s) % n = s BY RemainderOf
  <2>3. n + d - w = 0 * n + s BY <2>1
  <2>4. q + s = (p + 1) * n + d /\ p + 1 \in Nat BY <1>1, <2>1
  <2>5. ((p + 1) * n + d) % n = d BY <2>4, RemainderOf
  <2> QED BY <1>1, <2>2, <2>3, <2>4, <2>5
<1> QED BY <1>2, <1>3

LEMMA WeeklyIsNext ==
  ASSUME NEW e \in Schedules, e.freq = "weekly", NEW t \in Nat
  PROVE  IsNext(e, t, NextOccurrence(e, t))
<1> DEFINE n == NextOccurrence(e, t)
<1>1. Day \in Nat \ {0} /\ DaysPerWeek \in Nat \ {0} /\ Week \in Nat \ {0}
      /\ Week = DaysPerWeek * Day
  BY Units
<1>2. PICK r \in 0 .. Day - 1 : r = e.at BY InTheDay
<1>3. PICK w \in 0 .. DaysPerWeek - 1 : w = e.dow BY DocketAssumption
<1>4. PICK q \in Nat : /\ t - (t % Day) = q * Day /\ q * Day \in Nat
                       /\ q * Day <= t /\ t < q * Day + Day /\ q = t \div Day
  BY <1>1, UnitStart
<1>5. PICK d \in 0 .. DaysPerWeek - 1 :
         d = (DaysPerWeek + w - (q % DaysPerWeek)) % DaysPerWeek
  <2>1. q % DaysPerWeek \in 0 .. DaysPerWeek - 1 BY <1>1, Remainder
  <2>2. DaysPerWeek + w - (q % DaysPerWeek) \in Nat BY <1>1, <2>1
  <2> QED BY <1>1, <2>2, Remainder
<1>6. d * Day \in Nat /\ d * Day + Day <= Week
  <2>1. d + 1 \in Nat /\ d + 1 <= DaysPerWeek BY <1>1
  <2>2. (d + 1) * Day <= DaysPerWeek * Day BY <1>1, <2>1, TimesMonotone
  <2>3. (d + 1) * Day = d * Day + Day /\ d * Day \in Nat BY <1>1
  <2> QED BY <1>1, <2>2, <2>3
<1>7. PICK c \in Nat : c = q * Day + r + d * Day /\ t < c + Week /\ c <= t + Week
  BY <1>1, <1>4, <1>6
<1>8. n = StrictlyAfter(c, t, Week)
  BY <1>2, <1>3, <1>4, <1>5, <1>7 DEF NextOccurrence
<1>9. c % Week = w * Day + r
  <2>1. c = (q + d) * Day + r /\ q + d \in Nat BY <1>1, <1>4, <1>6, <1>7
  <2>2. ((q + d) * Day + r) \div Day = q + d /\ ((q + d) * Day + r) % Day = r
    BY <1>1, <2>1, RemainderOf
  <2>3. (q + d) % DaysPerWeek = w BY <1>1, <1>5, PhaseAhead
  <2>4. c % Day = r /\ (c \div Day) % DaysPerWeek = w BY <2>1, <2>2, <2>3
  <2> QED BY <2>4, WeekPhase
<1>10. ASSUME NEW x \in Nat PROVE IsSlot(e, x) <=> x % Week = w * Day + r
  <2>1. IsSlot(e, x) <=> (x % Day = r /\ (x \div Day) % DaysPerWeek = w)
    BY <1>2, <1>3 DEF IsSlot
  <2> QED BY <2>1, WeekPhase
<1> HIDE DEF n
<1>11. FirstInPhase(Week, c, t, n) BY <1>1, <1>7, <1>8, StrictlyAfterIs
<1>12. /\ n \in Nat /\ n > t /\ n % Week = c % Week
       /\ \A x \in t + 1 .. n - 1 : x % Week # c % Week
  BY <1>11 DEF FirstInPhase
<1>13. IsSlot(e, n) BY <1>9, <1>10, <1>12
<1>14. ASSUME NEW x \in t + 1 .. n - 1 PROVE ~IsSlot(e, x)
  <2>1. x \in Nat BY <1>12
  <2> QED BY <1>9, <1>10, <1>12, <2>1
<1>15. IsNext(e, t, n) BY <1>12, <1>13, <1>14 DEF IsNext
<1> QED BY <1>15 DEF n

\* A month starts with a day.
LEMMA MonthsStartDays == \A m \in Nat : \E d \in Nat : MonthStart[m] = d * Day
<1> DEFINE T == {m \in Nat : \E d \in Nat : MonthStart[m] = d * Day}
<1>a. Day \in Nat BY Units
<1>1. 0 \in T
  <2>1. MonthStart[0] = 0 * Day BY <1>a, MonthStarts
  <2> QED BY <2>1
<1>2. ASSUME NEW m \in Nat, m \in T PROVE m + 1 \in T
  <2>1. PICK d \in Nat : MonthStart[m] = d * Day BY <1>2
  <2>2. PICK l \in Nat : l = MonthLength(m) BY MonthsLast
  <2>3. MonthStart[m + 1] = d * Day + l * Day BY <2>1, <2>2, MonthStarts
  <2>4. d * Day + l * Day = (d + l) * Day /\ d + l \in Nat BY <1>a
  <2>5. MonthStart[m + 1] = (d + l) * Day BY <2>3, <2>4
  <2> QED BY <2>4, <2>5
<1>3. T = Nat
  <2>1. T \in SUBSET Nat OBVIOUS
  <2> HIDE DEF T
  <2> QED BY <1>1, <1>2, <2>1, SetInduction
<1> QED BY <1>3

\* The entry's time in a month is in that month, at the entry's hour of its day.
LEMMA InMonthIs ==
  ASSUME NEW e \in Schedules, e.freq = "monthly", NEW m \in Nat
  PROVE  /\ InMonth(m, e) \in Nat
         /\ MonthStart[m] <= InMonth(m, e) /\ InMonth(m, e) < MonthStart[m + 1]
         /\ InMonth(m, e) % Day = e.at
         /\ (InMonth(m, e) - MonthStart[m]) \div Day + 1 = AtMost(e.dom, MonthLength(m))
<1>1. Day \in Nat \ {0} BY Units
<1>2. PICK r \in 0 .. Day - 1 : r = e.at BY InTheDay
<1>3. PICK l \in Nat \ {0} : l = MonthLength(m) BY MonthsLast
<1>4. PICK a \in Nat : /\ a + 1 = AtMost(e.dom, MonthLength(m)) /\ a + 1 <= l
                       /\ a = AtMost(e.dom, MonthLength(m)) - 1
  <2>1. e.dom \in Nat \ {0} BY DocketAssumption
  <2> QED BY <1>3, <2>1 DEF AtMost
<1>5. PICK s \in Nat, d \in Nat : s = MonthStart[m] /\ s = d * Day
  BY MonthStarts, MonthsStartDays
<1>6. InMonth(m, e) = s + a * Day + r BY <1>2, <1>4, <1>5 DEF InMonth
<1>7. MonthStart[m + 1] = s + l * Day BY <1>3, <1>5, MonthStarts
<1>8. a * Day \in Nat /\ a * Day + Day <= l * Day /\ l * Day \in Nat
  <2>1. (a + 1) * Day <= l * Day /\ l * Day \in Nat
    BY <1>1, <1>4, TimesMonotone
  <2>2. (a + 1) * Day = a * Day + Day /\ a * Day \in Nat BY <1>1
  <2> QED BY <2>1, <2>2
<1>9. PICK n \in Nat : n = s + a * Day + r BY <1>1, <1>8
<1>10. n % Day = r
  <2>1. n = (d + a) * Day + r /\ d + a \in Nat BY <1>1, <1>5, <1>9
  <2>2. ((d + a) * Day + r) % Day = r BY <1>1, <2>1, RemainderOf
  <2> QED BY <2>1, <2>2
<1>11. (n - s) \div Day = a
  <2>1. n - s = a * Day + r BY <1>8, <1>9
  <2>2. (a * Day + r) \div Day = a BY <1>1, RemainderOf
  <2> QED BY <2>1, <2>2
<1>12. s <= n /\ n < s + l * Day BY <1>1, <1>8, <1>9
<1>13. InMonth(m, e) = n BY <1>6, <1>9
<1> QED BY <1>2, <1>4, <1>5, <1>7, <1>10, <1>11, <1>12, <1>13

\* A slot of a monthly entry is the entry's time in its month.
LEMMA MonthlySlot ==
  ASSUME NEW e \in Schedules, e.freq = "monthly", NEW x \in Nat, IsSlot(e, x)
  PROVE  x = InMonth(MonthOf(x), e)
<1>1. Day \in Nat \ {0} BY Units
<1>2. PICK r \in 0 .. Day - 1 : r = e.at BY InTheDay
<1>3. PICK m \in Nat : m = MonthOf(x) /\ MonthStart[m] <= x BY MonthOfIs
<1>4. PICK s \in Nat, d \in Nat : s = MonthStart[m] /\ s = d * Day /\ s <= x
  BY <1>3, MonthStarts, MonthsStartDays
<1>5. x % Day = r /\ (x - s) \div Day + 1 = AtMost(e.dom, MonthLength(m))
  BY <1>2, <1>3, <1>4 DEF IsSlot
<1>6. PICK a \in Nat, b \in 0 .. Day - 1 : x - s = a * Day + b /\ a = (x - s) \div Day
  <2>1. x - s \in Nat BY <1>4
  <2> QED BY <1>1, <2>1, Remainder
<1>7. b = r
  <2>1. a * Day \in Nat BY <1>1
  <2>2. x = (d + a) * Day + b /\ d + a \in Nat BY <1>1, <1>4, <1>6, <2>1
  <2>3. ((d + a) * Day + b) % Day = b BY <1>1, <2>2, RemainderOf
  <2> QED BY <1>5, <2>2, <2>3
<1>8. InMonth(m, e) = s + (AtMost(e.dom, MonthLength(m)) - 1) * Day + r
  BY <1>2, <1>4 DEF InMonth
<1>9. AtMost(e.dom, MonthLength(m)) - 1 = a BY <1>5, <1>6
<1>10. x = s + a * Day + r
  <2>1. a * Day \in Nat BY <1>1
  <2> QED BY <1>4, <1>6, <1>7, <2>1
<1> QED BY <1>3, <1>8, <1>9, <1>10

LEMMA MonthlyIsNext ==
  ASSUME NEW e \in Schedules, e.freq = "monthly", NEW t \in Nat
  PROVE  IsNext(e, t, NextOccurrence(e, t))
<1>1. PICK m \in Nat : /\ m = MonthOf(t)
                       /\ MonthStart[m] <= t /\ t < MonthStart[m + 1]
  BY MonthOfIs
<1> DEFINE S == {k \in m .. m + 13 : InMonth(k, e) > t}
<1>2. m + 1 \in S
  <2>1. m + 1 \in Nat /\ m + 1 \in m .. m + 13 OBVIOUS
  <2>2. MonthStart[m + 1] <= InMonth(m + 1, e) /\ InMonth(m + 1, e) \in Nat
    BY <2>1, InMonthIs
  <2>3. InMonth(m + 1, e) > t BY <1>1, <2>1, <2>2, MonthStarts
  <2> QED BY <2>1, <2>3
<1>3. PICK j \in S : \A k \in S : j <= k
  <2>1. S \in SUBSET Nat OBVIOUS
  <2> HIDE DEF S
  <2> QED BY <1>2, <2>1, LeastOf
<1>4. NextOccurrence(e, t) = InMonth(j, e)
  <2>1. \A y \in S : y \in Int OBVIOUS
  <2>2. \A z \in S : (\A y \in S : z <= y) => z = j BY <1>3, <2>1
  <2>3. Min(S) = CHOOSE z \in S : \A y \in S : z <= y BY DEF Min
  <2>4. NextOccurrence(e, t) = InMonth(Min(S), e) BY <1>1 DEF NextOccurrence
  <2>5. Min(S) = j
    <3> HIDE DEF S
    <3> QED BY <1>3, <2>2, <2>3
  <2> QED BY <2>4, <2>5
<1>5. j \in Nat /\ m <= j /\ j <= m + 13 /\ InMonth(j, e) > t OBVIOUS
<1>6. PICK n \in Nat : /\ n = InMonth(j, e) /\ n > t
                       /\ MonthStart[j] <= n /\ n < MonthStart[j + 1] /\ n % Day = e.at
                       /\ (n - MonthStart[j]) \div Day + 1 = AtMost(e.dom, MonthLength(j))
  BY <1>5, InMonthIs
<1>7. IsSlot(e, n)
  <2>1. MonthOf(n) = j BY <1>5, <1>6, MonthOfIs
  <2> QED BY <1>6, <2>1 DEF IsSlot
<1>8. ASSUME NEW x \in t + 1 .. n - 1, IsSlot(e, x) PROVE FALSE
  <2>1. x \in Nat /\ t < x /\ x < n BY <1>6
  <2>2. PICK k \in Nat : /\ k = MonthOf(x)
                         /\ MonthStart[k] <= x /\ x < MonthStart[k + 1]
    BY <2>1, MonthOfIs
  <2>3. x = InMonth(k, e) BY <1>8, <2>1, <2>2, MonthlySlot
  <2>4. /\ MonthStart[k] \in Nat /\ MonthStart[k + 1] \in Nat /\ MonthStart[m] \in Nat
        /\ MonthStart[j] \in Nat /\ MonthStart[j + 1] \in Nat
    BY <1>5, <2>2, MonthStarts
  <2>5. m <= k
    <3> SUFFICES ASSUME k < m PROVE FALSE BY <2>2
    <3>1. MonthStart[k + 1] <= MonthStart[m] BY <2>2, MonthsInOrder
    <3> QED BY <1>1, <2>1, <2>2, <2>4, <3>1
  <2>6. k <= j
    <3> SUFFICES ASSUME j < k PROVE FALSE BY <1>5, <2>2
    <3>1. MonthStart[j + 1] <= MonthStart[k] BY <1>5, <2>2, MonthsInOrder
    <3> QED BY <1>6, <2>1, <2>2, <2>4, <3>1
  <2>7. k \in S BY <1>5, <2>1, <2>2, <2>3, <2>5, <2>6
  <2>8. k = j BY <1>3, <1>5, <2>2, <2>6, <2>7
  <2> QED BY <1>6, <2>1, <2>3, <2>8
<1> QED BY <1>4, <1>6, <1>7, <1>8 DEF IsNext

\* The next occurrence is the first slot after, whatever the schedule.
LEMMA OccurrenceIsNext ==
  ASSUME NEW e \in Schedules, NEW t \in Nat
  PROVE  IsNext(e, t, NextOccurrence(e, t))
<1>1. e.freq \in {"once", "hourly", "daily", "weekly", "monthly"} BY DocketAssumption
<1> QED
  BY <1>1, OnceIsNext, HourlyIsNext, DailyIsNext, WeeklyIsNext, MonthlyIsNext

-----------------------------------------------------------------------------
(* _after_the_consumed_slot.                                               *)

\* One step of the loop: the next slot, unless there is none or it is to come.
Advance(e, upto, last) ==
    IF last = NoTime \/ last > upto THEN last ELSE NextOccurrence(e, last)

LEMMA CatchUpSteps ==
  ASSUME NEW e \in Schedules, NEW slot \in Nat, NEW upto \in Nat
  PROVE  \E c \in [0 .. MaxCatchupSteps -> Nat] :
            /\ c[0] = NextOccurrence(e, slot)
            /\ \A k \in 0 .. MaxCatchupSteps : k # 0 => c[k] = Advance(e, upto, c[k - 1])
            /\ CatchUp(e, slot, upto) = c[MaxCatchupSteps]
<1> DEFINE b == NextOccurrence(e, slot)
           g == [x \in Nat \X Nat |-> Advance(e, upto, x[2])]
           Q(f) == f = [k \in 0 .. MaxCatchupSteps |->
                          IF k = 0 THEN NextOccurrence(e, slot)
                          ELSE LET last == f[k - 1]
                               IN  IF last = NoTime \/ last > upto THEN last
                                   ELSE NextOccurrence(e, last)]
<1>1. b \in Nat BY OccurrenceIsNext DEF IsNext
<1>2. g \in [Nat \X Nat -> Nat]
  <2> SUFFICES ASSUME NEW x \in Nat \X Nat PROVE Advance(e, upto, x[2]) \in Nat
    OBVIOUS
  <2>1. NextOccurrence(e, x[2]) \in Nat BY OccurrenceIsNext DEF IsNext
  <2> QED BY <2>1 DEF Advance
<1>3. MaxCatchupSteps \in Nat BY DocketAssumption
<1>4. PICK c \in [0 .. MaxCatchupSteps -> Nat] : Unfolds(0 .. MaxCatchupSteps, b, g, c)
  <2> HIDE DEF b, g
  <2> QED BY <1>1, <1>2, <1>3, UnfoldsOnPrefix
<1>5. ASSUME NEW k \in 0 .. MaxCatchupSteps, k # 0
      PROVE  c[k] = Advance(e, upto, c[k - 1])
  <2>1. k - 1 \in 0 .. MaxCatchupSteps /\ k \in Nat BY <1>3, <1>5
  <2>2. <<k, c[k - 1]>> \in Nat \X Nat BY <2>1
  <2>3. c[k] = g[<<k, c[k - 1]>>]
    <3> HIDE DEF g, b
    <3> QED BY <1>4, <1>5 DEF Unfolds
  <2> QED BY <2>2, <2>3
<1>6. c[0] = b
  <2> HIDE DEF g, b
  <2> QED BY <1>3, <1>4 DEF Unfolds
<1>7. Q(c) BY <1>5, <1>6 DEF Advance
<1>8. ASSUME NEW f, Q(f) PROVE f = c
  <2> DEFINE T == {k \in Nat : k <= MaxCatchupSteps => f[k] = c[k]}
  <2>1. 0 \in T BY <1>3, <1>6, <1>8
  <2>2. ASSUME NEW k \in Nat, k \in T PROVE k + 1 \in T
    <3> SUFFICES ASSUME k + 1 <= MaxCatchupSteps PROVE f[k + 1] = c[k + 1] OBVIOUS
    <3>1. /\ k + 1 \in 0 .. MaxCatchupSteps /\ k + 1 # 0 /\ (k + 1) - 1 = k
          /\ k <= MaxCatchupSteps
      BY <1>3
    <3>2. f[k] = c[k] BY <2>2, <3>1
    <3>3. f[k + 1] = Advance(e, upto, f[k]) BY <1>8, <3>1 DEF Advance
    <3>4. c[k + 1] = Advance(e, upto, c[k]) BY <1>5, <3>1
    <3> QED BY <3>2, <3>3, <3>4
  <2>3. T = Nat
    <3>1. T \in SUBSET Nat OBVIOUS
    <3> HIDE DEF T, Q
    <3> QED BY <2>1, <2>2, <3>1, SetInduction
  <2>4. \A k \in 0 .. MaxCatchupSteps : f[k] = c[k] BY <1>3, <2>3
  <2>5. f = [k \in 0 .. MaxCatchupSteps |-> f[k]] BY <1>8
  <2> HIDE DEF Q, T
  <2> QED BY <2>4, <2>5
<1>9. CatchUp(e, slot, upto) = (CHOOSE f : Q(f))[MaxCatchupSteps] BY DEF CatchUp
<1>10. (CHOOSE f : Q(f)) = c
  <2>1. Q(CHOOSE f : Q(f))
    <3> HIDE DEF Q
    <3> QED BY <1>7
  <2> HIDE DEF Q
  <2> QED BY <1>8, <2>1
<1> HIDE DEF Q, g
<1> QED BY <1>5, <1>6, <1>9, <1>10

\* Whatever the time, the entry moves on.
LEMMA CatchUpMovesOn ==
  ASSUME NEW e \in Schedules, NEW slot \in Nat, NEW upto \in Nat
  PROVE  /\ CatchUp(e, slot, upto) \in Nat
         /\ CatchUp(e, slot, upto) # NoTime => CatchUp(e, slot, upto) > slot
<1>1. PICK c \in [0 .. MaxCatchupSteps -> Nat] :
         /\ c[0] = NextOccurrence(e, slot)
         /\ \A k \in 0 .. MaxCatchupSteps : k # 0 => c[k] = Advance(e, upto, c[k - 1])
         /\ CatchUp(e, slot, upto) = c[MaxCatchupSteps]
  BY CatchUpSteps
<1>2. MaxCatchupSteps \in Nat BY DocketAssumption
<1> DEFINE T == {k \in Nat : k <= MaxCatchupSteps => c[k] = NoTime \/ c[k] > slot}
<1>3. 0 \in T BY <1>1, OccurrenceIsNext DEF IsNext
<1>4. ASSUME NEW k \in Nat, k \in T PROVE k + 1 \in T
  <2> SUFFICES ASSUME k + 1 <= MaxCatchupSteps PROVE c[k + 1] = NoTime \/ c[k + 1] > slot
    OBVIOUS
  <2>1. k + 1 \in 0 .. MaxCatchupSteps /\ k + 1 # 0 /\ (k + 1) - 1 = k /\ k <= MaxCatchupSteps
        /\ k \in 0 .. MaxCatchupSteps
    BY <1>2
  <2>2. PICK l \in Nat : l = c[k] /\ (l = NoTime \/ l > slot) BY <1>4, <2>1
  <2>3. c[k + 1] = Advance(e, upto, l) BY <1>1, <2>1, <2>2
  <2>4. IsNext(e, l, NextOccurrence(e, l)) BY OccurrenceIsNext
  <2> QED BY <2>2, <2>3, <2>4 DEF Advance, IsNext, NoTime
<1>5. T = Nat
  <2>1. T \in SUBSET Nat OBVIOUS
  <2> HIDE DEF T
  <2> QED BY <1>3, <1>4, <2>1, SetInduction
<1>6. MaxCatchupSteps \in T BY <1>2, <1>5
<1>7. MaxCatchupSteps \in 0 .. MaxCatchupSteps BY <1>2
<1> QED BY <1>1, <1>6, <1>7

\* The slots of an hourly, daily, weekly or monthly entry are hours apart.
LEMMA SlotsAreHoursApart ==
  ASSUME NEW e \in Schedules, e.freq # "once",
         NEW s \in Nat, IsSlot(e, s), NEW t \in Nat, IsSlot(e, t), s < t
  PROVE  s + Hour <= t
<1>1. Hour \in Nat \ {0} /\ Day \in Nat \ {0} /\ HoursPerDay \in Nat \ {0}
      /\ Day = HoursPerDay * Hour
  BY Units
<1>2. e.freq \in {"once", "hourly", "daily", "weekly", "monthly"} BY DocketAssumption
<1>3. CASE e.freq = "hourly"
  <2>1. s % Hour = t % Hour BY <1>3 DEF IsSlot
  <2> QED BY <1>1, <2>1, SameRemainder
<1>4. CASE e.freq # "hourly"
  <2>1. s % Day = t % Day BY <1>2, <1>4 DEF IsSlot
  <2>2. s + Day <= t BY <1>1, <2>1, SameRemainder
  <2>3. 1 * Hour <= HoursPerDay * Hour BY <1>1, TimesMonotone
  <2> QED BY <1>1, <2>2, <2>3
<1> QED BY <1>3, <1>4

\* As long as the steps suffice, it is the first slot after both.
LEMMA CatchUpIsNext ==
  ASSUME NEW e \in Schedules, NEW slot \in Nat, IsSlot(e, slot), NEW upto \in Nat,
         upto <= slot + MaxCatchupSteps * Hour
  PROVE  IsNext(e, AtLeast(slot, upto), CatchUp(e, slot, upto))
<1> DEFINE Far(k, x) == /\ x > slot /\ IsSlot(e, x)
                        /\ x > upto \/ x > slot + k * Hour
                        /\ \A y \in AtLeast(slot, upto) + 1 .. x - 1 : ~IsSlot(e, y)
<1>1. PICK c \in [0 .. MaxCatchupSteps -> Nat] :
         /\ c[0] = NextOccurrence(e, slot)
         /\ \A k \in 0 .. MaxCatchupSteps : k # 0 => c[k] = Advance(e, upto, c[k - 1])
         /\ CatchUp(e, slot, upto) = c[MaxCatchupSteps]
  BY CatchUpSteps
<1>2. MaxCatchupSteps \in Nat /\ Hour \in Nat \ {0} BY DocketAssumption, Units
<1>3. PICK last \in Nat : last = AtLeast(slot, upto) /\ last >= slot /\ last >= upto
                          /\ (last = slot \/ last = upto)
  BY DEF AtLeast
<1>4. ASSUME NEW s \in Nat, slot <= s, s <= last,
             NEW n \in Nat, n # NoTime, n = NextOccurrence(e, s)
      PROVE  /\ n > s /\ IsSlot(e, n)
             /\ \A y \in last + 1 .. n - 1 : ~IsSlot(e, y)
  <2>1. n > s /\ IsSlot(e, n) /\ \A x \in s + 1 .. n - 1 : ~IsSlot(e, x)
    BY <1>4, OccurrenceIsNext DEF IsNext
  <2>2. ASSUME NEW y \in last + 1 .. n - 1 PROVE y \in s + 1 .. n - 1 BY <1>4
  <2> QED BY <2>1, <2>2
<1>5. \A s \in Nat : NextOccurrence(e, s) \in Nat BY OccurrenceIsNext DEF IsNext
<1> DEFINE T == {k \in Nat : k <= MaxCatchupSteps => c[k] = NoTime \/ Far(k, c[k])}
<1>6. 0 \in T
  <2>1. c[0] \in Nat /\ c[0] = NextOccurrence(e, slot) BY <1>1, <1>5
  <2>2. 0 * Hour = 0 BY <1>2
  <2>3. c[0] = NoTime \/ Far(0, c[0]) BY <1>3, <1>4, <2>1, <2>2
  <2> QED BY <2>3
<1>7. ASSUME NEW k \in Nat, k \in T PROVE k + 1 \in T
  <2> SUFFICES ASSUME k + 1 <= MaxCatchupSteps
               PROVE  c[k + 1] = NoTime \/ Far(k + 1, c[k + 1])
    OBVIOUS
  <2>1. k + 1 \in 0 .. MaxCatchupSteps /\ k + 1 # 0 /\ (k + 1) - 1 = k
        /\ k <= MaxCatchupSteps /\ k \in 0 .. MaxCatchupSteps
    BY <1>2
  <2>2. PICK l \in Nat : l = c[k] /\ (l = NoTime \/ Far(k, l)) BY <1>7, <2>1
  <2>3. c[k + 1] = Advance(e, upto, l) BY <1>1, <2>1, <2>2
  <2>4. CASE l = NoTime BY <2>3, <2>4 DEF Advance
  <2>5. CASE l # NoTime /\ l > upto
    <3>1. c[k + 1] = l BY <2>3, <2>5 DEF Advance
    <3> QED BY <2>2, <2>5, <3>1
  <2>6. CASE l # NoTime /\ l <= upto
    <3>1. PICK n \in Nat : n = NextOccurrence(e, l) BY <1>5
    <3>2. c[k + 1] = n BY <2>3, <2>6, <3>1 DEF Advance
    <3> SUFFICES ASSUME n # NoTime PROVE Far(k + 1, n) BY <3>2
    <3>3. k * Hour \in Nat /\ (k + 1) * Hour = k * Hour + Hour BY <1>2
    <3>4. l > slot /\ IsSlot(e, l) /\ l > slot + k * Hour BY <2>2, <2>6, <3>3
    <3>5. /\ n > l /\ IsSlot(e, n)
          /\ \A y \in last + 1 .. n - 1 : ~IsSlot(e, y)
      BY <1>3, <1>4, <2>6, <3>1, <3>4
    <3>6. e.freq # "once"
      <4> SUFFICES ASSUME e.freq = "once" PROVE FALSE OBVIOUS
      <4>1. \A x : IsSlot(e, x) => x = e.start BY DEF IsSlot
      <4> QED BY <3>4, <4>1
    <3>7. l + Hour <= n BY <3>4, <3>5, <3>6, SlotsAreHoursApart
    <3>8. n > slot /\ n > slot + (k + 1) * Hour BY <1>2, <3>3, <3>4, <3>7
    <3> QED BY <1>3, <3>5, <3>8
  <2> QED BY <2>4, <2>5, <2>6
<1>8. T = Nat
  <2>1. T \in SUBSET Nat OBVIOUS
  <2> HIDE DEF T
  <2> QED BY <1>6, <1>7, <2>1, SetInduction
<1>9. PICK n \in Nat : n = c[MaxCatchupSteps] BY <1>2
<1>10. n = NoTime \/ Far(MaxCatchupSteps, n) BY <1>2, <1>8, <1>9
<1>11. ASSUME n # NoTime PROVE n > last /\ IsSlot(e, n)
                               /\ \A y \in last + 1 .. n - 1 : ~IsSlot(e, y)
  <2>1. MaxCatchupSteps * Hour \in Nat BY <1>2
  <2>2. n > slot /\ n > upto BY <1>10, <1>11, <2>1
  <2> QED BY <1>3, <1>10, <1>11, <2>2
<1> QED BY <1>1, <1>3, <1>9, <1>11 DEF IsNext

-----------------------------------------------------------------------------
(* A slot is fired once.                                                   *)

DocketTypes ==
    /\ clock \in Nat /\ schedule \in Schedules /\ nextRun \in Nat
    /\ pass.slot \in Nat /\ pass.now \in Nat
    /\ fired \in Nat /\ refired \in Nat /\ docketDeaths \in Nat

\* The runner's pass is of the entry as it is, and it re-arms after its slot;
\* the operator's advances from the slot that shows.
PassIsCurrent ==
    /\ fired <= clock /\ pass.now <= clock
    /\ pass.by = "runner" => fired <= pass.now
    /\ pass.by = "operator" => pass.slot = nextRun

\* An entry that shows a slot which was fired: its runner died between the files.
Stale == nextRun # NoTime /\ nextRun <= fired /\ pass.by # "runner"

FiredInv ==
    /\ DocketTypes
    /\ PassIsCurrent
    /\ refired + (IF Stale THEN 1 ELSE 0) <= docketDeaths

LEMMA FiredInit == DocketInit => FiredInv
<1> SUFFICES ASSUME DocketInit PROVE FiredInv OBVIOUS
<1>1. schedule \in Schedules /\ clock = 1 /\ pass = NoPass /\ fired = 0 /\ refired = 0
      /\ docketDeaths = 0 /\ nextRun = NextOccurrence(schedule, 1)
  BY DEF DocketInit, NoTime
<1>2. nextRun \in Nat BY <1>1, OccurrenceIsNext DEF IsNext
<1>3. pass.slot = 0 /\ pass.now = 0 /\ pass.by = "nobody" BY <1>1 DEF NoPass, NoTime
<1> QED BY <1>1, <1>2, <1>3 DEF FiredInv, DocketTypes, PassIsCurrent, Stale, NoTime

LEMMA FiredNext == FiredInv /\ [DocketNext]_docketVars => FiredInv'
<1> SUFFICES ASSUME FiredInv, [DocketNext]_docketVars PROVE FiredInv'
  OBVIOUS
<1> USE DEF FiredInv, DocketTypes, PassIsCurrent, Stale
<1>a. \A e \in Schedules, t \in Nat :
         LET n == NextOccurrence(e, t) IN n \in Nat /\ (n # NoTime => n > t)
  BY OccurrenceIsNext DEF IsNext
<1>b. Free => pass.by = "nobody" /\ pass.now \in Nat /\ pass.slot \in Nat
  BY DEF Free, NoPass
<1>1. CASE Tick BY <1>1 DEF Tick
<1>2. CASE RunDue
  <2>1. pass' = [by |-> "runner", slot |-> nextRun, now |-> clock] BY <1>2 DEF RunDue
  <2>2. pass'.by = "runner" /\ pass'.slot = nextRun /\ pass'.now = clock BY <2>1
  <2> QED BY <1>2, <1>b, <2>2 DEF RunDue, Due
<1>3. CASE RunDueInVain
  <2>1. nextRun' = NextOccurrence(schedule, clock) BY <1>3 DEF RunDueInVain, Rearm
  <2>2. nextRun' \in Nat /\ (nextRun' # NoTime => nextRun' > clock) BY <1>a, <2>1
  <2> QED BY <1>3, <1>b, <2>2 DEF RunDueInVain, Due
<1>4. CASE RunDueRecord
  <2>1. nextRun' = NextOccurrence(schedule, pass.now) BY <1>4 DEF RunDueRecord, Rearm
  <2>2. nextRun' \in Nat /\ (nextRun' # NoTime => nextRun' > pass.now) BY <1>a, <2>1
  <2>3. pass'.by = "nobody" /\ pass'.now = 0 /\ pass'.slot = 0
    BY <1>4 DEF RunDueRecord, NoPass, NoTime
  <2> QED BY <1>4, <2>2, <2>3 DEF RunDueRecord
<1>5. ASSUME NEW e \in Schedules, Save(e) PROVE FiredInv'
  <2>1. nextRun' = NextOccurrence(e, clock) BY <1>5 DEF Save
  <2>2. nextRun' \in Nat /\ (nextRun' # NoTime => nextRun' > clock) BY <1>a, <2>1
  <2> QED BY <1>5, <1>b, <2>2 DEF Save
<1>6. CASE Pause BY <1>6 DEF Pause
<1>7. CASE Resume
  <2>1. nextRun' = NextOccurrence(schedule, clock) BY <1>7 DEF Resume, Rearm
  <2>2. nextRun' \in Nat /\ (nextRun' # NoTime => nextRun' > clock) BY <1>a, <2>1
  <2> QED BY <1>7, <1>b, <2>2 DEF Resume
<1>8. CASE Cancel BY <1>8, <1>b DEF Cancel, NoTime
<1>9. CASE RunNow
  <2>1. pass' = [by |-> "operator", slot |-> nextRun, now |-> clock] BY <1>9 DEF RunNow
  <2>2. pass'.by = "operator" /\ pass'.slot = nextRun /\ pass'.now = clock BY <2>1
  <2> QED BY <1>9, <1>b, <2>2 DEF RunNow
<1>10. CASE RunNowRecord
  <2>1. pass'.by = "nobody" /\ pass'.now = 0 /\ pass'.slot = 0
    BY <1>10 DEF RunNowRecord, NoPass, NoTime
  <2>2. nextRun' \in Nat /\ (nextRun' # NoTime => nextRun' >= nextRun /\ nextRun # NoTime)
    <3>1. CASE paused \/ pass.slot = NoTime BY <1>10, <3>1 DEF RunNowRecord
    <3>2. CASE ~(paused \/ pass.slot = NoTime)
      <4>1. nextRun' = CatchUp(schedule, pass.slot, pass.now) /\ pass.slot = nextRun
        BY <1>10, <3>2 DEF RunNowRecord
      <4>2. schedule \in Schedules /\ pass.slot \in Nat /\ pass.now \in Nat OBVIOUS
      <4>3. /\ CatchUp(schedule, pass.slot, pass.now) \in Nat
            /\ CatchUp(schedule, pass.slot, pass.now) # NoTime =>
                  CatchUp(schedule, pass.slot, pass.now) > pass.slot
        BY <4>2, CatchUpMovesOn
      <4> QED BY <3>2, <4>1, <4>2, <4>3
    <3> QED BY <3>1, <3>2
  <2> QED BY <1>10, <2>1, <2>2 DEF RunNowRecord
<1>11. CASE DocketDies
  <2>1. pass'.by = "nobody" /\ pass'.now = 0 /\ pass'.slot = 0
    BY <1>11 DEF DocketDies, NoPass, NoTime
  <2>2. docketDeaths' = docketDeaths + 1
        /\ UNCHANGED <<clock, schedule, nextRun, fired, refired>>
    BY <1>11 DEF DocketDies
  <2> QED BY <2>1, <2>2
<1>12. CASE UNCHANGED docketVars BY <1>12 DEF docketVars
<1> QED
  BY <1>1, <1>2, <1>3, <1>4, <1>5, <1>6, <1>7, <1>8, <1>9, <1>10, <1>11, <1>12
  DEF DocketNext

\* The runner queues no slot twice but for its own deaths between the record
\* it drops and the entry it writes, one run for each, whatever the schedules,
\* the calendar and the operator do.
THEOREM SlotsFireOnce == DocketSpec => []SlotFiredOnce
<1>1. FiredInv => SlotFiredOnce
  BY DEF FiredInv, DocketTypes, SlotFiredOnce
<1> QED BY <1>1, FiredInit, FiredNext, PTL DEF DocketSpec

-----------------------------------------------------------------------------
(* An armed entry waits for the next slot.                                 *)

\* No entry is fired by hand so late that MAX_CATCHUP_STEPS hours have passed
\* since the slot it shows.
FiredInTime ==
    RunNow /\ ~paused /\ nextRun # NoTime => clock <= nextRun + MaxCatchupSteps * Hour

ArmedInv ==
    /\ FiredInv
    /\ armedAfter \in Nat
    /\ IsNext(schedule, armedAfter, nextRun)
    /\ pass.by = "operator" /\ ~paused /\ pass.slot # NoTime =>
          pass.now <= pass.slot + MaxCatchupSteps * Hour

LEMMA ArmedInit == DocketInit => ArmedInv
<1> SUFFICES ASSUME DocketInit PROVE ArmedInv OBVIOUS
<1>1. FiredInv BY FiredInit
<1>2. /\ schedule \in Schedules /\ pass.by = "nobody" /\ armedAfter = 1
      /\ nextRun = NextOccurrence(schedule, 1)
  BY DEF DocketInit, NoPass
<1>3. IsNext(schedule, 1, nextRun) BY <1>2, OccurrenceIsNext
<1> QED BY <1>1, <1>2, <1>3 DEF ArmedInv

LEMMA ArmedNext == ArmedInv /\ [DocketNext]_docketVars /\ [FiredInTime]_docketVars => ArmedInv'
<1> SUFFICES ASSUME ArmedInv, [DocketNext]_docketVars, [FiredInTime]_docketVars
             PROVE  ArmedInv'
  OBVIOUS
<1>a. FiredInv /\ FiredInv' BY FiredNext DEF ArmedInv
<1>b. /\ schedule \in Schedules /\ clock \in Nat /\ nextRun \in Nat
      /\ pass.slot \in Nat /\ pass.now \in Nat
      /\ (pass.by = "operator" => pass.slot = nextRun)
  BY <1>a DEF FiredInv, DocketTypes, PassIsCurrent
<1>c. Free => pass.by = "nobody" BY DEF Free, NoPass
<1>1. ASSUME UNCHANGED <<schedule, nextRun, armedAfter>>,
             pass'.by # "operator" \/ UNCHANGED <<pass, paused>> \/ paused'
      PROVE  ArmedInv'
  <2>1. IsNext(schedule, armedAfter, nextRun)' <=> IsNext(schedule, armedAfter, nextRun)
    BY <1>1 DEF IsNext, IsSlot
  <2> QED BY <1>1, <1>a, <2>1 DEF ArmedInv
<1>2. ASSUME schedule' \in Schedules, armedAfter' \in Nat, pass'.by # "operator",
             nextRun' = NextOccurrence(schedule', armedAfter')
      PROVE  ArmedInv'
  <2>1. PICK e, t, n : e = schedule' /\ t = armedAfter' /\ n = nextRun' OBVIOUS
  <2>2. IsNext(e, t, n) BY <1>2, <2>1, OccurrenceIsNext
  <2>3. IsNext(schedule, armedAfter, nextRun)' BY <2>1, <2>2 DEF IsNext, IsSlot
  <2> QED BY <1>2, <1>a, <2>3 DEF ArmedInv
<1>3. CASE Tick BY <1>1, <1>3 DEF Tick
<1>4. CASE RunDue
  <2>1. pass'.by = "runner" BY <1>4 DEF RunDue
  <2> QED BY <1>1, <1>4, <2>1 DEF RunDue
<1>5. CASE RunDueInVain BY <1>2, <1>5, <1>b, <1>c DEF RunDueInVain, Due, Rearm
<1>6. CASE RunDueRecord
  <2>1. pass'.by = "nobody" BY <1>6 DEF RunDueRecord, NoPass
  <2> QED BY <1>2, <1>6, <1>b, <2>1 DEF RunDueRecord, Rearm
<1>7. ASSUME NEW e \in Schedules, Save(e) PROVE ArmedInv'
  BY <1>2, <1>7, <1>b, <1>c DEF Save
<1>8. CASE Pause BY <1>1, <1>8, <1>c DEF Pause
<1>9. CASE Resume BY <1>2, <1>9, <1>b, <1>c DEF Resume, Rearm
<1>10. CASE Cancel
  <2>1. nextRun' = NoTime /\ pass'.by # "operator" /\ armedAfter' = armedAfter
    BY <1>10, <1>c DEF Cancel
  <2>2. IsNext(schedule, armedAfter, nextRun)' BY <2>1 DEF IsNext, NoTime
  <2> QED BY <1>a, <2>1, <2>2 DEF ArmedInv
<1>11. CASE RunNow
  <2>1. pass' = [by |-> "operator", slot |-> nextRun, now |-> clock]
        /\ UNCHANGED <<schedule, nextRun, armedAfter, paused>>
    BY <1>11 DEF RunNow
  <2>2. pass'.slot = nextRun /\ pass'.now = clock /\ pass # pass'
    BY <1>11, <1>c, <2>1 DEF RunNow
  <2>3. ~paused /\ nextRun # NoTime => clock <= nextRun + MaxCatchupSteps * Hour
    BY <1>11, <2>2 DEF FiredInTime, docketVars
  <2>4. IsNext(schedule, armedAfter, nextRun)' <=> IsNext(schedule, armedAfter, nextRun)
    BY <2>1 DEF IsNext, IsSlot
  <2> QED BY <1>a, <2>1, <2>2, <2>3, <2>4 DEF ArmedInv
<1>12. CASE RunNowRecord
  <2>1. pass'.by = "nobody" BY <1>12 DEF RunNowRecord, NoPass
  <2>2. CASE paused \/ pass.slot = NoTime BY <1>1, <1>12, <2>1, <2>2 DEF RunNowRecord
  <2>3. CASE ~(paused \/ pass.slot = NoTime)
    <3>1. /\ pass.by = "operator" /\ schedule' = schedule
          /\ nextRun' = CatchUp(schedule, pass.slot, pass.now)
          /\ armedAfter' = AtLeast(pass.slot, pass.now)
      BY <1>12, <2>3 DEF RunNowRecord
    <3>2. pass.now <= pass.slot + MaxCatchupSteps * Hour BY <2>3, <3>1 DEF ArmedInv
    <3>3. IsSlot(schedule, pass.slot) BY <1>b, <2>3, <3>1 DEF ArmedInv, IsNext
    <3>4. IsNext(schedule, AtLeast(pass.slot, pass.now),
                 CatchUp(schedule, pass.slot, pass.now))
      BY <1>b, <3>2, <3>3, CatchUpIsNext
    <3>5. PICK e, t, n : e = schedule' /\ t = armedAfter' /\ n = nextRun' OBVIOUS
    <3>6. IsNext(e, t, n) BY <3>1, <3>4, <3>5
    <3>7. IsNext(schedule, armedAfter, nextRun)' BY <3>5, <3>6 DEF IsNext, IsSlot
    <3>8. armedAfter' \in Nat BY <1>b, <3>1 DEF AtLeast
    <3> QED BY <1>a, <2>1, <3>7, <3>8 DEF ArmedInv
  <2> QED BY <2>2, <2>3
<1>13. CASE DocketDies
  <2>1. pass'.by = "nobody" BY <1>13 DEF DocketDies, NoPass
  <2> QED BY <1>1, <1>13, <2>1 DEF DocketDies
<1>14. CASE UNCHANGED docketVars BY <1>1, <1>14 DEF docketVars
<1> QED
  BY <1>3, <1>4, <1>5, <1>6, <1>7, <1>8, <1>9, <1>10, <1>11, <1>12, <1>13, <1>14
  DEF DocketNext

\* An armed entry waits for the first slot of its schedule after it was armed,
\* for every calendar and schedule, if nobody fires by hand an entry that is
\* overdue by more than MAX_CATCHUP_STEPS hours.
THEOREM NextIsNext ==
  DocketSpec /\ [][FiredInTime]_docketVars => []NextRunIsTheNextSlot
<1>1. ArmedInv => NextRunIsTheNextSlot
  BY DEF ArmedInv, IsNext, NextRunIsTheNextSlot
<1> QED BY <1>1, ArmedInit, ArmedNext, PTL DEF DocketSpec

-----------------------------------------------------------------------------
(***************************************************************************)
(* LimitNotice, for every calendar, every zone and every notice.           *)
(***************************************************************************)

LEMMA LimitUnits ==
  /\ ADay \in Nat \ {0} /\ AMonth \in Nat \ {0} /\ AYear \in Nat \ {0}
  /\ DaysAMonth \in Nat \ {0} /\ MonthsAYear \in Nat \ {0}
  /\ AMonth = DaysAMonth * ADay /\ AYear = MonthsAYear * AMonth
<1>1. HoursADay \in Nat \ {0} /\ DaysAMonth \in Nat \ {0} /\ MonthsAYear \in Nat \ {0}
  BY LimitAssumption
<1>2. ASSUME NEW a \in Nat \ {0}, NEW b \in Nat \ {0}
      PROVE  a * b \in Nat \ {0} /\ a * b = b * a
  OBVIOUS
<1> QED BY <1>1, <1>2 DEF ADay, AMonth, AYear

\* A number below a * b as a digit and a rest.
LEMMA DigitAndRest ==
  ASSUME NEW a \in Nat \ {0}, NEW b \in Nat \ {0}, NEW i \in 0 .. b - 1, NEW r \in 0 .. a - 1
  PROVE  i * a + r \in 0 .. b * a - 1 /\ i * a \in Nat
<1>1. (i + 1) * a <= b * a /\ b * a \in Nat
  <2>1. i + 1 \in Nat /\ i + 1 <= b OBVIOUS
  <2> QED BY <2>1, TimesMonotone
<1>2. (i + 1) * a = i * a + a /\ i * a \in Nat OBVIOUS
<1> QED BY <1>1, <1>2

LEMMA InstantIs ==
  ASSUME NEW y \in Nat, NEW m \in YearMonths, NEW d \in MonthDays, NEW h \in DayHours
  PROVE  \E p \in 0 .. AYear - 1 :
            p = m * AMonth + d * ADay + h /\ Instant(y, m, d, h) = y * AYear + p
<1>1. d * ADay + h \in 0 .. AMonth - 1
  BY LimitUnits, DigitAndRest DEF MonthDays, DayHours, ADay
<1>2. PICK r \in 0 .. AMonth - 1 : r = d * ADay + h BY <1>1
<1>3. m * AMonth + r \in 0 .. AYear - 1 /\ m * AMonth \in Nat
  BY LimitUnits, DigitAndRest DEF YearMonths
<1>4. d * ADay \in Nat /\ h \in Nat /\ y * AYear \in Nat
  BY LimitUnits DEF MonthDays, DayHours
<1>5. m * AMonth + d * ADay + h = m * AMonth + r BY <1>2, <1>3, <1>4
<1>6. Instant(y, m, d, h) = y * AYear + (m * AMonth + r)
  BY <1>2, <1>3, <1>4 DEF Instant
<1> QED BY <1>3, <1>5, <1>6

\* Every time is an instant of the calendar.
LEMMA EveryInstant ==
  ASSUME NEW t \in Nat
  PROVE  /\ t \div AYear \in Nat /\ MonthAt(t) \in YearMonths
         /\ DayAt(t) \in MonthDays /\ HourAt(t) \in DayHours
         /\ t = Instant(t \div AYear, MonthAt(t), DayAt(t), HourAt(t))
<1>0. ADay = HoursADay BY DEF ADay
<1>1. PICK a \in Nat, h \in 0 .. ADay - 1 :
         t = a * ADay + h /\ a = t \div ADay /\ h = t % ADay
  BY LimitUnits, Remainder
<1>2. PICK b \in Nat, d \in 0 .. DaysAMonth - 1 :
         a = b * DaysAMonth + d /\ d = a % DaysAMonth
  BY LimitUnits, Remainder
<1>3. PICK y \in Nat, m \in 0 .. MonthsAYear - 1 :
         b = y * MonthsAYear + m /\ m = b % MonthsAYear
  BY LimitUnits, Remainder
<1>4. \A i \in Nat, j \in Nat, k \in Nat, l \in Nat : (i * j + k) * l = i * (j * l) + k * l
  OBVIOUS
<1>5. t = b * AMonth + (d * ADay + h) /\ d * ADay + h \in 0 .. AMonth - 1
  <2>1. (b * DaysAMonth + d) * ADay = b * (DaysAMonth * ADay) + d * ADay
    BY <1>4, LimitUnits
  <2>2. a * ADay = b * AMonth + d * ADay BY <1>2, <2>1, LimitUnits
  <2>3. b * AMonth \in Nat /\ d * ADay \in Nat BY LimitUnits
  <2>4. d * ADay + h \in 0 .. AMonth - 1 BY LimitUnits, DigitAndRest
  <2> QED BY <1>1, <2>2, <2>3, <2>4
<1>6. t \div AMonth = b
  <2>1. PICK r \in 0 .. AMonth - 1 : r = d * ADay + h BY <1>5
  <2>2. (b * AMonth + r) \div AMonth = b BY LimitUnits, RemainderOf
  <2> QED BY <1>5, <2>1, <2>2
<1>7. b * AMonth = y * AYear + m * AMonth
  <2>1. b * AMonth = y * (MonthsAYear * AMonth) + m * AMonth BY <1>3, <1>4, LimitUnits
  <2> QED BY <2>1, LimitUnits
<1>8. PICK p \in 0 .. AYear - 1 :
         p = m * AMonth + d * ADay + h /\ Instant(y, m, d, h) = y * AYear + p
  BY <1>0, InstantIs DEF YearMonths, MonthDays, DayHours
<1>9. t = y * AYear + p
  <2>1. m * AMonth \in Nat /\ d * ADay \in Nat /\ y * AYear \in Nat BY LimitUnits
  <2> QED BY <1>5, <1>7, <1>8, <2>1
<1>10. t \div AYear = y
  <2>1. (y * AYear + p) \div AYear = y BY LimitUnits, RemainderOf
  <2> QED BY <1>9, <2>1
<1>11. MonthAt(t) = m /\ DayAt(t) = d /\ HourAt(t) = h
  BY <1>1, <1>2, <1>3, <1>6 DEF MonthAt, DayAt, HourAt
<1> QED BY <1>0, <1>8, <1>9, <1>10, <1>11 DEF YearMonths, MonthDays, DayHours

\* The month, the day and the hour that a clock shows are a phase of the year.
LEMMA YearPhase ==
  ASSUME NEW t \in Nat, NEW m \in YearMonths, NEW d \in MonthDays, NEW h \in DayHours
  PROVE  (MonthAt(t) = m /\ DayAt(t) = d /\ HourAt(t) = h)
            <=> t % AYear = m * AMonth + d * ADay + h
<1>1. PICK y \in Nat, i \in YearMonths, j \in MonthDays, k \in DayHours :
         /\ i = MonthAt(t) /\ j = DayAt(t) /\ k = HourAt(t) /\ t = Instant(y, i, j, k)
  BY EveryInstant
<1>2. PICK q \in 0 .. AYear - 1 : q = i * AMonth + j * ADay + k /\ t = y * AYear + q
  BY <1>1, InstantIs
<1>3. t % AYear = q
  <2>1. (y * AYear + q) % AYear = q BY LimitUnits, RemainderOf
  <2> QED BY <1>2, <2>1
<1>4. ASSUME i * AMonth + j * ADay + k = m * AMonth + d * ADay + h
      PROVE  i = m /\ j = d /\ k = h
  <2>0. /\ i \in Nat /\ m \in Nat /\ j \in 0 .. DaysAMonth - 1 /\ d \in 0 .. DaysAMonth - 1
        /\ k \in 0 .. ADay - 1 /\ h \in 0 .. ADay - 1
    BY LimitUnits DEF YearMonths, MonthDays, DayHours, ADay
  <2>1. PICK r \in 0 .. AMonth - 1 : r = j * ADay + k BY <2>0, LimitUnits, DigitAndRest
  <2>2. PICK s \in 0 .. AMonth - 1 : s = d * ADay + h BY <2>0, LimitUnits, DigitAndRest
  <2>3. /\ i * AMonth \in Nat /\ m * AMonth \in Nat /\ j * ADay \in Nat /\ d * ADay \in Nat
    BY <2>0, LimitUnits
  <2>4. i * AMonth + r = m * AMonth + s BY <1>4, <2>0, <2>1, <2>2, <2>3
  <2>5. AMonth \in Nat \ {0} /\ ADay \in Nat \ {0} /\ j \in Nat /\ d \in Nat
    BY <2>0, LimitUnits
  <2>6. i = m /\ r = s BY <2>0, <2>4, <2>5, DigitsAreUnique
  <2>7. j * ADay + k = d * ADay + h BY <2>1, <2>2, <2>6
  <2>8. j = d /\ k = h BY <2>0, <2>5, <2>7, DigitsAreUnique
  <2> QED BY <2>6, <2>8
<1> QED BY <1>1, <1>2, <1>3, <1>4

\* A date that is past comes before the day, any other one does not.
LEMMA PastIsBefore ==
  ASSUME NEW m \in YearMonths, NEW d \in MonthDays, NEW h \in DayHours,
         NEW i \in YearMonths, NEW j \in MonthDays
  PROVE  (m < i \/ (m = i /\ d < j))
            <=> m * AMonth + d * ADay + h < i * AMonth + j * ADay
<1>0. /\ i \in Nat /\ m \in Nat /\ j \in 0 .. DaysAMonth - 1 /\ d \in 0 .. DaysAMonth - 1
      /\ 0 \in 0 .. ADay - 1 /\ h \in 0 .. ADay - 1
  BY LimitUnits DEF YearMonths, MonthDays, DayHours, ADay
<1>1. /\ i * AMonth \in Nat /\ m * AMonth \in Nat /\ j * ADay \in Nat /\ d * ADay \in Nat
  BY <1>0, LimitUnits
<1>2. j * ADay + 0 \in 0 .. AMonth - 1 /\ d * ADay + h \in 0 .. AMonth - 1
  BY <1>0, LimitUnits, DigitAndRest
<1>3. ASSUME NEW a \in Nat, NEW b \in Nat, a < b, NEW u \in Nat \ {0}
      PROVE  a * u + u <= b * u
  <2>1. (a + 1) * u <= b * u BY <1>3, TimesMonotone
  <2> QED BY <2>1
<1>4. CASE m < i
  <2>1. m * AMonth + AMonth <= i * AMonth BY <1>0, <1>3, <1>4, LimitUnits
  <2> QED BY <1>0, <1>1, <1>2, <1>4, <2>1, LimitUnits
<1>5. CASE i < m
  <2>1. i * AMonth + AMonth <= m * AMonth BY <1>0, <1>3, <1>5, LimitUnits
  <2> QED BY <1>0, <1>1, <1>2, <1>5, <2>1, LimitUnits
<1>6. CASE m = i /\ d < j
  <2>1. d * ADay + ADay <= j * ADay BY <1>0, <1>3, <1>6, LimitUnits
  <2> QED BY <1>0, <1>1, <1>6, <2>1, LimitUnits
<1>7. CASE m = i /\ d = j BY <1>0, <1>1, <1>7, LimitUnits
<1>8. CASE m = i /\ j < d
  <2>1. j * ADay + ADay <= d * ADay BY <1>0, <1>3, <1>8, LimitUnits
  <2> QED BY <1>0, <1>1, <1>8, <2>1, LimitUnits
<1>9. d \in Nat /\ j \in Nat BY <1>0, LimitUnits
<1> QED BY <1>0, <1>4, <1>5, <1>6, <1>7, <1>8, <1>9

NoticeOK(n) ==
    /\ n.month \in YearMonths /\ n.day \in MonthDays
    /\ ClockOf(n) \in DayHours /\ ZoneOf(n) \in Int /\ n.hours \in 1 .. 2

LEMMA NoticesAreOK ==
  ASSUME NEW n \in Notices, NEW t \in NowTimes
  PROVE  /\ NoticeOK(n) /\ t \in Nat /\ t + ZoneOf(n) \in Nat
         /\ t >= HoursADay /\ ZoneOf(n) < HoursADay
<1>1. /\ n.month \in YearMonths /\ n.day \in MonthDays /\ n.hours \in 1 .. 2
      /\ n.clock \in DayHours \cup {NoClock} /\ n.zone \in NoticeZones \cup {NoZone}
  BY DEF Notices
<1>2. ClockOf(n) \in DayHours BY <1>1, LimitAssumption DEF ClockOf, DayHours
<1>3. ZoneOf(n) \in NoticeZones \cup {HostZone} BY <1>1 DEF ZoneOf
<1>4. /\ ZoneOf(n) \in Int /\ t \in Nat /\ t + ZoneOf(n) >= 0
      /\ t >= HoursADay /\ ZoneOf(n) < HoursADay
  <2>1. HoursADay \in Nat /\ t \in Nat /\ t >= HoursADay
    BY LimitAssumption
  <2>2. PICK z \in NoticeZones \cup {HostZone} : z = ZoneOf(n)
    BY <1>3
  <2>3. z \in Int /\ -HoursADay < z /\ z < HoursADay
    BY LimitAssumption
  <2> QED BY <2>1, <2>2, <2>3
<1> QED BY <1>1, <1>2, <1>4 DEF NoticeOK

LEMMA MinIs ==
  ASSUME NEW T \in SUBSET Int, NEW x \in T, \A y \in T : x <= y
  PROVE  Min(T) = x
<1>1. \A z \in T : (\A y \in T : z <= y) => z = x
  <2> SUFFICES ASSUME NEW z \in T, \A y \in T : z <= y PROVE z = x OBVIOUS
  <2>1. z <= x /\ x <= z /\ z \in Int /\ x \in Int OBVIOUS
  <2> QED BY <2>1
<1> QED BY <1>1 DEF Min

\* A time of day is today's or tomorrow's, the first to come.
LEMMA ClockIsFirst ==
  ASSUME NEW n \in Notices, n.form = "clock", NEW local \in Nat, ClockOf(n) \in DayHours
  PROVE  ClockAt(n, local) = Min({t \in local + 1 .. local + AYear + ADay :
                                     HourAt(t) = ClockOf(n)})
<1>1. ADay \in Nat \ {0} /\ AYear \in Nat /\ ADay = HoursADay BY LimitUnits DEF ADay
<1>2. PICK c \in 0 .. ADay - 1 : c = ClockOf(n) BY <1>1 DEF DayHours
<1>3. PICK q \in Nat : /\ local - HourAt(local) = q * ADay /\ q * ADay \in Nat
                       /\ q * ADay <= local /\ local < q * ADay + ADay
  <2>1. ADay \in Nat \ {0} BY <1>1
  <2>2. PICK q \in Nat : /\ local - (local % ADay) = q * ADay /\ q * ADay \in Nat
                         /\ q * ADay <= local /\ local < q * ADay + ADay
    BY <2>1, UnitStart
  <2> QED BY <2>2 DEF HourAt
<1>4. PICK a \in Nat : a = q * ADay + c /\ local < a + ADay /\ a <= local + ADay
  BY <1>1, <1>3
<1>5. a % ADay = c
  <2>1. (q * ADay + c) % ADay = c BY <1>1, RemainderOf
  <2> QED BY <1>4, <2>1
<1>6. PICK r : r = ClockAt(n, local) OBVIOUS
<1>7. r = StrictlyAfter(a, local, ADay)
  BY <1>2, <1>3, <1>4, <1>6 DEF ClockAt, StrictlyAfter
<1>8. FirstInPhase(ADay, a, local, r) BY <1>1, <1>4, <1>7, StrictlyAfterIs
<1>9. r <= local + ADay BY <1>1, <1>4, <1>7 DEF StrictlyAfter
<1> DEFINE S == {t \in local + 1 .. local + AYear + ADay : HourAt(t) = ClockOf(n)}
<1>10. r \in S
  BY <1>1, <1>2, <1>5, <1>8, <1>9 DEF FirstInPhase, HourAt
<1>11. ASSUME NEW y \in S PROVE r <= y
  <2>1. y \in Nat /\ y > local /\ y % ADay = a % ADay
    BY <1>1, <1>2, <1>5 DEF HourAt
  <2>2. r \in Nat /\ (y \in local + 1 .. r - 1 => y % ADay # a % ADay)
    BY <1>8 DEF FirstInPhase
  <2> QED BY <2>1, <2>2
<1>12. S \in SUBSET Int BY <1>1
<1> HIDE DEF S
<1>13. Min(S) = r BY <1>10, <1>11, <1>12, MinIs
<1> QED BY <1>6, <1>13 DEF S

\* A date is this year's, or next year's when it is past: the first from
\* the start of the day.
LEMMA DateIsFirst ==
  ASSUME NEW n \in Notices, NEW local \in Nat, NoticeOK(n)
  PROVE  /\ DatedAt(n, local) \in Nat /\ local - HourAt(local) <= DatedAt(n, local)
         /\ DatedAt(n, local) =
           Min({t \in local - HourAt(local) .. local + AYear + ADay :
                   /\ HourAt(t) = ClockOf(n)
                   /\ MonthAt(t) = n.month /\ DayAt(t) = n.day})
<1>1. AYear \in Nat \ {0} /\ ADay \in Nat \ {0} BY LimitUnits
<1>2. PICK m \in YearMonths, d \in MonthDays, h \in DayHours :
         m = n.month /\ d = n.day /\ h = ClockOf(n)
  BY DEF NoticeOK
<1>3. PICK y \in Nat, i \in YearMonths, j \in MonthDays, k \in DayHours :
         /\ y = local \div AYear /\ i = MonthAt(local) /\ j = DayAt(local)
         /\ k = HourAt(local) /\ local = Instant(y, i, j, k)
  BY EveryInstant
<1>4. PICK u \in 0 .. AYear - 1 : u = i * AMonth + j * ADay /\ local - k = y * AYear + u
  <2>1. PICK v \in 0 .. AYear - 1 : v = i * AMonth + j * ADay + k /\ local = y * AYear + v
    BY <1>3, InstantIs
  <2>2. i * AMonth \in Nat /\ j * ADay \in Nat /\ k \in Nat /\ y * AYear \in Nat
    BY LimitUnits DEF YearMonths, MonthDays, DayHours
  <2> QED BY <1>1, <2>1, <2>2
<1>5. PICK p \in 0 .. AYear - 1 : p = m * AMonth + d * ADay + h BY InstantIs
<1> DEFINE past == m < i \/ (m = i /\ d < j)
<1>6. past <=> p < u BY <1>4, <1>5, PastIsBefore
<1>7. PICK z \in Nat : z = y + (IF past THEN 1 ELSE 0) OBVIOUS
<1>8. PICK r \in Nat : r = z * AYear + p /\ r = DatedAt(n, local)
  <2>1. DatedAt(n, local) = Instant(z, m, d, h)
    BY <1>2, <1>3, <1>7 DEF DatedAt
  <2>2. Instant(z, m, d, h) = z * AYear + p BY <1>5, InstantIs
  <2>3. z * AYear \in Nat BY <1>1
  <2> QED BY <2>1, <2>2, <2>3
<1>9. PICK from \in Nat : from = local - k /\ from <= local /\ from <= r /\ r < from + AYear
  <2>1. y * AYear \in Nat /\ (y + 1) * AYear = y * AYear + AYear BY <1>1
  <2>2. k \in Nat BY LimitUnits DEF DayHours
  <2>3. CASE past BY <1>1, <1>4, <1>6, <1>7, <1>8, <2>1, <2>2, <2>3
  <2>4. CASE ~past
    <3>1. z = y BY <1>7, <2>4
    <3> QED BY <1>1, <1>4, <1>6, <1>8, <2>1, <2>2, <2>4, <3>1
  <2> QED BY <2>3, <2>4
<1> HIDE DEF past
<1>10. r % AYear = p
  <2>1. (z * AYear + p) % AYear = p BY <1>1, RemainderOf
  <2> QED BY <1>8, <2>1
<1>11. ASSUME NEW t \in Nat
       PROVE  (HourAt(t) = h /\ MonthAt(t) = m /\ DayAt(t) = d) <=> t % AYear = p
  BY <1>5, YearPhase
<1> DEFINE S == {t \in from .. local + AYear + ADay :
                    HourAt(t) = h /\ MonthAt(t) = m /\ DayAt(t) = d}
<1>12. r \in S
  <2>1. r \in from .. local + AYear + ADay BY <1>1, <1>9
  <2> QED BY <1>10, <1>11, <2>1
<1>13. ASSUME NEW x \in S PROVE r <= x
  <2>1. x \in Nat /\ x >= from BY <1>1, <1>9
  <2>2. x % AYear = r % AYear BY <1>10, <1>11, <2>1
  <2>3. x < r => x + AYear <= r BY <1>1, <2>1, <2>2, SameRemainder
  <2> QED BY <1>1, <1>9, <2>1, <2>3
<1>14. S \in SUBSET Int BY <1>1, <1>9
<1>15. Min(S) = r
  <2> HIDE DEF S
  <2> QED BY <1>12, <1>13, <1>14, MinIs
<1> QED BY <1>2, <1>3, <1>8, <1>9, <1>15

LimitInv ==
    /\ notice \in Notices /\ now \in NowTimes
    /\ reset = 0 \/ reset = ParseReset(notice, now)

LEMMA ParsedIsReset == LimitInv => LimitReset
<1> SUFFICES ASSUME LimitInv, reset # 0 PROVE LimitReset BY DEF LimitReset
<1>1. PICK n \in Notices, t \in NowTimes : n = notice /\ t = now BY DEF LimitInv
<1>2. reset = ParseReset(n, t) BY <1>1 DEF LimitInv
<1>3. PICK local \in Nat, z \in Int : /\ z = ZoneOf(n) /\ local = t + z /\ t \in Nat
                                      /\ NoticeOK(n)
  BY NoticesAreOK DEF NoticeOK
<1>4. CASE n.form = "clock"
  <2>1. ClockOf(n) \in DayHours BY <1>3 DEF NoticeOK
  <2>2. PICK r : r = ClockAt(n, local) /\ r = Min({x \in local + 1 .. local + AYear + ADay :
                                                      HourAt(x) = ClockOf(n)})
    BY <1>4, <2>1, ClockIsFirst
  <2>3. r \in Int
    <3>1. HourAt(local) \in Nat BY EveryInstant, LimitUnits DEF DayHours
    <3> QED BY <2>1, <2>2, <3>1, LimitUnits DEF ClockAt, DayHours
  <2>4. reset + z = r
    <3>1. reset = r - z BY <1>2, <1>3, <1>4, <2>2 DEF ParseReset
    <3> QED BY <2>3, <3>1
  <2> QED BY <1>1, <1>3, <1>4, <2>2, <2>4 DEF LimitReset
<1>5. CASE n.form = "dated"
  <2>1. PICK r : /\ r = DatedAt(n, local)
                 /\ r = Min({x \in local - HourAt(local) .. local + AYear + ADay :
                                /\ HourAt(x) = ClockOf(n)
                                /\ MonthAt(x) = n.month /\ DayAt(x) = n.day})
    BY <1>3, DateIsFirst
  <2>2. r \in Int BY <1>3, <2>1, DateIsFirst
  <2>3. reset + z = r
    <3>1. reset = r - z BY <1>2, <1>3, <1>5, <2>1 DEF ParseReset
    <3> QED BY <2>2, <3>1
  <2> QED BY <1>1, <1>3, <1>5, <2>1, <2>3 DEF LimitReset
<1>6. CASE n.form = "relative"
  <2>1. reset = t + n.hours BY <1>2, <1>6 DEF ParseReset
  <2> QED BY <1>1, <1>3, <1>6, <2>1 DEF LimitReset, NoticeOK
<1>7. CASE n.form = "none"
  <2>1. reset = t + 1 BY <1>2, <1>7 DEF ParseReset
  <2> QED BY <1>1, <1>3, <1>7, <2>1 DEF LimitReset
<1>8. CASE n.form \notin {"clock", "dated", "relative", "none"} BY <1>1, <1>8 DEF LimitReset
<1> QED BY <1>4, <1>5, <1>6, <1>7, <1>8

LEMMA ResetIsATime == LimitInv => LimitTypeOK
<1> SUFFICES ASSUME LimitInv PROVE reset \in Nat
  BY DEF LimitInv, LimitTypeOK
<1>1. PICK n \in Notices, t \in NowTimes : n = notice /\ t = now BY DEF LimitInv
<1>2. PICK local \in Nat, z \in Int, c \in Nat :
         /\ z = ZoneOf(n) /\ local = t + z /\ t \in Nat /\ NoticeOK(n)
         /\ t >= HoursADay /\ z < HoursADay /\ c = ClockOf(n) /\ c \in DayHours
  BY NoticesAreOK, LimitAssumption DEF NoticeOK, DayHours
<1>3. PICK h \in Nat : h = HourAt(local) /\ h < HoursADay
  BY EveryInstant, LimitAssumption DEF DayHours
<1>4. ADay = HoursADay /\ HoursADay \in Nat \ {0}
  BY LimitAssumption DEF ADay
<1>a. ASSUME NEW r \in Int, r >= local - h, reset = r - z PROVE reset \in Nat
  BY <1>2, <1>3, <1>4, <1>a
<1>5. CASE reset = 0
  BY <1>5
<1> SUFFICES ASSUME reset = ParseReset(n, t) PROVE reset \in Nat
  BY <1>1, <1>5 DEF LimitInv
<1>6. CASE n.form = "clock"
  <2>1. ClockAt(n, local) \in Int /\ ClockAt(n, local) >= local - h
    BY <1>2, <1>3, <1>4 DEF ClockAt
  <2>2. reset = ClockAt(n, local) - z
    BY <1>2, <1>6 DEF ParseReset
  <2> QED BY <1>a, <2>1, <2>2
<1>7. CASE n.form = "dated"
  <2>1. PICK r \in Nat : r = DatedAt(n, local) /\ r >= local - h
    BY <1>2, <1>3, DateIsFirst
  <2>2. reset = r - z
    BY <1>2, <1>7, <2>1 DEF ParseReset
  <2> QED BY <1>a, <2>1, <2>2
<1>8. CASE n.form = "iso"
  <2>1. PICK p \in 0 .. AYear - 1 : Instant(1, n.month, n.day, c) = 1 * AYear + p
    BY <1>2, InstantIs DEF NoticeOK
  <2>2. AYear \in Nat /\ AYear >= HoursADay
    <3>1. \A a \in Nat \ {0}, b \in Nat \ {0} : a * b >= b
      <4> SUFFICES ASSUME NEW a \in Nat \ {0}, NEW b \in Nat \ {0} PROVE a * b >= b
        OBVIOUS
      <4>1. 1 * b <= a * b
        BY TimesMonotone
      <4> QED BY <4>1
    <3>2. AMonth >= ADay /\ AYear >= AMonth
      BY <3>1, LimitUnits
    <3> QED BY <1>4, <3>2, LimitUnits
  <2>3. reset = Instant(1, n.month, n.day, c) - z
    BY <1>2, <1>8 DEF ParseReset
  <2>4. PICK i \in Nat : i = Instant(1, n.month, n.day, c) /\ i >= HoursADay
    BY <1>4, <2>1, <2>2
  <2>5. z \in Int /\ z < HoursADay /\ reset = i - z
    BY <1>2, <2>3, <2>4
  <2> QED BY <1>4, <2>4, <2>5
<1>9. CASE n.form \in {"relative", "none"}
  <2>1. n.hours \in Nat
    BY <1>2 DEF NoticeOK
  <2> QED BY <1>2, <1>9, <2>1 DEF ParseReset
<1> QED BY <1>6, <1>7, <1>8, <1>9 DEF Notices, NoticeForms

\* Every wait for a limit ends at the first time that a clock of the notice's
\* zone shows what the notice says, whatever the calendar, the zones and the
\* time it is read at; one in no known form is looked at again within the hour.
THEOREM WaitsEndInTime == LimitSpec => []LimitReset
<1>1. LimitInit => LimitInv BY DEF LimitInit, LimitInv
<1>2. LimitInv /\ [LimitNext]_limitVars => LimitInv'
  BY DEF LimitInv, LimitNext, LimitParsed, limitVars
<1> QED BY <1>1, <1>2, ParsedIsReset, PTL DEF LimitSpec

===============================================================================
