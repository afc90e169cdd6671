---------------------------- MODULE DurationProofs ----------------------------
(***************************************************************************)
(* Theorems about Durations, for every width and every ratio of units.     *)
(***************************************************************************)
EXTENDS Durations, TLAPS

-----------------------------------------------------------------------------
(* Division of natural numbers.                                            *)

LEMMA Division ==
  ASSUME NEW a \in Nat, NEW b \in Nat \ {0}
  PROVE  /\ a \div b \in Nat /\ a % b \in 0 .. (b - 1)
         /\ a = b * (a \div b) + (a % b)
OBVIOUS

LEMMA DivisionIs ==
  ASSUME NEW a \in Int, NEW b \in Nat \ {0}, NEW q \in Int, NEW r \in 0 .. (b - 1), a = b * q + r
  PROVE  a \div b = q
OBVIOUS

\* What is divided may be cancelled.
LEMMA DivisionCancels ==
  ASSUME NEW a \in Nat, NEW b \in Nat \ {0}, NEW c \in Nat \ {0}
  PROVE  (a * c) \div (b * c) = a \div b
<1>1. PICK q \in Nat, r \in 0 .. (b - 1) : q = a \div b /\ a = b * q + r
  BY Division
<1>2. a * c = (b * q + r) * c
  BY <1>1
<1>3. (b * q + r) * c = (b * c) * q + r * c
  OBVIOUS
<1>4. b * c \in Nat \ {0} /\ a * c \in Int
  OBVIOUS
<1>5. r * c \in 0 .. (b * c - 1)
  <2>1. r * c <= (b - 1) * c
    OBVIOUS
  <2>2. (b - 1) * c = b * c - c
    OBVIOUS
  <2>3. r * c \in Nat
    OBVIOUS
  <2> QED
    BY <2>1, <2>2, <2>3
<1>6. PICK A \in Int, B \in Nat \ {0}, R \in Nat : A = a * c /\ B = b * c /\ R = r * c
  BY <1>4, <1>5
<1>7. A = B * q + R
  BY <1>2, <1>3, <1>6
<1>8. A \div B = q
  BY <1>5, <1>6, <1>7, DivisionIs
<1> QED
  BY <1>1, <1>6, <1>8

\* A multiple of the divisor is divided on its own.
LEMMA DivisionOfSum ==
  ASSUME NEW k \in Nat, NEW r \in Nat, NEW c \in Nat \ {0}
  PROVE  (c * k + r) \div c = k + r \div c
<1>1. PICK q \in Nat, s \in 0 .. (c - 1) : q = r \div c /\ r = c * q + s
  BY Division
<1>2. PICK A \in Int, K \in Int : A = c * k + r /\ K = k + q
  OBVIOUS
<1>3. A = c * K + s
  BY <1>1, <1>2
<1>4. A \div c = K
  BY <1>3, DivisionIs
<1> QED
  BY <1>1, <1>2, <1>4

\* Dividing twice is dividing once.
LEMMA DivisionTwice ==
  ASSUME NEW a \in Nat, NEW b \in Nat \ {0}, NEW c \in Nat \ {0}
  PROVE  (a \div b) \div c = a \div (b * c)
<1>1. PICK q \in Nat, r \in 0 .. (b - 1) : q = a \div b /\ a = b * q + r
  BY Division
<1>2. PICK p \in Nat, s \in 0 .. (c - 1) : p = q \div c /\ q = c * p + s
  BY Division
<1>3. a = b * (c * p + s) + r
  BY <1>1, <1>2
<1>4. b * (c * p + s) + r = (b * c) * p + (b * s + r)
  OBVIOUS
<1>5. b * s + r \in 0 .. (b * c - 1)
  <2>1. b * s <= b * (c - 1)
    OBVIOUS
  <2>2. b * (c - 1) = b * c - b
    OBVIOUS
  <2>3. b * s \in Nat
    OBVIOUS
  <2> QED
    BY <2>1, <2>2, <2>3
<1>6. b * c \in Nat \ {0}
  OBVIOUS
<1>7. PICK B \in Nat \ {0}, R \in Nat : B = b * c /\ R = b * s + r
  BY <1>5, <1>6
<1>8. a = B * p + R
  BY <1>3, <1>4, <1>7
<1>9. a \div B = p
  BY <1>5, <1>7, <1>8, DivisionIs
<1> QED
  BY <1>1, <1>2, <1>7, <1>9

-----------------------------------------------------------------------------
(* Division towards zero.                                                  *)

LEMMA QuotientIsInteger ==
  ASSUME NEW a \in Int, NEW b \in Nat \ {0}
  PROVE  /\ Quotient(a, b) \in Int
         /\ a >= 0 => Quotient(a, b) >= 0
         /\ a <= 0 => Quotient(a, b) <= 0
<1>1. CASE a >= 0
  <2>1. a \div b \in Nat
    BY <1>1, Division
  <2>2. a = 0 => a \div b = 0
    <3>1. 0 \div b = 0
      OBVIOUS
    <3> QED
      BY <3>1
  <2> QED
    BY <1>1, <2>1, <2>2 DEF Quotient
<1>2. CASE ~(a >= 0)
  <2>1. (-a) \div b \in Nat
    BY <1>2, Division
  <2> QED
    BY <1>2, <2>1 DEF Quotient
<1> QED
  BY <1>1, <1>2

LEMMA QuotientOfOpposite ==
  ASSUME NEW a \in Nat, NEW b \in Nat \ {0}
  PROVE  Quotient(-a, b) = -(a \div b) /\ Quotient(a, b) = a \div b
<1>1. CASE a = 0
  <2>1. 0 \div b = 0
    OBVIOUS
  <2> QED
    BY <1>1, <2>1 DEF Quotient
<1>2. CASE a # 0
  <2>1. ~(-a >= 0) /\ -(-a) = a
    BY <1>2
  <2> QED
    BY <2>1 DEF Quotient
<1> QED
  BY <1>1, <1>2

\* An integer is a natural number or the opposite of one.
LEMMA Signs ==
  ASSUME NEW a \in Int
  PROVE  \E m \in Nat : a = m \/ a = -m
<1>1. a \in Nat \/ -a \in Nat
  OBVIOUS
<1>2. a = -(-a)
  OBVIOUS
<1> QED
  BY <1>1, <1>2

LEMMA QuotientCancels ==
  ASSUME NEW a \in Int, NEW b \in Nat \ {0}, NEW c \in Nat \ {0}
  PROVE  Quotient(a * c, b * c) = Quotient(a, b)
<1>1. PICK m \in Nat : a = m \/ a = -m
  BY Signs
<1>2. PICK M \in Nat, B \in Nat \ {0} : M = m * c /\ B = b * c
  OBVIOUS
<1>3. M \div B = m \div b
  BY <1>2, DivisionCancels
<1>4. (-m) * c = -M
  BY <1>2
<1>5. /\ Quotient(M, B) = M \div B /\ Quotient(m, b) = m \div b
      /\ Quotient(-M, B) = -(M \div B) /\ Quotient(-m, b) = -(m \div b)
  BY QuotientOfOpposite
<1> QED
  BY <1>1, <1>2, <1>3, <1>4, <1>5, Zenon

LEMMA QuotientTwice ==
  ASSUME NEW a \in Int, NEW b \in Nat \ {0}, NEW c \in Nat \ {0}
  PROVE  Quotient(Quotient(a, b), c) = Quotient(a, b * c)
<1>1. PICK m \in Nat : a = m \/ a = -m
  BY Signs
<1>2. PICK B \in Nat \ {0}, k \in Nat : B = b * c /\ k = m \div b
  BY Division
<1>3. k \div c = m \div B
  BY <1>2, DivisionTwice
<1>4. /\ Quotient(m, b) = m \div b /\ Quotient(-m, b) = -(m \div b)
      /\ Quotient(m, B) = m \div B /\ Quotient(-m, B) = -(m \div B)
      /\ Quotient(k, c) = k \div c /\ Quotient(-k, c) = -(k \div c)
  BY QuotientOfOpposite
<1> QED
  BY <1>1, <1>2, <1>3, <1>4, Zenon

LEMMA QuotientOfSum ==
  ASSUME NEW k \in Int, NEW r \in Int, NEW c \in Nat \ {0}, (k >= 0 /\ r >= 0) \/ (k <= 0 /\ r <= 0)
  PROVE  Quotient(c * k + r, c) = k + Quotient(r, c)
<1>1. CASE k >= 0 /\ r >= 0
  <2>1. k \in Nat /\ r \in Nat
    BY <1>1
  <2>2. PICK A \in Nat : A = c * k + r
    BY <2>1
  <2>3. A \div c = k + r \div c
    BY <2>1, <2>2, DivisionOfSum
  <2>4. Quotient(A, c) = A \div c /\ Quotient(r, c) = r \div c
    BY <2>1, QuotientOfOpposite
  <2> QED
    BY <2>2, <2>3, <2>4, Zenon
<1>2. CASE k <= 0 /\ r <= 0
  <2>1. PICK j \in Nat, s \in Nat : k = -j /\ r = -s
    <3>1. -k \in Nat /\ -r \in Nat /\ k = -(-k) /\ r = -(-r)
      BY <1>2
    <3> QED
      BY <3>1
  <2>2. PICK A \in Nat : A = c * j + s
    OBVIOUS
  <2>3. A \div c = j + s \div c
    BY <2>2, DivisionOfSum
  <2>4. Quotient(-A, c) = -(A \div c) /\ Quotient(-s, c) = -(s \div c)
    BY QuotientOfOpposite
  <2>5. c * k + r = -A
    BY <2>1, <2>2
  <2>6. s \div c \in Nat
    BY Division
  <2>7. PICK t \in Nat : t = s \div c
    BY <2>6
  <2>8. -(j + t) = (-j) + (-t)
    OBVIOUS
  <2> QED
    BY <2>1, <2>3, <2>4, <2>5, <2>7, <2>8, Zenon
<1> QED
  BY <1>1, <1>2

\* What is left has the sign of what was divided.
LEMMA RemainderIsLeft ==
  ASSUME NEW a \in Int, NEW b \in Nat \ {0}
  PROVE  /\ Remainder(a, b) \in Int
         /\ a = b * Quotient(a, b) + Remainder(a, b)
         /\ a >= 0 => Remainder(a, b) >= 0
         /\ a <= 0 => Remainder(a, b) <= 0
<1>1. PICK m \in Nat : a = m \/ a = -m
  BY Signs
<1>2. PICK q \in Nat, r \in 0 .. (b - 1) : q = m \div b /\ m = b * q + r
  BY Division
<1>3. Quotient(m, b) = q /\ Quotient(-m, b) = -q
  BY <1>2, QuotientOfOpposite
<1>4. Remainder(m, b) = r
  <2>1. m - b * q = r
    BY <1>2
  <2> QED
    BY <1>3, <2>1, Zenon DEF Remainder
<1>5. Remainder(-m, b) = -r
  <2>1. (-m) - b * (-q) = -r
    BY <1>2
  <2> QED
    BY <1>3, <2>1, Zenon DEF Remainder
<1>6. -m = b * (-q) + (-r)
  <2>1. b * (-q) = -(b * q)
    OBVIOUS
  <2> QED
    BY <1>2, <2>1
<1>7. CASE a = m
  <2>1. Quotient(a, b) = q /\ Remainder(a, b) = r
    BY <1>7, <1>3, <1>4, Zenon
  <2>2. (a <= 0 => r <= 0) /\ (a >= 0 => r >= 0) /\ r \in Int
    BY <1>7, <1>2
  <2>3. a = b * q + r
    BY <1>2, <1>7
  <2> QED
    BY <2>1, <2>2, <2>3, Zenon
<1>8. CASE a = -m
  <2>1. Quotient(a, b) = -q /\ Remainder(a, b) = -r
    BY <1>8, <1>3, <1>5, Zenon
  <2>2. (a >= 0 => -r >= 0) /\ (a <= 0 => -r <= 0) /\ -r \in Int
    BY <1>8, <1>2
  <2>3. a = b * (-q) + (-r)
    BY <1>6, <1>8, Zenon
  <2> QED
    BY <2>1, <2>2, <2>3, Zenon
<1> QED
  BY <1>1, <1>7, <1>8
-----------------------------------------------------------------------------
(* Units, and what fits.                                                   *)

\* A unit under a second: its nanoseconds, times how many of it are a second,
\* are the nanoseconds of a second.
LEMMA SmallUnit ==
  ASSUME NEW u \in DOMAIN PerSecond
  PROVE  /\ PerSecond[u] \in Nat \ {0} /\ Nanos(u) \in Nat \ {0}
         /\ PerSecond[u] * Nanos(u) = PerSecond["ns"]
<1> DEFINE T == Thousand
<1>1. T \in Nat \ {0}
  BY RatiosAssumption
<1>2. DOMAIN PerSecond = {"ns", "us", "ms"} /\ PerSecond["ns"] = T * T * T /\ PerSecond["us"] = T * T /\ PerSecond["ms"] = T
  BY DEF PerSecond
<1>3. T * T \in Nat \ {0} /\ T * T * T \in Nat \ {0}
  BY <1>1
<1>4. Nanos(u) = PerSecond["ns"] \div PerSecond[u]
  BY DEF Nanos
<1> HIDE DEF T
<1>5. CASE u = "ns"
  <2>1. PICK N \in Nat \ {0} : N = T * T * T
    BY <1>3
  <2>2. N \div N = 1
    <3>1. N = N * 1 + 0 /\ 0 \in 0 .. (N - 1)
      OBVIOUS
    <3> QED
      BY <3>1, DivisionIs
  <2>3. PerSecond[u] = N /\ Nanos(u) = 1 /\ PerSecond["ns"] = N
    BY <1>2, <1>4, <1>5, <2>1, <2>2, Zenon
  <2>4. N * 1 = N /\ 1 \in Nat \ {0}
    OBVIOUS
  <2> QED
    BY <2>3, <2>4, Zenon
<1>6. CASE u = "us"
  <2>1. PICK M \in Nat \ {0}, N \in Nat \ {0} : M = T * T /\ N = T * T * T
    BY <1>3
  <2>2. N = M * T + 0 /\ 0 \in 0 .. (M - 1)
    BY <1>1, <2>1
  <2>3. N \div M = T
    BY <1>1, <2>2, DivisionIs
  <2>4. PerSecond[u] = M /\ Nanos(u) = T /\ PerSecond["ns"] = N
    BY <1>2, <1>4, <1>6, <2>1, <2>3, Zenon
  <2>5. M * T = N
    BY <1>1, <2>2
  <2> QED
    BY <1>1, <2>4, <2>5, Zenon
<1>7. CASE u = "ms"
  <2>1. PICK M \in Nat \ {0}, N \in Nat \ {0} : M = T * T /\ N = T * T * T
    BY <1>3
  <2>2. N = T * M + 0 /\ 0 \in 0 .. (T - 1)
    BY <1>1, <2>1
  <2>3. N \div T = M
    BY <1>1, <2>2, DivisionIs
  <2>4. PerSecond[u] = T /\ Nanos(u) = M /\ PerSecond["ns"] = N
    BY <1>2, <1>4, <1>7, <2>1, <2>3, Zenon
  <2>5. T * M = N
    BY <1>1, <2>2
  <2> QED
    BY <1>1, <2>4, <2>5, Zenon
<1> QED
  BY <1>2, <1>5, <1>6, <1>7

\* A second and the units above.
LEMMA LargeUnit ==
  ASSUME NEW u \in DOMAIN Seconds
  PROVE  Seconds[u] \in Nat \ {0} /\ u \notin DOMAIN PerSecond /\ Nanos(u) = PerSecond["ns"] * Seconds[u]
<1>1. {Sixty, Day} \subseteq Nat \ {0}
  BY RatiosAssumption
<1>2. Sixty * Sixty \in Nat \ {0} /\ Day * Sixty * Sixty \in Nat \ {0}
  <2>1. Day * Sixty \in Nat \ {0}
    BY <1>1
  <2> QED
    BY <1>1, <2>1
<1>3. DOMAIN Seconds = {"s", "m", "h", "d"} /\ DOMAIN PerSecond = {"ns", "us", "ms"}
  BY DEF Seconds, PerSecond
<1>4. /\ Seconds["s"] = 1 /\ Seconds["m"] = Sixty
      /\ Seconds["h"] = Sixty * Sixty /\ Seconds["d"] = Day * Sixty * Sixty
  BY DEF Seconds
<1>5. u \notin DOMAIN PerSecond
  BY <1>3
<1>6. Seconds[u] \in Nat \ {0}
  BY <1>1, <1>2, <1>3, <1>4
<1> QED
  BY <1>5, <1>6, Zenon DEF Nanos

LEMMA UnitsAreTwoSorts ==
  ASSUME NEW u \in TimeUnits
  PROVE  u \in DOMAIN PerSecond \/ (u \in DOMAIN Seconds /\ u \notin DOMAIN PerSecond)
BY LargeUnit, Zenon DEF TimeUnits

LEMMA NanosOfASecond ==
  PerSecond["ns"] \in Nat \ {0}
<1>1. "ns" \in DOMAIN PerSecond
  BY DEF PerSecond
<1> QED
  BY <1>1, SmallUnit

\* What fits does not wrap, so that nothing about its results is undefined.
LEMMA FitsUnwrapped ==
  ASSUME NEW n \in Int, NEW x \in Int, Fits(x, LongLimit)
  PROVE  Checked(n, x) = {IF SameSign(n, x) THEN Value(x) ELSE Overflow}
<1>1. LongLimit \in Nat \ {0}
  BY RatiosAssumption
<1>2. Wrapped(x, LongLimit) = x
  BY <1>1 DEF Wrapped, Fits
<1> QED
  BY <1>2, Zenon DEF Checked

LEMMA ValuesAreNoOverflow ==
  ASSUME NEW v
  PROVE  Value(v) # Overflow /\ Value(v).v = v
<1>1. Value(v).op = "value" /\ Value(v).v = v
  BY DEF Value
<1>2. Overflow.op = "overflow"
  BY DEF Overflow
<1> QED
  BY <1>1, <1>2
-----------------------------------------------------------------------------
(* The two steps of a conversion.                                          *)

\* What Exact is of, in seconds and nanoseconds.
LEMMA SpanIsExact ==
  ASSUME NEW n \in Int, NEW units \in TimeUnits, NEW s, s = ExactSeconds(n, units),
         NEW r, r = NanosOf(n, units)
  PROVE  /\ s \in Int /\ r \in Int
         /\ n * Nanos(units) = PerSecond["ns"] * s + r
         /\ n >= 0 => s >= 0 /\ r >= 0
         /\ n <= 0 => s <= 0 /\ r <= 0
<1>1. PICK N \in Nat \ {0} : N = PerSecond["ns"]
  BY NanosOfASecond
<1>2. CASE units \in DOMAIN PerSecond
  <2>1. PICK P \in Nat \ {0}, Q \in Nat \ {0} : P = PerSecond[units] /\ Q = Nanos(units) /\ P * Q = N
    BY <1>1, <1>2, SmallUnit, Zenon
  <2>2. PICK q \in Int, m \in Int : /\ q = Quotient(n, P) /\ m = Remainder(n, P)
                                    /\ n = P * q + m
                                    /\ n >= 0 => q >= 0 /\ m >= 0
                                    /\ n <= 0 => q <= 0 /\ m <= 0
    BY QuotientIsInteger, RemainderIsLeft, Zenon
  <2>3. s = q /\ r = m * Q
    BY <1>2, <2>1, <2>2, Zenon DEF ExactSeconds, NanosOf
  <2>4. m * Q \in Int /\ (m >= 0 => m * Q >= 0) /\ (m <= 0 => m * Q <= 0)
    OBVIOUS
  <2>5. n * Q = N * q + m * Q
    <3>1. n * Q = (P * q + m) * Q
      BY <2>2
    <3>2. (P * q + m) * Q = (P * Q) * q + m * Q
      OBVIOUS
    <3> QED
      BY <2>1, <3>1, <3>2, Zenon
  <2> QED
    BY <1>1, <2>1, <2>2, <2>3, <2>4, <2>5, Zenon
<1>3. CASE units \in DOMAIN Seconds /\ units \notin DOMAIN PerSecond
  <2>1. PICK S \in Nat \ {0} : S = Seconds[units] /\ Nanos(units) = N * S
    BY <1>1, <1>3, LargeUnit, Zenon
  <2>2. s = n * S /\ r = 0
    BY <1>3, <2>1, Zenon DEF ExactSeconds, NanosOf
  <2>3. n * (N * S) = N * (n * S) + 0
    OBVIOUS
  <2>4. n * S \in Int /\ (n >= 0 => n * S >= 0) /\ (n <= 0 => n * S <= 0)
    OBVIOUS
  <2>5. 0 \in Int /\ 0 >= 0 /\ 0 <= 0
    OBVIOUS
  <2> QED
    BY <1>1, <2>1, <2>2, <2>3, <2>4, <2>5, Zenon
<1> QED
  BY <1>2, <1>3, UnitsAreTwoSorts, Zenon

\* The seconds of a duration are exact, too.
LEMMA SecondsAreExact ==
  ASSUME NEW n \in Int, NEW units \in TimeUnits, NEW s \in Int, NEW N \in Nat \ {0}, N = PerSecond["ns"],
         s = Quotient(n * Nanos(units), N)
  PROVE  s = ExactSeconds(n, units)
<1>1. CASE units \in DOMAIN PerSecond
  <2>1. PICK P \in Nat \ {0}, Q \in Nat \ {0} : P = PerSecond[units] /\ Q = Nanos(units) /\ P * Q = N
    BY <1>1, SmallUnit, Zenon
  <2>2. Quotient(n * Q, P * Q) = Quotient(n, P)
    BY QuotientCancels
  <2> QED
    BY <1>1, <2>1, <2>2, Zenon DEF ExactSeconds
<1>2. CASE units \in DOMAIN Seconds /\ units \notin DOMAIN PerSecond
  <2>1. PICK S \in Nat \ {0} : S = Seconds[units] /\ Nanos(units) = N * S
    BY <1>2, LargeUnit, Zenon
  <2>2. PICK k \in Int : k = n * S
    OBVIOUS
  <2>3. n * (N * S) = k * N
    BY <2>2
  <2>4. 1 * N = N
    OBVIOUS
  <2>5. Quotient(k * N, 1 * N) = Quotient(k, 1)
    BY QuotientCancels
  <2>6. Quotient(k, 1) = k
    <3>1. \A a \in Nat : a \div 1 = a
      OBVIOUS
    <3>2. k >= 0 => k \in Nat
      OBVIOUS
    <3>3. ~(k >= 0) => -k \in Nat /\ -(-k) = k
      OBVIOUS
    <3> QED
      BY <3>1, <3>2, <3>3, Zenon DEF Quotient
  <2>7. s = k
    BY <2>1, <2>3, <2>4, <2>5, <2>6, Zenon
  <2> QED
    BY <1>2, <2>1, <2>2, <2>7, Zenon DEF ExactSeconds
<1> QED
  BY <1>1, <1>2, UnitsAreTwoSorts, Zenon

\* What get_duration computes is Exact.
LEMMA InUnitIsExact ==
  ASSUME NEW n \in Int, NEW units \in TimeUnits, NEW unit \in TimeUnits,
         NEW s \in Int, s = ExactSeconds(n, units), NEW r \in Int, r = NanosOf(n, units)
  PROVE  Exact(n, units, unit) =
           IF unit \in DOMAIN PerSecond THEN s * PerSecond[unit] + Quotient(r, Nanos(unit))
           ELSE Quotient(s, Seconds[unit])
<1>1. PICK N \in Nat \ {0} : N = PerSecond["ns"]
  BY NanosOfASecond
<1>2. /\ n * Nanos(units) = N * s + r
      /\ n >= 0 => s >= 0 /\ r >= 0
      /\ n <= 0 => s <= 0 /\ r <= 0
  BY <1>1, SpanIsExact
<1>3. n >= 0 \/ n <= 0
  OBVIOUS
<1>4. (s >= 0 /\ r >= 0) \/ (s <= 0 /\ r <= 0)
  BY <1>2, <1>3, Zenon
<1>5. CASE unit \in DOMAIN PerSecond
  <2>1. PICK P \in Nat \ {0}, Q \in Nat \ {0} : P = PerSecond[unit] /\ Q = Nanos(unit) /\ P * Q = N
    BY <1>1, <1>5, SmallUnit, Zenon
  <2>2. PICK k \in Int : k = s * P
    OBVIOUS
  <2>3. N * s + r = Q * k + r
    BY <2>1, <2>2
  <2>4. (k >= 0 /\ r >= 0) \/ (k <= 0 /\ r <= 0)
    BY <1>4, <2>2
  <2>5. Quotient(Q * k + r, Q) = k + Quotient(r, Q)
    BY <2>4, QuotientOfSum
  <2> QED
    BY <1>2, <1>5, <2>1, <2>2, <2>3, <2>5, Zenon DEF Exact
<1>6. CASE unit \in DOMAIN Seconds /\ unit \notin DOMAIN PerSecond
  <2>1. PICK S \in Nat \ {0} : S = Seconds[unit] /\ Nanos(unit) = N * S
    BY <1>1, <1>6, LargeUnit, Zenon
  <2>2. PICK x \in Int : x = n * Nanos(units)
    BY <1>1, <1>2
  <2>3. Quotient(x, N * S) = Quotient(Quotient(x, N), S)
    BY QuotientTwice
  <2>4. Quotient(x, N) \in Int
    BY QuotientIsInteger
  <2>5. Quotient(x, N) = s
    BY <1>1, <2>2, <2>4, SecondsAreExact, Zenon
  <2> QED
    BY <1>6, <2>1, <2>2, <2>3, <2>5, Zenon DEF Exact
<1> QED
  BY <1>5, <1>6, UnitsAreTwoSorts, Zenon

-----------------------------------------------------------------------------
(* A conversion.                                                           *)

LEMMA CheckedIsExact ==
  ASSUME NEW n \in Int, NEW x \in Int, Fits(x, LongLimit),
         n >= 0 => x >= 0, n < 0 => x < 0
  PROVE  Checked(n, x) = {Value(x)}
<1>1. SameSign(n, x)
  BY DEF SameSign
<1>2. Checked(n, x) = {IF SameSign(n, x) THEN Value(x) ELSE Overflow}
  BY FitsUnwrapped, Zenon
<1> QED
  BY <1>1, <1>2, Zenon

\* A duration, converted from any unit to any other, is the exact one, truncated,
\* if it and its seconds fit in an int64_t and it does not vanish below zero
\* (config.cc:331-400).  So nothing that fits wraps on the way or loses what is left
\* of a second, nothing else is refused, and truncating twice is truncating once.
THEOREM DurationsAreExact ==
  \A n \in Int, units \in TimeUnits, unit \in TimeUnits : ConvertsExactly(n, units, unit)
<1>1. SUFFICES ASSUME NEW n \in Int, NEW units \in TimeUnits, NEW unit \in TimeUnits
               PROVE  ConvertsExactly(n, units, unit)
  OBVIOUS
<1>2. PICK s \in Int, r \in Int : /\ s = ExactSeconds(n, units) /\ r = NanosOf(n, units)
                                  /\ n >= 0 => s >= 0 /\ r >= 0
                                  /\ n <= 0 => s <= 0 /\ r <= 0
  BY SpanIsExact
<1> DEFINE x == IF unit \in DOMAIN PerSecond THEN s * PerSecond[unit] + Quotient(r, Nanos(unit))
                ELSE Quotient(s, Seconds[unit])
<1>3. Exact(n, units, unit) = x
  BY <1>2, InUnitIsExact
<1>4. /\ x \in Int
      /\ s >= 0 /\ r >= 0 => x >= 0
      /\ s <= 0 /\ r <= 0 => x <= 0
  <2>1. CASE unit \in DOMAIN PerSecond
    <3>1. PICK P \in Nat \ {0}, Q \in Nat \ {0} : P = PerSecond[unit] /\ Q = Nanos(unit)
      BY <2>1, SmallUnit, Zenon
    <3>2. PICK q \in Int : q = Quotient(r, Q) /\ (r >= 0 => q >= 0) /\ (r <= 0 => q <= 0)
      BY QuotientIsInteger
    <3>3. x = s * P + q
      BY <2>1, <3>1, <3>2, Zenon
    <3>4. s * P \in Int /\ (s >= 0 => s * P >= 0) /\ (s <= 0 => s * P <= 0)
      OBVIOUS
    <3> QED
      BY <3>2, <3>3, <3>4
  <2>2. CASE unit \in DOMAIN Seconds /\ unit \notin DOMAIN PerSecond
    <3>1. x = Quotient(s, Seconds[unit]) /\ Seconds[unit] \in Nat \ {0}
      BY <2>2, LargeUnit, Zenon
    <3> QED
      BY <3>1, QuotientIsInteger, Zenon
  <2> QED
    BY <2>1, <2>2, UnitsAreTwoSorts, Zenon
<1>5. SUFFICES ASSUME Fits(s, LongLimit), Fits(x, LongLimit), n < 0 => s # 0 /\ x # 0
               PROVE  Converted(n, units, unit) = {Value(x)}
  BY <1>2, <1>3, Zenon DEF ConvertsExactly, Vanishes
<1> HIDE DEF x
<1>6. n >= 0 => s >= 0 /\ x >= 0
  BY <1>2, <1>4
<1>7. n < 0 => s < 0 /\ x < 0
  BY <1>2, <1>4, <1>5
<1>8. Convert(n, units) = {Value(<<s, r>>)}
  <2>1. Checked(n, s) = {Value(s)}
    BY <1>5, <1>6, <1>7, CheckedIsExact
  <2> QED
    BY <1>2, <2>1, ValuesAreNoOverflow, Zenon DEF Convert
<1>9. InUnit(<<s, r>>, unit) = {Value(x)}
  <2>1. <<s, r>>[1] = s /\ <<s, r>>[2] = r
    OBVIOUS
  <2>2. InUnit(<<s, r>>, unit) = Checked(s, x)
    BY <2>1, Zenon DEF InUnit, x
  <2>3. (s >= 0 => x >= 0) /\ (s < 0 => x < 0)
    BY <1>6, <1>7
  <2>4. Checked(s, x) = {Value(x)}
    BY <1>4, <1>5, <2>3, CheckedIsExact
  <2> QED
    BY <2>2, <2>4, Zenon
<1> QED
  BY <1>8, <1>9, ValuesAreNoOverflow, Zenon DEF Converted
=============================================================================
