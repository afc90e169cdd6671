------------------------------ MODULE Durations ------------------------------
(***************************************************************************)
(* Durations in config: seconds in an int64_t and nanoseconds, made from a *)
(* whole number of some unit, and turned into a number of another.         *)
(***************************************************************************)
EXTENDS Integers

CONSTANTS
  LongLimit,           \* an int64_t is -LongLimit .. LongLimit - 1: 2^63, or a smaller power
  Thousand, Sixty, Day \* 1000, 60 and 24, or smaller ratios between the units

ASSUME RatiosAssumption == {LongLimit, Thousand, Sixty, Day} \subseteq Nat \ {0}

\* How many of a unit are a second, or how many seconds one of it is.
PerSecond == [ns |-> Thousand * Thousand * Thousand, us |-> Thousand * Thousand, ms |-> Thousand]
Seconds   == [s |-> 1, m |-> Sixty, h |-> Sixty * Sixty, d |-> Day * Sixty * Sixty]
TimeUnits == DOMAIN PerSecond \cup DOMAIN Seconds
Nanos(u)  == IF u \in DOMAIN PerSecond THEN PerSecond["ns"] \div PerSecond[u] ELSE PerSecond["ns"] * Seconds[u]

\* Division and remainder in C++ go towards zero.
Quotient(a, b)  == IF a >= 0 THEN a \div b ELSE -((-a) \div b)
Remainder(a, b) == a - b * Quotient(a, b)

Fits(n, limit)    == -limit <= n /\ n < limit
Wrapped(n, limit) == ((n + limit) % (2 * limit)) - limit
SameSign(a, b)    == a >= 0 <=> b >= 0

Value(v) == [op |-> "value", v |-> v]
Overflow == [op |-> "overflow"]

\* The results of a conversion of n to exact, which is looked at only for its
\* sign.  Where it does not fit it is undefined: it wraps, and the compiler,
\* which may take it to fit, need not look at its sign either.
Checked(n, exact) ==
  LET wrapped == Wrapped(exact, LongLimit)
  IN  {IF SameSign(n, wrapped) THEN Value(wrapped) ELSE Overflow}
        \cup (IF Fits(exact, LongLimit) THEN {} ELSE {Value(wrapped)})

\* Mutant: what is left of a second is not turned into nanoseconds.
Unscaled(n, units)   == IF units \in DOMAIN PerSecond THEN Remainder(n, PerSecond[units]) ELSE 0
NanosOf(n, units)    == IF units \in DOMAIN PerSecond THEN Remainder(n, PerSecond[units]) * Nanos(units) ELSE 0
ExactSeconds(n, units) ==
  IF units \in DOMAIN PerSecond THEN Quotient(n, PerSecond[units]) ELSE n * Seconds[units]

Convert(n, units) ==
  {IF s = Overflow THEN Overflow ELSE Value(<<s.v, NanosOf(n, units)>>) : s \in Checked(n, ExactSeconds(n, units))}

\* get_duration of a timespan in a unit
InUnit(span, unit) ==
  Checked(span[1], IF unit \in DOMAIN PerSecond THEN span[1] * PerSecond[unit] + Quotient(span[2], Nanos(unit))
                   ELSE Quotient(span[1], Seconds[unit]))

\* The duration of n of some units, in a unit.
Converted(n, units, unit) == UNION {IF d = Overflow THEN {d} ELSE InUnit(d.v, unit) : d \in Convert(n, units)}

\* get_units, for a word to which an s was added if it has more than two letters
\* and none at its end.
WithS == [nano |-> "nanos", micro |-> "micros", milli |-> "millis", sec |-> "secs", second |-> "seconds",
          minute |-> "minutes", hour |-> "hours", day |-> "days"]
Plural(word) == IF word \in DOMAIN WithS THEN WithS[word] ELSE word
Names == [ns |-> {"ns", "nanos", "nanoseconds"}, us |-> {"us", "micros", "microseconds"},
          ms |-> {"", "ms", "millis", "milliseconds"}, s |-> {"s", "seconds"},
          m |-> {"m", "minutes"}, h |-> {"h", "hours"}, d |-> {"d", "days"}]
UnitsOf(word) == {u \in TimeUnits : Plural(word) \in Names[u]}

-----------------------------------------------------------------------------
\* The number in another unit, truncated.
Exact(n, units, unit) == Quotient(n * Nanos(units), Nanos(unit))

\* Below zero, but not in whole seconds or in the unit asked for.
Vanishes(n, units, unit) == n < 0 /\ 0 \in {ExactSeconds(n, units), Exact(n, units, unit)}

\* n of some units are exactly as many of a unit, truncated, if they and their
\* seconds fit.  (What vanishes is refused, because a zero is not below zero, and
\* of what does not fit the code need not notice that it wraps.)
ConvertsExactly(n, units, unit) ==
  LET exact == Exact(n, units, unit)
  IN  Fits(ExactSeconds(n, units), LongLimit) /\ Fits(exact, LongLimit) /\ ~Vanishes(n, units, unit) =>
        Converted(n, units, unit) = {Value(exact)}
=============================================================================
