---------------------------- MODULE ElogViewTimes ----------------------------
(***************************************************************************)
(* The display times of an elog View (elib/elog/view.go, doViewTimes):    *)
(* the unit chosen for a span of elapsed time, the span's ends rounded     *)
(* out to that unit, and the display start time truncated to a coarser     *)
(* "start unit".                                                           *)
(*                                                                         *)
(* The code computes in float64 seconds.  Here a time is an integer count *)
(* of 10^r nanoseconds, r the resolution, and the arithmetic is exact; a   *)
(* unit finer than the resolution rounds nothing.  Absolute times count    *)
(* from Go's zero time, so time.Truncate(d) is t - t % d, and 0 is the    *)
(* zero time (IsZero).  "us" stands for the code's "\mu s".                *)
(***************************************************************************)
EXTENDS Integers

\* math.Floor(math.Log10(n)) for a whole number n >= 1.
RECURSIVE Log10Floor(_)
Log10Floor(n) == IF n < 10 THEN 0 ELSE 1 + Log10Floor(n \div 10)

\* x < m * 10^k ns, x counted in 10^r ns, without forming m * 10^k
\* (a day in nanoseconds exceeds TLC's integers).
BelowNs(x, r, m, k) ==
  IF k >= r THEN x \div 10^(k - r) < m
  ELSE x < (m + 10^(r - k) - 1) \div 10^(r - k)

\* The units of doViewTimes' switch: timeUnit = m * 10^k ns, and maxUnit.
Units ==
  [ns  |-> [m |-> 1, k |-> 0, max |-> 1000],
   us  |-> [m |-> 1, k |-> 3, max |-> 1000],
   ms  |-> [m |-> 1, k |-> 6, max |-> 1000],
   sec |-> [m |-> 1, k |-> 9, max |-> 60],
   min |-> [m |-> 60, k |-> 9, max |-> 60],
   hr  |-> [m |-> 3600, k |-> 9, max |-> 86400],
   day |-> [m |-> 86400, k |-> 9, max |-> 1000]]

UnitNames == DOMAIN Units

\* m * 10^k ns counted in 10^r ns, and at least one.
Size(m, k, r) ==
  IF k >= r THEN m * 10^(k - r)
  ELSE LET q == m \div 10^(r - k) IN IF q > 0 THEN q ELSE 1

\* The switch on logDt = floor(log10(dt)) (0 when dt = 0) and on dt.
ViewUnit(dt, r) ==
  LET logDt == IF dt > 0 THEN Log10Floor(dt) + r - 9 ELSE 0
  IN CASE logDt < -6 -> "ns"
       [] logDt < -3 -> "us"
       [] logDt < 0 -> "ms"
       [] BelowNs(dt, r, 60, 9) -> "sec"
       [] BelowNs(dt, r, 3600, 9) -> "min"
       [] BelowNs(dt, r, 86400, 9) -> "hr"
       [] OTHER -> "day"

\* startTimeUnit := maxUnit * timeUnit; one second when timeUnit >= 1.
StartUnit(name, r) ==
  IF Units[name].k >= 9 THEN Size(1, 9, r)
  ELSE Size(Units[name].m * Units[name].max, Units[name].k, r)

FloorTo(x, u) == u * (x \div u)
CeilTo(x, u) == u * ((x + u - 1) \div u)
Truncate(t, d) == t - (t % d)

\* Mutant of DoViewTimes: the end of the span is rounded down, not up.
DoViewTimesFloorEnd(t, t0, t1, r) ==
  LET name == ViewUnit(t1 - t0, r)
      u == Size(Units[name].m, Units[name].k, r)
      a == FloorTo(t0, u)
      b == FloorTo(t1, u)
      nt == Truncate(t.StartTime + a, StartUnit(name, r))
      d == nt - t.StartTime
  IN [StartTime |-> nt, MinElapsed |-> a - d, MaxElapsed |-> b - d,
      Dt |-> b - a, Unit |-> u, UnitName |-> name]

\* doViewTimes(t0, t1) on the view times t, for t0 <= t1 (the code panics
\* otherwise): round t0 down and t1 up to the unit, move the start time
\* forward by t0 truncated to the start unit, and make both ends relative
\* to the new start time.
DoViewTimes(t, t0, t1, r) ==
  LET name == ViewUnit(t1 - t0, r)
      u == Size(Units[name].m, Units[name].k, r)
      a == FloorTo(t0, u)
      b == CeilTo(t1, u)
      nt == Truncate(t.StartTime + a, StartUnit(name, r))
      d == nt - t.StartTime
  IN [StartTime |-> nt, MinElapsed |-> a - d, MaxElapsed |-> b - d,
      Dt |-> b - a, Unit |-> u, UnitName |-> name]

-----------------------------------------------------------------------------
(* The reference: the thresholds of the spec's unit selection.            *)

\* ns below 1e-6 s, us below 1e-3 s, ms below 1 s, sec below 60 s, min
\* below 3600 s, hr below 86400 s, day otherwise.
SpecUnit(dt, r) ==
  CASE BelowNs(dt, r, 1, 3) -> "ns"
    [] BelowNs(dt, r, 1, 6) -> "us"
    [] BelowNs(dt, r, 1, 9) -> "ms"
    [] BelowNs(dt, r, 60, 9) -> "sec"
    [] BelowNs(dt, r, 3600, 9) -> "min"
    [] BelowNs(dt, r, 86400, 9) -> "hr"
    [] OTHER -> "day"

\* Spans on both sides of every threshold, in nanoseconds (r = 0) up to
\* two seconds and in milliseconds (r = 6) up to 24 days.
TestSpans ==
  {<<dt, 0>> : dt \in {1, 9, 10, 999, 1000, 1001, 999999, 1000000, 1000001,
                       999999999, 1000000000, 1000000001, 2147483647}}
  \cup {<<dt, 6>> : dt \in {1, 999, 1000, 59999, 60000, 60001, 3599999,
                            3600000, 86399999, 86400000, 2147483647}}

UnitChoiceMatchesSpec == \A s \in TestSpans : ViewUnit(s[1], s[2]) = SpecUnit(s[1], s[2])

=============================================================================
