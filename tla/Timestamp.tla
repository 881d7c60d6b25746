------------------------------ MODULE Timestamp ------------------------------
(***************************************************************************)
(* The timestamp formatter of the jsonexport hook, _json_to_pqtimestamp   *)
(* in src/src/hooks/jsonexport.c, and the leap-year table it reads.       *)
(*                                                                         *)
(* A timestamp string is abstracted to what the formatter reads from it:  *)
(* the numbers strtoul parses at the fixed offsets, whether the           *)
(* punctuation at the fixed offsets is right, the character after the     *)
(* seconds ("." or "Z") and the digits of the fraction.  Its length is    *)
(* derived from those.                                                    *)
(*                                                                         *)
(* Integers wider than TLC's are little-endian byte sequences; the C      *)
(* arithmetic is done at its own width (uint32 for the seconds sum,       *)
(* uint64 for the microseconds), so a wrap-around in the code is a        *)
(* wrap-around here.                                                      *)
(***************************************************************************)
EXTENDS Naturals, Integers, Sequences, SequencesExt

-----------------------------------------------------------------------------
(* Unsigned integers of w bytes, least significant byte first.            *)

RECURSIVE ToBytes(_, _)
ToBytes(n, w) == IF w = 0 THEN <<>> ELSE <<n % 256>> \o ToBytes(n \div 256, w - 1)

RECURSIVE AddFrom(_, _, _, _)
AddFrom(a, b, i, carry) ==
  IF i > Len(a) THEN <<>>
  ELSE LET s == a[i] + b[i] + carry
       IN  <<s % 256>> \o AddFrom(a, b, i + 1, s \div 256)

\* a + b modulo 256^Len(a)
AddW(a, b) == AddFrom(a, b, 1, 0)

RECURSIVE MulFrom(_, _, _, _)
MulFrom(a, k, i, carry) ==
  IF i > Len(a) THEN <<>>
  ELSE LET s == a[i] * k + carry
       IN  <<s % 256>> \o MulFrom(a, k, i + 1, s \div 256)

\* a * k modulo 256^Len(a), for a small factor k
MulW(a, k) == MulFrom(a, k, 1, 0)

\* zero extension to w bytes
Widen(a, w) == a \o [i \in 1 .. (w - Len(a)) |-> 0]

\* an int converted to uint32 (two's complement for a negative value)
U32(n) ==
  IF n >= 0 THEN ToBytes(n, 4)
  ELSE AddW([i \in 1 .. 4 |-> 255 - ToBytes(-n, 4)[i]], ToBytes(1, 4))

\* htobe64: the bytes in network order, most significant first
HtoBe(a) == Reverse(a)

-----------------------------------------------------------------------------
(* The code.                                                              *)

\* the Gregorian rule on a year counted from 2000
IsLeapOffset(y) == (y % 4 = 0 /\ y % 100 # 0) \/ y % 400 = 0

\* _leapyear: the loop accumulates into entry y the leap offsets 0 .. y-1
LeapYears(y) == Cardinality({i \in 0 .. (y - 1) : IsLeapOffset(i)})

\* (the parity rule switching after August rather than after July)
MonthLengthLateSwitch(i, y) ==
  CASE i = 2 -> IF IsLeapOffset(y) THEN 29 ELSE 28
    [] i <= 8 -> 30 + (i % 2)
    [] OTHER -> 30 + ((i + 1) % 2)

\* length of month i in the day-of-year loop, by the parity rule
MonthLength(i, y) ==
  CASE i = 2 -> IF IsLeapOffset(y) THEN 29 ELSE 28
    [] i < 8 -> 30 + (i % 2)
    [] OTHER -> 30 + ((i + 1) % 2)

\* tm.yday: the days of the months before tm.month, plus tm.day
DayOfYear(t) ==
  LET y == t.year - 2000
  IN  SumFunction([i \in 1 .. (t.month - 1) |-> MonthLength(i, y)]) + t.day

\* strlen(ts)
TsLen(t) == IF t.sep = "Z" THEN 20 ELSE 21 + Len(t.frac)

\* tm.micro: up to 6 fraction digits copied over "000000", then strtoull
Micro(t) ==
  IF t.sep = "." /\ Len(t.frac) >= 1
  THEN LET bytes  == IF Len(t.frac) > 6 THEN 6 ELSE Len(t.frac)
           digits == [k \in 1 .. 6 |-> IF k <= bytes THEN t.frac[k] ELSE 0]
       IN  SumFunction([k \in 1 .. 6 |-> digits[k] * 10^(6 - k)])
  ELSE 0

\* the length and punctuation checks
ShapeOk(t) == TsLen(t) \in 20 .. 31 /\ t.punct

\* the range checks on the parsed fields
RangeOk(t) ==
  /\ t.year \in 2000 .. 4027
  /\ t.month \in 1 .. 12
  /\ t.day <= 31
  /\ t.hour <= 23
  /\ t.minute <= 59
  /\ t.second <= 60
  /\ ~(t.month = 2 /\ t.day > 29)

\* the seconds since 2000, summed in uint32 as the code's operands are
EpochSeconds32(t) ==
  LET y == t.year - 2000
  IN  AddW(AddW(AddW(ToBytes(t.second, 4), MulW(ToBytes(t.minute, 4), 60)),
                AddW(MulW(ToBytes(t.hour, 4), 3600),
                     MulW(U32(DayOfYear(t) - 1), 86400))),
           AddW(MulW(ToBytes(LeapYears(y), 4), 86400),
                MulW(MulW(ToBytes(y, 4), 86400), 365)))

\* (the microseconds product taken in uint32, without the widening cast)
EpochNarrow(t) ==
  HtoBe(AddW(MulW(EpochSeconds32(t), 1000000), ToBytes(Micro(t), 8)))

\* the 8 result bytes: uint64 microseconds, big-endian
Epoch(t) ==
  HtoBe(AddW(MulW(Widen(EpochSeconds32(t), 8), 1000000), ToBytes(Micro(t), 8)))

\* what a formatter call gives: whether it returned true, and the result bytes
Failed == [ok |-> FALSE, bytes |-> <<>>]
Written(b) == [ok |-> TRUE, bytes |-> b]

\* _json_to_pqtimestamp
JsonToPqTimestamp(t) == IF ShapeOk(t) /\ RangeOk(t) THEN Written(Epoch(t)) ELSE Failed

-----------------------------------------------------------------------------
(* The reference: what the timestamp means on the Gregorian calendar.     *)

IsLeapYear(Y) == (Y % 4 = 0 /\ Y % 100 # 0) \/ Y % 400 = 0

\* days from 2000-01-01 to January 1st of year Y: a year of 365 days each,
\* and one more for each leap year among them
DaysBefore(Y) == 365 * (Y - 2000) + Cardinality({x \in 2000 .. (Y - 1) : IsLeapYear(x)})

MonthDays(Y) == <<31, IF IsLeapYear(Y) THEN 29 ELSE 28, 31, 30, 31, 30,
                  31, 31, 30, 31, 30, 31>>

\* the instant the string names is a valid one
RefValid(t) ==
  /\ TsLen(t) \in 20 .. 31
  /\ t.punct
  /\ t.year \in 2000 .. 4027
  /\ t.month \in 1 .. 12
  /\ t.day \in 1 .. 31
  /\ t.hour \in 0 .. 23
  /\ t.minute \in 0 .. 59
  /\ t.second \in 0 .. 60
  /\ t.month = 2 => t.day \in 1 .. 29

\* microseconds truncated from the fraction, missing digits as zeros
RefMicro(t) ==
  LET n == IF t.sep = "." THEN Len(t.frac) ELSE 0
  IN  SumFunction([k \in 1 .. 6 |-> IF k <= n THEN t.frac[k] * 10^(6 - k) ELSE 0])

\* the exact microseconds since 2000-01-01T00:00:00Z, big-endian
RefEpoch(t) ==
  LET days == DaysBefore(t.year)
                + SumFunction([m \in 1 .. (t.month - 1) |-> MonthDays(t.year)[m]])
                + t.day - 1
      secs == AddW(MulW(ToBytes(days, 8), 86400),
                   ToBytes(t.hour * 3600 + t.minute * 60 + t.second, 8))
  IN  HtoBe(AddW(MulW(secs, 1000000), ToBytes(RefMicro(t), 8)))

Reference(t) == IF RefValid(t) THEN Written(RefEpoch(t)) ELSE Failed

=============================================================================
