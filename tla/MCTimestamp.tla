----------------------------- MODULE MCTimestamp -----------------------------
(***************************************************************************)
(* The timestamp formatter called on one string after another, as the     *)
(* evaluator calls it once per timestamp needle per message.              *)
(***************************************************************************)
EXTENDS Timestamp

CONSTANT Inputs   \* the timestamp strings, as records (see Timestamp)

VARIABLES input,  \* the string of the last call
          result  \* what that call produced: 8 bytes, or Failed

vars == <<input, result>>

\* the state after a first call
Init == input \in Inputs /\ result = JsonToPqTimestamp(input)

\* one call of _json_to_pqtimestamp on the string t
Format(t) == input' = t /\ result' = JsonToPqTimestamp(t)

Next == \E t \in Inputs : Format(t)

Spec == Init /\ [][Next]_vars

TypeOK ==
  /\ input \in Inputs
  /\ result \in [ok : BOOLEAN, bytes : Seq(0 .. 255)]
  /\ Len(result.bytes) = IF result.ok THEN 8 ELSE 0

(* Every string the formatter accepts names a valid instant, every valid  *)
(* instant is accepted, and the 8 bytes the formatter writes are the      *)
(* big-endian microseconds from 2000-01-01T00:00:00Z to that instant on   *)
(* the calendar (the range checks, the day-of-year loop, the leap table   *)
(* and the uint32 seconds sum of _json_to_pqtimestamp together).          *)
FormatMatchesReference == result = Reference(input)

-----------------------------------------------------------------------------
(* Input sets.                                                             *)

Ts(y, mo, d, h, mi, s, sep, frac, punct) ==
  [year |-> y, month |-> mo, day |-> d, hour |-> h, minute |-> mi,
   second |-> s, sep |-> sep, frac |-> frac, punct |-> punct]

\* well-formed instants over the years up to 2135, every month
CalendarInputs ==
  { Ts(y, mo, d, h, 59, 60, "Z", <<>>, TRUE) :
      y \in {2000, 2001, 2003, 2004, 2099, 2100, 2104, 2135},
      mo \in 1 .. 12, d \in {1, 29, 31}, h \in {0, 23} }

\* fractions: none, empty, short, exactly 6, truncated, too long
FractionInputs ==
  { Ts(2004, 3, 1, 12, 0, 0, ".", f, TRUE) :
      f \in {<<>>, <<5>>, <<0, 0, 0, 0, 0, 1>>, <<1, 2, 3, 4, 5, 6, 7, 8, 9>>,
             <<9, 9, 9, 9, 9, 9, 9, 9, 9, 9>>, <<1, 1, 1, 1, 1, 1, 1, 1, 1, 1, 1>>} }

\* one field out of range, or the shape wrong
RejectedInputs ==
  { Ts(1999, 12, 31, 23, 59, 59, "Z", <<>>, TRUE),
    Ts(4028, 1, 1, 0, 0, 0, "Z", <<>>, TRUE),
    Ts(2001, 0, 1, 0, 0, 0, "Z", <<>>, TRUE),
    Ts(2001, 13, 1, 0, 0, 0, "Z", <<>>, TRUE),
    Ts(2001, 1, 32, 0, 0, 0, "Z", <<>>, TRUE),
    Ts(2004, 2, 30, 0, 0, 0, "Z", <<>>, TRUE),
    Ts(2001, 1, 1, 24, 0, 0, "Z", <<>>, TRUE),
    Ts(2001, 1, 1, 0, 60, 0, "Z", <<>>, TRUE),
    Ts(2001, 1, 1, 0, 0, 61, "Z", <<>>, TRUE),
    Ts(2001, 1, 1, 0, 0, 0, "Z", <<>>, FALSE) }

MCCalendarInputs == CalendarInputs \cup FractionInputs \cup RejectedInputs

\* the last years of the range the formatter accepts
MCLateInputs ==
  { Ts(y, 1, 1, 0, 0, 0, "Z", <<>>, TRUE) : y \in {2135, 2136, 2137, 4027} }

\* day 00 of a month
MCDayZeroInputs ==
  { Ts(2001, mo, d, 0, 0, 0, "Z", <<>>, TRUE) : mo \in {1, 3}, d \in {0, 1} }

=============================================================================
