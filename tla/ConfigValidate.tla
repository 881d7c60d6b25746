---------------------------- MODULE ConfigValidate ----------------------------
(***************************************************************************)
(* h_jsonexport_validate in src/src/hooks/jsonexport.c: the "jpointers"   *)
(* list is rewritten in place, entry by entry, into arrays of five        *)
(* strings [jpointer, pqtype, action, filter, data].  Each iteration      *)
(* appends a new array at the end, fills it from the first element and    *)
(* removes that element, so after the loop the list holds the normalised  *)
(* entries in their original order.                                       *)
(*                                                                         *)
(* A libconfig setting is abstracted to its shape and its members:        *)
(*   scalar: elems = <<v>>;                                                *)
(*   array:  elems = the members, all strings or all NonString (libconfig *)
(*           arrays hold scalars of one type);                             *)
(*   group:  elems = the values of the keys jpointer, pqtype, action,      *)
(*           filter, data in that order, Missing where a key is absent;    *)
(*   list (or any other shape): elems = <<>>.                              *)
(* A string is a TLA+ string; a value of another type is NonString, for   *)
(* which config_setting_get_string gives NULL.                            *)
(***************************************************************************)
EXTENDS Naturals, Sequences, SequencesExt

CONSTANTS
  Lists,       \* candidate "jpointers" settings: Seq of entries, or NotList
  MaxEntries,  \* bound on the length of a candidate list
  NULL,        \* the NULL pointer
  Missing,     \* config_setting_get_elem / lookup found no member
  NonString,   \* a member of a type other than string
  NotList      \* "jpointers" absent, or not a list

VARIABLES
  orig,     \* the list as the configuration file gave it
  setting,  \* the list as the validator has rewritten it so far
  i,        \* the loop counter
  status    \* "start", "running", "ok" (returned true) or "error"

vars == <<orig, setting, i, status>>

PqTypes      == {"text", "timestamp"}
ActionTypes  == {"store", "store_true", "discard_false", "discard_true", "store_meta"}
FilterTypes  == {"noop", "match", "substr", "exists"}

\* filter_types[_filtertype_enum(filter)].needs_data
NeedsData(f) == f \in {"match", "substr"}

\* config_setting_get_string: NULL for a member that is not a string
Str(v) == IF v = NonString THEN NULL ELSE v

\* config_setting_get_elem(child, j), j counted from 1
Member(e, j) == IF j <= Len(e.elems) THEN e.elems[j] ELSE Missing

Ok(tuple) == [ok |-> TRUE, tuple |-> tuple]
Error     == [ok |-> FALSE, tuple |-> <<>>]

\* a new array of five string settings, none set yet
NewArray == [shape |-> "array", elems |-> <<NULL, NULL, NULL, NULL, NULL>>]

\* a bare scalar: the jpointer, defaults elsewhere
NormScalar(e) ==
  IF Str(e.elems[1]) = NULL THEN Error ELSE Ok(<<e.elems[1], "text", "store", "noop", "">>)

\* an optional positional member: absent keeps the default; a string must
\* name a known value; a NULL string is taken as is
Optional(m, default, known) ==
  IF m = Missing THEN [ok |-> TRUE, v |-> default]
  ELSE IF Str(m) # NULL /\ Str(m) \notin known THEN [ok |-> FALSE, v |-> NULL]
  ELSE [ok |-> TRUE, v |-> Str(m)]

\* (the data member read whatever the filter)
NormArrayAnyData(e) ==
  LET pq  == Optional(Member(e, 2), "text", PqTypes)
      act == Optional(Member(e, 3), "store", ActionTypes)
      fil == Optional(Member(e, 4), "noop", FilterTypes)
      d   == IF Member(e, 5) = Missing THEN "" ELSE Str(Member(e, 5))
  IN  IF Member(e, 1) = Missing \/ Str(Member(e, 1)) = NULL \/ ~(pq.ok /\ act.ok /\ fil.ok)
      THEN Error
      ELSE IF NeedsData(fil.v) /\ (Member(e, 5) = Missing \/ d = NULL) THEN Error
      ELSE Ok(<<Member(e, 1), pq.v, act.v, fil.v, d>>)

\* an array: positional members, defaults for a missing suffix, data read
\* only when the filter needs it
NormArray(e) ==
  LET pq  == Optional(Member(e, 2), "text", PqTypes)
      act == Optional(Member(e, 3), "store", ActionTypes)
      fil == Optional(Member(e, 4), "noop", FilterTypes)
      d   == Str(Member(e, 5))
  IN  IF Member(e, 1) = Missing \/ Str(Member(e, 1)) = NULL \/ ~(pq.ok /\ act.ok /\ fil.ok)
      THEN Error
      ELSE IF ~NeedsData(fil.v) THEN Ok(<<Member(e, 1), pq.v, act.v, fil.v, "">>)
      ELSE IF Member(e, 5) = Missing \/ d = NULL THEN Error
      ELSE Ok(<<Member(e, 1), pq.v, act.v, fil.v, d>>)

\* config_setting_lookup_string of a group key: a string value, or nothing
Lookup(e, j) == IF e.elems[j] \in {Missing, NonString} THEN Missing ELSE e.elems[j]

\* (a named key taken without looking it up in the table)
NamedUnchecked(v, default, known) ==
  IF v = Missing THEN [ok |-> TRUE, v |-> default] ELSE [ok |-> TRUE, v |-> v]

\* a named key: absent (or not a string) keeps the default
Named(v, default, known) ==
  IF v = Missing THEN [ok |-> TRUE, v |-> default]
  ELSE [ok |-> v \in known, v |-> v]

\* a group: jpointer required as a string, the other keys by name
NormGroup(e) ==
  LET pq  == Named(Lookup(e, 2), "text", PqTypes)
      act == Named(Lookup(e, 3), "store", ActionTypes)
      fil == Named(Lookup(e, 4), "noop", FilterTypes)
  IN  IF Lookup(e, 1) = Missing \/ ~(pq.ok /\ act.ok /\ fil.ok) THEN Error
      ELSE IF ~NeedsData(fil.v) THEN Ok(<<Lookup(e, 1), pq.v, act.v, fil.v, "">>)
      ELSE IF Lookup(e, 5) = Missing THEN Error
      ELSE Ok(<<Lookup(e, 1), pq.v, act.v, fil.v, Lookup(e, 5)>>)

\* the body of the loop for one child: its five strings, or goto error;
\* any other shape is reported and falls through with a NULL jpointer
Normalize(e) ==
  CASE e.shape = "scalar" -> NormScalar(e)
    [] e.shape = "array"  -> NormArray(e)
    [] e.shape = "group"  -> NormGroup(e)
    [] OTHER              -> Ok(<<NULL, "text", "store", "noop", "">>)

\* (the first element left in place)
RotateKeep(s, tuple) == Append(s, [shape |-> "array", elems |-> tuple])

\* the new array filled in at the end and the first element removed
Rotate(s, tuple) == Append(Tail(s), [shape |-> "array", elems |-> tuple])

\* (the loop counter not advanced)
NextIndexStuck(k) == k

\* i++ of the loop over the list
NextIndex(k) == k + 1

Init ==
  /\ orig \in Lists
  /\ setting = orig
  /\ i = 0
  /\ status = "start"

\* CONF_GET_MEM and CONF_IS_LIST on "jpointers"
Start ==
  /\ status = "start"
  /\ status' = IF orig = NotList THEN "error" ELSE "running"
  /\ UNCHANGED <<orig, setting, i>>

\* one iteration of the loop over config_setting_length(setting)
Iterate ==
  /\ status = "running" /\ i < Len(setting)
  /\ LET r == Normalize(Head(setting))
     IN  IF r.ok
         THEN setting' = Rotate(setting, r.tuple) /\ i' = NextIndex(i) /\ UNCHANGED status
         ELSE setting' = Append(setting, NewArray) /\ status' = "error" /\ UNCHANGED i
  /\ UNCHANGED orig

\* the loop ends: return true
Finish ==
  /\ status = "running" /\ i >= Len(setting)
  /\ status' = "ok"
  /\ UNCHANGED <<orig, setting, i>>

Next == Start \/ Iterate \/ Finish

Spec == Init /\ [][Next]_vars

\* h_jsonexport_validate is one sequential call: it takes no lock and waits
\* on nothing, so the next statement is eventually executed
FairSpec == Spec /\ WF_vars(Next)

-----------------------------------------------------------------------------
(* The reference: the normalisation the specification describes.          *)

Defaults == <<"text", "store", "noop", "">>

IsString(v) == v \notin {Missing, NonString, NULL}

\* the 5-tuple an entry normalises to, from its jpointer and the given
\* values (Missing where not given); rejected on an unknown value or a
\* filter argument missing where the filter needs one
RefTuple(jp, pq, act, fil, d) ==
  LET v(x, j) == IF x = Missing THEN Defaults[j] ELSE x
      f == v(fil, 3)
  IN  IF ~IsString(jp) \/ v(pq, 1) \notin PqTypes \/ v(act, 2) \notin ActionTypes
         \/ f \notin FilterTypes \/ (NeedsData(f) /\ ~IsString(d))
      THEN Error
      ELSE Ok(<<jp, v(pq, 1), v(act, 2), f, IF NeedsData(f) THEN d ELSE "">>)

\* bare string, array of 1-5 strings, or group; any other shape rejected
RefNormal(e) ==
  CASE e.shape = "scalar" -> IF IsString(e.elems[1]) THEN RefTuple(e.elems[1], Missing, Missing, Missing, Missing) ELSE Error
    [] e.shape = "array"  ->
         IF Len(e.elems) \in 1 .. 5 /\ \A j \in 1 .. Len(e.elems) : IsString(e.elems[j])
         THEN RefTuple(Member(e, 1), Member(e, 2), Member(e, 3), Member(e, 4), Member(e, 5))
         ELSE Error
    [] e.shape = "group"  -> RefTuple(e.elems[1], e.elems[2], e.elems[3], e.elems[4], e.elems[5])
    [] OTHER              -> Error

-----------------------------------------------------------------------------
(* Properties.                                                             *)

Shapes == {"scalar", "array", "group", "list"}

TypeOK ==
  /\ status \in {"start", "running", "ok", "error"}
  /\ i \in 0 .. MaxEntries
  /\ setting = NotList \/ (Len(setting) <= MaxEntries + 1 /\ \A k \in DOMAIN setting : setting[k].shape \in Shapes)

(* When h_jsonexport_validate has returned, it returned true exactly when *)
(* every entry of the list is one the specification accepts, and then the *)
(* list holds, in the original order, each entry's 5-tuple with the       *)
(* defaults filled in and data set only for match and substr: the         *)
(* append-fill-remove rotation loses, reorders or repeats no entry.       *)
ValidationMatchesSpec ==
  status \in {"ok", "error"} =>
    IF orig # NotList /\ \A k \in DOMAIN orig : RefNormal(orig[k]).ok
    THEN status = "ok"
         /\ setting = [k \in DOMAIN orig |-> [shape |-> "array", elems |-> RefNormal(orig[k]).tuple]]
    ELSE status = "error"

(* h_jsonexport_validate returns: the loop re-reads                        *)
(* config_setting_length(setting) on every iteration while each iteration *)
(* appends one entry and removes one, so it ends only because the removal *)
(* and i++ keep the remaining work shrinking.                             *)
ValidationReturns == <>(status \in {"ok", "error"})

=============================================================================
