---------------------------- MODULE MCJsonExport ----------------------------
(***************************************************************************)
(* Two worker threads running the jsonexport hook on one message each,    *)
(* over documents with two members, and the refinement of Projector.     *)
(***************************************************************************)
EXTENDS JsonExport

\* byte strings, one letter per byte
Yes == <<1, 2, 3>>
No  == <<4, 5>>
Es  == <<2, 3>>

TsStr(y, mo, d, punct) ==
  [year |-> y, month |-> mo, day |-> d, hour |-> 12, minute |-> 30, second |-> 15,
   sep |-> ".", frac |-> <<5>>, punct |-> punct]

\* JSON strings: what json_object_get_string renders, and what the
\* timestamp formatter reads from them
VYes == [text |-> Yes, tm |-> TsStr(2000, 1, 1, FALSE)]
VNo  == [text |-> No, tm |-> TsStr(2000, 1, 1, FALSE)]
VTs  == [text |-> <<6>>, tm |-> TsStr(2004, 2, 29, TRUE)]

Keys == {"a", "b"}

\* a document's member at each pointer: a string, JSON null, or none
Docs == [Keys -> {VYes, VNo, VTs, NULL, Absent}]

MCMessages ==
  {[term |-> TRUE, doc |-> d] : d \in Docs}
    \cup {[term |-> FALSE, doc |-> [k \in Keys |-> VYes]], [term |-> TRUE, doc |-> Garbage]}

N(p, ty, a, f, d) == [ptr |-> p, type |-> ty, action |-> a, filter |-> f, data |-> d]

MCConfigs ==
  { << N("a", "text", "store", "noop", <<>>), N("b", "timestamp", "store", "noop", <<>>) >>,
    << N("a", "text", "discard_false", "match", Yes), N("b", "text", "store_meta", "noop", <<>>) >>,
    << N("a", "text", "store_true", "substr", Es), N("b", "timestamp", "discard_true", "exists", <<>>) >>,
    << N("a", "timestamp", "store_meta", "noop", <<>>), N("b", "text", "store", "exists", <<>>) >>,
    \* a timestamp buffer allocated before a needle that may drop the message
    << N("a", "timestamp", "store", "noop", <<>>), N("b", "text", "discard_true", "exists", <<>>) >>,
    \* a timestamp needle that is formatted but never stored
    << N("a", "timestamp", "discard_false", "exists", <<>>), N("b", "text", "store", "noop", <<>>) >> }

-----------------------------------------------------------------------------
(* Narrower inputs, each reaching one exit path of h_jsonexport.          *)

\* documents without JSON nulls
PlainDocs == [Keys -> {VYes, VTs, Absent}]

\* the text/timestamp store configuration only
StoreConfigs == { << N("a", "text", "store", "noop", <<>>), N("b", "timestamp", "store", "noop", <<>>) >> }

\* a terminated message and one whose payload lacks the terminator
MCUnterminatedMessages ==
  {[term |-> TRUE, doc |-> [k \in Keys |-> VYes]], [term |-> FALSE, doc |-> [k \in Keys |-> VYes]]}

\* documents whose members may be JSON null
MCNullMessages == {[term |-> TRUE, doc |-> d] : d \in [Keys -> {VYes, VTs, NULL}]}

\* a store_meta timestamp needle, documents without nulls
MetaTimestampConfigs == { << N("a", "timestamp", "store_meta", "noop", <<>>), N("b", "text", "store", "exists", <<>>) >> }
MCPlainMessages == {[term |-> TRUE, doc |-> d] : d \in PlainDocs}

\* documents whose timestamp member may be unparsable
MCBadTimestampMessages == {[term |-> TRUE, doc |-> [a |-> VYes, b |-> v]] : v \in {VTs, VNo}}

-----------------------------------------------------------------------------
(* Refinement of Projector.                                                *)

AbsConf ==
  [k \in DOMAIN needles |->
     [ptr |-> needles[k].ptr, type |-> needles[k].type, action |-> needles[k].action,
      filter |-> needles[k].filter,
      data |-> IF needles[k].data = NULL THEN <<>> ELSE needles[k].data]]

Abs == INSTANCE Projector WITH
         hook  <- ctx,
         conf  <- AbsConf,
         input <- [t \in Threads |-> IF pc[t] = "done" THEN msg[t] ELSE NoValue],
         out   <- [t \in Threads |->
                     IF pc[t] = "done" THEN [kept |-> ret[t], data |-> data[t], md |-> md[t]]
                     ELSE NoValue]

(* Each handler, however the threads interleave, leaves its message as    *)
(* the projector specification says a single atomic evaluation would:    *)
(* dropped unchanged, or kept with one row holding internal->fields       *)
(* fields, in needle order, NULL for a missing member, the formatted bytes *)
(* otherwise, and the last store_meta value as metadata.                  *)
ImplementsProjector == Abs!Spec

=============================================================================
