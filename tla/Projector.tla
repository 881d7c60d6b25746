------------------------------ MODULE Projector ------------------------------
(***************************************************************************)
(* What the jsonexport hook promises, per message, as one atomic step:    *)
(* the message is either kept with its payload replaced by exactly one    *)
(* binary row (and the store_meta value published as metadata), or it is  *)
(* dropped unchanged.  Filters, actions, the row layout and the timestamp *)
(* encoding are those the specification of the projector gives; the      *)
(* timestamp is the calendar reference of the Timestamp module.           *)
(***************************************************************************)
EXTENDS Naturals, Sequences, SequencesExt

CONSTANTS Threads, Configs, Messages, NULL, Absent, Garbage, NullLength, NoValue

Ts == INSTANCE Timestamp

VARIABLES
  hook,   \* NoValue before init, "live", then "freed"
  conf,   \* the needle tuples the hook was initialised with
  input,  \* per thread: the message it handled, once handled
  out     \* per thread: NoValue, or the message after the hook

vars == <<hook, conf, input, out>>

\* the action is one that contributes a field to the row
Stored(e) == e.action \in {"store", "store_true", "store_meta"}

\* the message after a drop: payload as received, no metadata
Dropped == [kept |-> FALSE, data |-> NoValue, md |-> NoValue]

\* the outcome of the hook on message m, needles c
Outcome(c, m) ==
  LET Member(e)   == m.doc[e.ptr]
      Resolved(e) == Member(e) # Absent
      Value(e)    == IF Resolved(e) THEN Member(e) ELSE NULL
      Filter(e) ==
        CASE e.filter = "noop"   -> TRUE
          [] e.filter = "exists" -> Resolved(e)
          [] e.filter = "match"  -> Value(e) # NULL /\ Value(e).text = e.data
          [] e.filter = "substr" -> Value(e) # NULL /\ e.data \in SubSeqs(Value(e).text)
      Keep(e) ==
        CASE e.action \in {"store", "store_meta"} -> TRUE
          [] e.action \in {"store_true", "discard_false"} -> Filter(e)
          [] e.action = "discard_true" -> ~Filter(e)
      Payload(e) ==
        IF e.type = "text" THEN Value(e).text ELSE Ts!Reference(Value(e).tm).bytes
      Formats(e) ==
        Value(e) = NULL \/ e.type = "text" \/ Ts!Reference(Value(e).tm).ok
      FieldOf(e) ==
        IF Value(e) = NULL THEN [len |-> NullLength, bytes |-> <<>>]
        ELSE [len |-> Len(Payload(e)), bytes |-> Payload(e)]
      cols  == SelectSeq(c, Stored)
      metas == SelectSeq(c, LAMBDA e : e.action = "store_meta" /\ Value(e) # NULL)
  IN  IF ~m.term \/ m.doc = Garbage \/ \E k \in DOMAIN c : ~Keep(c[k]) \/ ~Formats(c[k])
      THEN Dropped
      ELSE [kept |-> TRUE,
            data |-> [count |-> Len(cols), fields |-> [i \in DOMAIN cols |-> FieldOf(cols[i])]],
            md   |-> IF metas = <<>> THEN NoValue ELSE Payload(Last(metas))]

Init ==
  /\ hook = NoValue
  /\ conf = <<>>
  /\ input = [t \in Threads |-> NoValue]
  /\ out = [t \in Threads |-> NoValue]

Configure(c) ==
  /\ hook = NoValue
  /\ hook' = "live" /\ conf' = c
  /\ UNCHANGED <<input, out>>

Handle(t) ==
  /\ hook = "live" /\ out[t] = NoValue
  /\ \E m \in Messages :
       /\ input' = [input EXCEPT ![t] = m]
       /\ out' = [out EXCEPT ![t] = Outcome(conf, m)]
  /\ UNCHANGED <<hook, conf>>

Teardown ==
  /\ hook = "live" /\ hook' = "freed"
  /\ UNCHANGED <<conf, input, out>>

Next == (\E c \in Configs : Configure(c)) \/ (\E t \in Threads : Handle(t)) \/ Teardown

Spec == Init /\ [][Next]_vars

=============================================================================
