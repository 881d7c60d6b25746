------------------------------- MODULE Producer -------------------------------
(***************************************************************************)
(* The producer dispatch of src/src/producer.c: producer_init picks a     *)
(* producer by its kind character, producer_produce and producer_free     *)
(* dispatch through the producer's function table, each guarded against  *)
(* a NULL handle.                                                         *)
(*                                                                         *)
(* The producers themselves (dummy_producer_init and the functions of its *)
(* table) are not in the repository.  What they do to the objects is the  *)
(* one assumption of this module: init allocates a live producer, and     *)
(* the table's free releases it and, since it is handed &p, clears the    *)
(* caller's handle when ClearsHandle holds.                               *)
(*                                                                         *)
(* The caller is one owner of the handle making any sequence of calls,    *)
(* including a second free and calls after a failed init.                 *)
(***************************************************************************)
EXTENDS Naturals

CONSTANTS
  Kinds,         \* kind characters a caller may pass
  Objects,       \* producer objects the allocator can hand out
  ClearsHandle,  \* whether the producer's free sets *p = NULL
  NULL,
  NoValue

VARIABLES
  p,      \* the caller's Producer handle: NULL or an object
  obj,    \* per object: "none", "live" or "freed"
  sent,   \* the objects a message has been produced to
  fault   \* NoValue, or the crash a dispatch caused

vars == <<p, obj, sent, fault>>

\* a dispatch through the handle: a crash unless it points to a live object
Dispatch(h) ==
  CASE h = NULL             -> "null_deref"
    [] obj[h] = "live"      -> NoValue
    [] OTHER                -> "use_after_free"

\* (the default case falling out of the switch: p left uninitialised, here
\* NoValue)
producer_init_fallthrough(kind) ==
  /\ fault = NoValue
  /\ \/ /\ kind = "d"
        /\ \E o \in Objects :
             /\ obj[o] = "none"
             /\ obj' = [obj EXCEPT ![o] = "live"]
             /\ p' = o
     \/ /\ kind # "d"
        /\ p' = NoValue
        /\ UNCHANGED obj
  /\ UNCHANGED <<sent, fault>>

\* producer_init: 'd' makes a dummy producer, any other kind gives NULL
producer_init(kind) ==
  /\ fault = NoValue
  /\ \/ /\ kind = "d"
        /\ \E o \in Objects :
             /\ obj[o] = "none"
             /\ obj' = [obj EXCEPT ![o] = "live"]
             /\ p' = o
     \/ /\ kind # "d"
        /\ p' = NULL
        /\ UNCHANGED obj
  /\ UNCHANGED <<sent, fault>>

\* producer_free(&p): return on NULL, else (*p)->producer_free(p)
producer_free ==
  /\ fault = NoValue
  /\ p # NULL
  /\ fault' = Dispatch(p)
  /\ IF Dispatch(p) = NoValue
     THEN obj' = [obj EXCEPT ![p] = "freed"] /\ p' = IF ClearsHandle THEN NULL ELSE p
     ELSE UNCHANGED <<obj, p>>
  /\ UNCHANGED sent

\* producer_produce(p, msg): return on NULL, else p->produce(p, msg)
producer_produce ==
  /\ fault = NoValue
  /\ p # NULL
  /\ fault' = Dispatch(p)
  /\ sent' = IF Dispatch(p) = NoValue THEN sent \cup {p} ELSE sent
  /\ UNCHANGED <<p, obj>>

Init ==
  /\ p = NULL
  /\ obj = [o \in Objects |-> "none"]
  /\ sent = {}
  /\ fault = NoValue

Next ==
  \/ \E k \in Kinds : producer_init(k)
  \/ producer_free
  \/ producer_produce

Spec == Init /\ [][Next]_vars

TypeOK ==
  /\ p \in Objects \cup {NULL}
  /\ obj \in [Objects -> {"none", "live", "freed"}]
  /\ sent \subseteq Objects
  /\ fault \in {NoValue, "null_deref", "use_after_free"}

=============================================================================
