------------------------------ MODULE JsonExport ------------------------------
(***************************************************************************)
(* The jsonexport hook of src/src/hooks/jsonexport.c: h_jsonexport_init   *)
(* compiles the normalised needle tuples, worker threads run h_jsonexport *)
(* on one message each, concurrently, and h_jsonexport_free tears the     *)
(* hook down.                                                             *)
(*                                                                         *)
(* A handler is split into the steps between which another thread may    *)
(* run: the start (copy, terminator check, parse), one iteration of the   *)
(* _deref loop, one iteration of the serialisation loop, and the return.  *)
(* Memory is tracked as blocks that are live or freed, so that a leak, a  *)
(* read of a released block and a double free are states of the model; a *)
(* read through NULL crashes the process, which then stops.               *)
(***************************************************************************)
EXTENDS Naturals, Sequences, SequencesExt, FiniteSets

CONSTANTS
  Threads,     \* worker threads running h_jsonexport
  Configs,     \* candidate normalised jpointers lists (Seq of needle tuples)
  Messages,    \* candidate messages [term: BOOLEAN, doc: Doc or Garbage]
  MaxNeedles,  \* bound on the length of a jpointers list
  NULL,        \* the NULL pointer; also json-c's object for a JSON null
  Absent,      \* a document has no member at this pointer
  Garbage,     \* a payload json_tokener_parse rejects
  NullLength,  \* (uint32)~0, the length written for a NULL field
  NoValue      \* an unset variable

Ts == INSTANCE Timestamp

VARIABLES
  ctx,      \* the hook context: NoValue, "live" or "freed"
  needles,  \* the compiled needles (immutable fields)
  fields,   \* internal->fields, the count of stored needles
  store,    \* mutable needle fields (result, length, metadata) per Internal
  work,     \* the Internal a thread works on ("global" or its copy)
  pc,       \* per thread: "idle", "deref", "serialize", "finish", "done"
  idx,      \* per thread: the needle its loop is at
  msg,      \* per thread: the message it handles
  heap,     \* per block: "none", "live" or "freed"
  row,      \* per thread: the row buffer being built
  data,     \* per thread: NoValue (the payload as received) or the row set
  md,       \* per thread: the message's "jpointer" metadata
  ret,      \* per thread: what h_jsonexport returned
  diag,     \* per thread: "Failed to dereference json" was logged
  exit,     \* per thread: the path by which the handler returned
  fault     \* NoValue, or the memory error that crashed the process

vars == <<ctx, needles, fields, store, work, pc, idx, msg, heap, row, data,
          md, ret, diag, exit, fault>>

Owners == Threads \cup {"global"}
Blocks == (Threads \X {"copy", "tree", "data"} \X {0}) \cup (Threads \X {"result"} \X (1 .. MaxNeedles))
Field  == [len : Nat \cup {NullLength}, bytes : Seq(Nat)]

-----------------------------------------------------------------------------
(* Compiling the configuration: _needles and h_jsonexport_init.           *)

\* action_types[].store
StoresField(a) == a \in {"store", "store_true", "store_meta"}

\* _pqtype_enum, _actiontype_enum, _filtertype_enum: the table entry of that
\* name, entry 0 ("undef") when none matches
Enum(s, names) == IF s \in names THEN s ELSE "undef"

\* one needle as _needles fills it from a normalised tuple
CompileNeedle(e) ==
  [ptr |-> e.ptr,
   type |-> Enum(e.type, {"text", "timestamp"}),
   action |-> Enum(e.action, {"store", "store_true", "discard_false", "discard_true", "store_meta"}),
   filter |-> Enum(e.filter, {"noop", "match", "substr", "exists"}),
   data |-> IF e.filter \in {"match", "substr"} THEN e.data ELSE NULL,
   store |-> StoresField(e.action)]

\* strdup(config_setting_get_string(member)) of a jpointer that is NULL
StrdupsNull(c) == \E k \in DOMAIN c : c[k].ptr = NULL

\* (internal->fields starting from 1 rather than reset to 0)
CountFieldsFromOne(c) == 1 + Cardinality({k \in DOMAIN c : StoresField(c[k].action)})

\* internal->fields: incremented for every needle that stores
CountFields(c) == Cardinality({k \in DOMAIN c : StoresField(c[k].action)})

EmptySlot == [result |-> NULL, length |-> 0, metadata |-> FALSE]

\* h_jsonexport_init: _needles over the list, then ncount; _needles crashes
\* in strdup on a NULL jpointer and the process stops there
h_jsonexport_init(c) ==
  /\ ctx = NoValue
  /\ IF StrdupsNull(c)
     THEN /\ fault' = "null_deref"
          /\ UNCHANGED <<ctx, needles, fields, store>>
     ELSE /\ ctx' = "live"
          /\ needles' = [k \in DOMAIN c |-> CompileNeedle(c[k])]
          /\ fields' = CountFields(c)
          /\ store' = [o \in Owners |-> [k \in DOMAIN c |-> EmptySlot]]
          /\ UNCHANGED fault
  /\ UNCHANGED <<work, pc, idx, msg, heap, row, data, md, ret, diag, exit>>

-----------------------------------------------------------------------------
(* Filters, actions and formatters, as the tables dispatch them.          *)

\* json_object_get_string of a found value
Text(found) == found.text

\* filter_types[].filter, applied to (ret == 0, found)
ApplyFilter(n, resolved, found) ==
  CASE n.filter = "noop"   -> TRUE
    [] n.filter = "exists" -> resolved
    [] n.filter = "match"  -> resolved /\ found # NULL /\ Text(found) = n.data
    [] n.filter = "substr" -> resolved /\ found # NULL /\ n.data \in SubSeqs(Text(found))

\* action_types[].action: TRUE to keep the message
ApplyAction(n, filterRet) ==
  CASE n.action \in {"store", "store_meta"} -> TRUE
    [] n.action \in {"store_true", "discard_false"} -> filterRet
    [] n.action = "discard_true" -> ~filterRet

\* (every type given _obj_noop as its disposer)
DisposerNoop(type) == "obj_noop"

\* pq_types[].free: _obj_free for timestamps, _obj_noop for text (json-c
\* owns the string)
Disposer(type) == IF type = "timestamp" THEN "obj_free" ELSE "obj_noop"

\* (a free that leaves *obj dangling)
ObjFreeKeep(r) == r

\* _obj_free: frees *obj and sets it to NULL; NULL is left alone
ObjFree(r) == NULL

\* whether the disposer of needle n frees result r
Frees(n, r) == Disposer(n.type) = "obj_free" /\ r # NULL

\* needles[i]->free(&needles[i]->result)
Dispose(n, r) == IF Frees(n, r) THEN ObjFree(r) ELSE r

\* the blocks one pass of the disposers over all needles frees
DisposedBlocks(ns, slots) ==
  { slots[k].result.blk : k \in {j \in DOMAIN ns : Frees(ns[j], slots[j].result)} }

\* one pass of the disposers: [heap, slots, double]
DisposeAll(h, ns, slots) ==
  LET B == DisposedBlocks(ns, slots)
  IN  [heap   |-> [b \in DOMAIN h |-> IF b \in B THEN "freed" ELSE h[b]],
       slots  |-> [k \in DOMAIN slots |->
                     [slots[k] EXCEPT !.result = Dispose(ns[k], @)]],
       double |-> \E b \in B : h[b] # "live"]

\* (every handler working on the global Internal)
copy_internal_shared(t) == "global"

\* _copy_internal: the Internal a handler works on, its own copy
copy_internal(t) == t

-----------------------------------------------------------------------------
(* The handler, h_jsonexport, per thread.                                  *)

\* return from h_jsonexport
Return(t, r, why) ==
  /\ pc' = [pc EXCEPT ![t] = "done"]
  /\ ret' = [ret EXCEPT ![t] = r]
  /\ exit' = [exit EXCEPT ![t] = why]

\* _copy_internal, the terminator check and json_tokener_parse
Begin(t) ==
  /\ ctx = "live" /\ fault = NoValue /\ pc[t] = "idle"
  /\ \E m \in Messages :
       LET w == copy_internal(t)
           h == [heap EXCEPT ![<<t, "copy", 0>>] = "live", ![<<t, "data", 0>>] = "live"]
       IN
       /\ msg' = [msg EXCEPT ![t] = m]
       /\ work' = [work EXCEPT ![t] = w]
       /\ store' = [store EXCEPT ![w] = store["global"]]
       /\ \/ /\ ~m.term                          \* data[len] != '\0'
             /\ heap' = h
             /\ Return(t, FALSE, "unterminated")
             /\ UNCHANGED idx
          \/ /\ m.term /\ m.doc = Garbage         \* parse failed
             /\ heap' = [h EXCEPT ![<<t, "copy", 0>>] = "freed"]
             /\ Return(t, FALSE, "unparsable")
             /\ UNCHANGED idx
          \/ /\ m.term /\ m.doc # Garbage
             /\ heap' = [h EXCEPT ![<<t, "tree", 0>>] = "live"]
             /\ pc' = [pc EXCEPT ![t] = "deref"]
             /\ idx' = [idx EXCEPT ![t] = 1]
             /\ UNCHANGED <<ret, exit>>
  /\ UNCHANGED <<ctx, needles, fields, row, data, md, diag, fault>>

\* _json_to_pqtext: a pointer into the JSON tree and its strlen
json_to_pqtext(t, found) ==
  [ok |-> TRUE, result |-> [blk |-> <<t, "tree", 0>>, bytes |-> Text(found)],
   length |-> Len(Text(found)), heap |-> heap]

\* the conversion, a pure function of the string, tabulated over the JSON
\* strings the messages hold
TimestampOf ==
  [v \in UNION {{m.doc[p] : p \in DOMAIN m.doc} : m \in {x \in Messages : x.doc # Garbage}}
          \ {NULL, Absent} |-> Ts!JsonToPqTimestamp(v.tm)]

\* _json_to_pqtimestamp: malloc'ed 8 bytes, then the conversion
json_to_pqtimestamp(t, k, found) ==
  LET f == TimestampOf[found]
  IN  [ok |-> f.ok, result |-> [blk |-> <<t, "result", k>>, bytes |-> f.bytes],
       length |-> 8, heap |-> [heap EXCEPT ![<<t, "result", k>>] = "live"]]

\* the branch on json_pointer_get's result: a NULL field, or the formatter
FormatNeedle(t, k, n, resolved, found) ==
  CASE ~resolved          -> [ok |-> TRUE, result |-> NULL, length |-> NullLength, heap |-> heap]
    [] n.type = "text"    -> json_to_pqtext(t, found)
    [] OTHER              -> json_to_pqtimestamp(t, k, found)

\* `ret = _deref(...) != 0` binds as `ret = (_deref(...) != 0)`
deref_status(d) == IF d # 0 THEN 1 ELSE 0

\* the fail path of h_jsonexport after _deref returned d: every result
\* disposed, then _free_internal, then json_object_put
\* (the payload freed in the shared cleanup, on the drop path too)
FailPathFreeData(t, h, slots, d, why) ==
  LET p1 == DisposeAll(h, needles, slots)
      p2 == DisposeAll(p1.heap, needles, p1.slots)
  IN  /\ store' = [store EXCEPT ![work[t]] = p2.slots]
      /\ heap' = [p2.heap EXCEPT ![<<t, "copy", 0>>] = "freed", ![<<t, "tree", 0>>] = "freed",
                                  ![<<t, "data", 0>>] = "freed"]
      /\ fault' = IF p1.double \/ p2.double THEN "double_free" ELSE fault
      /\ diag' = [diag EXCEPT ![t] = (deref_status(d) = -1)]
      /\ Return(t, FALSE, why)
      /\ UNCHANGED <<idx, row>>

FailPath(t, h, slots, d, why) ==
  LET p1 == DisposeAll(h, needles, slots)
      p2 == DisposeAll(p1.heap, needles, p1.slots)
  IN  /\ store' = [store EXCEPT ![work[t]] = p2.slots]
      /\ heap' = [p2.heap EXCEPT ![<<t, "copy", 0>>] = "freed", ![<<t, "tree", 0>>] = "freed"]
      /\ fault' = IF p1.double \/ p2.double THEN "double_free" ELSE fault
      /\ diag' = [diag EXCEPT ![t] = (deref_status(d) = -1)]
      /\ Return(t, FALSE, why)
      /\ UNCHANGED <<idx, row>>

\* (the JSON tree put as soon as _deref has extracted the values)
EndDerefEarlyPut(t, h) ==
  /\ pc' = [pc EXCEPT ![t] = "serialize"]
  /\ idx' = [idx EXCEPT ![t] = 1]
  /\ row' = [row EXCEPT ![t] = [count |-> fields, fields |-> <<>>]]
  /\ heap' = [h EXCEPT ![<<t, "tree", 0>>] = "freed"]

\* h_jsonexport once _deref returned 0: the row buffer with its 16-bit count;
\* the JSON tree stays live (heap h) until the row is complete
EndDeref(t, h) ==
  /\ pc' = [pc EXCEPT ![t] = "serialize"]
  /\ idx' = [idx EXCEPT ![t] = 1]
  /\ row' = [row EXCEPT ![t] = [count |-> fields, fields |-> <<>>]]
  /\ heap' = h

\* one iteration of the _deref loop: json_pointer_get, filter, action, and
\* the NULL field or the formatter
Deref(t) ==
  /\ fault = NoValue /\ pc[t] = "deref"
  /\ LET w     == work[t]
         k     == idx[t]
         n     == needles[k]
         v     == msg[t].doc[n.ptr]
         found == IF v = Absent THEN NULL ELSE v
         resolved == v # Absent
         keep  == ApplyAction(n, ApplyFilter(n, resolved, found))
         \* _action_store_meta marks the needle when something was found
         s     == [store[w][k] EXCEPT !.metadata =
                     @ \/ (n.action = "store_meta" /\ found # NULL)]
         fmt   == FormatNeedle(t, k, n, resolved, found)
         s2    == [s EXCEPT !.result = fmt.result, !.length = fmt.length]
     IN
     \/ /\ ~keep
        /\ FailPath(t, heap, [store[w] EXCEPT ![k] = s], 1, "discarded")
     \/ /\ keep /\ resolved /\ found = NULL       \* strlen(NULL) in a formatter
        /\ fault' = "null_deref"
        /\ UNCHANGED <<store, heap, pc, idx, row, diag, ret, exit>>
     \/ /\ keep /\ (~resolved \/ found # NULL) /\ fmt.ok
        /\ store' = [store EXCEPT ![w][k] = s2]
        /\ IF k < Len(needles)
           THEN idx' = [idx EXCEPT ![t] = k + 1] /\ heap' = fmt.heap /\ UNCHANGED <<pc, row>>
           ELSE EndDeref(t, fmt.heap)
        /\ UNCHANGED <<fault, diag, ret, exit>>
     \/ /\ keep /\ found # NULL /\ ~fmt.ok        \* _deref returns -1
        /\ FailPath(t, fmt.heap, [store[w] EXCEPT ![k] = s2], -1, "format_failed")
  /\ UNCHANGED <<ctx, needles, fields, work, msg, data, md>>

\* a result the row may copy from: NULL, or a pointer to a live block
Readable(r) == IF r = NULL THEN TRUE ELSE heap[r.blk] = "live"

\* one iteration of the serialisation loop of h_jsonexport: the length, the
\* bytes, the disposer, then the metadata copy
Serialize(t) ==
  /\ fault = NoValue /\ pc[t] = "serialize"
  /\ LET w  == work[t]
         k  == idx[t]
         n  == needles[k]
         s  == store[w][k]
         f  == [len |-> s.length, bytes |-> IF s.result = NULL THEN <<>> ELSE s.result.bytes]
         r2 == Dispose(n, s.result)
         h2 == IF Frees(n, s.result)
               THEN [heap EXCEPT ![s.result.blk] = "freed"] ELSE heap
         Continue ==
           IF k < Len(needles)
           THEN idx' = [idx EXCEPT ![t] = k + 1] /\ UNCHANGED pc
           ELSE pc' = [pc EXCEPT ![t] = "finish"] /\ UNCHANGED idx
     IN
     \/ /\ ~n.store
        /\ Continue
        /\ UNCHANGED <<store, heap, row, md, fault>>
     \/ /\ n.store /\ ~Readable(s.result)
        /\ fault' = "use_after_free"
        /\ UNCHANGED <<store, heap, row, md, pc, idx>>
     \/ /\ n.store /\ Readable(s.result)
        /\ row' = [row EXCEPT ![t].fields = Append(@, f)]
        /\ store' = [store EXCEPT ![w][k].result = r2]
        /\ heap' = h2
        /\ \/ /\ ~s.metadata
              /\ Continue /\ UNCHANGED <<md, fault>>
           \/ /\ s.metadata /\ r2 = NULL              \* memcpy from NULL
              /\ fault' = "null_deref"
              /\ UNCHANGED <<md, pc, idx>>
           \/ /\ s.metadata /\ r2 # NULL              \* metadata_insert
              /\ md' = [md EXCEPT ![t] = r2.bytes]
              /\ Continue /\ UNCHANGED fault
  /\ UNCHANGED <<ctx, needles, fields, work, msg, data, ret, diag, exit>>

\* message_set_data, free(data), json_object_put, _free_internal, return true
Finish(t) ==
  /\ fault = NoValue /\ pc[t] = "finish"
  /\ LET h == [heap EXCEPT ![<<t, "data", 0>>] = "freed", ![<<t, "tree", 0>>] = "freed"]
         p == DisposeAll(h, needles, store[work[t]])
     IN  /\ data' = [data EXCEPT ![t] = row[t]]
         /\ store' = [store EXCEPT ![work[t]] = p.slots]
         /\ heap' = [p.heap EXCEPT ![<<t, "copy", 0>>] = "freed"]
         /\ fault' = IF p.double THEN "double_free" ELSE fault
         /\ Return(t, TRUE, "kept")
  /\ UNCHANGED <<ctx, needles, fields, work, idx, msg, row, md, diag>>

\* h_jsonexport_free, once the pipeline has stopped calling the hook
h_jsonexport_free ==
  /\ ctx = "live" /\ fault = NoValue
  /\ \A t \in Threads : pc[t] \in {"idle", "done"}
  /\ LET p == DisposeAll(heap, needles, store["global"])
     IN  /\ ctx' = "freed"
         /\ store' = [store EXCEPT !["global"] = p.slots]
         /\ heap' = p.heap
         /\ fault' = IF p.double THEN "double_free" ELSE fault
  /\ UNCHANGED <<needles, fields, work, pc, idx, msg, row, data, md, ret, diag, exit>>

\* the hook torn down, or the process crashed: nothing more happens
Stopped == (ctx = "freed" \/ fault # NoValue) /\ UNCHANGED vars

Init ==
  /\ ctx = NoValue
  /\ needles = <<>>
  /\ fields = 0
  /\ store = [o \in Owners |-> <<>>]
  /\ work = [t \in Threads |-> NoValue]
  /\ pc = [t \in Threads |-> "idle"]
  /\ idx = [t \in Threads |-> 0]
  /\ msg = [t \in Threads |-> NoValue]
  /\ heap = [b \in Blocks |-> "none"]
  /\ row = [t \in Threads |-> NoValue]
  /\ data = [t \in Threads |-> NoValue]
  /\ md = [t \in Threads |-> NoValue]
  /\ ret = [t \in Threads |-> NoValue]
  /\ diag = [t \in Threads |-> FALSE]
  /\ exit = [t \in Threads |-> NoValue]
  /\ fault = NoValue

Next ==
  \/ \E c \in Configs : h_jsonexport_init(c)
  \/ \E t \in Threads : Begin(t) \/ Deref(t) \/ Serialize(t) \/ Finish(t)
  \/ h_jsonexport_free
  \/ Stopped

Spec == Init /\ [][Next]_vars

-----------------------------------------------------------------------------
(* Properties.                                                             *)

TypeOK ==
  /\ ctx \in {NoValue, "live", "freed"}
  /\ fields \in 0 .. MaxNeedles
  /\ pc \in [Threads -> {"idle", "deref", "serialize", "finish", "done"}]
  /\ idx \in [Threads -> 0 .. MaxNeedles]
  /\ heap \in [Blocks -> {"none", "live", "freed"}]
  /\ ret \in [Threads -> {NoValue, TRUE, FALSE}]
  /\ diag \in [Threads -> BOOLEAN]
  /\ fault \in {NoValue, "null_deref", "use_after_free", "double_free"}
  /\ \A t \in Threads : row[t] # NoValue =>
        /\ row[t].count \in 0 .. MaxNeedles
        /\ row[t].fields \in Seq(Field)

(* No step reads a block after it was released: in particular the text   *)
(* fields, which point into the JSON tree, are copied into the row before *)
(* json_object_put releases the tree (h_jsonexport, _json_to_pqtext).     *)
NoUseAfterFree == fault # "use_after_free"

(* No block is released twice, although the timestamp buffers are        *)
(* disposed by the serialisation loop, by the fail path's loop and again  *)
(* by _free_internal: _obj_free must leave the result NULL.               *)
NoDoubleFree == fault # "double_free"

(* When a handler has returned, by any path, every timestamp buffer its   *)
(* formatter calls allocated has been released.                           *)
SlotBuffersReleased ==
  \A t \in Threads : pc[t] = "done" =>
    \A k \in 1 .. MaxNeedles : heap[<<t, "result", k>>] # "live"

(* When a handler has returned, by any path, its working copy of the      *)
(* needles and its JSON tree have been released (spec: per-invocation     *)
(* state is released before return on every exit path).                  *)
WorkingStateReleased ==
  \A t \in Threads : pc[t] = "done" =>
    heap[<<t, "copy", 0>>] # "live" /\ heap[<<t, "tree", 0>>] # "live"

(* The payload changes hands only when h_jsonexport returns true: then   *)
(* it has freed the payload and the message holds the new row; when it    *)
(* returns false, on any of its four paths, the payload is still live and *)
(* the message unchanged, so the caller, which releases the payload       *)
(* exactly on false, neither frees it twice nor loses it.                 *)
PayloadOwnership ==
  \A t \in Threads : pc[t] = "done" =>
    IF ret[t] = TRUE
    THEN heap[<<t, "data", 0>>] = "freed" /\ data[t] = row[t]
    ELSE heap[<<t, "data", 0>>] = "live" /\ data[t] = NoValue

(* No handler dereferences NULL: a JSON null member reaches a formatter   *)
(* only as a value it can render, and the metadata copy of a stored       *)
(* field reads bytes that are still there.                                *)
NoNullDeref == fault # "null_deref"

(* A handler that drops a message because a formatter failed logs "Failed *)
(* to dereference json" with the payload, as the check of _deref's -1 in  *)
(* h_jsonexport intends.                                                  *)
FormatFailureLogged ==
  \A t \in Threads : exit[t] = "format_failed" => diag[t]

=============================================================================

