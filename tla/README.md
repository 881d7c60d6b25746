# TLA+ models of schaufel's jsonexport hook and producer dispatch

This directory holds TLA+ models of the jsonexport hook in
`src/src/hooks/jsonexport.c` and of the producer dispatch in `src/src/producer.c`. TLC checks them. The hook turns a JSON message into a
PostgreSQL binary row. It is configured by a list of *jpointers*: a JSON pointer, a
PostgreSQL type, an action and a filter each. Worker threads run it on many messages
at once.

## The system

| Part | Code | State | Operations |
|------|------|-------|------------|
| Configuration validator | `h_jsonexport_validate` (655-817) | the libconfig list | rewrites every entry (string, array or group) into a 5-tuple `[jpointer, pqtype, action, filter, data]` with defaults |
| Needle compiler | `_needles`, `h_jsonexport_init`, the `pq_types` / `action_types` / `filter_types` tables | the global `Internal`: needles, `ncount`, `fields`, the leap-year table | init, free |
| Evaluator | `h_jsonexport`, `_deref`, filters, actions | per call: a copy of `Internal`, the JSON tree | copy, terminator check, parse, one `_deref` iteration per needle |
| Formatters | `_json_to_pqtext`, `_json_to_pqtimestamp`, `_leapyear` | a result pointer and a length per needle | text: a pointer into the tree; timestamp: 8 malloc'ed bytes |
| Serializer and metadata | `h_jsonexport` 572-609 | the row buffer, the message metadata | one iteration per stored needle: length, bytes, disposer, `jpointer` metadata |
| Producer dispatch | `src/src/producer.c` | a producer handle | init, free, produce |
| Logger | `src/unnamed/part_000` (`logger.h`) | none | declarations only |

How the parts interact:

- The validator normalises the configuration.
- `h_jsonexport_init` compiles the normalised tuples into the global `Internal`.
- Each call of `h_jsonexport` copies that `Internal` (`_copy_internal`). Calls run
  concurrently, and the per-needle `result`, `length` and `metadata` fields are
  written during a call.
- `_deref` fills the copy.
- The serializer reads the copy and disposes each result.
- `_free_internal` releases the copy.
- `h_jsonexport_free` tears the global down. The pipeline must stop calling the hook
  first.

### The hard behaviours

- **Concurrent handlers.** They share the global `Internal`, and only the copy keeps
  them apart.
- **Memory ownership.** Text results are borrowed from the JSON tree. Timestamp
  results are owned, and they are disposed on three paths: by the serialisation loop,
  by the fail-path loop, and by `_free_internal`. Only `_obj_free`'s reset to NULL
  makes that safe.
- **Several exit paths.** `h_jsonexport` returns from each, and each must release
  what it took.
- **Timestamp arithmetic.** It is done in `uint32` and `uint64`, with a hand-written
  Gregorian day-of-year loop and a prefix table of leap years.

## Modules

| Module | Models | Notes |
|--------|--------|-------|
| `Timestamp` | `_json_to_pqtimestamp` and `_leapyear` | A timestamp string is abstracted to what the formatter reads: the numbers `strtoul` parses, whether the punctuation is right, the separator and the fraction digits. The length is derived from those. C integers wider than TLC's are little-endian byte sequences, so `uint32` and `uint64` wrap as in C (`AddW`, `MulW`, `Widen`, `U32`). The module also holds an independent calendar reference (`Reference`). |
| `MCTimestamp` | the formatter called once per timestamp needle | One action, `Format(t)`, over a set `Inputs` of strings. |
| `JsonExport` | init, handler and free | See below. |
| `ConfigValidate` | `h_jsonexport_validate` | A libconfig setting is its shape plus its members. Array members are all strings or all of another type, because libconfig arrays are homogeneous. One action per loop iteration: append, fill, remove element 0. `Start` checks `jpointers`, and `Finish` returns true. The module also holds `RefNormal`, the normalisation spec §4.8 describes. |
| `MCConfigValidate` | every list of up to `MaxEntries` of 22 entries | Also holds the list-shaped entry for the violation run. |
| `Projector` | what the hook promises, per the specification | One atomic `Handle` step per message: the message is dropped unchanged, or it is kept with exactly one row and the last `store_meta` value as metadata. |
| `MCJsonExport` | two threads, 27 messages, six configurations | Also holds the refinement mapping to `Projector`. |
| `MCConfiguredHook` | validation followed by `h_jsonexport_init` and `h_jsonexport_free` | Composes `ConfigValidate` (over the lists of `MCConfigValidate`) with `JsonExport`, which has no threads here. `Needlestack` reads each rewritten entry as `_needles` does, with `config_setting_get_elem` 0 to 4. `Initialising` is enabled once the validator has returned true. |
| `Producer` | `producer_init`, `producer_free` and `producer_produce` | The handle `p`, each object "none", "live" or "freed", the objects produced to, and a crash. See below. |

### JsonExport: state and actions

**Variables.**

- `ctx`: the hook context.
- `needles`: the compiled needles.
- `fields`: `internal->fields`.
- `store`: the mutable needle fields (`result`, `length`, `metadata`) of the global
  `Internal` and of each thread's copy.
- `work`: which `Internal` a thread uses.
- Per thread: `pc`, `idx` (the loop index), `msg`, `row`, `data` (the payload after
  the hook), `md` (the "jpointer" metadata), `ret`, `exit` (which return path was
  taken) and `diag` (the "Failed to dereference json" log).
- `heap`: every allocation, each "none", "live" or "freed":
  - the copy;
  - the tree;
  - the payload;
  - one 8-byte buffer per timestamp needle.
- `fault`: a crash (NULL dereference, read of freed memory, double free), after
  which the process stops.

**Actions.** A handler is split at the points where another thread may run:

- `Begin`: `_copy_internal`, the terminator check and `json_tokener_parse`.
- `Deref`: one `_deref` iteration, including the filter, the action, the NULL field
  or the formatter, and the whole fail path when `_deref` returns non-zero.
- `Serialize`: one iteration of the row loop, including the disposer and the
  metadata copy.
- `Finish`: `message_set_data`, `free(data)`, `json_object_put` and
  `_free_internal`.

`h_jsonexport_init` and `h_jsonexport_free` are actions of their own. `h_jsonexport_init`
includes the `_*_enum` lookups (`Enum`, with "undef" for an unregistered name) and the
crash of `strdup` on a NULL jpointer (`StrdupsNull`). `Stopped`
stutters after teardown or a crash.

**Tables.** The type, action and filter tables are operators: `Disposer`,
`StoresField`, `ApplyAction` and `ApplyFilter`.

**Data abstraction.**

- A JSON document maps each pointer to a string value, JSON null (`NULL`) or no
  member (`Absent`).
- A string value is its bytes (`text`) together with the timestamp record its
  characters spell (`tm`).
- `Garbage` stands for a payload that does not parse.
- `_json_to_pqtimestamp` is a pure function of the string. `TimestampOf` tabulates it
  once over the strings the messages hold. TLC computes that constant table before
  the search, so it does not redo the byte arithmetic in every state.

### Producer: state and actions

`producer.c` dispatches through a producer's function table. The producers
(`dummy_producer_init` and the table) are not in the repository. Their effect is the
module's one assumption:

- init allocates a live object;
- the table's `producer_free` releases it and, because it gets `&p`, clears the
  caller's handle (`ClearsHandle`).

The actions are:

- `producer_init(kind)`: `'d'` gives a new object and any other kind gives NULL.
- `producer_free` and `producer_produce`: each returns on a NULL handle and otherwise
  dispatches. `Dispatch` gives the crash of a call through a released object.

One owner makes any sequence of calls. Under the `ClearsHandle` assumption, the NULL
guards make every dispatch safe by construction. So the `producer` run checks only the
type invariant. Whether a second free reaches a released producer depends on the
producers' own free, which is not in the repository.

## Runs

| Run | Expect | What it shows |
|-----|--------|---------------|
| `ts_calendar` | pass | Over eight years (leap, non-leap, 2100, 2135) × 12 months × 3 days × 2 hours, six fraction shapes and one string per out-of-range field, the formatter's bytes equal the calendar reference, and it fails exactly on invalid instants (`FormatMatchesReference`). |
| `ts_late` | violation | For 2137-01-01 the `uint32` seconds sum at line 388 wraps. It wraps for every instant from 2136-02-07 on, and years up to 4027 are accepted. |
| `ts_day_zero` | violation | `2001-01-00` is accepted (line 355 checks only `day > 31`) and encoded as 2000-12-31. |
| `validate` | pass | Every list of up to three entries: scalars, arrays of length 0 to 5, groups, and each way an entry is rejected. The validator returns true exactly when the spec accepts every entry, and the list then holds the 5-tuples in the original order (`ValidationMatchesSpec`). Under `FairSpec` the validator always returns (`ValidationReturns`), although its loop re-reads the list's length while it appends and removes entries. The inputs leave list-shaped entries out, which `compose_shape` covers. |
| `hook_core` | pass | Two threads, any of 27 messages and six configurations that together use every type, action and filter. They include a timestamp buffer allocated before a needle that drops the message, and a timestamp needle that is formatted but not stored. Checks `NoUseAfterFree`, `NoDoubleFree`, `SlotBuffersReleased` and `ImplementsProjector`, the refinement of `Projector`: each handled message is what the atomic specification gives, under every interleaving. `PayloadOwnership` says that the hook has freed the payload exactly when it returned true, and that only then does the message hold the new row; spec section 4.5 step 4 moves ownership only on keep. |
| `hook_leak` | violation | A payload without a terminator returns at line 552 with the thread's copy still allocated (`WorkingStateReleased`). |
| `hook_json_null` | violation | A JSON null member reaches `_json_to_pqtext`, and `strlen(NULL)` crashes (`NoNullDeref`). |
| `hook_meta_timestamp` | violation | A `store_meta` timestamp needle: line 591 frees and NULLs the result, then line 597 copies from it (`NoNullDeref`). |
| `compose` | pass | Every list of up to three entries is validated and then compiled. Once the hook is initialised, every original entry is one the specification accepts. Init has not crashed. The needles are, in order, the specification's tuples, and `fields` counts the storing ones (`AcceptedConfigCompiles`). |
| `compose_shape` | violation | A list-shaped entry reaches the validator's else branch at line 802, which logs but does not `goto error`. Validation returns true with a NULL jpointer. `h_jsonexport_init` then crashes in `strdup` (line 431). |
| `producer` | pass | Four objects and the kinds `'d'` and `'x'`, with any sequence of calls, including a free after a failed init and a double free. The handle is always NULL or an object (`TypeOK`). An unknown kind gives NULL, not an unset handle. |
| `hook_deref_log` | violation | A message dropped because a timestamp failed to parse is never logged together with its payload. The formatter and `_deref` (line 492) do log the failure. `ret = _deref(...) != 0` makes `ret` 1, so the `ret == -1` branch that logs the payload is dead (`FormatFailureLogged`). |

Each property of a passing run has a mutant in `PROJECT.json`: a plausible bug in the
mapped code that TLC finds. For example:

- the tree released right after `_deref` (`EndDerefEarlyPut`);
- `_obj_free` not resetting the pointer;
- a `_obj_noop` disposer for timestamps;
- handlers sharing the global `Internal` (`copy_internal_shared`, caught by the
  refinement);
- the month-length parity switching at August;
- the payload freed in the shared drop and error cleanup (`FailPathFreeData`, caught by
  `PayloadOwnership`);
- the validator's `i++` missing (`NextIndexStuck`, caught by `ValidationReturns`);
- the validator accepting any group key name (`NamedUnchecked`, caught by
  `AcceptedConfigCompiles`);
- `producer_init` leaving the handle unset for an unknown kind.

### Bounds

- **`ts_calendar`.** 2135 is the last year whose instants fit the `uint32` sum. The
  inputs cover century and 400-year leap rules (2000, 2100), the February lengths,
  every month boundary and fractions of 0, 1, 6, 9, 10 and 11 digits (truncation,
  `T_MAX`).
- **`hook_core`.** Two threads are enough for one handler to interleave with another
  at every step.
- **Documents.** Two members of five kinds each. Together with the unterminated and
  unparsable messages, they reach every exit path of `h_jsonexport` and every filter
  outcome.
- **Needles.** `MaxNeedles = 2` lets a stored field follow a non-stored one and two
  timestamp buffers coexist. It also lets a buffer allocated by the first needle be
  released on the drop path or by `_free_internal` when the second needle drops the
  message.
- **`validate` and `compose`.** `MaxEntries = 3` gives 11 156 lists, `NotList` included. They include
  every accepted and rejected kind of entry, and lists with two and three storing
  needles. With three entries the rotation moves the head of the list past an
  element that has already been rewritten, and an entry can be rejected after
  earlier ones were rewritten.
- **`producer`.** Four objects are enough for several init, produce and free rounds
  before the allocator is exhausted. A handle can never be reused, so the run ends
  there.
- **Coverage.** Every action and every disjunct fires in the passing runs.

### Fairness

`ConfigValidate!FairSpec` adds weak fairness of the validator's `Next`.
`h_jsonexport_validate` is one sequential call at start-up, so its next statement
is always executed. `ValidationReturns` is checked under it in `validate`. The
other runs are safety runs without fairness.

## Not modelled, and the plan

- **Termination of the handler.** The needle loops of `h_jsonexport` are `for` loops
  with `i++` over a fixed `ncount`, and nothing in the handler waits. No liveness
  property there would say more than the loops' text.
- **Allocation failure.** Spec section 7 makes allocation failure fatal: the process
  aborts. `SCALLOC` does that. The unchecked `realloc` calls that grow the row
  (lines 582 and 588) would instead write through NULL. Every allocation of the
  model succeeds, and this disagreement needs no state search to see.

- **Group keys of a non-string type.** `config_setting_lookup_string` ignores them,
  so the default is kept. The spec says unknown values are rejected. The inputs leave
  this case out as ambiguous.
- **The producers themselves.** `dummy_producer_init` and the function tables are
  not in the repository. `Producer` states what it assumes of them (`ClearsHandle`).
  Several owners sharing one handle are not modelled, because `producer.c` has no
  locking and documents no sharing.
- **`filter_data` lifetime.** `_needles` keeps the pointer that libconfig returns
  (line 455) instead of a copy. It stays valid while the pipeline keeps the
  configuration alive, which is outside `src/`.
- **Resource bounds.** Allocation failure in `_json_to_pqtimestamp` (line 294) and
  `uint16` truncation of `ncount`/`fields` need 65 536 needles, which is out of
  reach.
- **Teardown.** `h_jsonexport_free` racing running handlers: the model only enables
  it when no handler runs, which is the pipeline's contract.
- **Logger.** `logger.h` holds declarations only. Log output is abstracted, except
  for the one diagnosis `diag` records.
