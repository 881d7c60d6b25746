--------------------------- MODULE MCConfiguredHook ---------------------------
(***************************************************************************)
(* The start of a pipeline with the jsonexport hook: h_jsonexport_validate *)
(* rewrites the "jpointers" list, and when it has returned true           *)
(* h_jsonexport_init compiles the rewritten list (_needles reads each      *)
(* entry as an array of five strings); h_jsonexport_free may follow.      *)
(*                                                                         *)
(* The validator is the module this one extends, over the lists of        *)
(* MCConfigValidate; the hook is JsonExport with no worker threads, since  *)
(* no message is handled before initialisation has returned.  A jpointer  *)
(* and a filter argument stay the validator's strings: _needles copies    *)
(* them and never looks inside.                                           *)
(***************************************************************************)
EXTENDS MCConfigValidate, FiniteSets

CONSTANTS Absent, Garbage, NullLength, NoValue

VARIABLES ctx, needles, fields, store, work, pc, idx, msg, heap, row, data,
          md, ret, diag, exit, fault

hookVars == <<ctx, needles, fields, store, work, pc, idx, msg, heap, row, data,
              md, ret, diag, exit, fault>>

H == INSTANCE JsonExport
       WITH Threads <- {}, Configs <- {}, Messages <- {}, MaxNeedles <- MaxEntries

\* config_setting_get_elem(setting, 0 .. 4) of one rewritten entry, as the
\* tuple _needles reads
NeedleTuple(e) ==
  [ptr |-> e.elems[1], type |-> e.elems[2], action |-> e.elems[3],
   filter |-> e.elems[4], data |-> e.elems[5]]

\* config_setting_get_member(config, "jpointers") after validation
Needlestack == [k \in DOMAIN setting |-> NeedleTuple(setting[k])]

ComposedInit == Init /\ H!Init

\* a step of h_jsonexport_validate
Validating == Next /\ UNCHANGED hookVars

\* the pipeline initialises the hook once validation returned true
Initialising == status = "ok" /\ H!h_jsonexport_init(Needlestack) /\ UNCHANGED vars

\* the pipeline stops and tears the hook down
TearingDown == H!h_jsonexport_free /\ UNCHANGED vars

ComposedNext == Validating \/ Initialising \/ TearingDown

ComposedSpec == ComposedInit /\ [][ComposedNext]_<<vars, hookVars>>

-----------------------------------------------------------------------------

(* Once the hook has been initialised from a list the validator accepted, *)
(* every entry of the configuration is one the specification accepts and *)
(* the hook holds, in order, one needle per entry with the jpointer, the  *)
(* registered type, action and filter and the filter argument the        *)
(* specification gives it, and internal->fields counts the storing ones:  *)
(* validation and _needles agree on every entry, and init does not crash. *)
AcceptedConfigCompiles ==
  (ctx # NoValue \/ fault # NoValue) =>
    /\ fault = NoValue
    /\ orig # NotList /\ \A k \in DOMAIN orig : RefNormal(orig[k]).ok
    /\ DOMAIN needles = DOMAIN orig
    /\ \A k \in DOMAIN orig :
         LET r == RefNormal(orig[k]).tuple
         IN  /\ needles[k].ptr = r[1]
             /\ needles[k].type = r[2]
             /\ needles[k].action = r[3]
             /\ needles[k].filter = r[4]
             /\ NeedsData(r[4]) => needles[k].data = r[5]
    /\ fields = Cardinality({k \in DOMAIN orig :
                   RefNormal(orig[k]).tuple[3] \in {"store", "store_true", "store_meta"}})

=============================================================================
