--------------------------- MODULE MCConfigValidate ---------------------------
(***************************************************************************)
(* The validator on every "jpointers" list of up to MaxEntries entries    *)
(* drawn from the entries below.                                          *)
(***************************************************************************)
EXTENDS ConfigValidate

S(v)  == [shape |-> "scalar", elems |-> <<v>>]
A(vs) == [shape |-> "array", elems |-> vs]
G(jp, pq, act, fil, d) == [shape |-> "group", elems |-> <<jp, pq, act, fil, d>>]

\* scalars, arrays of every length 0..5, groups, each with the ways an
\* entry is rejected
Entries ==
  { S("/a"), S(NonString),
    A(<<>>), A(<<NonString>>), A(<<"/a">>), A(<<"/b", "timestamp">>), A(<<"/a", "bogus">>),
    A(<<"/a", "text", "nope">>), A(<<"/a", "text", "store", "nope">>),
    A(<<"/a", "text", "store_true", "match">>), A(<<"/a", "text", "store_true", "match", "x">>),
    A(<<"/a", "text", "discard_true", "exists", "x">>),
    G("/b", Missing, Missing, Missing, Missing), G("/b", "timestamp", "store_meta", Missing, Missing),
    G("/b", Missing, Missing, "substr", Missing), G("/b", Missing, Missing, "substr", "x"),
    G("/b", Missing, Missing, "exists", "x"), G(Missing, "timestamp", Missing, Missing, Missing),
    G(NonString, Missing, Missing, Missing, Missing), G("/b", "bogus", Missing, Missing, Missing),
    G("/b", Missing, "nope", Missing, Missing), G("/b", Missing, Missing, "nope", Missing) }

MCLists == {NotList} \cup UNION {[1 .. n -> Entries] : n \in 0 .. MaxEntries}

\* a list entry, (...) in libconfig: neither scalar, array nor group
ListEntry == [shape |-> "list", elems |-> <<>>]

MCShapeLists == {<<ListEntry>>, <<S("/a"), ListEntry>>}

=============================================================================
