--------------------------- MODULE MCEntryGetters ---------------------------
(* Values over the five characters the scanner treats differently: a key   *)
(* letter, a value letter, '=', '"' and ','.  Pair lists of up to three    *)
(* pairs whose values exercise a comma and an '=' inside quotes, an empty  *)
(* quoted value, and an '=' inside a plain value.                          *)
EXTENDS EntryGetters

MCChars == {"a", "x", "=", "\"", ","}
MCKeys == {<<"a">>, <<"a", "a">>}
MCQuotedVals == {<<>>, <<"x">>, <<",">>, <<"x", "=">>}
MCPlainVals == {<<"x">>, <<"=", "x">>}

=============================================================================
