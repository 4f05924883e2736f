------------------------------ MODULE MCReads ------------------------------
(* Bounds for TLC: two qualifiers, two leaves, lookups of at most two rows. *)
EXTENDS Replies

MCKeyOrder == <<"callees_total", "callers_total", "groups", "qualifier", "rows">>
MCEvidenceKeys == {"callees_total", "callers_total", "rows"}
MCNames == {<<"p", "s">>, <<"p", "t">>, <<"s">>}
MCSymbols == {<<"p", "s">>, <<"s">>}
MCGraphs == {[names |-> {}, whole |-> TRUE], [names |-> {}, whole |-> FALSE],
             [names |-> {<<"p", "t">>, <<"s">>}, whole |-> TRUE],
             [names |-> MCNames, whole |-> TRUE]}
=============================================================================
