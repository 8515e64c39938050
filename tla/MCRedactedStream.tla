-------------------------- MODULE MCRedactedStream --------------------------
(***************************************************************************)
(* Texts for RedactedStream: every sequence of a few fragments of a family *)
(* (addresses; digits, which cards and numbers compete for; keys and runs  *)
(* that outgrow the ceiling).                                              *)
(***************************************************************************)
EXTENDS RedactedStream

MCAlphabet == Local \cup Separator \cup {"@"}

Joined(fragments, n) == {FlattenSeq(f) : f \in BoundedSeq(fragments, n)}

Addresses ==
    Joined({<<"a", "@", "a">>, <<".", "a">>, <<".">>, <<"1">>, <<" ">>}, 4)
Numbers ==
    Joined({<<"1">>, <<"0">>, <<" ">>, <<"1", "-">>}, 5)
Runs ==
    Joined({<<"a", "a", "a", "a">>, <<"k", "-">>, <<"1">>, <<" ">>, <<"@", "a", ".", "a">>}, 4)

MCTexts == Addresses \cup Numbers \cup Runs

\* A number that fails the checksum, before one that passes; an address that
\* goes on after a dot.
TakenBack ==
    {<<"1", " ", "0", "0", " ", "1", "1">>, <<"a", "@", "a", ".", "a", ".", "a">>}
=============================================================================
