----------------------------- MODULE MCSessions -----------------------------
(* Instances of Sessions for TLC.                                           *)
EXTENDS Sessions, TLC

CONSTANTS a, b

\* Session names are interchangeable.
Symmetry == Permutations(Ids)

\* A prompt that leaves room for a token to be fed back, one that continues it
\* to the last position, and one that diverges and is too long: its first chunk
\* runs, its second fails.
MCPrompts == {<<a>>, <<a, a, b>>, <<a, b, b, b>>}

MCAnonymousPrompts == {<<a, b>>}

MCBatchContexts == {<<a, b>>}
=============================================================================
