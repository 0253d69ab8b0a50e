------------------------------- MODULE MCCheck -------------------------------
EXTENDS Check, TLC

Of(s) == Count(NoCounts, s)

\* A comparison whose only metric passes and one whose only metric fails; the
\* warnings are the gate's.
MCDeltas == {Of("pass"), Of("fail")}

Interchangeable == Permutations(Benches)
=============================================================================
