---------------------------- MODULE MCLifecycle ----------------------------
(***************************************************************************)
(* Instances of Lifecycle for TLC.                                         *)
(***************************************************************************)
EXTENDS Lifecycle, TLC

CONSTANTS s1, s2, a, b, c, e1

\* Two starts of one session and one of another: both a duplicate start and a
\* contest for the last slot can happen.
TwoAndOne == (a :> s1) @@ (b :> s1) @@ (c :> s2)

OnlyTwo == (a :> s1) @@ (b :> s1)

\* Container names that differ, as those of ordinary session ids do.
OwnNames == [s \in Sessions |-> s]

=============================================================================
