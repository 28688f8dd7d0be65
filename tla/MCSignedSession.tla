--------------------------- MODULE MCSignedSession ---------------------------
(***************************************************************************)
(* Instances of SignedSession for TLC: two extensions that share a         *)
(* namespace, and so one session file, each executed by one runtime.       *)
(***************************************************************************)
EXTENDS SignedSession, TLC

CONSTANTS r1, r2, e1, e2

TwoRuntimes == {r1, r2}
TwoExtensions == {e1, e2}
OwnExtension == (r1 :> e1) @@ (r2 :> e2)

\* The two runtimes differ in nothing but their names, extension included.
Interchangeable ==
    {p \in Permutations({r1, r2, e1, e2}) :
        \A r \in TwoRuntimes :
            p[r] \in TwoRuntimes /\ p[OwnExtension[r]] = OwnExtension[p[r]]}

\* A bound: a behaviour has one event, or one post that is repeated for a busy
\* server or provider.
OneTrouble ==
    LET Repeats(r) == call[r].provider + (IF call[r].tries > 1 THEN 1 ELSE 0)
    IN  events + Repeats(r1) + Repeats(r2) <= 1
=============================================================================
