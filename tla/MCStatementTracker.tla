------------------------- MODULE MCStatementTracker -------------------------
(***************************************************************************)
(* Instances of StatementTracker for TLC.                                   *)
(***************************************************************************)
EXTENDS StatementTracker, TLC

CONSTANTS s1, s2, m1, m2, t1, t2, r1, r2, null

MCTwo      == {s1, s2}
MCMeasured == {r1, r2}
MCReports  == {r1, r2, null}
MCShort    == 1..2

\* Statements, sources, threads and measured reports are only compared.
MCSymmetry == Permutations({s1, s2}) \cup Permutations({m1, m2})
              \cup Permutations({t1, t2}) \cup Permutations({r1, r2})
=============================================================================
