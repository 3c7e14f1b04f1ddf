----------------------------- MODULE MCRtspMounts -----------------------------
(* The TLC instance of RtspMounts: two streams one after the other and two    *)
(* media, the second of which needs a factory of its own.                     *)
EXTENDS RtspMounts, TLC
CONSTANTS m1, m2
Symmetry == Permutations(Media)

\* Both media are followed for the first stream; once there is a second one,
\* what is left of the first and one medium at a time.
OneMediumForTheSecond ==
  added = 2 => Cardinality({m \in Media : media[m].at # "none"}) <= 1
=============================================================================
