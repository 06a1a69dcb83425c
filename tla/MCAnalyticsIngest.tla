-------------------------- MODULE MCAnalyticsIngest --------------------------
(***************************************************************************)
(* A small instance of AnalyticsIngest: one page, two ways to store the    *)
(* session marker, windows of a few seconds, days of two.                  *)
(***************************************************************************)
EXTENDS AnalyticsIngest, TLC

CONSTANTS s1, s2, k1, k2, k3, local, cookie, page

MCBurstOf == [w \in Rows |-> page]

Symmetry == Permutations(Slots) \cup Permutations(Keys) \cup Permutations(Rows)

\* Once the database has come or gone, no property that holds speaks of what
\* the two stores contain, and no step is decided by it: of the states that
\* differ in nothing else one is looked at.
WhatMatters ==
    <<clock, recent, bucket, jobs, accepted, standing, steady,
      IF steady THEN <<online, database, memory>> ELSE <<>> >>
=============================================================================
