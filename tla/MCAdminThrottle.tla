--------------------------- MODULE MCAdminThrottle ---------------------------
(***************************************************************************)
(* A small instance of AdminThrottle: two logins, two addresses, limits    *)
(* that are reached within a few seconds and lockouts of 1, 2, 3, 3, ...   *)
(***************************************************************************)
EXTENDS AdminThrottle, TLC

CONSTANTS admin, guest, home, office

\* The counters of logins and the API calls of each address share nothing but
\* the clock: what breaks a promise of one of them breaks it without the
\* others, so no state in which two have been used is explored further.
OneAtATime ==
    \/ \A a \in Callers : admitted[a] = <<>>
    \/ /\ \A k \in Keys : counters[k] = NoFailures
       /\ \E a \in Callers : \A b \in Callers \ {a} : admitted[b] = <<>>

Symmetry == Permutations(Addresses)
=============================================================================
