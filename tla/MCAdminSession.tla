--------------------------- MODULE MCAdminSession ---------------------------
(* Two tabs of one browser for AdminSession. *)
EXTENDS AdminSession, TLC

TabsAreAlike == Permutations(Tabs)
=============================================================================
