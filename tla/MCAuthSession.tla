---------------------------- MODULE MCAuthSession ----------------------------
(* AuthSession for TLC; the sets are model values.  No grant, call or tab is  *)
(* told from another: which free one is taken makes no difference.            *)
EXTENDS AuthSession, TLC

Anonymous == Permutations(Tab) \cup Permutations(Slot) \cup Permutations(Grant)
=============================================================================
