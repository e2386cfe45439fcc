------------------------------ MODULE MCIdentity ------------------------------
(***************************************************************************)
(* An instance of Identity for TLC, in which one of the three parts moves. *)
(***************************************************************************)
EXTENDS Identity

CONSTANTS s1, s2  \* subjects of credentials

(* A consistent issuer with every success, one with failures and violations, *)
(* one that claims more successes than attempts, one with a first issuance.  *)
MCMetrics ==
  {[attempted |-> 0, successful |-> 0, breadth |-> 100, violations |-> 0, dated |-> FALSE],
   [attempted |-> 4, successful |-> 3, breadth |-> 50, violations |-> 11, dated |-> FALSE],
   [attempted |-> 1, successful |-> 3, breadth |-> 0, violations |-> 0, dated |-> FALSE],
   [attempted |-> 1, successful |-> 1, breadth |-> 0, violations |-> 0, dated |-> TRUE]}

(* An old authentication credential, and a wallet in both formats.          *)
MCWallets ==
  LET old(s, a, n) == [vc |-> n, subject |-> s, auth |-> a, wrapped |-> FALSE] IN
  {<<>>, <<old(s1, TRUE, 10)>>,
   <<[old(s1, FALSE, 10) EXCEPT !.wrapped = TRUE], old(s1, TRUE, 11)>>}

OneAtATime == {{"trust"}, {"account"}, {"login"}}
=============================================================================
