--------------------------- MODULE MCCredentialGate ---------------------------
(* Instances of CredentialGate for TLC: one voter with a second DID, an     *)
(* ordinary issuer and a mandatory one.                                    *)
EXTENDS CredentialGate, TLC

CONSTANTS v1, d1, i1, i2, s1, s2, t1, t2

MCScopeTypeOf == s1 :> t1 @@ s2 :> t1
MCIssuedIn == i1 :> s1 @@ i2 :> s2

MCInitiallyIssued == {<<d1, s1>>}
MCInitiallyPrimary == v1 :> None @@ d1 :> v1

MCCredentials ==
  {[issuer |-> i, subject |-> v1, expires |-> 0, valid |-> TRUE] : i \in Issuers}
  \cup {[issuer |-> i1, subject |-> v1, expires |-> 1, valid |-> FALSE]}

WorkerSymmetry == Permutations(Workers)
=============================================================================
