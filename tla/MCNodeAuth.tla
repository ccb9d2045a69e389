----------------------------- MODULE MCNodeAuth -----------------------------
(***************************************************************************)
(* Small instances of NodeAuth.                                            *)
(***************************************************************************)
EXTENDS NodeAuth, TLC

MCSymmetry == Permutations(Client) \cup Permutations(Credential)
=============================================================================
