----------------------------- MODULE MCMemGuard -----------------------------
(* A small instance of MemGuard: the partition may be put below, between   *)
(* and above the two addresses.                                            *)
EXTENDS MemGuard

MCAddr      == {0, 1}
MCTag       == {"own", "other"}
MCParValues == {0, 1, 2}
=============================================================================
