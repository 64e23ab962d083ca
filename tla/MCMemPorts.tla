----------------------------- MODULE MCMemPorts -----------------------------
(* A small instance of MemPorts: one public and one secure address. *)
EXTENDS MemPorts

MCAddr == {0, 1}
MCTag  == {"own", "other"}
=============================================================================
