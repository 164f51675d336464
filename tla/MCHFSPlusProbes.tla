--------------------------- MODULE MCHFSPlusProbes ---------------------------
(* Three kinds of file system; HFS+ is the decomposing one. *)
EXTENDS HFSPlusProbes

MCFileSystems == {"bytes", "preserving", "decomposing"}
==============================================================================
