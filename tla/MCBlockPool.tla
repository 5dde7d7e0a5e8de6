----------------------------- MODULE MCBlockPool -----------------------------
(***************************************************************************)
(* Three blocks, three holders, a validation counter of two bits (it wraps *)
(* at every third call), and every table of up to two entries, one of them *)
(* out of range, offered to the pool as a misuse.                          *)
(***************************************************************************)
EXTENDS BlockPool, SequencesExt

MCBadTables == BoundedSeq(0..Count, 2)
=============================================================================
