----------------------------- MODULE MCMmapFile -----------------------------
(* MmapFile with pages of four bytes, and ranges within a page, at its end  *)
(* and over the bound of two.                                               *)
EXTENDS MmapFile
=============================================================================
