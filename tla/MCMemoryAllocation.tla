-------------------------- MODULE MCMemoryAllocation --------------------------
(***************************************************************************)
(* Small instances of MemoryAllocation for TLC: memory.cfg takes all five  *)
(* policies, memory_pages.cfg paging, memory_region.cfg best-fit and       *)
(* memory_evict.cfg first-fit.                                             *)
(***************************************************************************)
EXTENDS MemoryAllocation
=============================================================================
