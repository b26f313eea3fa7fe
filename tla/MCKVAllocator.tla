--------------------------- MODULE MCKVAllocator ---------------------------
(***************************************************************************)
(* Two instances of KVAllocator for TLC: the one of the cfg, which is the  *)
(* mode the model runner uses (a KV index per page, sorted lists), and one *)
(* with pages of two slots, a short last page and unsorted lists. Each     *)
(* behaviour moves only one of them, so the state spaces add up.           *)
(***************************************************************************)
EXTENDS KVAllocator

VARIABLES p_free, p_release, p_in_group, p_group, p_held, p_answer

pagedVars == <<p_free, p_release, p_in_group, p_group, p_held, p_answer>>

Paged == INSTANCE KVAllocator WITH
  Size <- 5, PageSize <- 2, NeedSort <- FALSE,
  free_slots <- p_free, release_slots <- p_release, in_free_group <- p_in_group,
  free_group <- p_group, held <- p_held, answer <- p_answer

MCInit == Init /\ Paged!Init

MCNext ==
  \/ Paged!Init /\ Next /\ UNCHANGED pagedVars
  \/ Init /\ Paged!Next /\ UNCHANGED vars

MCSpec == MCInit /\ [][MCNext]_<<vars, pagedVars>>

\* The allocator in page mode implements KVOwnership too: a page that is cut short
\* is handed out to one caller at a time, like the others.
PagedOwnership == Paged!OwnershipSpec
=============================================================================
