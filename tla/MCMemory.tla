----------------------------- MODULE MCMemory -----------------------------
(***************************************************************************)
(* The two memory pools of the C++ engine, side by side for TLC: the pool  *)
(* of the Ascend backend and the buddy pool of the host. Each behaviour    *)
(* moves only one of them, so the state spaces add up.                     *)
(***************************************************************************)
EXTENDS AscendMemoryPool

CONSTANTS HostStorages, HostSizes, MinOrder, FirstOrder, LargestOrder, Threshold, MaxSegments

VARIABLES segments, blocks

hostVars == <<segments, blocks>>

Host == INSTANCE BuddyMemPool WITH Storages <- HostStorages, Sizes <- HostSizes

ASSUME HostAssumption == Host!OrdersFit /\ Host!SizesFit

MCInit == Init /\ Host!Init

MCNext ==
  \/ Host!Init /\ Next /\ UNCHANGED hostVars
  \/ Init /\ Host!Next /\ UNCHANGED vars

MCSpec == MCInit /\ [][MCNext]_<<vars, hostVars>>

\* The properties of the host pool, see BuddyMemPool. Its blocks cover the segments
\* exactly, whatever was split and merged.
HostTiled == Host!Tiled

\* The used counter of a segment counts the bytes of its used blocks.
HostUsedExact == Host!UsedExact

\* Free buddies never stay apart.
HostCoalesced == Host!Coalesced
=============================================================================
