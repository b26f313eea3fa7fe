------------------------------- MODULE ZenFS -------------------------------
(***************************************************************************)
(* The lanes of the C++ prefix cache: ZenFileSystem (mllm/engine/          *)
(* prefix_cache/ZenFS.cpp) with the address arithmetic of TLB.cpp. A blob  *)
(* has Lanes lanes, a lane the K or V of a token; blobs are in memory or   *)
(* anonymous maps. The file system is a function from the ids of its blobs *)
(* to the set of free bits in their bitmaps; a bitmap is whole words, all  *)
(* bits set, so it may have more bits than the blob has lanes.             *)
(***************************************************************************)
EXTENDS Integers, FiniteSets, FiniteSetsExt, Bitwise

CONSTANTS
  PageBits,  \* page_bits
  LaneBits,  \* lane_bits
  WordBits   \* bits of a word of the bitmap, 64 in the code

Lanes == 2^(PageBits + LaneBits)

\* The options with which the bitmap has a bit for each lane and no more: those of
\* the layers with full attention by default (4096 lanes), but not those of a window
\* of fewer than 64 tokens.
LanesFit ==
  /\ PageBits \in Nat /\ LaneBits \in Nat /\ WordBits \in Nat \ {0}
  /\ Lanes % WordBits = 0

BitmapBits == ((Lanes + WordBits - 1) \div WordBits) * WordBits

BlobAddr(addr) == addr \div Lanes

PageAddr(addr) == (addr \div 2^LaneBits) % 2^PageBits

LaneAddr(addr) == addr % 2^LaneBits

\* initialize(): the first blob.
OneBlob == [b \in {0} |-> 0..(BitmapBits - 1)]

WithoutBit(fs, b, bit) == [fs EXCEPT ![b] = @ \ {bit}]

\* The number of the blob, shifted, or the number of the bit: a bit beyond the lanes
\* runs into the number of the blob.
AddrOf(b, bit) ==
  IF bit < Lanes THEN b * Lanes + bit
  ELSE (b | (bit \div Lanes)) * Lanes + (bit % Lanes)

\* _findFreeAddrInBlob(): the lowest free bit.
FindFree(fs, b) ==
  LET bit == Min(fs[b]) IN [fs |-> WithoutBit(fs, b, bit), addr |-> AddrOf(b, bit)]

HaveFree(fs) == {b \in DOMAIN fs : fs[b] # {}}

\* _createBlobOnAnonymousFile(), under the next id.
WithNewBlob(fs) ==
  [b \in DOMAIN fs \cup {Cardinality(DOMAIN fs)} |->
     IF b \in DOMAIN fs THEN fs[b] ELSE 0..(BitmapBits - 1)]

\* malloc(): the ways it may go, the map deciding which blob it looks at first.
Malloc(fs) ==
  LET gs == IF HaveFree(fs) = {} THEN WithNewBlob(fs) ELSE fs
  IN {FindFree(gs, b) : b \in HaveFree(gs)}

\* free(): the bit of the lane within its page, whatever the page.
FreeLane(fs, addr) ==
  IF BlobAddr(addr) \in DOMAIN fs
  THEN [fs EXCEPT ![BlobAddr(addr)] = @ \cup {LaneAddr(addr)}]
  ELSE fs

\* access(): the lane behind an address, as blob and number there.
Access(addr) == <<BlobAddr(addr), PageAddr(addr) * 2^LaneBits + LaneAddr(addr)>>
=============================================================================
