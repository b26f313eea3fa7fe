------------------------------ MODULE MCCaches ------------------------------
(***************************************************************************)
(* The KV caches of the C++ engine side by side for TLC: that of the QNN   *)
(* runtime, the prefix cache behind a session of the service, and the      *)
(* prefix cache with sliding-window layers. Each behaviour moves only one  *)
(* of them, so the state spaces add up.                                    *)
(***************************************************************************)
EXTENDS QnnAOTRuntime

CONSTANTS
  Answers, Think, Close, Eos, MaxLength, MaxRequests,
  SessionPageBits, SessionLaneBits, SessionWordBits, Window, WordBits, MaxTokens

VARIABLES
  s_fs, tlb, lane, s_tree, seq, k, v, next, position, pc, package, promoted, requests,
  fs, tree, ids, evict, added

sessionVars ==
  <<s_fs, tlb, lane, s_tree, seq, k, v, next, position, pc, package, promoted, requests>>

windowVars == <<fs, tree, ids, evict, added>>

\* Conversations in which no token occurs at two places.
Placed == {<<a>> : a \in {11, 12}} \cup {<<a, b>> : a \in {11, 12}, b \in {21, 22}}
            \cup {<<11, b, 31>> : b \in {21, 22}}

Session == INSTANCE Qwen3Session WITH
  Bodies <- Placed, PageBits <- SessionPageBits, LaneBits <- SessionLaneBits,
  WordBits <- SessionWordBits, fs <- s_fs, tree <- s_tree

\* No token at two places; two branchings.
PlacedTokens == <<{11}, {21, 22}, {31, 32}, {41}>>

Windowed == INSTANCE SlidingWindow WITH Tokens <- PlacedTokens

ASSUME CachesAssumption == Session!SessionAssumption /\ Windowed!WindowAssumption

MCInit == Init /\ Session!Init /\ Windowed!Init

\* The prefix caches move next to one of the initial states of the QNN runtime.
AtRest == Init /\ \A n \in ArLens : ar_len <= n

MCNext ==
  \/ Session!Init /\ Windowed!Init /\ Next /\ UNCHANGED <<sessionVars, windowVars>>
  \/ AtRest /\ Windowed!Init /\ Session!Next /\ UNCHANGED <<vars, windowVars>>
  \/ AtRest /\ Session!Init /\ Windowed!Next /\ UNCHANGED <<vars, sessionVars>>

MCSpec == MCInit /\ [][MCNext]_<<vars, sessionVars, windowVars>>

\* The properties of a session, see Qwen3Session. Attention reads, for each token of
\* the sequence, what was computed for it after just the tokens before it.
SessionReadsOwnPrefix == Session!ReadsOwnPrefix

\* Every node of the session's tree leads to what was computed for its tokens.
TreeHoldsItsTokens == Session!TreeHoldsItsTokens

\* A search finds as much of a sequence as any promoted one has in common with it.
FindsLongest == Session!FindsLongest

\* The properties of the prefix cache with a window, see SlidingWindow. A key is
\* stored behind each address in its tree.
WindowAddressesHold == Windowed!AddressesHold

\* While the first bitmap lasts, addresses in its tree are allocated to one token
\* each, although lanes are freed under shared nodes.
WindowAllocatedOnce == Windowed!AllocatedOnce

\* Evicting for a sequence leaves that sequence's window alone.
WindowEvictionKeepsWindow == Windowed!EvictionKeepsWindow
=============================================================================
