---------------------------- MODULE KVOwnership ----------------------------
(***************************************************************************)
(* What TokenToKVPoolAllocator promises its callers, whatever it keeps in  *)
(* its free lists: every page of the KV pool belongs to at most one        *)
(* caller, an allocation hands out pages nobody owns, and only the owner   *)
(* of a page gives it up.                                                  *)
(***************************************************************************)
CONSTANTS
  Callers,  \* those who allocate KV pages
  Pages     \* the pages of the pool

VARIABLE owned  \* owned[c]: the pages caller c may write to

Unowned == Pages \ UNION {owned[c] : c \in Callers}

Init == owned = [c \in Callers |-> {}]

Acquire(c, P) ==
  /\ P \subseteq Unowned
  /\ owned' = [owned EXCEPT ![c] = @ \cup P]

Release(c, P) ==
  /\ P \subseteq owned[c]
  /\ owned' = [owned EXCEPT ![c] = @ \ P]

Next == \E c \in Callers, P \in SUBSET Pages : Acquire(c, P) \/ Release(c, P)

Spec == Init /\ [][Next]_owned

\* No page is written to by two callers: what makes a KV index usable as an
\* address of a request's own keys and values.
Exclusive ==
  \A c, d \in Callers : c # d => owned[c] \cap owned[d] = {}
=============================================================================
