--------------------------- MODULE QnnAOTRuntime ---------------------------
(***************************************************************************)
(* Generation on the QNN backend with ahead-of-time compiled graphs        *)
(* (mllm/backends/qnn/aot_rt): Runner, PromptProcessor (chunks of ar_len   *)
(* tokens), TokenGenerator (one token at a time) and KVCacheManager.       *)
(*                                                                         *)
(* The two graphs share one buffer for past tokens and see it with         *)
(* different row lengths, context_len - ar_len and context_len - 1. The    *)
(* buffer is modelled flat; a row stands for one channel of the keys, or   *)
(* one head of the values, which are laid out and moved alike. A cell      *)
(* holds the call, token and row it was computed for. An attention mask is *)
(* the set of columns that each new token attends to: past ones, then new. *)
(***************************************************************************)
EXTENDS Integers, FiniteSets

CONSTANTS
  ContextLen,  \* context_len
  ArLens,      \* values of ar_len to look at
  Rows,        \* num_heads * head_dim
  SeqLens,     \* values of seq_len
  MaxCalls     \* bound: calls of Runner::generate()

ASSUME ContextLenAssumption == ContextLen \in Nat \ {0, 1} /\ Rows \in Nat \ {0}
ASSUME ArLensAssumption == ArLens \subseteq 1..ContextLen

VARIABLES
  ar_len,    \* of the prompt processor
  cur_ar,    \* cur_ar_len_
  buffer,    \* the cells of KVCache::buffer
  mask,      \* mask[i]: the columns that new token i attends to
  phase,     \* "idle", "prefill" or "decode"
  prompt,    \* the number of tokens of the prompt
  pos,       \* current_pos
  left,      \* seq_len less what is generated
  call,      \* history: calls of generate() so far
  spilled    \* history: a cell past the end of the buffer was written

vars == <<ar_len, cur_ar, buffer, mask, phase, prompt, pos, left, call, spilled>>

Least(a, b) == IF a < b THEN a ELSE b

Zero == <<0, 0, 0>>

-----------------------------------------------------------------------------
\* A mistake: the room for the graph with the longer rows is forgotten.
MaxCacheLenOfPrompt(ar) == IF ar = ContextLen THEN ContextLen ELSE ContextLen - ar

\* Runner::load(): max_cache_len.
MaxCacheLen(ar) == IF ar = ContextLen THEN ContextLen ELSE ContextLen - Least(1, ar)

Cells(ar) == 0..(Rows * MaxCacheLen(ar) - 1)

Init ==
  /\ ar_len \in ArLens
  /\ cur_ar = ar_len
  /\ buffer = [c \in Cells(ar_len) |-> Zero]
  /\ mask = [i \in {} |-> {}]
  /\ phase = "idle" /\ prompt = 0 /\ pos = 0 /\ left = 0 /\ call = 0
  /\ spilled = FALSE

\* The length of a row in the layout for ar new tokens.
RowLen(ar) == IF ar = ContextLen THEN ContextLen ELSE ContextLen - ar

\* memmove() of n cells, those that exist.
Move(buf, dst, src, n) ==
  [c \in DOMAIN buf |->
     IF c \in dst..(dst + n - 1) /\ (src + c - dst) \in DOMAIN buf THEN buf[src + c - dst]
     ELSE buf[c]]

\* A mistake: rows are always moved from the first on.
FirstRowFirst(src, dst, i) == i - 1

\* Which row is moved i-th: shrinking rows from the first on, growing ones from
\* the last.
RowMoved(src, dst, i) == IF src > dst THEN i - 1 ELSE Rows - i

\* rearrangeKey() and rearrangeValue()
Rearranged(buf, from, to) ==
  LET src == RowLen(from)
      dst == ContextLen - to
      after[i \in 0..Rows] ==
        IF i = 0 THEN buf
        ELSE LET r == RowMoved(src, dst, i)
             IN Move(after[i - 1], r * dst, r * src, Least(src, dst))
  IN IF from = to THEN buf ELSE after[Rows]

\* attention_map: each new token copies what the one before it attends to, and
\* attends to itself.
NewSeen(i) == 0..i

\* initAttentionMask()
FirstMask(ar, past) ==
  [i \in 0..(ar - 1) |->
     (0..(past - 1)) \cup {ContextLen - ar + j : j \in NewSeen(i)}]

\* The window is as long as the context: updateAttentionMask() hides the first
\* columns of a token that would look back farther.
Outside(past, i) == 0..(past - (ContextLen - (i + 1)) - 1)

\* updateAttentionMask(), without and then with the window.
NextMask(m, past, n) ==
  [i \in DOMAIN m |-> (m[i] \cup past..(past + n - 1)) \ Outside(past + n, i)]

-----------------------------------------------------------------------------
\* updateKey() and updateValue(): n new tokens go behind the past ones, row after
\* row, wherever the row ends.
Written(buf, n) ==
  [c \in DOMAIN buf |->
     LET R == {r \in 0..(Rows - 1) :
                 c \in (r * RowLen(cur_ar) + pos)..(r * RowLen(cur_ar) + pos + n - 1)}
         r == CHOOSE r \in R : \A q \in R : q <= r
     IN IF R = {} THEN buf[c] ELSE <<call, c - r * RowLen(cur_ar), r>>]

Spills(n) == (Rows - 1) * RowLen(cur_ar) + pos + n - 1 \notin DOMAIN buffer

UpdateCache(n) ==
  /\ buffer' = Written(buffer, n)
  /\ spilled' = (spilled \/ Spills(n))

\* Runner::generate(): prefill() begins.
Generate(n, s) ==
  /\ phase = "idle" /\ call < MaxCalls
  /\ call' = call + 1
  /\ phase' = "prefill" /\ prompt' = n /\ pos' = 0 /\ left' = s
  /\ buffer' = Rearranged(buffer, cur_ar, ar_len)
  /\ cur_ar' = ar_len
  /\ mask' = FirstMask(ar_len, 0)
  /\ UNCHANGED <<ar_len, spilled>>

Chunk == Least(ar_len, prompt - pos)

\* One pass of prefill()'s loop.
PrefillChunk ==
  /\ phase = "prefill" /\ pos < prompt
  /\ UpdateCache(Chunk)
  /\ mask' = NextMask(mask, pos, Chunk)
  /\ pos' = pos + Chunk
  /\ UNCHANGED <<ar_len, cur_ar, phase, prompt, left, call>>

\* TokenGenerator::generate() begins.
BeginDecode ==
  /\ phase = "prefill" /\ pos = prompt
  /\ phase' = "decode"
  /\ buffer' = Rearranged(buffer, cur_ar, 1)
  /\ cur_ar' = 1
  /\ mask' = FirstMask(1, pos)
  /\ UNCHANGED <<ar_len, prompt, pos, left, call, spilled>>

MayGoOn == left > 0 /\ pos < ContextLen

\* One pass of its loop, which may end with an end-of-sequence token.
DecodeStep ==
  /\ phase = "decode" /\ MayGoOn
  /\ UpdateCache(1)
  /\ mask' = [i \in DOMAIN mask |-> mask[i] \cup {pos}]
  /\ pos' = pos + 1
  /\ left' \in {left - 1, 0}
  /\ UNCHANGED <<ar_len, cur_ar, phase, prompt, call>>

EndDecode ==
  /\ phase = "decode" /\ ~MayGoOn
  /\ phase' = "idle" /\ mask' = [i \in {} |-> {}]
  /\ prompt' = 0 /\ pos' = 0 /\ left' = 0
  /\ UNCHANGED <<ar_len, cur_ar, buffer, call, spilled>>

Next ==
  \/ \E n \in 1..ContextLen, s \in SeqLens : Generate(n, s)
  \/ PrefillChunk \/ BeginDecode \/ DecodeStep \/ EndDecode

Spec == Init /\ [][Next]_vars

-----------------------------------------------------------------------------
\* The prompt is no longer than the rows of the prompt graph: then nothing it
\* writes runs into the next row. The code does not look.
Fits == prompt <= RowLen(ar_len)

\* The number of tokens the next forward() computes.
Incoming == IF phase = "prefill" THEN Chunk ELSE 1

AboutToRun == (phase = "prefill" /\ pos < prompt) \/ (phase = "decode" /\ MayGoOn)

\* What a graph is given: new token i attends, in each row, to every past token of
\* this call, each in its place, and to the new ones up to itself; nothing of an
\* earlier call is left in sight, although the buffer is never cleared and changes
\* its layout twice in a call.
AttendsExactly ==
  AboutToRun /\ Fits =>
    \A i \in 0..(Incoming - 1) :
      LET past == {c \in mask[i] : c < ContextLen - cur_ar}
          new == {c - (ContextLen - cur_ar) : c \in mask[i] \ past}
      IN /\ new = 0..i
         /\ past = 0..(pos - 1)
         /\ \A r \in 0..(Rows - 1) : \A c \in past :
              buffer[r * (ContextLen - cur_ar) + c] = <<call, c, r>>

\* Nothing is written past the end of the buffer, except by what fills the context:
\* a prompt that does not fit, or the token after which no other has room.
StaysInside == spilled' # spilled => ~Fits \/ pos = ContextLen - 1

WritesStayInside == [][StaysInside]_vars
=============================================================================
