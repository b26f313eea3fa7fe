------------------------ MODULE QnnAOTRuntimeProofs ------------------------
(***************************************************************************)
(* Proofs about QnnAOTRuntime, for every context length, ar_len, number of *)
(* rows, prompt and number of calls. The inductive invariant says where    *)
(* the tokens of the current call lie in the flat buffer, in the layout of *)
(* the graph that runs next, and what each mask shows; the work is in      *)
(* Rearranged, which moves the rows of one layout over those of another in *)
(* place.                                                                  *)
(***************************************************************************)
EXTENDS QnnAOTRuntime, DataTheorems

\* Every row of buf, read with rows of len cells, starts with n tokens of the call.
Holds(buf, len, n) ==
  \A r \in 0..(Rows - 1), c \in 0..(n - 1) : buf[r * len + c] = <<call, c, r>>

Shape ==
  /\ ar_len \in ArLens
  /\ DOMAIN buffer = Cells(ar_len)
  /\ phase \in {"idle", "prefill", "decode"}
  /\ cur_ar \in {ar_len, 1}
  /\ phase = "prefill" => cur_ar = ar_len
  /\ phase = "decode" => cur_ar = 1
  /\ prompt \in 0..ContextLen /\ pos \in 0..ContextLen
  /\ spilled \in BOOLEAN

\* A graph that takes the whole context at once runs once.
Passes ==
  phase = "prefill" =>
    /\ pos <= prompt
    /\ ar_len = ContextLen => pos = 0 \/ pos = prompt

Seen(ar, i) == (0..(pos - 1)) \cup {ContextLen - ar + j : j \in 0..i}

\* The masks show the past tokens and the new ones up to the token itself, for the
\* tokens that still have a place in the context.
Masks ==
  /\ phase = "prefill" =>
       /\ DOMAIN mask = 0..(ar_len - 1)
       /\ \A i \in 0..(ar_len - 1) : pos + i + 1 <= ContextLen => mask[i] = Seen(ar_len, i)
  /\ phase = "decode" => DOMAIN mask = {0} /\ mask[0] = Seen(1, 0)

\* Past tokens are where the next graph looks for them, as long as they have room.
Placed ==
  phase # "idle" /\ Fits /\ pos <= RowLen(cur_ar) => Holds(buffer, RowLen(cur_ar), pos)

IInv == Shape /\ Passes /\ Masks /\ Placed
-----------------------------------------------------------------------------
\* A row ends before the next begins.
LEMMA RowsInOrder ==
  ASSUME NEW r \in Nat, NEW q \in Nat, NEW len \in Nat, r < q
  PROVE  r * len \in Nat /\ q * len \in Nat /\ r * len + len <= q * len
<1>1. r + 1 <= q
  OBVIOUS
<1>2. (r + 1) * len <= q * len
  BY <1>1
<1>3. (r + 1) * len = r * len + len
  OBVIOUS
<1>. QED BY <1>2, <1>3

\* So a cell is in one row only.
LEMMA OneRow ==
  ASSUME NEW r \in Nat, NEW q \in Nat, NEW len \in Nat, NEW c \in Nat, NEW d \in Nat,
         c < len, d < len, r * len + c = q * len + d
  PROVE  r = q /\ c = d
<1>1. r * len \in Nat /\ q * len \in Nat
  OBVIOUS
<1>2. ~(r < q)
  <2>. SUFFICES ASSUME r < q PROVE FALSE
    OBVIOUS
  <2>1. r * len + len <= q * len
    BY RowsInOrder
  <2>. QED BY <1>1, <2>1
<1>3. ~(q < r)
  <2>. SUFFICES ASSUME q < r PROVE FALSE
    OBVIOUS
  <2>1. q * len + len <= r * len
    BY RowsInOrder
  <2>. QED BY <1>1, <2>1
<1>4. r = q
  BY <1>2, <1>3
<1>. QED BY <1>1, <1>4

\* A cell of a row is in a buffer of rows that are no shorter.
LEMMA CellInside ==
  ASSUME NEW r \in 0..(Rows - 1), NEW len \in Nat, NEW c \in 0..(len - 1),
         NEW m \in Nat, len <= m
  PROVE  r * len + c \in 0..(Rows * m - 1)
<1>0. Rows \in Nat /\ r \in Nat /\ c \in Nat /\ c < len /\ r < Rows
  BY ContextLenAssumption
<1>1. r * len \in Nat /\ r * len + len <= Rows * len
  BY <1>0, RowsInOrder
<1>2. Rows * len <= Rows * m /\ Rows * len \in Nat /\ Rows * m \in Nat
  BY <1>0
<1>. QED BY <1>0, <1>1, <1>2

\* The step by which the rows are moved, and the function it defines.
MoveStep(g, buf, src, dst, i) ==
  IF i = 0 THEN buf
  ELSE Move(g[i - 1], RowMoved(src, dst, i) * dst, RowMoved(src, dst, i) * src, Least(src, dst))

MovesTo(g, buf, src, dst, n) == g = [i \in 0..n |-> MoveStep(g, buf, src, dst, i)]

\* Rearranged is the last value of that function.
LEMMA RearrangedIs ==
  ASSUME NEW buf, NEW from, NEW to, from # to
  PROVE  Rearranged(buf, from, to)
           = (CHOOSE g : MovesTo(g, buf, RowLen(from), ContextLen - to, Rows))[Rows]
BY DEF Rearranged, MovesTo, MoveStep

\* The function exists: it is built up row by row.
LEMMA MovesExist ==
  ASSUME NEW buf, NEW src, NEW dst
  PROVE  \A n \in Nat : \E g : MovesTo(g, buf, src, dst, n)
<1>. DEFINE G == {n \in Nat : \E g : MovesTo(g, buf, src, dst, n)}
<1>1. 0 \in G
  <2>. DEFINE g == [i \in 0..0 |-> buf]
  <2>1. \A i \in 0..0 : MoveStep(g, buf, src, dst, i) = buf
    BY DEF MoveStep
  <2>2. MovesTo(g, buf, src, dst, 0)
    BY <2>1 DEF MovesTo
  <2>. QED BY <2>2
<1>2. ASSUME NEW n \in Nat, n \in G PROVE n + 1 \in G
  <2>1. PICK h : MovesTo(h, buf, src, dst, n)
    BY <1>2
  <2>. DEFINE g == [i \in 0..(n + 1) |-> MoveStep(h, buf, src, dst, i)]
  <2>2. \A i \in 0..n : g[i] = h[i]
    BY <2>1 DEF MovesTo
  <2>3. ASSUME NEW i \in 0..(n + 1)
        PROVE  MoveStep(h, buf, src, dst, i) = MoveStep(g, buf, src, dst, i)
    <3>1. CASE i = 0
      BY <3>1 DEF MoveStep
    <3>2. CASE i # 0
      <4>1. i - 1 \in 0..n
        BY <3>2
      <4>2. g[i - 1] = h[i - 1]
        BY <2>2, <4>1
      <4>. HIDE DEF g
      <4>. QED BY <3>2, <4>2 DEF MoveStep
    <3>. QED BY <3>1, <3>2
  <2>4. MovesTo(g, buf, src, dst, n + 1)
    <3>1. [i \in 0..(n + 1) |-> MoveStep(h, buf, src, dst, i)]
            = [i \in 0..(n + 1) |-> MoveStep(g, buf, src, dst, i)]
      <4>. HIDE DEF g
      <4>. QED BY <2>3
    <3>. QED BY <3>1 DEF MovesTo
  <2>. HIDE DEF g
  <2>. QED BY <2>4
<1>3. \A n \in Nat : n \in G
  <2>. HIDE DEF G
  <2>. QED BY <1>1, <1>2, NatInductive
<1>. QED BY <1>3
\* h with row q moved from its place in one layout to its place in the other.
RowMoves(h, moved, src, dst, w, q) ==
  /\ DOMAIN moved = DOMAIN h
  /\ \A c \in 0..(w - 1) : moved[q * dst + c] = h[q * src + c]
  /\ \A r \in 0..(Rows - 1), c \in 0..(w - 1) :
       r # q => moved[r * dst + c] = h[r * dst + c]
  /\ \A r \in 0..(Rows - 1), c \in 0..(w - 1) :
       (src <= dst /\ r < q) \/ (src > dst /\ r > q) => moved[r * src + c] = h[r * src + c]

\* Moving row q from its place in one layout to its place in the other: it does not
\* hit rows that have arrived, nor, in the order the code chose, rows still to go.
LEMMA MoveRow ==
  ASSUME NEW m \in Nat, NEW src \in Nat, NEW dst \in Nat, src <= m, dst <= m,
         NEW h, DOMAIN h = 0..(Rows * m - 1), NEW q \in 0..(Rows - 1),
         NEW w, w = Least(src, dst), NEW moved, moved = Move(h, q * dst, q * src, w)
  PROVE  RowMoves(h, moved, src, dst, w, q)
<1>0. /\ Rows \in Nat /\ q \in Nat /\ w \in Nat /\ w <= src /\ w <= dst
      /\ q * dst \in Nat /\ q * src \in Nat
  BY ContextLenAssumption DEF Least
<1>1. ASSUME NEW r \in 0..(Rows - 1), NEW c \in 0..(w - 1)
      PROVE  /\ r \in Nat /\ c \in Nat /\ c < w
             /\ r * src \in Nat /\ r * dst \in Nat
             /\ r * dst + c \in DOMAIN h /\ r * src + c \in DOMAIN h
             /\ r * dst + c \in Nat /\ r * src + c \in Nat
  <2>1. r \in Nat /\ c \in Nat /\ c < w /\ c \in 0..(src - 1) /\ c \in 0..(dst - 1)
    BY <1>0
  <2>2. r * src \in Nat /\ r * dst \in Nat
    BY <2>1
  <2>3. r * dst + c \in DOMAIN h /\ r * src + c \in DOMAIN h
    BY <2>1, CellInside
  <2>. QED BY <2>1, <2>2, <2>3
<1>2. DOMAIN moved = DOMAIN h
  BY DEF Move
<1>3. ASSUME NEW c \in 0..(w - 1) PROVE moved[q * dst + c] = h[q * src + c]
  <2>1. /\ c \in Nat /\ c < w /\ q * dst + c \in DOMAIN h /\ q * src + c \in DOMAIN h
        /\ q * dst + c \in Nat
    BY <1>1
  <2>2. PICK a \in Nat, b \in Nat : a = q * dst /\ b = q * src
    BY <1>0
  <2>3. moved = Move(h, a, b, w) /\ a + c \in DOMAIN h /\ b + c \in DOMAIN h /\ a + c \in Nat
    BY <2>1, <2>2
  <2>4. moved[a + c] = h[b + c]
    <3>1. a + c \in a..(a + w - 1) /\ b + (a + c) - a = b + c
      BY <1>0, <2>1
    <3>. QED BY <2>3, <3>1 DEF Move
  <2>. QED BY <2>2, <2>4
<1>4. ASSUME NEW x \in DOMAIN h, x \in Nat, x < q * dst \/ q * dst + w <= x PROVE moved[x] = h[x]
  <2>1. PICK a \in Nat, b \in Nat : a = q * dst /\ b = q * src
    BY <1>0
  <2>2. moved = Move(h, a, b, w) /\ ~(a <= x /\ x < a + w)
    BY <1>0, <1>4, <2>1
  <2>3. x \notin a..(a + w - 1)
    BY <1>0, <1>4, <2>2
  <2>. QED BY <2>2, <2>3 DEF Move
<1>5. ASSUME NEW r \in 0..(Rows - 1), NEW c \in 0..(w - 1), r # q
      PROVE  moved[r * dst + c] = h[r * dst + c]
  <2>0. r \in Nat /\ c \in Nat /\ c < w /\ r * dst \in Nat /\ r * dst + c \in DOMAIN h
    BY <1>1
  <2>1. CASE r < q
    <3>1. r * dst + dst <= q * dst
      BY <1>0, <2>0, <2>1, RowsInOrder
    <3>2. r * dst + c < q * dst
      BY <1>0, <2>0, <3>1
    <3>. QED BY <2>0, <3>2, <1>4
  <2>2. CASE q < r
    <3>1. q * dst + dst <= r * dst
      BY <1>0, <2>0, <2>2, RowsInOrder
    <3>2. q * dst + w <= r * dst + c
      BY <1>0, <2>0, <3>1
    <3>. QED BY <2>0, <3>2, <1>4
  <2>. QED BY <1>0, <1>5, <2>0, <2>1, <2>2
<1>6. ASSUME NEW r \in 0..(Rows - 1), NEW c \in 0..(w - 1), src <= dst, r < q
      PROVE  moved[r * src + c] = h[r * src + c]
  <2>0. r \in Nat /\ c \in Nat /\ c < w /\ r * src \in Nat /\ r * src + c \in DOMAIN h
    BY <1>1
  <2>1. r * src + src <= q * src
    BY <1>0, <1>6, <2>0, RowsInOrder
  <2>2. q * src <= q * dst
    BY <1>0, <1>6
  <2>3. r * src + c < q * dst
    <3>1. PICK a \in Nat, b \in Nat, d \in Nat : a = q * dst /\ b = q * src /\ d = r * src
      BY <1>0, <2>0
    <3>2. d + src <= b /\ b <= a
      BY <2>1, <2>2, <3>1
    <3>3. d + c < a
      BY <1>0, <2>0, <3>2
    <3>. QED BY <3>1, <3>3
  <2>. QED BY <2>0, <2>3, <1>4
<1>7. ASSUME NEW r \in 0..(Rows - 1), NEW c \in 0..(w - 1), src > dst, r > q
      PROVE  moved[r * src + c] = h[r * src + c]
  <2>0. r \in Nat /\ c \in Nat /\ c < w /\ r * src \in Nat /\ r * src + c \in DOMAIN h
    BY <1>1
  <2>1. q * src + src <= r * src
    BY <1>0, <1>7, <2>0, RowsInOrder
  <2>2. q * dst <= q * src
    BY <1>0, <1>7
  <2>3. q * dst + w <= r * src + c
    <3>1. PICK a \in Nat, b \in Nat, d \in Nat : a = q * dst /\ b = q * src /\ d = r * src
      BY <1>0, <2>0
    <3>2. b + src <= d /\ a <= b
      BY <2>1, <2>2, <3>1
    <3>3. a + w <= d + c
      BY <1>0, <2>0, <3>2
    <3>. QED BY <3>1, <3>3
  <2>. QED BY <2>0, <2>3, <1>4
<1>. QED BY <1>2, <1>3, <1>5, <1>6, <1>7 DEF RowMoves

\* The rows of buf, src cells long, begin alike in moved, where they are dst long.
RowsKept(moved, buf, src, dst) ==
  \A r \in 0..(Rows - 1), c \in 0..(Least(src, dst) - 1) : moved[r * dst + c] = buf[r * src + c]

\* rearrangeKey() and rearrangeValue() bring the beginning of every row from its
\* place in the one layout to its place in the other.
LEMMA RowsArrive ==
  ASSUME NEW m \in Nat, NEW src \in Nat, NEW dst \in Nat, src <= m, dst <= m,
         NEW buf, DOMAIN buf = 0..(Rows * m - 1),
         NEW g, MovesTo(g, buf, src, dst, Rows)
  PROVE  DOMAIN g[Rows] = DOMAIN buf /\ RowsKept(g[Rows], buf, src, dst)
<1>0. Rows \in Nat
  BY ContextLenAssumption
<1>1. PICK w : w = Least(src, dst)
  OBVIOUS
<1>2. g[0] = buf
  BY <1>0 DEF MovesTo, MoveStep
<1>. DEFINE q(i) == IF src > dst THEN i ELSE Rows - (i + 1)
<1>3. ASSUME NEW i \in Nat, i < Rows
      PROVE  q(i) \in 0..(Rows - 1) /\ g[i + 1] = Move(g[i], q(i) * dst, q(i) * src, w)
  <2>1. i + 1 \in 0..Rows /\ i + 1 # 0 /\ (i + 1) - 1 = i
    BY <1>0, <1>3
  <2>2. g[i + 1] = MoveStep(g, buf, src, dst, i + 1)
    BY <2>1 DEF MovesTo
  <2>3. RowMoved(src, dst, i + 1) = q(i)
    BY <1>0, <2>1 DEF RowMoved
  <2>4. q(i) \in 0..(Rows - 1)
    BY <1>0, <1>3
  <2>. HIDE DEF q
  <2>. QED BY <1>1, <2>1, <2>2, <2>3, <2>4 DEF MoveStep
\* Rows that have moved, and those that have not, after i steps.
<1>. DEFINE Gone(i, r) == IF src > dst THEN r < i ELSE r >= Rows - i
            Good(i) ==
              /\ DOMAIN g[i] = DOMAIN buf
              /\ \A r \in 0..(Rows - 1), c \in 0..(w - 1) :
                   IF Gone(i, r) THEN g[i][r * dst + c] = buf[r * src + c]
                                 ELSE g[i][r * src + c] = buf[r * src + c]
            G == {i \in Nat : i <= Rows => Good(i)}
<1>4. 0 \in G
  <2>1. \A r \in 0..(Rows - 1) : ~Gone(0, r)
    BY <1>0
  <2>2. Good(0)
    <3>. HIDE DEF Gone
    <3>. QED BY <1>2, <2>1
  <2>. HIDE DEF Good
  <2>. QED BY <2>2
<1>5. ASSUME NEW i \in Nat, i \in G PROVE i + 1 \in G
  <2>. SUFFICES ASSUME i + 1 <= Rows PROVE Good(i + 1)
    OBVIOUS
  <2>1. i < Rows
    BY <1>0
  <2>2. Good(i)
    <3>. HIDE DEF Good
    <3>. QED BY <1>0, <1>5, <2>1
  <2>3. PICK k : k = q(i)
    OBVIOUS
  <2>4. k \in 0..(Rows - 1) /\ g[i + 1] = Move(g[i], k * dst, k * src, w)
    <3>. HIDE DEF q
    <3>. QED BY <1>3, <2>1, <2>3
  <2>5. DOMAIN g[i] = 0..(Rows * m - 1)
    BY <2>2
  <2>6. /\ DOMAIN g[i + 1] = DOMAIN g[i]
        /\ \A c \in 0..(w - 1) : g[i + 1][k * dst + c] = g[i][k * src + c]
        /\ \A r \in 0..(Rows - 1), c \in 0..(w - 1) :
             r # k => g[i + 1][r * dst + c] = g[i][r * dst + c]
        /\ \A r \in 0..(Rows - 1), c \in 0..(w - 1) :
             (src <= dst /\ r < k) \/ (src > dst /\ r > k) =>
               g[i + 1][r * src + c] = g[i][r * src + c]
    <3>1. PICK h, moved : h = g[i] /\ moved = g[i + 1]
      OBVIOUS
    <3>2. DOMAIN h = 0..(Rows * m - 1) /\ moved = Move(h, k * dst, k * src, w)
      BY <2>4, <2>5, <3>1
    <3>3. RowMoves(h, moved, src, dst, w, k)
      BY <1>1, <2>4, <3>2, MoveRow
    <3>. QED BY <3>1, <3>3 DEF RowMoves
  <2>7. /\ ~Gone(i, k) /\ Gone(i + 1, k)
        /\ \A r \in 0..(Rows - 1) : r # k =>
             /\ Gone(i + 1, r) <=> Gone(i, r)
             /\ ~Gone(i, r) => (src <= dst /\ r < k) \/ (src > dst /\ r > k)
    BY <1>0, <2>1, <2>3
  <2>8. ASSUME NEW r \in 0..(Rows - 1), NEW c \in 0..(w - 1)
        PROVE  IF Gone(i + 1, r) THEN g[i + 1][r * dst + c] = buf[r * src + c]
                                 ELSE g[i + 1][r * src + c] = buf[r * src + c]
    <3>. HIDE DEF Gone
    <3>1. CASE r = k
      BY <2>2, <2>6, <2>7, <3>1
    <3>2. CASE r # k /\ Gone(i, r)
      BY <2>2, <2>6, <2>7, <3>2
    <3>3. CASE r # k /\ ~Gone(i, r)
      BY <2>2, <2>6, <2>7, <3>3
    <3>. QED BY <3>1, <3>2, <3>3
  <2>. HIDE DEF Gone
  <2>. QED BY <2>2, <2>6, <2>8
<1>6. \A i \in Nat : i \in G
  <2>. HIDE DEF G
  <2>. QED BY <1>4, <1>5, NatInductive
<1>7. Good(Rows)
  <2>. HIDE DEF Good
  <2>. QED BY <1>0, <1>6
<1>8. \A r \in 0..(Rows - 1) : Gone(Rows, r)
  BY <1>0
<1>. HIDE DEF Gone
<1>. QED BY <1>1, <1>7, <1>8 DEF RowsKept
-----------------------------------------------------------------------------
\* The rows of either graph are no longer than what the buffer was made for.
LEMMA Lengths ==
  ASSUME NEW ar \in ArLens
  PROVE  /\ ContextLen \in Nat /\ ContextLen >= 2 /\ ar \in 1..ContextLen
         /\ MaxCacheLen(ar) \in Nat
         /\ RowLen(ar) \in Nat /\ RowLen(ar) <= MaxCacheLen(ar) /\ RowLen(ar) <= ContextLen
         /\ RowLen(1) = ContextLen - 1 /\ RowLen(1) <= MaxCacheLen(ar)
         /\ ContextLen - ar \in Nat /\ ContextLen - ar <= MaxCacheLen(ar)
         /\ ar # ContextLen => RowLen(ar) = ContextLen - ar
         /\ ar = ContextLen => RowLen(ar) = ContextLen
<1>1. ContextLen \in Nat /\ ContextLen >= 2 /\ ar \in 1..ContextLen
  BY ContextLenAssumption, ArLensAssumption
<1>. QED BY <1>1 DEF MaxCacheLen, RowLen, Least

\* A rearranged buffer is as large as before, and its rows begin as before.
LEMMA RearrangedKeeps ==
  ASSUME NEW m \in Nat, NEW buf, DOMAIN buf = 0..(Rows * m - 1), NEW from, NEW to,
         NEW src \in Nat, NEW dst \in Nat, src <= m, dst <= m,
         src = RowLen(from), dst = ContextLen - to
  PROVE  /\ DOMAIN Rearranged(buf, from, to) = DOMAIN buf
         /\ from # to => RowsKept(Rearranged(buf, from, to), buf, src, dst)
<1>1. CASE from = to
  BY <1>1 DEF Rearranged
<1>2. CASE from # to
  <2>1. PICK g : g = CHOOSE f : MovesTo(f, buf, src, dst, Rows)
    OBVIOUS
  <2>2. MovesTo(g, buf, src, dst, Rows)
    BY <2>1, MovesExist, ContextLenAssumption
  <2>3. Rearranged(buf, from, to) = g[Rows]
    BY <1>2, <2>1, RearrangedIs
  <2>4. DOMAIN g[Rows] = DOMAIN buf /\ RowsKept(g[Rows], buf, src, dst)
    BY <2>2, RowsArrive
  <2>. QED BY <2>3, <2>4
<1>. QED BY <1>1, <1>2

\* updateKey() and updateValue() put n tokens behind the past ones of every row.
LEMMA WrittenHolds ==
  ASSUME Shape, NEW n \in Nat, NEW len \in Nat, len = RowLen(cur_ar), pos + n <= len,
         Holds(buffer, len, pos)
  PROVE  /\ DOMAIN Written(buffer, n) = DOMAIN buffer
         /\ Holds(Written(buffer, n), len, pos + n)
<1>0. DOMAIN Written(buffer, n) = DOMAIN buffer
  BY DEF Written
<1>1. pos \in Nat /\ Rows \in Nat /\ len <= MaxCacheLen(ar_len) /\ MaxCacheLen(ar_len) \in Nat
  BY Lengths, ContextLenAssumption DEF Shape
<1>a. PICK w, k : w = Written(buffer, n) /\ k = pos + n
  OBVIOUS
<1>2. ASSUME NEW r \in 0..(Rows - 1), NEW c \in 0..(k - 1)
      PROVE  w[r * len + c] = <<call, c, r>>
  <2>. DEFINE x == r * len + c
              R == {q \in 0..(Rows - 1) : x \in (q * len + pos)..(q * len + pos + n - 1)}
  <2>0. r \in Nat /\ c \in Nat /\ c < len /\ c \in 0..(len - 1) /\ r * len \in Nat /\ x \in Nat
                      /\ c < pos + n
    BY <1>1, <1>a
  <2>1. x \in DOMAIN buffer
    BY <1>1, <2>0, CellInside DEF Shape, Cells
  <2>2. w[x] = IF R = {} THEN buffer[x]
               ELSE <<call, x - (CHOOSE q \in R : \A p \in R : p <= q) * len,
                      CHOOSE q \in R : \A p \in R : p <= q>>
    BY <1>a, <2>1 DEF Written
  <2>3. ASSUME NEW q \in R PROVE q = r /\ c >= pos
    <3>1. q \in Nat /\ q * len \in Nat /\ q * len + pos <= x /\ x <= q * len + pos + n - 1
      BY <1>1
    <3>2. PICK d \in Nat : d < len /\ d >= pos /\ x = q * len + d
      <4>1. x - q * len \in Nat /\ x - q * len < len /\ x - q * len >= pos
        BY <1>1, <2>0, <3>1
      <4>2. x = q * len + (x - q * len)
        BY <2>0, <3>1
      <4>. QED BY <4>1, <4>2
    <3>. QED BY <2>0, <3>1, <3>2, OneRow
  <2>4. CASE c < pos
    <3>1. R = {}
      BY <1>1, <2>0, <2>3, <2>4
    <3>2. buffer[x] = <<call, c, r>>
      BY <1>1, <2>0, <2>4 DEF Holds
    <3>. QED BY <2>2, <3>1, <3>2
  <2>5. CASE c >= pos
    <3>1. r \in R
      BY <1>1, <2>0, <2>5
    <3>2. R = {r}
      BY <2>3, <3>1
    <3>3. (CHOOSE q \in R : \A p \in R : p <= q) = r
      <4>. HIDE DEF R
      <4>. QED BY <2>0, <3>2
    <3>4. x - r * len = c
      BY <2>0
    <3>. HIDE DEF R, x
    <3>. QED BY <2>2, <3>2, <3>3, <3>4 DEF x
  <2>. QED BY <1>1, <2>0, <2>4, <2>5
<1>3. Holds(w, len, k)
  BY <1>2, Zenon DEF Holds
<1>. QED BY <1>a, <1>0, <1>3
-----------------------------------------------------------------------------
\* Before the first call.
LEMMA InitIInv == Init => IInv
<1>. SUFFICES ASSUME Init PROVE IInv
  OBVIOUS
<1>1. Shape
  <2>1. DOMAIN buffer = Cells(ar_len)
    BY DEF Init
  <2>2. 0 \in 0..ContextLen
    BY ContextLenAssumption
  <2>. QED BY <2>1, <2>2 DEF Init, Shape
<1>2. Passes /\ Masks /\ Placed
  BY DEF Init, Passes, Masks, Placed
<1>. QED BY <1>1, <1>2 DEF IInv

\* A call begins: no token of it is in the buffer yet, whatever earlier calls left.
LEMMA GenerateIInv ==
  ASSUME IInv, NEW n \in 1..ContextLen, NEW s, Generate(n, s)
  PROVE  IInv'
<1>0. /\ ContextLen \in Nat /\ ar_len \in 1..ContextLen /\ ar_len \in ArLens
      /\ MaxCacheLen(ar_len) \in Nat
  BY Lengths DEF IInv, Shape
<1>1. /\ phase' = "prefill" /\ prompt' = n /\ pos' = 0
      /\ buffer' = Rearranged(buffer, cur_ar, ar_len)
      /\ cur_ar' = ar_len /\ ar_len' = ar_len /\ spilled' = spilled
      /\ mask' = FirstMask(ar_len, 0)
  BY DEF Generate
<1>2. DOMAIN buffer' = DOMAIN buffer
  <2>1. PICK src, dst, m : src = RowLen(cur_ar) /\ dst = ContextLen - ar_len /\ m = MaxCacheLen(ar_len)
    OBVIOUS
  <2>2. m \in Nat /\ src \in Nat /\ dst \in Nat /\ src <= m /\ dst <= m
    BY <1>0, <2>1, Lengths DEF IInv, Shape
  <2>3. DOMAIN buffer = 0..(Rows * m - 1)
    BY <2>1 DEF IInv, Shape, Cells
  <2>. QED BY <1>1, <2>1, <2>2, <2>3, RearrangedKeeps
<1>3. Shape'
  <2>1. Cells(ar_len)' = Cells(ar_len)
    BY <1>1 DEF Cells
  <2>. QED BY <1>0, <1>1, <1>2, <2>1 DEF IInv, Shape
<1>4. Passes'
  BY <1>0, <1>1 DEF Passes
<1>5. Masks'
  <2>1. DOMAIN mask' = 0..(ar_len - 1)
    BY <1>1 DEF FirstMask
  <2>2. \A i \in 0..(ar_len - 1) : mask'[i] = Seen(ar_len, i)'
    BY <1>1 DEF FirstMask, Seen, NewSeen
  <2>. QED BY <1>1, <2>1, <2>2 DEF Masks
<1>6. Placed'
  BY <1>1 DEF Placed, Holds
<1>. QED BY <1>3, <1>4, <1>5, <1>6 DEF IInv

\* Writing keeps the buffer's cells, and spilled a Boolean.
LEMMA UpdateCacheKeeps ==
  ASSUME NEW n, UpdateCache(n)
  PROVE  DOMAIN buffer' = DOMAIN buffer /\ spilled' \in BOOLEAN
BY DEF UpdateCache, Written

\* A chunk of the prompt.
LEMMA PrefillChunkIInv ==
  ASSUME IInv, PrefillChunk
  PROVE  IInv'
<1>0. /\ ContextLen \in Nat /\ ar_len \in 1..ContextLen /\ ar_len \in ArLens
      /\ prompt \in 0..ContextLen /\ pos \in 0..ContextLen
  BY Lengths DEF IInv, Shape
<1>1. PICK n : n = Chunk
  OBVIOUS
<1>2. /\ phase = "prefill" /\ pos < prompt
      /\ UpdateCache(n)
      /\ mask' = NextMask(mask, pos, n)
      /\ pos' = pos + n
      /\ UNCHANGED <<ar_len, cur_ar, phase, prompt, left, call>>
  BY <1>1 DEF PrefillChunk
<1>3. /\ n \in Nat /\ n >= 1 /\ n <= ar_len /\ pos + n <= prompt
      /\ n = ar_len \/ pos + n = prompt
  BY <1>0, <1>1, <1>2 DEF Chunk, Least
<1>4. cur_ar = ar_len
  BY <1>2 DEF IInv, Shape
<1>5. Shape'
  <2>1. Cells(ar_len)' = Cells(ar_len)
    BY <1>2 DEF Cells
  <2>2. DOMAIN buffer' = DOMAIN buffer /\ spilled' \in BOOLEAN
    BY <1>2, UpdateCacheKeeps
  <2>. QED BY <1>0, <1>2, <1>3, <2>1, <2>2 DEF IInv, Shape
<1>6. Passes'
  BY <1>0, <1>2, <1>3 DEF IInv, Passes
<1>7. Masks'
  <2>1. DOMAIN mask = 0..(ar_len - 1)
    BY <1>2 DEF IInv, Masks
  <2>2. ASSUME NEW i \in 0..(ar_len - 1), pos' + i + 1 <= ContextLen
        PROVE  mask'[i] = Seen(ar_len, i)'
    <3>1. mask[i] = Seen(ar_len, i)
      BY <1>0, <1>2, <1>3, <2>2 DEF IInv, Masks
    <3>2. Outside(pos + n, i) = {}
      BY <1>0, <1>2, <1>3, <2>2 DEF Outside
    <3>3. mask'[i] = mask[i] \cup pos..(pos + n - 1)
      BY <1>2, <2>1, <3>2 DEF NextMask
    <3>4. 0..(pos' - 1) = (0..(pos - 1)) \cup pos..(pos + n - 1)
      BY <1>0, <1>2, <1>3
    <3>. QED BY <1>2, <3>1, <3>3, <3>4 DEF Seen
  <2>. QED BY <1>2, <2>1, <2>2 DEF Masks, NextMask
<1>8. Placed'
  <2>. SUFFICES ASSUME Fits', pos' <= RowLen(cur_ar)' PROVE Holds(buffer, RowLen(cur_ar), pos)'
    BY DEF Placed
  <2>1. Fits /\ RowLen(cur_ar)' = RowLen(cur_ar)
    BY <1>2 DEF Fits, RowLen
  <2>2. PICK len \in Nat : len = RowLen(cur_ar)
    BY <1>0, <1>4, Lengths
  <2>3. pos + n <= len /\ pos <= len
    BY <1>0, <1>2, <1>3, <2>1, <2>2
  <2>4. Holds(buffer, len, pos)
    BY <1>2, <2>1, <2>2, <2>3 DEF IInv, Placed
  <2>5. Holds(Written(buffer, n), len, pos + n)
    BY <1>3, <2>2, <2>3, <2>4, WrittenHolds DEF IInv
  <2>6. Holds(buffer', len, pos')
    BY <1>2, <2>5 DEF UpdateCache
  <2>7. Holds(buffer, len, pos)'
    BY <1>2, <2>6 DEF Holds
  <2>. QED BY <2>1, <2>2, <2>7
<1>. QED BY <1>5, <1>6, <1>7, <1>8 DEF IInv

\* The change of layout between prefill and decoding, in place.
LEMMA BeginDecodeIInv ==
  ASSUME IInv, BeginDecode
  PROVE  IInv'
<1>0. /\ ContextLen \in Nat /\ ContextLen >= 2 /\ ar_len \in 1..ContextLen /\ ar_len \in ArLens
      /\ prompt \in 0..ContextLen /\ pos \in 0..ContextLen
  BY Lengths DEF IInv, Shape
<1>1. /\ phase = "prefill" /\ pos = prompt /\ phase' = "decode"
      /\ buffer' = Rearranged(buffer, ar_len, 1)
      /\ cur_ar = ar_len /\ cur_ar' = 1
      /\ mask' = FirstMask(1, pos)
      /\ UNCHANGED <<ar_len, prompt, pos, left, call, spilled>>
  BY DEF BeginDecode, IInv, Shape
<1>2. PICK src, dst, m : src = RowLen(ar_len) /\ dst = ContextLen - 1 /\ m = MaxCacheLen(ar_len)
  OBVIOUS
<1>3. /\ m \in Nat /\ src \in Nat /\ dst \in Nat /\ src <= m /\ dst <= m
      /\ dst = RowLen(1)
  BY <1>0, <1>2, Lengths
<1>4. DOMAIN buffer = 0..(Rows * m - 1)
  BY <1>2 DEF IInv, Shape, Cells
<1>5. /\ DOMAIN buffer' = DOMAIN buffer
      /\ ar_len # 1 => RowsKept(buffer', buffer, src, dst)
  BY <1>1, <1>2, <1>3, <1>4, RearrangedKeeps
<1>6. Shape'
  <2>1. Cells(ar_len)' = Cells(ar_len)
    BY <1>1 DEF Cells
  <2>. QED BY <1>0, <1>1, <1>5, <2>1 DEF IInv, Shape
<1>7. Passes'
  BY <1>1 DEF Passes
<1>8. Masks'
  <2>1. DOMAIN mask' = {0} /\ mask'[0] = (0..(pos - 1)) \cup {ContextLen - 1 + j : j \in 0..0}
    BY <1>1 DEF FirstMask, NewSeen
  <2>2. Seen(1, 0)' = (0..(pos - 1)) \cup {ContextLen - 1 + j : j \in 0..0}
    BY <1>1 DEF Seen
  <2>. QED BY <1>1, <2>1, <2>2 DEF Masks
<1>9. Placed'
  <2>. SUFFICES ASSUME Fits', pos' <= RowLen(cur_ar)' PROVE Holds(buffer, RowLen(cur_ar), pos)'
    BY DEF Placed
  <2>1. Fits /\ RowLen(cur_ar)' = dst
    BY <1>1, <1>3 DEF Fits, RowLen
  <2>2. pos <= src /\ pos <= dst
    BY <1>0, <1>1, <1>2, <2>1 DEF Fits
  <2>3. Holds(buffer, src, pos)
    BY <1>1, <1>2, <2>1, <2>2 DEF IInv, Placed
  <2>4. ASSUME NEW r \in 0..(Rows - 1), NEW c \in 0..(pos - 1)
        PROVE  buffer'[r * dst + c] = <<call, c, r>>
    <3>1. buffer[r * src + c] = <<call, c, r>>
      BY <2>3, Zenon DEF Holds
    <3>2. CASE ar_len = 1
      <4>1. src = dst /\ buffer' = buffer
        BY <1>1, <1>2, <1>3, <3>2 DEF Rearranged
      <4>. QED BY <3>1, <4>1
    <3>3. CASE ar_len # 1
      <4>1. c \in 0..(Least(src, dst) - 1)
        BY <1>0, <1>3, <2>2 DEF Least
      <4>2. buffer'[r * dst + c] = buffer[r * src + c]
        BY <1>5, <3>3, <4>1, Zenon DEF RowsKept
      <4>. QED BY <3>1, <4>2
    <3>. QED BY <3>2, <3>3
  <2>5. Holds(buffer', dst, pos)
    BY <2>4, Zenon DEF Holds
  <2>6. Holds(buffer, dst, pos)'
    BY <1>1, <2>5 DEF Holds
  <2>. QED BY <2>1, <2>6
<1>. QED BY <1>6, <1>7, <1>8, <1>9 DEF IInv

\* One more token.
LEMMA DecodeStepIInv ==
  ASSUME IInv, DecodeStep
  PROVE  IInv'
<1>0. /\ ContextLen \in Nat /\ ContextLen >= 2 /\ ar_len \in ArLens
      /\ prompt \in 0..ContextLen /\ pos \in 0..ContextLen
      /\ RowLen(1) = ContextLen - 1
  BY Lengths DEF IInv, Shape
<1>1. /\ phase = "decode" /\ pos < ContextLen /\ cur_ar = 1
      /\ UpdateCache(1)
      /\ mask' = [i \in DOMAIN mask |-> mask[i] \cup {pos}]
      /\ pos' = pos + 1
      /\ UNCHANGED <<ar_len, cur_ar, phase, prompt, call>>
  BY DEF DecodeStep, MayGoOn, IInv, Shape
<1>2. Shape'
  <2>1. Cells(ar_len)' = Cells(ar_len)
    BY <1>1 DEF Cells
  <2>2. DOMAIN buffer' = DOMAIN buffer /\ spilled' \in BOOLEAN
    BY <1>1, UpdateCacheKeeps
  <2>. QED BY <1>0, <1>1, <2>1, <2>2 DEF IInv, Shape
<1>3. Passes'
  BY <1>1 DEF Passes
<1>4. Masks'
  <2>1. DOMAIN mask = {0} /\ mask[0] = Seen(1, 0)
    BY <1>1 DEF IInv, Masks
  <2>2. mask'[0] = Seen(1, 0) \cup {pos} /\ DOMAIN mask' = {0}
    BY <1>1, <2>1
  <2>3. 0..(pos' - 1) = (0..(pos - 1)) \cup {pos}
    BY <1>0, <1>1
  <2>4. Seen(1, 0)' = Seen(1, 0) \cup {pos}
    BY <2>3 DEF Seen
  <2>. QED BY <1>1, <2>2, <2>4 DEF Masks
<1>5. Placed'
  <2>. SUFFICES ASSUME Fits', pos' <= RowLen(cur_ar)' PROVE Holds(buffer, RowLen(cur_ar), pos)'
    BY DEF Placed
  <2>1. Fits /\ RowLen(cur_ar)' = RowLen(cur_ar)
    BY <1>1 DEF Fits, RowLen
  <2>2. PICK len \in Nat : len = RowLen(cur_ar)
    BY <1>0, <1>1
  <2>3. pos + 1 <= len /\ pos <= len
    BY <1>0, <1>1, <2>1, <2>2
  <2>4. Holds(buffer, len, pos)
    BY <1>1, <2>1, <2>2, <2>3 DEF IInv, Placed
  <2>5. Holds(Written(buffer, 1), len, pos + 1)
    BY <2>2, <2>3, <2>4, WrittenHolds DEF IInv
  <2>6. Holds(buffer', len, pos')
    BY <1>1, <2>5 DEF UpdateCache
  <2>7. Holds(buffer, len, pos)'
    BY <1>1, <2>6 DEF Holds
  <2>. QED BY <2>1, <2>2, <2>7
<1>. QED BY <1>2, <1>3, <1>4, <1>5 DEF IInv

\* Every step of the runner keeps the invariant.
LEMMA NextIInv == IInv /\ [Next]_vars => IInv'
<1>. SUFFICES ASSUME IInv, [Next]_vars PROVE IInv'
  OBVIOUS
<1>1. CASE UNCHANGED vars
  <2>1. Shape'
    BY <1>1 DEF vars, IInv, Shape, Cells
  <2>2. Passes' /\ Masks'
    BY <1>1 DEF vars, IInv, Passes, Masks, Seen
  <2>3. Placed'
    BY <1>1 DEF vars, IInv, Placed, Fits, RowLen, Holds
  <2>. QED BY <2>1, <2>2, <2>3 DEF IInv
<1>2. ASSUME NEW n \in 1..ContextLen, NEW s \in SeqLens, Generate(n, s) PROVE IInv'
  BY <1>2, GenerateIInv
<1>3. CASE PrefillChunk
  BY <1>3, PrefillChunkIInv
<1>4. CASE BeginDecode
  BY <1>4, BeginDecodeIInv
<1>5. CASE DecodeStep
  BY <1>5, DecodeStepIInv
<1>6. CASE EndDecode
  <2>1. /\ phase' = "idle" /\ prompt' = 0 /\ pos' = 0
        /\ UNCHANGED <<ar_len, cur_ar, buffer, call, spilled>>
    BY <1>6 DEF EndDecode
  <2>2. Shape'
    BY <2>1, ContextLenAssumption DEF IInv, Shape, Cells
  <2>3. Passes' /\ Masks' /\ Placed'
    BY <2>1 DEF Passes, Masks, Placed
  <2>. QED BY <2>2, <2>3 DEF IInv
<1>. QED BY <1>1, <1>2, <1>3, <1>4, <1>5, <1>6 DEF Next

\* The invariant holds in every state.
LEMMA Invariance == Spec => []IInv
<1>1. IInv /\ [Next]_vars => IInv'
  BY NextIInv
<1>. QED BY InitIInv, <1>1, PTL DEF Spec
-----------------------------------------------------------------------------
\* Each new token attends to exactly the past tokens of its own call, each in its
\* place, and to the new ones up to itself, for every prompt that fits.
THEOREM AlwaysAttendsExactly == Spec => []AttendsExactly
<1>1. IInv => AttendsExactly
  <2>. SUFFICES ASSUME IInv, AboutToRun, Fits,
                       NEW i \in 0..(Incoming - 1),
                       NEW past, past = {c \in mask[i] : c < ContextLen - cur_ar},
                       NEW new, new = {c - (ContextLen - cur_ar) : c \in mask[i] \ past}
                PROVE  /\ new = 0..i
                       /\ past = 0..(pos - 1)
                       /\ \A r \in 0..(Rows - 1) : \A c \in past :
                            buffer[r * (ContextLen - cur_ar) + c] = <<call, c, r>>
    BY DEF AttendsExactly
  <2>0. /\ ContextLen \in Nat /\ ContextLen >= 2 /\ ar_len \in ArLens /\ ar_len \in 1..ContextLen
        /\ prompt \in 0..ContextLen /\ pos \in 0..ContextLen
        /\ RowLen(1) = ContextLen - 1
        /\ RowLen(ar_len) = IF ar_len = ContextLen THEN ContextLen ELSE ContextLen - ar_len
    BY Lengths DEF IInv, Shape
  <2>1. PICK len : len = ContextLen - cur_ar
    OBVIOUS
  <2>2. /\ cur_ar \in 1..ContextLen /\ len \in Nat
        /\ i \in 0..(cur_ar - 1) /\ mask[i] = Seen(cur_ar, i)
        /\ pos <= len
        /\ pos = 0 \/ (RowLen(cur_ar) = len /\ phase # "idle")
    <3>1. CASE phase = "prefill" /\ pos < prompt
      <4>1. cur_ar = ar_len
        BY <3>1 DEF IInv, Shape
      <4>2. i \in 0..(ar_len - 1) /\ pos + i + 1 <= prompt
        BY <2>0, <3>1 DEF Incoming, Chunk, Least
      <4>3. mask[i] = Seen(ar_len, i)
        BY <2>0, <3>1, <4>2 DEF IInv, Masks
      <4>4. ar_len = ContextLen => pos = 0
        BY <2>0, <3>1 DEF IInv, Passes
      <4>. QED BY <2>0, <2>1, <3>1, <4>1, <4>2, <4>3, <4>4 DEF Fits
    <3>2. CASE phase = "decode" /\ MayGoOn
      <4>1. cur_ar = 1 /\ i = 0 /\ mask[0] = Seen(1, 0) /\ pos < ContextLen
        BY <3>2 DEF IInv, Shape, Masks, Incoming, MayGoOn
      <4>. QED BY <2>0, <2>1, <3>2, <4>1
    <3>. QED BY <3>1, <3>2 DEF AboutToRun
  <2>3. mask[i] = (0..(pos - 1)) \cup {len + j : j \in 0..i}
    BY <2>1, <2>2 DEF Seen
  <2>4. past = 0..(pos - 1)
    BY <2>0, <2>1, <2>2, <2>3
  <2>5. mask[i] \ past = {len + j : j \in 0..i}
    <3>1. \A j \in 0..i : len + j \notin past
      BY <2>0, <2>2, <2>4
    <3>. QED BY <2>3, <2>4, <3>1
  <2>6. new = 0..i
    <3>1. new = {c - len : c \in {len + j : j \in 0..i}}
      BY <2>1, <2>5
    <3>2. \A j \in 0..i : (len + j) - len = j
      BY <2>2
    <3>3. new \subseteq 0..i
      BY <3>1, <3>2
    <3>4. 0..i \subseteq new
      <4>. SUFFICES ASSUME NEW j \in 0..i PROVE j \in new
        OBVIOUS
      <4>1. len + j \in {len + k : k \in 0..i} /\ j = (len + j) - len
        BY <3>2
      <4>. QED BY <3>1, <4>1
    <3>. QED BY <3>3, <3>4
  <2>7. ASSUME NEW r \in 0..(Rows - 1), NEW c \in past
        PROVE  buffer[r * len + c] = <<call, c, r>>
    <3>1. c \in 0..(pos - 1) /\ pos # 0
      BY <2>0, <2>4
    <3>2. Holds(buffer, len, pos)
      BY <2>2, <3>1 DEF IInv, Placed
    <3>. QED BY <3>1, <3>2, Zenon DEF Holds
  <2>. QED BY <2>1, <2>4, <2>6, <2>7
<1>. QED BY Invariance, <1>1, PTL

\* Of a prompt that fits, no step writes past the end of the buffer except the last
\* token the context has room for.
LEMMA NoSpill ==
  ASSUME IInv, Fits, NEW n \in Nat, n >= 1, pos + n <= RowLen(cur_ar)
  PROVE  ~Spills(n)
<1>1. PICK len, m : len = RowLen(cur_ar) /\ m = MaxCacheLen(ar_len)
  OBVIOUS
<1>2. /\ len \in Nat /\ m \in Nat /\ len <= m /\ pos \in Nat
      /\ Rows \in Nat /\ Rows >= 1 /\ DOMAIN buffer = 0..(Rows * m - 1)
  BY <1>1, Lengths, ContextLenAssumption DEF IInv, Shape, Cells
<1>3. PICK c : c = pos + n - 1
  OBVIOUS
<1>4. c \in 0..(len - 1) /\ Rows - 1 \in 0..(Rows - 1)
  BY <1>1, <1>2, <1>3
<1>5. (Rows - 1) * len + c \in DOMAIN buffer
  BY <1>2, <1>4, CellInside
<1>6. (Rows - 1) * len \in Int
  BY <1>2
<1>7. (Rows - 1) * len + c = (Rows - 1) * len + pos + n - 1
  BY <1>2, <1>3, <1>6
<1>. QED BY <1>1, <1>5, <1>7 DEF Spills

\* The two graphs share one buffer and never write past its end, except with what
\* fills the context up.
THEOREM WritesAlwaysStayInside == Spec => WritesStayInside
<1>1. IInv /\ [Next]_vars => [StaysInside]_vars
  <2>. SUFFICES ASSUME IInv, Next, spilled' # spilled, Fits PROVE pos = ContextLen - 1
    BY DEF StaysInside, vars
  <2>0. /\ ContextLen \in Nat /\ ar_len \in ArLens /\ ar_len \in 1..ContextLen
        /\ prompt \in 0..ContextLen /\ pos \in 0..ContextLen
        /\ RowLen(1) = ContextLen - 1 /\ RowLen(ar_len) \in Nat
        /\ spilled \in BOOLEAN
    BY Lengths DEF IInv, Shape
  <2>1. ASSUME NEW n, UpdateCache(n) PROVE Spills(n)
    BY <2>0, <2>1 DEF UpdateCache
  <2>2. CASE PrefillChunk
    <3>1. PICK n : n = Chunk
      OBVIOUS
    <3>2. Spills(n) /\ cur_ar = ar_len /\ pos < prompt
      BY <2>1, <2>2, <3>1 DEF PrefillChunk, IInv, Shape
    <3>3. n \in Nat /\ n >= 1 /\ pos + n <= RowLen(cur_ar)
      BY <2>0, <3>1, <3>2 DEF Chunk, Least, Fits
    <3>. QED BY <3>2, <3>3, NoSpill
  <2>3. CASE DecodeStep
    <3>1. Spills(1) /\ cur_ar = 1 /\ pos < ContextLen
      BY <2>1, <2>3 DEF DecodeStep, MayGoOn, IInv, Shape
    <3>2. ~(pos + 1 <= RowLen(cur_ar))
      BY <3>1, NoSpill
    <3>. QED BY <2>0, <3>1, <3>2
  <2>4. spilled' = spilled \/ PrefillChunk \/ DecodeStep
    BY DEF Next, Generate, BeginDecode, EndDecode
  <2>. QED BY <2>2, <2>3, <2>4
<1>. QED BY Invariance, <1>1, PTL DEF Spec, WritesStayInside
=============================================================================
