------------------------------ MODULE Sparsemap ------------------------------
(***************************************************************************)
(* The sparsemap: the compressed bitmap every posting and pending list of  *)
(* a pg_tre index is stored in.  A map is either a short array of words    *)
(* (small-set mode) or an ascending stream of chunks, each one window of   *)
(* W bits with a payload word per mixed vector, or a run [start, start +   *)
(* len) that claims [start, start + cap).  Every operation re-encodes the  *)
(* part it touches: it separates runs, coalesces neighbours, and moves     *)
(* between the two modes.                                                  *)
(*                                                                         *)
(* Bits are sets of indices and sizes are counted in 8-byte words.  A      *)
(* chunk is known by its ordinal where the code uses its byte offset.      *)
(* Payload flag NONE (a window that claims fewer than W bits) is never     *)
(* written by the operations modelled here and is left out, and so are the *)
(* limits of a run's length and capacity (SM_CHUNK_RLE_MAX_LENGTH and      *)
(* _CAPACITY, 31 bits), which CapLimit, CoalesceLeft and CoalesceRight     *)
(* never reach here.  An unused definition above one with the same         *)
(* parameters is a faulty variant.                                         *)
(***************************************************************************)
EXTENDS Integers, Sequences, FiniteSets

LOCAL INSTANCE Folds
Seqs == INSTANCE SequencesExt

CONSTANTS
    B,              \* SM_BITS_PER_VECTOR
    V,              \* SM_FLAGS_PER_INDEX: vectors per chunk
    SmallMaxWords,  \* SM_SMALL_MAX_WORDS
    InitCap,        \* the capacity, in words, the caller creates the map with
    GrowFloor,      \* the least capacity sm_add_grow asks for (4096 bytes)
    CreateMin,      \* the least capacity of a set operation's result (1024 bytes)
    Windows,        \* bound: indices are below Windows chunks
    Points,         \* bound: the indices single-bit operations are given
    Operands,       \* bound: the sets bulk and set operations are given
    MaxCap          \* bound: no operation starts with a larger buffer

W == B * V                                  \* SM_CHUNK_MAX_CAPACITY
Universe == 0 .. Windows * W - 1
SmallMax == SmallMaxWords * B               \* SM_SMALL_MAX_BITS

ASSUME SparsemapAssumption ==
    /\ B \in Nat \ {0, 1} /\ V \in Nat \ {0} /\ Windows \in Nat \ {0}
    /\ SmallMaxWords \in 1 .. V - 1
    /\ InitCap \in Nat \ {0} /\ GrowFloor \in Nat /\ CreateMin \in Nat /\ CreateMin >= V + 4
    /\ Points \subseteq Universe
    /\ \A S \in Operands : S \subseteq Universe /\ Cardinality(S) > 1

VARIABLES
    map,            \* [small, n, bits, chunks, cap]
    cur,            \* the caller's insertion cursor: [off, start, prev]
    ref             \* history: the set the caller put together

vars == <<map, cur, ref>>

Least(a, b) == IF a < b THEN a ELSE b
Most(a, b) == IF a > b THEN a ELSE b
MinOf(S) == CHOOSE x \in S : \A y \in S : x <= y
MaxOf(S) == CHOOSE x \in S : \A y \in S : x >= y
\* op folded over the members of S, the least first
Ascend(op(_, _), base, S) ==
    MapThenFoldSet(LAMBDA x, y : op(y, x), base, LAMBDA i : i, MaxOf, S)

Align(i) == (i \div W) * W                  \* __sm_get_chunk_aligned_offset
RoundUp(i) == ((i + W - 1) \div W) * W
Window(s) == s .. s + W - 1
Vector(s, v) == (s + v * B) .. (s + (v + 1) * B - 1)

-----------------------------------------------------------------------------
(* Chunks.                                                                 *)

Sparse(s, bits) == [start |-> s, rle |-> FALSE, cap |-> W, len |-> 0, bits |-> bits]
Rle(s, cap, len) == [start |-> s, rle |-> TRUE, cap |-> cap, len |-> len, bits |-> {}]

Bits(c) == IF c.rle THEN c.start .. c.start + c.len - 1 ELSE c.bits
End(c) == c.start + c.cap
AllOnes(c) == ~c.rle /\ c.bits = Window(c.start)

\* __sm_chunk_get_size, with the chunk's start: a payload word per mixed vector
Mixed(s, bits) == {v \in 0 .. V - 1 : LET q == bits \cap Vector(s, v) IN
                                        q # {} /\ q # Vector(s, v)}
Words(c) == IF c.rle THEN 2 ELSE 2 + Cardinality(Mixed(c.start, c.bits))

\* __sm_chunk_get_run_length: a sparse chunk has a run when its bits are a
\* prefix of the window that fills at least one vector
RunLength(c) ==
    IF c.rle THEN c.len
    ELSE LET k == Cardinality(c.bits) IN
         IF k >= B /\ c.bits = c.start .. c.start + k - 1 THEN k ELSE 0

-----------------------------------------------------------------------------
(* Maps.                                                                   *)

EmptyMap(cap) == [small |-> FALSE, n |-> 0, bits |-> {}, chunks |-> <<>>, cap |-> cap]
SmallMap(n, bits, cap) == [small |-> TRUE, n |-> n, bits |-> bits, chunks |-> <<>>, cap |-> cap]
WithChunks(m, ch) == [EmptyMap(m.cap) EXCEPT !.chunks = ch]

WordsOf(ch) == Seqs!FoldLeft(LAMBDA t, c : t + Words(c), 0, ch)
Used(m) == 1 + (IF m.small THEN m.n ELSE WordsOf(m.chunks))     \* m_data_used
Contents(m) == IF m.small THEN m.bits ELSE UNION {Bits(m.chunks[i]) : i \in DOMAIN m.chunks}

\* sm_validate
Validate(m) ==
    /\ Used(m) <= m.cap
    /\ m.small => /\ m.n <= SmallMaxWords
                  /\ m.n > 0 => m.bits \cap Vector(0, m.n - 1) # {}
    /\ \A i \in DOMAIN m.chunks : LET c == m.chunks[i] IN
         /\ c.start % W = 0
         /\ c.rle => c.len <= c.cap
         /\ i > 1 => /\ c.start > m.chunks[i - 1].start
                     /\ c.start >= End(m.chunks[i - 1])

-----------------------------------------------------------------------------
(* __sm_get_chunk_offset: the first chunk that ends past idx, or the last. *)
(* The walk resumes at the cursor if the chunk there has the start that    *)
(* was recorded; 0 stands for SIZE_MAX.                                    *)

NoCursor == [off |-> 0, start |-> 0, prev |-> 0]

\* whatever chunk is there now
CursorUnchecked(ch, idx, c) == c.off \in DOMAIN ch /\ idx >= c.start

CursorHolds(ch, idx, c) ==
    /\ c.off \in DOMAIN ch
    /\ idx >= c.start
    /\ ch[c.off].start = c.start

ResumeAt(ch, idx, c) == IF CursorHolds(ch, idx, c) THEN c.off ELSE 1

Find(ch, idx, from) ==
    LET past == {i \in from .. Len(ch) : idx < End(ch[i])} IN
    IF past = {} THEN Len(ch) ELSE MinOf(past)

\* what the walk leaves in the cursor: the chunk, or in a gap its left neighbour
CursorAfter(ch, idx, c) ==
    LET from == ResumeAt(ch, idx, c)
        i == Find(ch, idx, from)
        before(j) == IF j > from THEN j - 1
                     ELSE IF j = from /\ CursorHolds(ch, idx, c) THEN c.prev ELSE 0
    IN  IF idx < ch[i].start /\ before(i) # 0
        THEN [off |-> before(i), start |-> ch[before(i)].start, prev |-> before(before(i))]
        ELSE [off |-> i, start |-> ch[i].start, prev |-> before(i)]

-----------------------------------------------------------------------------
(* __sm_coalesce_chunk: join chunk i, known to start at `start`, with the  *)
(* run that ends there and then with the run that begins where it ends.    *)

\* __sm_chunk_rle_capacity_limit: whole windows, up to the next chunk
CapLimit(ch, start, len, next) ==
    LET whole == RoundUp(start + len) - start
        room  == IF next \in DOMAIN ch THEN Least(whole, ch[next].start - start) ELSE whole
    IN  Most(room, len)

CoalesceLeft(ch, i, start, hint) ==
    LET h == IF hint # 0 /\ hint < i THEN hint ELSE Find(ch, start - 1, 1)
        len == start + RunLength(ch[i]) - ch[h].start
    IN  IF i > 1 /\ h < i /\ RunLength(ch[h]) > 0 /\ ch[h].start + RunLength(ch[h]) = start
        THEN [at |-> h, start |-> ch[h].start,
              ch |-> Seqs!RemoveAt([ch EXCEPT ![h] =
                        Rle(ch[h].start, CapLimit(ch, ch[h].start, len, i + 1), len)], i)]
        ELSE [at |-> i, start |-> start, ch |-> ch]

CoalesceRight(ch, i, start, idx, setting) ==
    LET c == ch[i]
        run == IF i < Len(ch)
               THEN LET r == RunLength(ch[i + 1]) IN
                    IF setting /\ idx >= ch[i + 1].start
                    THEN Least(r, idx - ch[i + 1].start + 1) ELSE r
               ELSE 0
        len == ch[i + 1].start + run - start
    IN  IF (c.rle \/ AllOnes(c)) /\ run > 0 /\ start + RunLength(c) = ch[i + 1].start
        THEN Seqs!RemoveAt([ch EXCEPT ![i] = Rle(c.start, CapLimit(ch, start, len, i + 2), len)], i + 1)
        ELSE ch

Coalesce(ch, i, start, idx, setting, hint) ==
    IF i \notin DOMAIN ch \/ RunLength(ch[i]) = 0 THEN ch
    ELSE LET l == CoalesceLeft(ch, i, start, hint)
         IN  CoalesceRight(l.ch, l.at, l.start, idx, setting)

\* __sm_coalesce_map
RECURSIVE CoalesceFrom(_, _, _)
CoalesceFrom(ch, i, count) ==
    IF count <= 1 \/ i > Len(ch) THEN ch
    ELSE LET next == Coalesce(ch, i, ch[i].start, 0, FALSE, 0)
         IN  IF Len(next) < Len(ch) THEN CoalesceFrom(next, i, Len(next))
             ELSE CoalesceFrom(ch, i + 1, count - 1)

CoalesceMap(ch) == CoalesceFrom(ch, 1, Len(ch))

-----------------------------------------------------------------------------
(* __sm_separate_rle_chunk: cut the window of idx out of run c, with the   *)
(* bit idx set or cleared.                                                 *)

\* a remainder of the run: RLE only when it is longer than a window
Remainder(lo, hi, cap) ==
    IF lo > hi THEN <<>>
    ELSE IF hi - lo + 1 > W THEN <<Rle(lo, cap, hi - lo + 1)>>
    ELSE <<Sparse(lo, lo .. hi)>>

\* the claim of the whole run, which reaches over the pivot
LeftCapKept(c, a) == c.cap

\* the left remainder claims what is below the pivot
LeftCap(c, a) == a - c.start

\* the pivot: bits of the window of idx, with idx set or cleared
Pivot(bits, idx, on) == Sparse(Align(idx), IF on THEN bits \cup {idx} ELSE bits \ {idx})

SeparateBeyond(c, idx, on) ==
    Remainder(c.start, c.start + c.len - 1, LeftCap(c, Align(idx))) \o <<Pivot({}, idx, on)>>

SeparateOverEnd(c, idx, on) ==
    LET a == Align(idx)
    IN  Remainder(c.start, a - 1, LeftCap(c, a)) \o <<Pivot(a .. c.start + c.len - 1, idx, on)>>

SeparateInside(c, idx, on) ==
    LET a == Align(idx)
    IN  Remainder(c.start, a - 1, LeftCap(c, a))
        \o <<Pivot(Window(a), idx, on)>>
        \o Remainder(a + W, c.start + c.len - 1, End(c) - (a + W))

Separate(c, idx, on) ==
    LET a == Align(idx)
        stop == c.start + c.len
    IN  IF a >= stop THEN SeparateBeyond(c, idx, on)
        ELSE IF a + W >= stop THEN SeparateOverEnd(c, idx, on)
        ELSE SeparateInside(c, idx, on)

Replace(ch, i, pieces) == SubSeq(ch, 1, i - 1) \o pieces \o SubSeq(ch, i + 1, Len(ch))
SeparateFits(m, pieces) == Used(m) + WordsOf(pieces) - 2 + 1 <= m.cap

EnoughSpace(m, need) == Used(m) + need + 1 <= m.cap     \* SM_ENOUGH_SPACE

-----------------------------------------------------------------------------
(* __sm_map_set: chunk mode.  The result says whether there was room, and  *)
(* where the cursor is seated.                                             *)

InsertChunk(ch, i, c) == SubSeq(ch, 1, i - 1) \o <<c>> \o SubSeq(ch, i, Len(ch))

Refused(m, c) == [ok |-> FALSE, m |-> m, cur |-> c]

\* what the branches of __sm_map_set hand to its label done: the chunks, the
\* one that was touched with its recorded start, and the left neighbour known
Edit(ch, i, start, hint) == [ok |-> TRUE, ch |-> ch, at |-> i, start |-> start, hint |-> hint]
NoRoom(m) == [Edit(m.chunks, 0, 0, 0) EXCEPT !.ok = FALSE]

\* __sparsemap_add: one bit of a sparse chunk
SetBit(c, idx) == Sparse(c.start, c.bits \cup {idx})
Fresh(idx) == SetBit(Sparse(Align(idx), {}), idx)

SetInRun(m, i, idx, hint) ==
    LET t == m.chunks[i]
        pieces == Separate(t, idx, TRUE)
        longer == Rle(t.start, IF t.len = t.cap THEN CapLimit(m.chunks, t.start, t.len + 1, i + 1)
                               ELSE t.cap, t.len + 1)
    IN  IF idx - t.start < t.len THEN Edit(m.chunks, i, t.start, hint)
        ELSE IF idx - t.start = t.len
        THEN Edit([m.chunks EXCEPT ![i] = longer], i, t.start, hint)
        ELSE IF SeparateFits(m, pieces) THEN Edit(Replace(m.chunks, i, pieces), i, t.start, 0)
        ELSE NoRoom(m)

SetAt(m, i, idx, hint) ==
    LET t == m.chunks[i]
        run == Rle(t.start, CapLimit(m.chunks, t.start, W + 1, i + 1), W + 1)
    IN  IF idx < t.start
        THEN IF EnoughSpace(m, 3) THEN Edit(InsertChunk(m.chunks, i, Fresh(idx)), i, t.start, 0)
             ELSE NoRoom(m)
        ELSE IF AllOnes(t) /\ idx - t.start = W
        THEN Edit([m.chunks EXCEPT ![i] = run], i, t.start, hint)
        ELSE IF t.rle /\ (idx < End(t) \/ idx = t.start + t.len)
        THEN SetInRun(m, i, idx, hint)
        ELSE IF idx >= End(t)
        THEN IF EnoughSpace(m, 3) THEN Edit(InsertChunk(m.chunks, i + 1, Fresh(idx)), i + 1, Align(idx), 0)
             ELSE NoRoom(m)
        ELSE Edit([m.chunks EXCEPT ![i] = SetBit(t, idx)], i, t.start, hint)

\* done: coalesce around the chunk and seat the cursor on it
Done(m, e, idx, c) ==
    IF e.ok
    THEN [ok  |-> TRUE,
          m   |-> WithChunks(m, Coalesce(e.ch, e.at, e.start, idx, TRUE, e.hint)),
          cur |-> [off |-> e.at, start |-> e.start, prev |-> c.prev]]
    ELSE Refused(m, c)

MapSet(m, idx, c, threaded) ==
    LET i == Find(m.chunks, idx, IF threaded THEN ResumeAt(m.chunks, idx, c) ELSE 1)
        seat == IF threaded /\ m.chunks # <<>> THEN CursorAfter(m.chunks, idx, c) ELSE c
        hint == IF threaded /\ seat.off = i THEN seat.prev ELSE 0
    IN  IF ~EnoughSpace(m, 2) THEN Refused(m, c)
        ELSE Done(m, IF m.chunks = <<>> THEN Edit(<<Fresh(idx)>>, 1, Align(idx), 0)
                     ELSE SetAt(m, i, idx, hint), idx, seat)

-----------------------------------------------------------------------------
(* Small-set mode and the moves between the two modes.                     *)

WordsFor(bits) == IF bits = {} THEN 0 ELSE MaxOf(bits) \div B + 1
RunFromZero(bits) == bits # {} /\ bits = 0 .. Cardinality(bits) - 1

\* __sm_small_chunk_bytes: the cheapest single chunk for these bits
SmallChunkWords(bits) == IF RunFromZero(bits) THEN 3 ELSE 3 + Cardinality(Mixed(0, bits))
SmallIsBetter(m) == MaxOf(m.bits) < SmallMax /\ Used(m) <= SmallChunkWords(m.bits)

\* the bits of a small map set one by one in an empty chunk map
SetAll(m) ==
    LET step(r, i) == IF r.ok THEN MapSet(r.m, i, NoCursor, FALSE) ELSE r
    IN  Ascend(step, [ok |-> TRUE, m |-> EmptyMap(m.cap), cur |-> NoCursor], m.bits)

\* the partly built chunk is left in place
OrHalfBuilt(r, m) == r

\* a map that does not fit is restored
OrRestore(r, m) == IF r.ok THEN r ELSE Refused(m, NoCursor)

\* __sm_promote: one RLE chunk for a run that ends inside a word, else bit by bit
Promote(m) ==
    IF RunFromZero(m.bits) /\ Cardinality(m.bits) % B # 0 /\ 3 <= m.cap
    THEN [ok |-> TRUE, m |-> WithChunks(m, <<Rle(0, W, Cardinality(m.bits))>>), cur |-> NoCursor]
    ELSE OrRestore(SetAll(m), m)

\* __sm_try_demote
TryDemote(m) ==
    LET bits == Bits(m.chunks[1])
        n == WordsFor(bits)
    IN  IF m.small \/ Len(m.chunks) # 1 \/ m.chunks[1].start # 0 THEN m
        ELSE IF bits = {} THEN EmptyMap(m.cap)
        ELSE IF MaxOf(bits) >= SmallMax \/ 1 + n > Used(m) THEN m
        ELSE SmallMap(n, bits, m.cap)

-----------------------------------------------------------------------------
(* __sm_add_dispatch and the growing forms of sm_add.                      *)

\* __sm_small_add, and the promotion that follows when chunks are no larger
AddSmall(m, n, idx, c) ==
    LET grown == Most(n, idx \div B + 1)
        r == SmallMap(grown, m.bits \cup {idx}, m.cap)
    IN  IF grown > n /\ 1 + grown > m.cap THEN Refused(SmallMap(n, m.bits, m.cap), c)
        ELSE [ok |-> TRUE, m |-> IF SmallIsBetter(r) THEN r ELSE Promote(r).m, cur |-> NoCursor]

Settled(r, m) == [r EXCEPT !.m = m, !.cur = IF m.small THEN NoCursor ELSE @]
Demoted(r) == IF r.ok THEN Settled(r, TryDemote(r.m)) ELSE r

AddDispatch(m, idx, c, threaded) ==
    LET afterPromotion(p) == IF p.ok THEN MapSet(p.m, idx, NoCursor, threaded) ELSE Refused(p.m, c)
    IN  IF (m.small \/ m.chunks = <<>>) /\ idx < SmallMax
        THEN AddSmall(m, IF m.small THEN m.n ELSE 0, idx, c)
        ELSE Demoted(IF m.small THEN afterPromotion(Promote(m)) ELSE MapSet(m, idx, c, threaded))

\* sm_add_grow, sm_add_grow_cursor: on ENOSPC double the buffer and try once more
Grown(m) == [m EXCEPT !.cap = Most(2 * m.cap, GrowFloor)]
OrGrow(r, idx, threaded) ==
    IF r.ok THEN r ELSE AddDispatch(Grown(r.m), idx, NoCursor, threaded)

AddGrow(m, idx, c, threaded) == OrGrow(AddDispatch(m, idx, c, threaded), idx, threaded)

-----------------------------------------------------------------------------
(* sm_remove.                                                              *)

\* __sm_map_unset.  When the last bit of a sparse chunk goes, the chunk goes
\* too, and what is coalesced is the chunk that has moved up into its place.
Unset(m, idx) ==
    LET ch == m.chunks
        i == Find(ch, idx, 1)
        t == ch[i]
        pieces == Separate(t, idx, FALSE)
        left == t.bits \ {idx}
    IN  IF ~EnoughSpace(m, 2) \/ ch = <<>> \/ idx < t.start \/ idx >= End(t) THEN m
        ELSE IF t.rle /\ idx >= t.start + t.len
        THEN WithChunks(m, Coalesce(ch, i, t.start, idx, FALSE, 0))
        ELSE IF t.rle /\ idx + 1 = t.start + t.len
        THEN IF t.len = 1 THEN WithChunks(m, Seqs!RemoveAt(ch, i))
             ELSE WithChunks(m, Coalesce([ch EXCEPT ![i] =
                                    IF t.len - 1 = W THEN Sparse(t.start, Window(t.start))
                                    ELSE Rle(t.start, t.cap, t.len - 1)],
                                 i, t.start, idx, FALSE, 0))
        ELSE IF t.rle
        THEN IF SeparateFits(m, pieces) THEN WithChunks(m, Replace(ch, i, pieces)) ELSE m
        ELSE WithChunks(m, Coalesce(IF left = {} THEN Seqs!RemoveAt(ch, i)
                                    ELSE [ch EXCEPT ![i] = Sparse(t.start, left)],
                                    i, t.start, idx, FALSE, 0))

\* sm_remove: a small map drops its trailing zero words
RemoveFrom(m, idx) ==
    IF m.small
    THEN IF idx \div B < m.n THEN SmallMap(WordsFor(m.bits \ {idx}), m.bits \ {idx}, m.cap) ELSE m
    ELSE TryDemote(Unset(m, idx))

\* sm_remove reports ENOSPC and leaves the bit where it is
RemoveRefused(m, idx) ==
    /\ ~m.small
    /\ \/ ~EnoughSpace(m, 2)
       \/ LET t == m.chunks[Find(m.chunks, idx, 1)] IN
          /\ m.chunks # <<>> /\ t.rle /\ idx >= t.start /\ idx + 1 < t.start + t.len
          /\ ~SeparateFits(m, Separate(t, idx, FALSE))

\* the removal that empties a sparse chunk, if the chunk that has moved up is
\* then joined with a neighbour as though it began where the empty one did
MergesFromStaleStart(m, idx) ==
    /\ ~m.small /\ EnoughSpace(m, 2)
    /\ \E i \in DOMAIN m.chunks :
         /\ ~m.chunks[i].rle /\ m.chunks[i].bits = {idx}
         /\ LET gone == Seqs!RemoveAt(m.chunks, i)
            IN  Coalesce(gone, i, m.chunks[i].start, idx, FALSE, 0) # gone

-----------------------------------------------------------------------------
(* What set operations write: whole windows as runs, the rest as words.    *)

LastOf(out) == out[Len(out)]
ButLast(out) == SubSeq(out, 1, Len(out) - 1)

AppendSparse(out, s, bits) == IF bits = {} THEN out ELSE Append(out, Sparse(s, bits))

\* __sm_append_rle_chunk: extends the run the last chunk is, if they touch
AppendRle(out, s, len) ==
    IF out # <<>> /\ (LastOf(out).rle \/ AllOnes(LastOf(out)))
                  /\ LastOf(out).start + RunLength(LastOf(out)) = s
    THEN LET l == LastOf(out)
         IN  Append(ButLast(out), Rle(l.start, s + len - l.start, RunLength(l) + len))
    ELSE Append(out, Rle(s, len, len))

\* __sm_append_words_aligned: merges into the last chunk if it is the same window
AppendWords(out, s, bits, merge) ==
    LET same == merge /\ out # <<>> /\ LastOf(out).start = s /\ ~LastOf(out).rle
        all  == IF same THEN bits \cup LastOf(out).bits ELSE bits
        rest == IF same THEN ButLast(out) ELSE out
    IN  IF all = Window(s) THEN [out |-> AppendRle(rest, s, W), rle |-> TRUE]
        ELSE [out |-> AppendSparse(rest, s, all), rle |-> FALSE]

\* __sm_append_run: [lo, hi), a partial head, whole windows, a partial tail
AppendRun(out, lo, hi) ==
    LET headEnd == IF lo % W = 0 THEN lo ELSE Least(hi, RoundUp(lo))
        head == IF lo % W = 0 THEN [out |-> out, rle |-> TRUE]
                ELSE AppendWords(out, Align(lo), lo .. headEnd - 1, TRUE)
        full == ((hi - headEnd) \div W) * W
        body == IF full = 0 THEN head.out
                ELSE IF head.rle THEN AppendRle(head.out, headEnd, full)
                ELSE Append(head.out, Rle(headEnd, full, full))
        tail == headEnd + full
    IN  IF lo >= hi THEN out
        ELSE IF tail >= hi THEN body
        ELSE AppendWords(body, tail, tail .. hi - 1, FALSE).out

\* __sm_emitter_t: one window of words is held back, so that several pieces
\* of the output that fall into it go out as one chunk
NoneHeld == [start |-> -1, bits |-> {}]
EmitFlush(e) == [out |-> AppendSparse(e.out, e.held.start, e.held.bits), held |-> NoneHeld]
EmitWords(e, s, bits) ==
    IF e.held.start = s THEN [e EXCEPT !.held.bits = @ \cup bits]
    ELSE [EmitFlush(e) EXCEPT !.held = [start |-> s, bits |-> bits]]

\* __sm_emit_run, __sm_emit_rle
EmitRun(e, lo, hi) ==
    LET headEnd == Least(hi, RoundUp(lo))
        head == IF headEnd > lo THEN EmitWords(e, Align(lo), lo .. headEnd - 1) ELSE e
        full == ((hi - headEnd) \div W) * W
        body == IF full = 0 THEN head
                ELSE [out |-> AppendRle(EmitFlush(head).out, headEnd, full), held |-> NoneHeld]
        tail == headEnd + full
    IN  IF lo >= hi THEN e
        ELSE IF tail >= hi THEN body
        ELSE EmitWords(body, tail, tail .. hi - 1)

\* __sm_emit_chunk_bits: the bits of chunk c in [from, to)
EmitChunkBits(out, c, from, to) ==
    IF from >= to THEN out
    ELSE IF c.rle
    THEN EmitFlush(EmitRun([out |-> out, held |-> NoneHeld],
                           Most(from, c.start), Least(to, c.start + c.len))).out
    ELSE AppendSparse(out, c.start, c.bits \cap from .. to - 1)

-----------------------------------------------------------------------------
(* sm_add_many_grow: one sweep over the runs of the map and of the input.  *)

Starts(S) == {x \in S : x - 1 \notin S}
Stops(S) == {x + 1 : x \in {y \in S : y + 1 \notin S}}

\* __sm_union_runs: the sweep stops wherever a run of either side begins or ends
UnionRuns(S, T) ==
    LET cuts == Starts(S) \cup Starts(T) \cup Stops(S) \cup Stops(T)
        piece(e, lo) == EmitRun(e, lo, MinOf({x \in cuts : x > lo}))
    IN  CoalesceMap(EmitFlush(
            Ascend(piece, [out |-> <<>>, held |-> NoneHeld], cuts \cap (S \cup T))).out)

\* __sm_replace_buffer: 64 spare bytes if the result needs more room
ReplaceBuffer(m, ch) ==
    LET r == WithChunks(m, ch)
    IN  TryDemote(IF Used(r) > m.cap THEN [r EXCEPT !.cap = Used(r) + 8] ELSE r)

AddManyGrow(m, S) == ReplaceBuffer(m, UnionRuns(Contents(m), S))

-----------------------------------------------------------------------------
(* sm_union, sm_intersection, sm_difference: one walk over both streams.   *)

\* __sm_materialize: a small map re-added bit by bit, then forced to chunks;
\* its buffer is grown as needed, so room for every bit is taken at once
View(m) ==
    LET step(r, i) == AddDispatch(r.m, i, NoCursor, FALSE)
        copy == Ascend(step, [ok |-> TRUE, m |-> EmptyMap(CreateMin), cur |-> NoCursor], m.bits).m
        chunked(x) == IF x.small THEN Promote(x).m ELSE x
    IN  IF m.small THEN chunked(copy) ELSE m

\* the chunks of a stream from position cursor on
RestOf(out, ch, cursor) ==
    IF ch = <<>> THEN out
    ELSE IF cursor > ch[1].start
    THEN EmitChunkBits(out, ch[1], cursor, End(ch[1])) \o Tail(ch)
    ELSE out \o ch

\* what the cursor behind still has before the overlap
UnionBefore(out, a, c, pa, pc) ==
    LET from == Most(pa, pc) IN EmitChunkBits(EmitChunkBits(out, a, pa, from), c, pc, from)

\* two windows of bits, each from its cursor on
UnionSame(out, a, c, pa, pc) ==
    AppendSparse(out, a.start, {x \in a.bits : x >= pa} \cup {x \in c.bits : x >= pc})

\* both runs clipped to the overlap [from, to): each has begun by then
UnionOfRuns(out, a, c, from, to) ==
    AppendRun(out, from, Most(Least(to, a.start + a.len), Least(to, c.start + c.len)))

\* a run and a window of bits: the run is spread over the window
SparseStart(a, c) == IF a.rle THEN c.start ELSE a.start
UnionMixed(out, a, c) ==
    AppendSparse(out, SparseStart(a, c), (Bits(a) \cup Bits(c)) \cap Window(SparseStart(a, c)))

\* after the overlap the sparse side is consumed whole, a run up to its end
NextCursor(c, to) == IF c.rle THEN to ELSE End(c)
Onward(ch, n) == IF n >= End(Head(ch)) THEN Tail(ch) ELSE ch
OnwardCursor(ch, n) == IF n >= End(Head(ch)) THEN 0 ELSE n

RECURSIVE UnionWalk(_, _, _, _, _)
UnionWalk(A, C, ac, cc, out) ==
    IF A = <<>> THEN RestOf(out, C, cc)
    ELSE IF C = <<>> THEN RestOf(out, A, ac)
    ELSE LET a == Head(A)
             c == Head(C)
             pa == Most(ac, a.start)
             pc == Most(cc, c.start)
             to == Least(End(a), End(c))
             pre == UnionBefore(out, a, c, pa, pc)
             na == NextCursor(a, to)
             nc == NextCursor(c, to)
         IN  IF End(a) <= pc
             THEN UnionWalk(Tail(A), C, 0, pc, RestOf(out, <<a>>, pa))
             ELSE IF End(c) <= pa
             THEN UnionWalk(A, Tail(C), pa, 0, RestOf(out, <<c>>, pc))
             ELSE IF ~a.rle /\ ~c.rle /\ a.start = c.start
             THEN UnionWalk(Tail(A), Tail(C), 0, 0, UnionSame(out, a, c, pa, pc))
             ELSE UnionWalk(Onward(A, na), Onward(C, nc), OnwardCursor(A, na), OnwardCursor(C, nc),
                            IF a.rle /\ c.rle THEN UnionOfRuns(pre, a, c, Most(pa, pc), to)
                            ELSE UnionMixed(pre, a, c))

\* two runs meet in a run; otherwise the sparse side's window is cut
MeetRuns(out, a, c) ==
    AppendRun(out, Most(a.start, c.start), Least(a.start + a.len, c.start + c.len))
MeetWords(out, a, c) ==
    AppendSparse(out, SparseStart(a, c), Bits(a) \cap Bits(c) \cap Window(SparseStart(a, c)))

RECURSIVE IntersectionWalk(_, _, _)
IntersectionWalk(A, C, out) ==
    IF A = <<>> \/ C = <<>> THEN out
    ELSE LET a == Head(A)
             c == Head(C)
         IN  IF End(a) <= c.start THEN IntersectionWalk(Tail(A), C, out)
             ELSE IF End(c) <= a.start THEN IntersectionWalk(A, Tail(C), out)
             ELSE IntersectionWalk(Onward(A, End(c)), Onward(C, End(a)),
                                   IF a.rle /\ c.rle THEN MeetRuns(out, a, c)
                                   ELSE MeetWords(out, a, c))

\* what is left of a in the overlap [from, to)
CutRuns(out, a, c, from, to) == EmitChunkBits(out, a, Most(c.start + c.len, from), to)
CutWords(out, a, c) ==
    AppendSparse(out, SparseStart(a, c), (Bits(a) \ Bits(c)) \cap Window(SparseStart(a, c)))

\* pos: how far into the first chunk of A the walk has come
RECURSIVE DifferenceWalk(_, _, _, _)
DifferenceWalk(A, C, pos, out) ==
    IF A = <<>> THEN out
    ELSE LET a == Head(A)
             c == Head(C)
             p == Most(pos, a.start)
             from == Most(p, c.start)
             to == Least(End(a), End(c))
             pre == EmitChunkBits(out, a, p, from)
             cut == IF a.rle /\ c.rle THEN CutRuns(pre, a, c, from, to) ELSE CutWords(pre, a, c)
             n == NextCursor(a, to)
         IN  IF C = <<>> \/ End(a) <= c.start
             THEN DifferenceWalk(Tail(A), C, 0,
                                 IF C = <<>> /\ pos = 0 THEN Append(out, a)
                                 ELSE EmitChunkBits(out, a, p, End(a)))
             ELSE IF End(c) <= p THEN DifferenceWalk(A, Tail(C), p, out)
             ELSE IF End(a) <= End(c)
             THEN DifferenceWalk(Tail(A), Onward(C, End(a)), 0, EmitChunkBits(cut, a, n, End(a)))
             ELSE DifferenceWalk(A, Tail(C), n, cut)

\* the result map, its buffer no larger than it has to be; an empty result is
\* NULL, which every caller reads as empty
Result(cap, ch) ==
    LET r == WithChunks(EmptyMap(cap), ch)
    IN  IF ch = <<>> THEN EmptyMap(CreateMin)
        ELSE TryDemote([r EXCEPT !.cap = Most(cap, Used(r))])

\* The operands are views; an empty one makes the result a copy of the other.
UnionOf(a, c) ==
    IF a.chunks = <<>> THEN c
    ELSE IF c.chunks = <<>> THEN a
    ELSE Result(Most(Used(a) + Used(c), CreateMin), UnionWalk(a.chunks, c.chunks, 0, 0, <<>>))

IntersectionOf(a, c) ==
    Result(Most(Most(Used(a), Used(c)), CreateMin), IntersectionWalk(a.chunks, c.chunks, <<>>))

DifferenceOf(a, c) ==
    IF c.chunks = <<>> THEN a
    ELSE Result(Most(Used(a), CreateMin), DifferenceWalk(a.chunks, c.chunks, 0, <<>>))

-----------------------------------------------------------------------------
(* Readers.                                                                *)

Contains(m, idx, c) ==
    IF m.small THEN idx \div B < m.n /\ idx \in m.bits
    ELSE /\ m.chunks # <<>>
         /\ LET t == m.chunks[Find(m.chunks, idx, ResumeAt(m.chunks, idx, c))]
            IN  idx >= t.start /\ idx < End(t) /\ idx \in Bits(t)

None == -1                                  \* SM_IDX_MAX

\* the least of S past p, the greatest below p
After(S, p) == LET T == {x \in S : x > p} IN IF T = {} THEN None ELSE MinOf(T)
Before(S, p) == LET T == {x \in S : x < p} IN IF T = {} THEN None ELSE MaxOf(T)

\* sm_next_member: the first chunk from the cursor on that has a bit past prev
NextMember(m, prev, c) ==
    LET from == IF prev # None THEN ResumeAt(m.chunks, prev, c) ELSE 1
        hits == {i \in from .. Len(m.chunks) :
                    /\ End(m.chunks[i]) - 1 > prev
                    /\ After(Bits(m.chunks[i]), prev) # None}
    IN  IF m.small THEN After(m.bits, prev)
        ELSE IF hits = {} THEN None ELSE After(Bits(m.chunks[MinOf(hits)]), prev)

\* sm_prev_member: back from the last chunk that starts below next
PrevMember(m, next) ==
    LET above == {i \in DOMAIN m.chunks : m.chunks[i].start >= next}
        last == IF above = {} THEN Len(m.chunks) ELSE MinOf(above) - 1
        hits == {i \in 1 .. last : Before(Bits(m.chunks[i]), next) # None}
    IN  IF m.small THEN Before(m.bits, next)
        ELSE IF hits = {} THEN None ELSE Before(Bits(m.chunks[MaxOf(hits)]), next)

\* sm_minimum and sm_maximum look at the first and at the last chunk only
Minimum(m) == IF m.small THEN MinOf(m.bits) ELSE MinOf(Bits(m.chunks[1]))
Maximum(m) == IF m.small THEN MaxOf(m.bits)
              ELSE LET t == m.chunks[Len(m.chunks)] IN
                   IF t.rle THEN t.start + t.len - 1 ELSE MaxOf(t.bits)

CardinalityOf(m) ==
    IF m.small THEN Cardinality(m.bits)
    ELSE Seqs!FoldLeft(LAMBDA t, c : t + Cardinality(Bits(c)), 0, m.chunks)

-----------------------------------------------------------------------------
(* The caller.                                                             *)

Becomes(m, S) ==
    /\ map.cap <= MaxCap
    /\ map' = m /\ ref' = S

\* a fresh map of the size the caller asked for, with no cursor
Init ==
    /\ map = EmptyMap(InitCap)
    /\ cur = NoCursor
    /\ ref = {}

\* sm_add_grow.  A cursor does not survive another writer.
Add(i) ==
    /\ Becomes(AddGrow(map, i, NoCursor, FALSE).m, ref \cup {i})
    /\ cur' = NoCursor

\* sm_add_grow_cursor
AddCursor(i) ==
    \E r \in {AddGrow(map, i, cur, TRUE)} :
        /\ Becomes(r.m, ref \cup {i})
        /\ cur' = r.cur

AddMany(S) ==
    /\ Becomes(AddManyGrow(map, S), ref \cup S)
    /\ cur' = NoCursor

\* sm_remove, which pg_tre itself never calls.  A join from a stale start moves
\* bits, so that the map is no longer the caller's set; ref is then taken from
\* the map, and only then.
Remove(i) ==
    \E m \in {RemoveFrom(map, i)} :
        /\ Becomes(m, IF RemoveRefused(map, i) THEN ref
                      ELSE IF MergesFromStaleStart(map, i) THEN Contents(m)
                      ELSE ref \ {i})
        /\ cur' = NoCursor

\* the other operand of a set operation, as a bulk build makes it
Operand(S) == AddManyGrow(EmptyMap(InitCap), S)

Union(S) ==
    /\ Becomes(UnionOf(View(map), View(Operand(S))), ref \cup S)
    /\ cur' = NoCursor

Intersect(S) ==
    /\ Becomes(IntersectionOf(View(map), View(Operand(S))), ref \cap S)
    /\ cur' = NoCursor

Subtract(S) ==
    /\ Becomes(DifferenceOf(View(map), View(Operand(S))), ref \ S)
    /\ cur' = NoCursor

\* written to a page and opened again in a buffer of its own size: sm_open
\* turns what is not valid into the empty map
Reopen ==
    /\ map' = IF Validate(map) THEN [map EXCEPT !.cap = Used(map)] ELSE EmptyMap(Used(map))
    /\ cur' = NoCursor
    /\ UNCHANGED ref

Clear ==
    /\ ref # {}
    /\ Becomes(EmptyMap(map.cap), {})
    /\ cur' = NoCursor

Next ==
    \/ \E i \in Points : Add(i) \/ AddCursor(i) \/ Remove(i)
    \/ \E S \in Operands : AddMany(S) \/ Union(S) \/ Intersect(S) \/ Subtract(S)
    \/ Reopen
    \/ Clear

Spec == Init /\ [][Next]_vars

-----------------------------------------------------------------------------
(* Properties.                                                             *)

\* Whatever the order of additions, removals, set operations, moves between
\* small and chunk mode and refusals for want of room, the map holds exactly
\* the indices its caller put into it: no TID of a posting is lost or made up,
\* and the one retry of sm_add_grow is always enough.  One step is exempt, the
\* removal that joins chunks from a stale start (MergesFromStaleStart): it does
\* make up and lose indices, and what comes after it is measured against the
\* map it left.
Agrees == Contents(map) = ref

\* Every map an operation leaves behind passes sm_validate: chunks aligned,
\* ascending and disjoint, no run longer than it claims, nothing past the end
\* of the buffer.  A posting that failed it would be read back as empty.
Valid == Validate(map)

\* Every reader gives the same answer as the set, from the head and from the
\* cursor of the last insertion: membership, both neighbours of any index, the
\* least and the greatest member, which look at one chunk each, and the number
\* of members.
ReadersAgree ==
    /\ \A i \in Universe : /\ Contains(map, i, NoCursor) = (i \in ref)
                           /\ Contains(map, i, cur) = (i \in ref)
                           /\ PrevMember(map, i) = Before(ref, i)
    /\ \A i \in Universe \cup {None} : /\ NextMember(map, i, NoCursor) = After(ref, i)
                                       /\ NextMember(map, i, cur) = After(ref, i)
    /\ CardinalityOf(map) = Cardinality(ref)
    /\ ref # {} => Minimum(map) = MinOf(ref) /\ Maximum(map) = MaxOf(ref)
=============================================================================
