-------------------------------- MODULE Query --------------------------------
(***************************************************************************)
(* From a pattern to candidate rows: amrescan turns the operator and its   *)
(* pattern into a trigram query (exact extraction when no edits are        *)
(* allowed, pieces or tiles of the literal spine when some are), the SuRF  *)
(* prefilter may answer "no row" from the keys CREATE INDEX saw, and       *)
(* otherwise the candidates are the rows whose trigrams satisfy the query. *)
(* The executor rechecks candidates, so a filter may be too wide, never    *)
(* too narrow.                                                             *)
(*                                                                         *)
(* A row is its text, a sequence of letters (numbers), and is indexed      *)
(* under its windows of three.  A pattern is its syntax tree, or one the   *)
(* parser rejects, or one with embedded options or escapes it leaves to    *)
(* the recheck.                                                            *)
(* How a scan meets running appends and merges is the subject of           *)
(* PendingList; here merging and the evaluation of a query are one step    *)
(* each, and no run is compacted: a row then is in the base, as if it had  *)
(* never been flushed.  Hashes are taken to be injective.  A definition used nowhere and *)
(* followed by one with the same parameters is a faulty variant of it.     *)
(***************************************************************************)
EXTENDS Integers, Sequences, FiniteSets

Seqs == INSTANCE SequencesExt
Sets == INSTANCE FiniteSetsExt

CONSTANTS
    Letters,        \* the characters there are, a set of positive numbers
    Ascii,          \* the ones up to 0x7F
    Bytes,          \* the ones up to 0xFF: all a single-byte encoding has
    Upper,          \* [upper-case letter -> its lower case]
    Builds,         \* the tables (sets of texts) CREATE INDEX may find
    LateRows,       \* texts inserted later
    Queries,        \* a sequence of [op, pat, k]: operator, argument, edits allowed
    ClassExpandMax, \* CLASS_EXPAND_MAX
    OrAltsMax,      \* OR_ALTS_MAX
    OrGroupsMax,    \* OR_GROUPS_MAX
    RepInlineMax,   \* REP_INLINE_MAX
    RunPiecesMax,   \* RUN_PIECES_MAX
    Fanouts,        \* values of pg_tre.max_extraction_fanout
    ExpandMax       \* the buffer of an edit neighbourhood (4096 trigrams)

ASSUME QueryAssumption ==
    /\ Letters \subseteq Nat \ {0} /\ Ascii \subseteq Bytes /\ Bytes \subseteq Letters
    /\ DOMAIN Upper \subseteq Letters /\ \A u \in DOMAIN Upper : Upper[u] \in Letters
    /\ UNION Builds \cup LateRows \subseteq Seq(Letters)
    /\ \A n \in Fanouts \cup {ClassExpandMax, OrAltsMax, OrGroupsMax, RepInlineMax,
                             RunPiecesMax, ExpandMax} : n \in Nat \ {0}

VARIABLES
    multi,          \* the database encoding is a multibyte one
    fanout,         \* pg_tre.max_extraction_fanout
    base, flushed,  \* rows in the base tree and in flushed runs
    pending,        \* rows on the pending list
    surf,           \* the SuRF: [labels, has_child, louds]
    surf_complete,
    scan            \* [at, query, q, snap, out, unread]: what it was asked, the trigram
                    \* query, the rows it has to see, the candidates; history: the
                    \* rows where it did not look

vars == <<multi, fanout, base, flushed, pending, surf, surf_complete, scan>>

Rows == base \cup flushed \cup pending

Windows(s) == {SubSeq(s, i, i + 2) : i \in 1 .. Len(s) - 2}     \* extract_trigrams
TrigramsOf(R) == UNION {Windows(t) : t \in R}

-----------------------------------------------------------------------------
(* Syntax trees (regex_ast.c); a repetition without upper bound has max -1. *)

Lit(c)        == [kind |-> "literal", cp |-> c]
Class(S, neg) == [kind |-> "class", cs |-> S, negated |-> neg]
Any           == [kind |-> "any"]
Anchor(w)     == [kind |-> "anchor", which |-> w]
Cat(l, r)     == [kind |-> "concat", left |-> l, right |-> r]
Alt(l, r)     == [kind |-> "alt", left |-> l, right |-> r]
Rep(x, m, n)  == [kind |-> "rep", child |-> x, min |-> m, max |-> n]
Approx(x, k)  == [kind |-> "approx", child |-> x, k |-> k]

CatAll(s) == Seqs!FoldLeft(Cat, Head(s), Tail(s))

(* pg_tre_like_to_regex and pg_tre_literal_to_regex, read by the parser:   *)
(* a LIKE pattern is a sequence of letters, % and _.                       *)
Percent == 0
Underscore == -1
FromLike(s) ==
    CatAll([i \in DOMAIN s |-> CASE s[i] = Percent -> Rep(Any, 0, -1)
                                  [] s[i] = Underscore -> Any
                                  [] OTHER -> Lit(s[i])])
FromLiteral(s) ==
    CatAll(<<Anchor("start")>> \o [i \in DOMAIN s |-> Lit(s[i])] \o <<Anchor("end")>>)

-----------------------------------------------------------------------------
(* What the recheck accepts.  Reach takes the positions in the text, with  *)
(* the edits spent so far, where the pattern may begin to those where it   *)
(* may end; e is [t, k, ci]: text, edits allowed, case ignored.            *)

Fold(c) == IF c \in DOMAIN Upper THEN Upper[c] ELSE c
Chars(p, ci) ==
    LET own == CASE p.kind = "literal" -> {p.cp}
                 [] p.kind = "class" -> IF p.negated THEN Letters \ p.cs ELSE p.cs
                 [] OTHER -> Letters
    IN IF ci THEN {c \in Letters : Fold(c) \in {Fold(x) : x \in own}} ELSE own

Inserted(S, e) ==
    {y \in {<<x[1] + d, x[2] + d>> : x \in S, d \in 0 .. e.k} : y[1] <= Len(e.t) /\ y[2] <= e.k}
Consume(C, S, e) ==
    LET at == Inserted(S, e)
        read == {x \in at : x[1] < Len(e.t)}
    IN {<<x[1] + 1, x[2]>> : x \in {y \in read : e.t[y[1] + 1] \in C}}
       \cup {y \in {<<x[1] + 1, x[2] + 1>> : x \in read} \cup {<<x[1], x[2] + 1>> : x \in at} :
                y[2] <= e.k}

RECURSIVE Reach(_, _, _)
RECURSIVE Times(_, _, _, _)
RECURSIVE UpTo(_, _, _, _)
Times(p, n, S, e) == IF n = 0 THEN S ELSE Times(p, n - 1, Reach(p, S, e), e)
UpTo(p, n, S, e) == IF n = 0 THEN S ELSE UpTo(p, n - 1, S \cup Reach(p, S, e), e)
Reach(p, S, e) ==
    CASE p.kind \in {"literal", "class", "any"} -> Consume(Chars(p, e.ci), S, e)
      [] p.kind = "anchor" -> {x \in S : x[1] = IF p.which = "start" THEN 0 ELSE Len(e.t)}
      [] p.kind = "concat" -> Reach(p.right, Reach(p.left, S, e), e)
      [] p.kind = "alt" -> Reach(p.left, S, e) \cup Reach(p.right, S, e)
      [] p.kind = "rep" -> UpTo(p.child, IF p.max = -1 THEN Len(e.t) ELSE p.max - p.min,
                                Times(p.child, p.min, S, e), e)
      [] p.kind = "approx" ->
            UNION {{y \in Reach(p.child, {x}, e) : y[2] - x[2] <= p.k} : x \in S}

MatchesAst(p, t, k, ci) ==
    Reach(p, {<<i, 0>> : i \in 0 .. Len(t)}, [t |-> t, k |-> k, ci |-> ci]) # {}

Whole(p) == CatAll(<<Anchor("start"), p, Anchor("end")>>)

(* The operator's own match.  Of what the parser does not understand only  *)
(* the recheck knows, so any row may match.                                *)
Accepts(query, t) ==
    LET p == query.pat IN
    CASE query.op = "approx" -> MatchesAst(p, t, query.k, FALSE)
      [] query.op = "regex"  -> MatchesAst(p, t, 0, FALSE)
      [] query.op = "iregex" -> MatchesAst(p, t, 0, TRUE)
      [] query.op = "like"   -> MatchesAst(Whole(FromLike(p)), t, 0, FALSE)
      [] query.op = "ilike"  -> MatchesAst(Whole(FromLike(p)), t, 0, TRUE)
      [] query.op = "equal"  -> MatchesAst(FromLiteral(p), t, 0, FALSE)
      [] query.op \in {"options", "unparsed"} -> TRUE

-----------------------------------------------------------------------------
(* Trigram queries.  A CNF query wants a trigram of every part, PIECES all *)
(* trigrams of some part, DNF a trigram of some part.                      *)

Query(mode, parts) == [mode |-> mode, parts |-> parts, always_true |-> FALSE, range |-> <<>>]
AlwaysTrue == [Query("cnf", {}) EXCEPT !.always_true = TRUE]

Satisfies(q, tris) ==
    CASE q.mode = "cnf"    -> \A part \in q.parts : part \cap tris # {}
      [] q.mode = "pieces" -> \E part \in q.parts : part \subseteq tris
      [] q.mode = "dnf"    -> \E part \in q.parts : part \cap tris # {}

-----------------------------------------------------------------------------
(* extract.c, no edits allowed.  The tree is walked from left to right; a  *)
(* run is a sequence of positions, each the set of letters it may hold.    *)

Start == [run |-> <<>>, tris |-> {}, ors |-> <<>>, overflowed |-> FALSE, flushes |-> 0]

(* accum_add: past the fanout the accumulator gives up.                    *)
AddTrigram(c, t) ==
    IF c.overflowed \/ t \in c.tris THEN c
    ELSE IF Cardinality(c.tris) >= fanout THEN [c EXCEPT !.overflowed = TRUE]
    ELSE [c EXCEPT !.tris = @ \cup {t}]

Spelled(a, b, c) == {<<x, y, z>> : x \in a, y \in b, z \in c}

(* accum_add_or.                                                           *)
AddGroup(c, w) ==
    IF c.overflowed \/ Len(c.ors) >= OrGroupsMax THEN c ELSE [c EXCEPT !.ors = Append(@, w)]

(* run_emit: a window is a required trigram, or a group one of which is    *)
(* required, or has too many spellings and is left out.                    *)
EmitWindow(c, i) ==
    LET w == Spelled(c.run[i], c.run[i + 1], c.run[i + 2]) IN
    IF Cardinality(w) = 1 THEN AddTrigram(c, CHOOSE t \in w : TRUE)
    ELSE IF Cardinality(w) <= OrAltsMax THEN AddGroup(c, w)
    ELSE c
Emit(c) == Seqs!FoldLeft(EmitWindow, c, [i \in 1 .. Len(c.run) - 2 |-> i])
Flush(c) == [Emit(c) EXCEPT !.run = <<>>, !.flushes = @ + 1]

AppendPos(c, S) == [c EXCEPT !.run = Append(@, S)]
Expands(p) == ~p.negated /\ Cardinality(p.cs) \in 1 .. ClassExpandMax

RECURSIVE FixedLiteral(_)
FixedLiteral(p) ==
    \/ p.kind = "literal"
    \/ p.kind = "concat" /\ FixedLiteral(p.left) /\ FixedLiteral(p.right)

Least(a, b) == IF a < b THEN a ELSE b

(* How often the child of a repetition is inlined.                         *)
Copies(p) ==
    IF p.max = p.min /\ FixedLiteral(p.child) THEN Least(p.min, RepInlineMax)
    ELSE Least(p.min, 2)

(* A single copy of one character that may repeat ends the run: nothing    *)
(* may span from before it to after it.                                    *)
EndsRun(p, before, after) ==
    /\ p.max # p.min /\ Copies(p) = 1
    /\ after.flushes = before.flushes
    /\ Len(after.run) - Len(before.run) <= 1

(* An alternation requires what both branches require.                     *)
Common(c, a, b) == Sets!FoldSet(LAMBDA t, d : AddTrigram(d, t), c, a.tris \cap b.tris)

RECURSIVE AppendNode(_, _)
RECURSIVE AppendCopies(_, _, _)
AppendCopies(c, p, n) == IF n = 0 THEN c ELSE AppendCopies(AppendNode(c, p), p, n - 1)
AppendNode(c, p) ==
    IF c.overflowed THEN c
    ELSE CASE p.kind = "literal" -> AppendPos(c, {p.cp})
           [] p.kind = "class" -> IF Expands(p) THEN AppendPos(c, p.cs) ELSE Flush(c)
           [] p.kind = "any" -> Flush(c)
           [] p.kind = "anchor" -> c
           [] p.kind = "concat" -> AppendNode(AppendNode(c, p.left), p.right)
           [] p.kind = "alt" -> Common(Flush(c), Emit(AppendNode(Start, p.left)),
                                       Emit(AppendNode(Start, p.right)))
           [] p.kind = "rep" ->
                IF p.min = 0 THEN Flush(c)
                ELSE LET d == AppendCopies(c, p.child, Copies(p))
                     IN IF EndsRun(p, c, d) THEN Flush(d) ELSE d
           [] p.kind = "approx" -> AppendNode(c, p.child)

(* try_build_run_pieces: one unbroken run over classes as the strings it   *)
(* spells, each the set of its trigrams.                                   *)
Spellings(run) ==
    Seqs!FoldLeft(LAMBDA ss, S : {Append(s, c) : s \in ss, c \in S}, {<<>>}, run)
Product(run) == Seqs!FoldLeft(LAMBDA n, S : n * Cardinality(S), 1, run)
OneRun(c) ==
    /\ c.flushes = 0 /\ ~c.overflowed
    /\ Len(c.run) >= 3
    /\ Product(c.run) \in 2 .. RunPiecesMax
PiecesOf(run) == Query("pieces", {Windows(s) : s \in Spellings(run)})

(* accum_to_query.                                                         *)
Conjuncts(c) ==
    IF c.overflowed \/ (c.tris = {} /\ c.ors = <<>>) THEN AlwaysTrue
    ELSE Query("cnf", {{t} : t \in c.tris} \cup Seqs!ToSet(c.ors))

(* extract_anchored_prefix_key: "^" and three literals first of all.       *)
RECURSIVE Leaves(_)
Leaves(p) == IF p.kind = "concat" THEN Leaves(p.left) \o Leaves(p.right) ELSE <<p>>
PrefixKey(p) ==
    LET ls == Leaves(p)
        n == Cardinality({i \in DOMAIN ls : \A j \in 1 .. i : ls[j] = Anchor("start")})
    IN IF n > 0 /\ n + 3 <= Len(ls) /\ \A i \in 1 .. 3 : ls[n + i].kind = "literal"
       THEN [i \in 1 .. 3 |-> ls[n + i].cp] ELSE <<>>
WithRange(q, p) == IF q.always_true THEN q ELSE [q EXCEPT !.range = PrefixKey(p)]

ExtractExact(p) ==
    LET c == AppendNode(Start, p)
    IN WithRange(IF OneRun(c) THEN PiecesOf(c.run) ELSE Conjuncts(Emit(c)), p)

-----------------------------------------------------------------------------
(* tiling.c, k edits allowed.  linearize_literals: the literals in order,  *)
(* whatever else consumes text is a separator.                             *)

Separator == 0

RECURSIVE Linearize(_)
Linearize(p) ==
    CASE p.kind = "literal" -> <<p.cp>>
      [] p.kind = "concat" -> Linearize(p.left) \o Linearize(p.right)
      [] p.kind = "anchor" -> <<>>
      [] OTHER -> <<Separator>>

(* The literal runs of three letters or more.                              *)
RunsOf(buf) ==
    LET runs == {<<i, j>> \in (DOMAIN buf) \X (DOMAIN buf) :
                    /\ j - i >= 2 /\ \A x \in i .. j : buf[x] # Separator
                    /\ i = 1 \/ buf[i - 1] = Separator
                    /\ j = Len(buf) \/ buf[j + 1] = Separator}
    IN Seqs!SetToSortSeq({[start |-> r[1], len |-> r[2] - r[1] + 1] : r \in runs},
                         LAMBDA r, s : r.start < s.start)

(* One piece more goes to the first run whose pieces stay longest.         *)
Longer(runs, n, r, s) ==
    \/ runs[r].len * (n[s] + 1) > runs[s].len * (n[r] + 1)
    \/ runs[r].len * (n[s] + 1) = runs[s].len * (n[r] + 1) /\ r <= s

RECURSIVE HandOut(_, _, _)
HandOut(runs, n, want) ==
    LET open == {r \in DOMAIN runs : runs[r].len >= 3 * (n[r] + 1)} IN
    IF want = 0 THEN n
    ELSE IF open = {} THEN <<>>
    ELSE LET best == CHOOSE r \in open : \A s \in open : Longer(runs, n, r, s)
         IN HandOut(runs, [n EXCEPT ![best] = @ + 1], want - 1)

(* An even split of run r into n pieces.                                   *)
Cut(buf, r, n, p) ==
    SubSeq(buf, r.start + (r.len * p) \div n, r.start + (r.len * (p + 1)) \div n - 1)
CutAll(buf, runs, n) ==
    UNION {{Cut(buf, runs[r], n[r], p) : p \in 0 .. n[r] - 1} : r \in DOMAIN runs}

(* k edits can spoil k pieces.                                             *)
AsManyAsEdits(k) == k
PiecesWanted(k) == k + 1

TilePieces(buf, runs, n) == Query("pieces", {Windows(s) : s \in CutAll(buf, runs, n)})

(* extract_spine_from_ast.                                                 *)
Spine(buf) ==
    LET at == SelectSeq([i \in 1 .. Len(buf) - 2 |-> i],
                        LAMBDA i : \A j \in i .. i + 2 : buf[j] # Separator)
    IN [n \in DOMAIN at |-> SubSeq(buf, at[n], at[n] + 2)]

(* uleven_expand_k1: 0 pads what a deletion leaves.                        *)
Neighbours(t) ==
    {t}
    \cup {[t EXCEPT ![i] = c] : i \in 1 .. 3, c \in Bytes}
    \cup {<<t[2], t[3], 0>>, <<t[1], t[3], 0>>, <<t[1], t[2], 0>>}
    \cup {<<c, t[1], t[2]>> : c \in Bytes}
    \cup {<<t[1], c, t[2]>> : c \in Bytes}
    \cup {<<t[1], t[2], c>> : c \in Bytes}

(* pg_tre_uleven_expand_cp with a budget of one or two edits; <<>> if the  *)
(* neighbourhood does not fit, as with two edits it never does.            *)
AllAscii(t) == \A i \in 1 .. 3 : t[i] \in Ascii
Expand(t, k) ==
    IF ~AllAscii(t) THEN <<{t}>>
    ELSE IF k = 1 /\ Cardinality(Neighbours(t)) <= ExpandMax THEN <<Neighbours(t)>>
    ELSE <<>>

(* pg_tre_tile_spine: tiles of the spine in order, the last may be empty.  *)
TileSize(spine, k) == (Len(spine) + k) \div (k + 1)
TileOf(spine, k, i) ==
    SubSeq(spine, i * TileSize(spine, k) + 1, Least((i + 1) * TileSize(spine, k), Len(spine)))
Tiles(spine, k) == {TileOf(spine, k, i) : i \in 0 .. k} \ {<<>>}
ExpandAll(tile, k) == [i \in DOMAIN tile |-> Expand(tile[i], Least(k, 2))]
TooMany(alts) ==
    \/ <<>> \in {alts[i] : i \in DOMAIN alts}
    \/ Seqs!FoldLeft(LAMBDA n, a : n + Cardinality(a[1]), 0, alts) > fanout

(* The neighbourhood is complete over bytes only; beyond them one trigram  *)
(* has to survive every edit.                                              *)
ExactOnly(spine, k) ==
    /\ multi \/ \E i \in DOMAIN spine : ~AllAscii(spine[i])
    /\ Len(spine) <= 3 * k

TileSpine(spine, k) ==
    IF spine = <<>> \/ ExactOnly(spine, k) \/ k + 1 > Len(spine) THEN AlwaysTrue
    ELSE LET expanded == {ExpandAll(tile, k) : tile \in Tiles(spine, k)} IN
         IF \E alts \in expanded : TooMany(alts) THEN AlwaysTrue
         ELSE Query("dnf", {UNION {alts[i][1] : i \in DOMAIN alts} : alts \in expanded})

(* pg_tre_tile_query.                                                      *)
TileQuery(p, k) ==
    LET buf == Linearize(p)
        runs == RunsOf(buf)
        n == HandOut(runs, [r \in DOMAIN runs |-> 0], PiecesWanted(k))
    IN IF n # <<>> THEN TilePieces(buf, runs, n) ELSE TileSpine(Spine(buf), k)

-----------------------------------------------------------------------------
(* pg_tre_amrescan.                                                        *)

ExtractQuery(p, k) == IF k > 0 THEN TileQuery(p, k) ELSE ExtractExact(p)
Ignoring(q) == [q EXCEPT !.always_true = TRUE]
Translate(query) ==
    LET p == query.pat IN
    CASE query.op = "approx" -> ExtractQuery(p, query.k)
      [] query.op = "regex"  -> ExtractExact(p)
      [] query.op = "iregex" -> Ignoring(ExtractExact(p))
      [] query.op = "like"   -> ExtractExact(FromLike(p))
      [] query.op = "ilike"  -> Ignoring(ExtractExact(FromLike(p)))
      [] query.op = "equal"  -> ExtractExact(FromLiteral(p))
      [] query.op = "options" -> Ignoring(ExtractExact(p))
      [] query.op = "unparsed" -> AlwaysTrue

-----------------------------------------------------------------------------
(* util/surf.c: the keys as a trie whose edges are listed level by level.  *)
(* A key is its three letters, one label each (the code cuts the number    *)
(* they form into eight bytes); a node is the number of nodes before it.   *)

KeyLen == 3
Precedes(a, b) == \E i \in 1 .. KeyLen : a[i] < b[i] /\ \A j \in 1 .. i - 1 : a[j] = b[j]

(* The edges of a node, of all nodes of a level, and of the trie, each     *)
(* named by its path from the root.                                        *)
EdgesOf(keys, node) ==
    SelectSeq([c \in 1 .. Sets!Max(Letters) |-> Append(node, c)],
              LAMBDA e : \E key \in keys : SubSeq(key, 1, Len(e)) = e)
NextLevel(keys, nodes) == Seqs!FoldLeft(LAMBDA s, node : s \o EdgesOf(keys, node), <<>>, nodes)

SurfBuild(keys) ==
    LET first == EdgesOf(keys, <<>>)
        second == NextLevel(keys, first)
        edges == first \o second \o NextLevel(keys, second)
    IN [labels    |-> [i \in DOMAIN edges |-> Seqs!Last(edges[i])],
        has_child |-> [i \in DOMAIN edges |-> Len(edges[i]) < KeyLen],
        louds     |-> [i \in DOMAIN edges |->
                          i = 1 \/ Seqs!Front(edges[i]) # Seqs!Front(edges[i - 1])]]

(* bv_rank1, bv_select1; past the last set bit is the end of the labels.   *)
Rank(bits, i) == Cardinality({j \in 1 .. i : bits[j]})
Select(bits, n) ==
    LET at == SelectSeq([i \in DOMAIN bits |-> i], LAMBDA i : bits[i])
    IN IF n \in DOMAIN at THEN at[n] ELSE Len(bits) + 1

NodeFirst(s, node) == Select(s.louds, node + 1)
NodeEnd(s, node) == Select(s.louds, node + 2)
ChildNode(s, pos) == Rank(s.has_child, pos)

RECURSIVE MinBelow(_, _)
MinBelow(s, pos) ==
    <<s.labels[pos]>> \o
    IF s.has_child[pos] THEN MinBelow(s, NodeFirst(s, ChildNode(s, pos))) ELSE <<>>

(* Where the exact path gives out, the next edge of the nearest ancestor   *)
(* that has one; <<>> if none has.                                         *)
NoSibling(s, node, pos) == <<>>
Sibling(s, node, pos) == IF pos + 1 < NodeEnd(s, node) THEN MinBelow(s, pos + 1) ELSE <<>>

(* surf_successor, below a node: the least stored key that is not less.    *)
RECURSIVE SuccessorBelow(_, _, _)
SuccessorBelow(s, node, key) ==
    LET from == {p \in NodeFirst(s, node) .. NodeEnd(s, node) - 1 : s.labels[p] >= Head(key)}
        p == Sets!Min(from)
    IN IF from = {} THEN <<>>
       ELSE IF s.labels[p] > Head(key) THEN MinBelow(s, p)
       ELSE IF ~s.has_child[p] THEN <<s.labels[p]>>
       ELSE LET below == SuccessorBelow(s, ChildNode(s, p), Tail(key))
            IN IF below # <<>> THEN <<s.labels[p]>> \o below ELSE Sibling(s, node, p)

Successor(s, key) == IF s.labels = <<>> THEN <<>> ELSE SuccessorBelow(s, 0, key)
RangeOverlaps(s, lo, hi) ==
    LET next == Successor(s, lo) IN next # <<>> /\ ~Precedes(hi, next)

-----------------------------------------------------------------------------
Idle == [at |-> "idle", query |-> 0, q |-> AlwaysTrue, snap |-> {}, out |-> {},
         unread |-> {}]

(* pg_tre_ambuild; a single-byte encoding has no wide letters.             *)
Init ==
    /\ multi \in BOOLEAN
    /\ fanout \in Fanouts
    /\ \E rows \in Builds :
          base = {t \in rows : multi \/ Seqs!ToSet(t) \subseteq Bytes}
    /\ flushed = {} /\ pending = {}
    /\ surf = SurfBuild(TrigramsOf(base))
    /\ surf_complete = (surf.labels # <<>>)
    /\ scan = Idle

Insert(t) ==
    /\ t \notin Rows
    /\ multi \/ Seqs!ToSet(t) \subseteq Bytes
    /\ pending' = pending \cup {t}
    /\ UNCHANGED <<multi, fanout, base, flushed, surf, surf_complete, scan>>

(* A merge moves a part of the pending rows to the base tree, or flushes   *)
(* them to a run of their own without looking which trigrams there are.    *)
AddsNothing(batch, flush_to_run) == flush_to_run
AddsTrigram(batch, flush_to_run) ==
    flush_to_run \/ ~(TrigramsOf(batch) \subseteq TrigramsOf(base))
Merge(batch, flush_to_run) ==
    /\ batch # {}
    /\ IF flush_to_run THEN flushed' = flushed \cup batch /\ UNCHANGED base
       ELSE base' = base \cup batch /\ UNCHANGED flushed
    /\ pending' = pending \ batch
    /\ surf_complete' = (surf_complete /\ ~AddsTrigram(batch, flush_to_run))
    /\ UNCHANGED <<multi, fanout, surf, scan>>

Rescan(n) ==
    /\ scan.at = "idle"
    /\ scan' = [Idle EXCEPT !.at = "open", !.query = n, !.q = Translate(Queries[n]),
                            !.snap = Rows]
    /\ UNCHANGED <<multi, fanout, base, flushed, pending, surf, surf_complete>>

(* pg_tre_surf_prefilter_rejects.                                          *)
Trusted == surf_complete /\ pending = {}
Rejects ==
    /\ scan.q.range # <<>> /\ ~scan.q.always_true
    /\ surf.labels # <<>> /\ Trusted
    /\ ~RangeOverlaps(surf, scan.q.range, scan.q.range)
Prefilter ==
    /\ scan.at = "open"
    /\ scan' = [scan EXCEPT !.at = IF Rejects THEN "done" ELSE "search"]
    /\ UNCHANGED <<multi, fanout, base, flushed, pending, surf, surf_complete>>

(* pg_tre_amgetbitmap, after the prefilter: every page of the table when   *)
(* the query says nothing; otherwise the rows that satisfy it, which a DNF *)
(* query looks up under the root of the base tree and on the pending list  *)
(* only.                                                                   *)
Searched == IF scan.q.mode = "dnf" THEN base \cup pending ELSE Rows
Candidates ==
    IF scan.q.always_true THEN Rows ELSE {t \in Searched : Satisfies(scan.q, Windows(t))}
GetBitmap ==
    /\ scan.at = "search"
    /\ scan' = [scan EXCEPT !.at = "done", !.out = Candidates, !.unread = Rows \ Searched]
    /\ UNCHANGED <<multi, fanout, base, flushed, pending, surf, surf_complete>>

EndScan ==
    /\ scan.at = "done"
    /\ scan' = Idle
    /\ UNCHANGED <<multi, fanout, base, flushed, pending, surf, surf_complete>>

Next ==
    \/ \E t \in LateRows : Insert(t)
    \/ \E batch \in SUBSET pending, flush_to_run \in BOOLEAN : Merge(batch, flush_to_run)
    \/ \E n \in DOMAIN Queries : Rescan(n)
    \/ Prefilter \/ GetBitmap \/ EndScan

Spec == Init /\ [][Next]_vars

-----------------------------------------------------------------------------
(* The rows each query's operator accepts.                                 *)
Matching ==
    [n \in DOMAIN Queries |-> {t \in UNION Builds \cup LateRows : Accepts(Queries[n], t)}]

(* A filter may be too wide and never too narrow: of the rows that were    *)
(* there when the scan began, every one the operator accepts is among the  *)
(* candidates amgetbitmap hands to the recheck, whatever part of them was  *)
(* inserted after CREATE INDEX, merged or flushed meanwhile.  One kind of  *)
(* row is exempt: a DNF query (edits allowed, no pieces) does not look into*)
(* the runs, so what a merge had flushed there is lost to it.              *)
Sound ==
    scan.at = "done" => scan.snap \cap Matching[scan.query] \subseteq scan.out \cup scan.unread

(* regex_extract_query, on a pattern without a run break: "lc.run[0..run_n)*)
(* is the entire required substring and PIECES is sound" - no row the      *)
(* operator accepts lacks every piece.                                     *)
PiecesSound ==
    scan.at = "done" /\ scan.q.mode = "pieces" =>
        scan.snap \cap Matching[scan.query] \subseteq scan.out

(* surf_successor finds the least stored key not below the one asked for,  *)
(* for every key of the alphabet, so range_overlaps has no false negative. *)
SurfExact ==
    scan.at = "idle" /\ Trusted =>
        LET keys == TrigramsOf(base \cup flushed) IN
        \A key \in [1 .. KeyLen -> Letters] :
            LET least == {k \in keys : ~Precedes(k, key)}
                next == Successor(surf, key)
            IN IF least = {} THEN next = <<>>
               ELSE next \in least /\ \A k \in least : ~Precedes(k, next)

(* While surf_complete stands the SuRF holds every trigram of the trees,   *)
(* merges and runs included: what the prefilter's rejection rests on.      *)
SurfCovers ==
    surf_complete => \A t \in TrigramsOf(base \cup flushed) : RangeOverlaps(surf, t, t)

=============================================================================
