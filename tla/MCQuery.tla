------------------------------ MODULE MCQuery ------------------------------
(***************************************************************************)
(* Letters 1..3 are a, b and c, 4 is the upper case of a, 5 a character    *)
(* between 0x80 and 0xFF, 6 one beyond 0xFF.                               *)
(***************************************************************************)
EXTENDS Query

MCUpper == [u \in {4} |-> 1]

Texts(S, lens) == UNION {[1 .. n -> S] : n \in lens}
Word(s) == CatAll([i \in DOMAIN s |-> Lit(s[i])])
a == Lit(1)
b == Lit(2)
ab == Class({1, 2}, FALSE)
Query0(o, p) == [op |-> o, pat |-> p, k |-> 0]
Near(n, p) == [op |-> "approx", pat |-> p, k |-> n]

(* Nine letters, and the texts two deletions or substitutions away.        *)
Long == <<1, 2, 3, 3, 1, 2, 2, 3, 1>>
Without(s, i) == SubSeq(s, 1, i - 1) \o SubSeq(s, i + 1, Len(s))
NearLong ==
    {Without(Without(Long, i), j) : i \in 1 .. 9, j \in 1 .. 8}
    \cup {[Long EXCEPT ![i] = 6, ![j] = 5] : i \in 1 .. 9, j \in 1 .. 9}

Table ==
    Texts({1, 2}, 0 .. 7) \cup Texts({1, 2, 3}, 3 .. 5) \cup Texts({1, 2, 5, 6}, 3 .. 4)
    \cup Texts({1, 2, 4}, 3 .. 4) \cup NearLong
MCBuilds == {{}, {<<2, 1, 2, 3>>}, {<<1, 1, 3>>, <<1, 2, 3>>, <<1, 3, 1>>, <<3, 3, 1, 2>>}, Table}
MCLateRows == {<<1, 2, 1, 2>>, <<2, 1, 2>>}

MCQueries == <<
    Query0("regex", Word(<<1, 2>>)), Query0("regex", Word(<<1, 2, 1, 2, 2>>)),
    Query0("regex", CatAll(<<a, ab, b>>)),
    Query0("regex", CatAll(<<ab, a, ab, ab, b, ab>>)),
    Query0("regex", CatAll(<<a, Class({1, 2, 3}, FALSE), Class({1, 2, 3}, FALSE), b, ab, a>>)),
    Query0("regex", CatAll(<<Class(Letters, FALSE), b, a, Class({1}, TRUE), b>>)),
    Query0("regex", Rep(Cat(a, ab), 2, 2)), Query0("regex", CatAll(<<a, Rep(ab, 2, 2), b>>)),
    Query0("regex", CatAll(<<a, Rep(b, 1, -1), a>>)),
    Query0("regex", CatAll(<<a, Rep(b, 1, 3), a, b>>)),
    Query0("regex", CatAll(<<a, Rep(Cat(a, b), 1, -1), b>>)),
    Query0("regex", CatAll(<<a, Rep(b, 2, -1), a>>)),
    Query0("regex", CatAll(<<a, Rep(b, 3, 3), a>>)), Query0("regex", CatAll(<<a, Rep(b, 5, 5), a>>)),
    Query0("regex", CatAll(<<a, b, Rep(b, 0, -1), a, b, a>>)),
    Query0("regex", CatAll(<<a, Rep(Alt(a, b), 2, 3), b>>)),
    Query0("regex", CatAll(<<a, b, a, Any, b, a, b>>)),
    Query0("regex", Alt(Word(<<1, 2, 1, 2>>), Word(<<2, 1, 2, 1>>))),
    Query0("regex", CatAll(<<a, b, Alt(a, b), b, a, b>>)),
    Query0("regex", Alt(CatAll(<<a, ab, b, a>>), Word(<<2, 1, 2, 1, 1>>))),
    Query0("regex", CatAll(<<Anchor("start"), a, b, a>>)),
    Query0("regex", CatAll(<<Anchor("start"), a, b, a, ab, Anchor("end")>>)),
    Query0("regex", CatAll(<<Anchor("start"), ab, b, a, b>>)),
    Query0("regex", CatAll(<<Anchor("start"), b, a, b, Any>>)),
    Query0("iregex", CatAll(<<Anchor("start"), Lit(4), b, a>>)),
    Query0("options", CatAll(<<Anchor("start"), a, b, a>>)),
    Query0("unparsed", Word(<<1, 2, 1>>)),
    Query0("like", <<1, 2, 1, Percent, 2, 1, 2>>), Query0("like", <<1, 2, Underscore, 1, 2, 2>>),
    Query0("like", <<Percent, 1, 2, 3, Percent>>), Query0("ilike", <<4, 2, 4, Percent>>),
    Query0("equal", <<1, 2, 1, 2>>), Query0("equal", <<1, 2>>), Query0("equal", <<1, 2, 6, 1>>),
    Near(0, Word(<<1, 2, 1>>)), Near(0, Cat(Word(<<1, 2>>), Approx(Word(<<1, 2>>), 1))),
    Near(1, Word(<<1, 2, 3>>)), Near(1, Word(<<1, 2, 1, 1>>)), Near(1, Word(<<1, 2, 3, 1, 2>>)),
    Near(1, Word(<<1, 2, 5, 1>>)), Near(1, Word(<<1, 2, 6, 1>>)),
    Near(1, Word(<<1, 2, 2, 1, 2, 1>>)), Near(1, Word(<<1, 2, 1, 1, 2, 2, 1>>)),
    Near(1, CatAll(<<a, b, a, Any, b, b, a>>)), Near(1, CatAll(<<a, b, a, b, ab, b>>)),
    Near(1, CatAll(<<Anchor("start"), b, b, a, a, b, a>>)),
    Near(1, Cat(Approx(Word(<<1, 2, 1>>), 1), Word(<<2, 1, 2>>))),
    Near(2, Word(<<1, 2, 1, 1>>)), Near(2, Word(Long))>>

(* Repetitions of a class, of which two copies are inlined; abbab.         *)
MCOneRow == {{<<1, 2, 2, 1, 2>>}}
MCClassRepetitions == <<
    Query0("regex", CatAll(<<a, Rep(ab, 3, 3), b>>)),
    Query0("regex", CatAll(<<a, Rep(ab, 2, -1), b>>)),
    Query0("regex", CatAll(<<a, Rep(Cat(ab, Lit(3)), 1, -1), b>>))>>
=============================================================================
