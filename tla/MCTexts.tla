------------------------------ MODULE MCTexts ------------------------------
(* Values for the constants of Texts: a line of up to two pieces of every  *)
(* kind the redactor knows, or a URL in a URL that a keyword announces,    *)
(* and another line after it, label values of up to three characters that  *)
(* mean something to the format, stamps at the edges of a day, a month and *)
(* a change of the clocks, terminal texts of up to five characters, and    *)
(* days around the epoch, 2000, today and 2100.                            *)
EXTENDS Texts

UpTo(S, n) == UNION {[1..k -> S] : k \in 0..n}

Word(kind, id, tail) == <<Item(kind, id, 0, tail)>>
Del(d)   == <<Mark(d)>>
Scheme(kind)   == Word(kind, "x", ":") \o Del("slash") \o Del("slash")
Url(userinfo, host, path) ==
  Scheme("scheme") \o (IF userinfo = <<>> THEN <<>> ELSE userinfo \o Del("at")) \o host \o path
Opaque == Del("slash") \o Word("opaque", "x", "")
IP     == Word("ipv4", "x", "")

Pieces ==
  {Word(k, "x", "") : k \in Shaped \cup {"root", "digits", "plain", "opaque"}}
  \cup {Word(k, "x", "") : k \in {"graffiti", "validator", "host"}}
  \cup {Word("ipv4", "y", ""), Word("ipv4", "x", "port"), Word("host", "x", ":"), Word("enr", "x", ".")}
  \cup {Url(<<>>, IP, Opaque), Url(Word("plain", "u", ":"), IP, <<>>),
        Url(Word("ipv4", "y", ""), Word("plain", "x", ""), Opaque \o Opaque),
        Scheme("host") \o IP}
  \cup {Del("slash") \o Word("home", "x", "") \o Del("slash") \o Word("plain", "bob", "")
          \o Del("slash") \o Word("root", "x", "")}

const_Lines == <<
  Pieces \cup {a \o Del(d) \o b : a \in Pieces, b \in Pieces, d \in {"space", "eq", "at"}}
    \cup {Word("graffiti", "x", "") \o Del("space") \o Url(<<>>, Word("plain", "x", ""),
            Del("slash") \o Url(Word("root", "u", ""), IP, Opaque))},
  {IP, Word("peer", "x", ""), Url(Word("plain", "u", ":"), IP, Opaque),
   Word("host", "x", ":") \o Del("space") \o Word("plain", "bob", "")}>>

Chars == {"a", "n", "quote", "backslash", "newline", "}", ",", "=", "space"}

const_Samples ==
  {[name |-> <<"m">>, labels |-> more \o <<<<<<"l">>, v>>>>, value |-> x] :
     v \in UpTo(Chars, 3), x \in {1, NaN},
     more \in {<<>>} \cup {<<<<<<"k">>, w>>>> : w \in UpTo({"quote", "backslash"}, 1)}}

const_Pages ==
  LET one == {[name |-> <<n>>, labels |-> l, value |-> x] :
                n \in {"m", "o"}, x \in {1, 2, NaN},
                l \in {<<>>, <<<<<<"l">>, <<"a">>>>>>, <<<<<<"l">>, <<",">>>>>>}}
  IN UpTo(one, 3)

Ms(sep, digits, width) == [sep |-> sep, digits |-> digits, width |-> width]

Stamp ==
  {[date |-> d, sep |-> f[1], h |-> t[1], mi |-> t[2], sec |-> t[3], ms |-> f[2], zs |-> f[3]] :
     d \in {None, <<2026, 3, 29>>, <<2026, 12, 31>>, <<2024, 2, 29>>, <<2026, 2, 31>>, <<2026, 13, 1>>},
     t \in {<<0, 0, 0>>, <<0, 59, 59>>, <<23, 59, 60>>, <<24, 0, 0>>},
     f \in {<<" ", Ms(".", 217, 3), 0>>, <<"T", Ms(",", 2, 1), 0>>, <<"T", Ms(".", 5, 3), 1>>,
            <<" ", None, 0>>, <<" ", Ms(".", 1234, 4), 0>>,
            <<"T", Ms(",", 7, 1), 2>>, <<"T", Ms(".", 217, 3), 2>>}}

Zone(before, after) ==
  [before |-> before, after |-> after, today |-> after,
   change |-> [day |-> DaysFromCivil(2026, 3, 29), ms |-> 3600000]]
Zones == {None, Zone(3600000, 7200000), Zone(20700000, 20700000), Zone(-18000000, -14400000)}

Says(is)  == [is |-> is, stamp |-> None]
Stamped   == [is |-> "stamp", stamp |-> [date |-> <<2026, 12, 31>>, sep |-> " ", h |-> 23, mi |-> 30,
                                         sec |-> 0, ms |-> Ms(".", 217, 3), zs |-> 0]]
Words     == {Stamped, Says("clock"), Says("INFO"), Says("ERROR"), Says("word"), Says("dash")}
Json(t, at) == [timestamp |-> t, at_timestamp |-> at, level |-> "INFO", message |-> <<>>]

const_LogLines ==
  {[json |-> Json(s, None), words |-> <<>>, zone |-> z] : s \in Stamp, z \in Zones}
  \cup {[json |-> Json(None, s), words |-> <<>>, zone |-> z] : s \in Stamp \cup {None}, z \in {None}}
  \cup {[json |-> None, words |-> w, zone |-> z] : w \in UpTo(Words, 5), z \in {None}}
  \cup {[json |-> None, words |-> <<[is |-> "stamp", stamp |-> s], Says("INFO"), Says("dash"), Says("word")>>,
         zone |-> z] : s \in Stamp, z \in Zones}

const_Prints == UpTo(Char, 4) \cup UpTo(Char \ {"TAB", "BEL", "C1"}, 5)
const_Days   == (-1000..1000) \cup (10950..11100) \cup (20000..22000) \cup (47400..47600)
=============================================================================
