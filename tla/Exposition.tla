----------------------------- MODULE Exposition -----------------------------
(***************************************************************************)
(* The metrics page: one line read as a sample, and what is summed over    *)
(* the samples (metrics.rs).  Text is a sequence of characters, of which   *)
(* only those the format gives a meaning to are told apart.                *)
(*                                                                         *)
(* A definition that carries another's name and a suffix is that operation *)
(* with a slip in it, kept to show that the properties notice the slip.    *)
(***************************************************************************)
EXTENDS Scan, FiniteSetsExt

CONSTANTS NaN,           \* a value that is no finite number
          Letter         \* the characters the format gives no meaning to

Special == {"{", "}", ",", "=", "#", "quote", "backslash", "newline", "space"}
Symbol  == Letter \cup Special

ASSUME ExpositionAssumption ==
  /\ NaN \notin Int
  /\ "n" \in Letter /\ Letter \cap Special = {}

NoSample == [name |-> <<>>, labels |-> {}, value |-> 0]

(* The two flags of find_closing_brace and parse_labels: whether a         *)
(* character stands inside a quoted value, and behind a backslash there.   *)
Unquoted == [quoted |-> FALSE, escaped |-> FALSE]

Flagged_unescaped(flags, c) == [quoted |-> flags.quoted # (c = "quote"), escaped |-> FALSE]
Flagged(flags, c) ==
  IF flags.escaped THEN [flags EXCEPT !.escaped = FALSE]
  ELSE [quoted |-> flags.quoted # (c = "quote"), escaped |-> flags.quoted /\ c = "backslash"]

FlagsFrom(start, s) ==
  LET flags[i \in 0..Len(s)] == IF i = 0 THEN start ELSE Flagged(flags[i - 1], s[i])
  IN flags

Outside(s, c) ==
  LET flags == FlagsFrom(Unquoted, s)
  IN {i \in DOMAIN s : s[i] = c /\ flags[i - 1] = Unquoted}

FindClosingBrace(s) == IF Outside(s, "}") = {} THEN 0 ELSE Min(Outside(s, "}"))

(* The texts between two cuts, and at the ends.                            *)
NextCut(s, cuts, from) == Min({i \in cuts \cup {Len(s) + 1} : i > from})
SplitAt(s, cuts) == {SubSeq(s, i + 1, NextCut(s, cuts, i) - 1) : i \in cuts \cup {0}}

Trim(s) ==
  LET kept == {i \in DOMAIN s : s[i] # "space"}
  IN IF kept = {} THEN <<>> ELSE SubSeq(s, Min(kept), Max(kept))

(* One pair of quotes comes off, then the escapes are resolved.            *)
Unescaped(s, i) ==
  IF s[i] # "backslash" \/ i = Len(s) THEN <<s[i]>>
  ELSE CASE s[i + 1] = "n"                      -> <<"newline">>
         [] s[i + 1] \in {"quote", "backslash"} -> <<s[i + 1]>>
         [] OTHER                               -> <<"backslash", s[i + 1]>>

Unescape(s) ==
  Walk(Len(s), [i \in 1..Len(s) |-> Unescaped(s, i)],
       [i \in 1..Len(s) |-> IF s[i] # "backslash" \/ i = Len(s) THEN i + 1 ELSE i + 2])[1]

Unquote(s) ==
  Unescape(IF Len(s) >= 2 /\ s[1] = "quote" /\ s[Len(s)] = "quote"
           THEN SubSeq(s, 2, Len(s) - 1) ELSE s)

Equals(s) == {i \in DOMAIN s : s[i] = "="}

Pair(s) ==
  LET eq == Min(Equals(s))
  IN <<Trim(SubSeq(s, 1, eq - 1)), Unquote(Trim(SubSeq(s, eq + 1, Len(s))))>>

ParseLabels(raw) ==
  {Pair(Trim(p)) : p \in {q \in SplitAt(raw, Outside(raw, ",")) : Equals(q) # {}}}

(* A line of the page: its text up to the value, and the value.  A value   *)
(* that is not finite is no sample.                                        *)
Finite_any(value) == TRUE
Finite(value) == value # NaN

ParseLine(line) ==
  LET opens == {i \in DOMAIN line.text : line.text[i] = "{"}
      open  == Min(opens)
      rest  == SubSeq(line.text, open, Len(line.text))
      close == FindClosingBrace(rest)
      plain == [name |-> line.text, labels |-> {}, value |-> line.value]
  IN IF line.text = <<>> \/ line.text[1] = "#" \/ ~Finite(line.value) THEN NoSample
     ELSE IF opens = {} THEN plain
     ELSE IF close = 0 THEN NoSample
     ELSE [plain EXCEPT !.name = SubSeq(line.text, 1, open - 1),
                        !.labels = ParseLabels(SubSeq(rest, 2, close - 1))]

(* A line that is no sample is left out of the samples: it keeps its place *)
(* in the page, and is in no family and in no sum.                         *)
ParseExposition(page) == [k \in DOMAIN page |-> ParseLine(page[k])]

(* What a process may report, and how it writes it: a name and labels of   *)
(* letters, each label once, and every backslash, quote and newline of a   *)
(* value escaped.                                                          *)
IsReported(x) ==
  /\ x.name \in Seq(Letter) \ {<<>>} /\ x.value \in Int \cup {NaN}
  /\ x.labels \in Seq(Seq(Letter) \X Seq(Symbol))
  /\ \A j, k \in DOMAIN x.labels : x.labels[j][1] = x.labels[k][1] => j = k
  /\ x = [name |-> x.name, labels |-> x.labels, value |-> x.value]

Escaped(c) ==
  CASE c \in {"backslash", "quote"} -> <<"backslash", c>>
    [] c = "newline"               -> <<"backslash", "n">>
    [] OTHER                       -> <<c>>

Escape(v) == Walk(Len(v), [i \in 1..Len(v) |-> Escaped(v[i])], [i \in 1..Len(v) |-> i + 1])[1]

Label(l) == l[1] \o <<"=">> \o (<<"quote">> \o Escape(l[2]) \o <<"quote">>)

Exposed(name, labels) ==
  LET n       == Len(labels)
      part(k) == IF k = 1 THEN Label(labels[k]) ELSE <<",">> \o (<<"space">> \o Label(labels[k]))
  IN name \o <<"{">>
       \o Walk(n, [k \in 1..n |-> part(k)], [k \in 1..n |-> k + 1])[1] \o <<"}">>

-----------------------------------------------------------------------------
(* The sums.                                                               *)
Total(x) ==
  LET sum[k \in 0..Len(x)] == IF k = 0 THEN 0 ELSE sum[k - 1] + x[k]
  IN sum[Len(x)]

SumOver(samples, S) ==
  IF \E k \in S : samples[k].value = NaN THEN NaN
  ELSE Total([k \in 1..Len(samples) |-> IF k \in S THEN samples[k].value ELSE 0])

Family(samples, name) == {k \in DOMAIN samples : samples[k] # NoSample /\ samples[k].name = name}
Value(sample, label) == {l[2] : l \in {m \in sample.labels : m[1] = label}}

SumAll(samples, name) == SumOver(samples, Family(samples, name))

MatchingValue(samples, name, matchers) ==
  SumOver(samples, {k \in Family(samples, name) : \A m \in matchers : m \in samples[k].labels})

DistinctLabelValues(samples, name, label) ==
  UNION {Value(samples[k], label) : k \in Family(samples, name)}

SumByLabel_unlabelled_too(samples, name, label) ==
  [v \in DistinctLabelValues(samples, name, label) \cup {<<>>} |->
     SumOver(samples, {k \in Family(samples, name) : Value(samples[k], label) \in {{v}, {}}})]
SumByLabel(samples, name, label) ==
  [v \in DistinctLabelValues(samples, name, label) |->
     SumOver(samples, {k \in Family(samples, name) : v \in Value(samples[k], label)})]

HasMetric(samples, name) == Family(samples, name) # {}

=============================================================================
