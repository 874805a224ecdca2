------------------------------- MODULE Texts -------------------------------
(***************************************************************************)
(* The text conversions of tekops at work: a redactor that goes over the   *)
(* lines of a dump one after the other, and, one at a time, a sample of a  *)
(* metrics page, a page, a log line, a text for the terminal and a day.    *)
(* What each operator does is in the module named after its subject; here  *)
(* are the promises that relate what comes out to what went in.            *)
(***************************************************************************)
EXTENDS LogLine, Terminal, Redaction, Exposition, SequencesExt

CONSTANTS Ids,           \* what tells two words of a kind apart
          Lines,         \* of each line of a dump, what it may be
          Samples,       \* [name, labels, value] a process may report
          Pages,         \* sequences of those
          LogLines,      \* [json, words, zone]
          Prints,        \* texts for the terminal
          Days           \* days since 1970-01-01

AnItem == [kind : Kinds, id : Ids \cup Category \cup {""}, n : Nat, tail : Tails]

(* None is no number, date, fraction, instant or record.  A word has a     *)
(* stamp if it is one, and the other fields are what they look like.       *)
ASSUME TextsAssumption ==
  /\ Lines \in Seq(SUBSET Seq(AnItem))
  /\ None \notin Int /\ None \notin [1..3 -> Int]
  /\ None \notin [sep : STRING, width : Int, digits : Int]
  /\ None \notin [kind : {"absolute", "time_of_day"}, at : [day : Int, ms : Int]]
  /\ \A l \in LogLines :
       /\ l.zone = None \/ IsZone(l.zone)
       /\ l.json # None =>
            \A s \in {l.json.timestamp, l.json.at_timestamp} : s = None \/ IsStamp(s)
       /\ l.words \in Seq({l.words[i] : i \in DOMAIN l.words})
       /\ LET some == Seq({l.words[i] : i \in DOMAIN l.words})
          IN None \notin [stamp : some, level : LEVELS, message : some]
       /\ \A i \in DOMAIN l.words :
            IF l.words[i].is = "stamp" THEN IsStamp(l.words[i].stamp) ELSE l.words[i].stamp = None
  /\ \A x \in Samples : IsReported(x)
  /\ \A p \in Pages : p \in Seq({p[k] : k \in DOMAIN p}) /\ \A k \in DOMAIN p : IsReported(p[k])
  /\ Prints \subseteq Seq(Char)
  /\ Days \subseteq Int

VARIABLES names,         \* what the redactor has named
          log,           \* the lines it was given, and what became of them
          made           \* another conversion: of what, from what, into what

textVars == <<names, log, made>>

Nothing == [of |-> "nothing", from |-> None, into |-> None]

TextsInit == names = <<>> /\ log = <<>> /\ made = Nothing

(* The line a process writes for a sample.                                 *)
Reported(x) == [text |-> Exposed(x.name, x.labels), value |-> x.value]

Idle == made = Nothing /\ log = <<>>

Make(of, from, into) ==
  /\ made' = [of |-> of, from |-> from, into |-> into]
  /\ UNCHANGED <<names, log>>

RedactLine ==
  /\ made = Nothing /\ Len(log) < Len(Lines)
  /\ \E l \in Lines[Len(log) + 1] :
       LET done == Redact(names, l) IN
       /\ names' = done.r
       /\ log' = Append(log, [from |-> l, into |-> done.line])
  /\ UNCHANGED made

ReadSample ==
  /\ Idle
  /\ \E s \in Samples :
       Make("sample", s, ParseLine(Reported(s)))

ReadPage ==
  /\ Idle
  /\ \E p \in Pages :
       Make("page", p, ParseExposition([k \in DOMAIN p |-> Reported(p[k])]))

ShowLine  == Idle /\ \E l \in LogLines : Make("line", l, FormatLogLine(l, l.zone))
PrintText == Idle /\ \E p \in Prints : Make("print", p, Sanitize(p))
CountDay  == Idle /\ \E d \in Days : Make("day", d, CivilFromDays(d))

TextsNext == RedactLine \/ ReadSample \/ ReadPage \/ ShowLine \/ PrintText \/ CountDay

TextsSpec == TextsInit /\ [][TextsNext]_textVars

-----------------------------------------------------------------------------
(* The redactor's registry holds no value twice, and only in categories it *)
(* has a placeholder for.                                                  *)
TextsTypeOK ==
  /\ IsInjective(names)
  /\ \A k \in DOMAIN names : names[k][1] \in Category
  /\ Len(log) <= Len(Lines)
  /\ made.of \in {"nothing", "sample", "page", "line", "print", "day"}

(* "reusing it thereafter" (token): the same line later in the dump reads  *)
(* as it read the first time, whatever came between, and adds no name.     *)
StableNames ==
  \A k \in DOMAIN log : Redact(names, log[k].from) = [r |-> names, line |-> log[k].into]

(* One value gets one name, and keeps it for the whole dump (redact.rs).   *)
NamesAreStable == TextsTypeOK /\ StableNames

(* The passes do not undo or shadow each other (redact: URLs, home paths,  *)
(* tokens, in that order): no address, key or record that is a word of its *)
(* own, or an address before a port, is left in a redacted line, and no    *)
(* name in a home path.  One that a dot or a colon follows stays.          *)
Sensitive(w) ==
  \/ w.kind \in {"ipv4", "ipv6", "peer", "pubkey", "address", "enr"} /\ w.tail = ""
  \/ w.kind = "ipv4" /\ w.tail = "port"
NothingRecognisedIsLeft ==
  \A k \in DOMAIN log :
    LET l == log[k].into
    IN \A j \in DOMAIN l : ~Sensitive(l[j]) /\ ~HomeAt(l, j)

(* Nothing that has a name is shown by any other, on no line of the dump   *)
(* and by no pass (redact.rs).                                             *)
RedactionIsThorough ==
  /\ NamesAreStable
  /\ NothingRecognisedIsLeft

(* Redaction loses nothing but the names (redact_tokens: "re-emits every   *)
(* delimiter untouched"): who knows what every placeholder stands for can  *)
(* write the line back.  One may stand for another, hence thrice.          *)
Reversible ==
  \A k \in DOMAIN log :
    LET again(l) == Restored(names, l)
    IN again(again(again(log[k].into))) = log[k].from

(* No userinfo is left in a URL that is not part of another, one whose     *)
(* scheme a keyword has hidden since among them (redact_urls).             *)
Outer(l, i) ==
  \/ UrlAt(l, i)
  \/ IsName(l, i - 2) /\ Is(l, i + 1, "slash") /\ Is(l, i + 2, "slash")
Nested(l, j) == \E i \in 1..(j - 1) : Outer(l, i) /\ \A k \in (i + 1)..j : l[k].kind # "space"
UserinfoIsHidden ==
  \A k \in DOMAIN log :
    LET l == log[k].into
    IN \A j \in DOMAIN l :
         UrlAt(l, j) /\ ~Nested(l, j) /\ Userinfo(l, j) # <<>> => Is(l, j + 3, "lt")

(* "0x + 64 hex is also every block root and state root, which are what    *)
(* make the dump readable" (shape_of): a root no keyword announces is      *)
(* still there, if it is neither in a userinfo nor a user's directory.     *)
RootsSurvive ==
  \A k \in DOMAIN log :
    LET from     == log[k].from
        roots(l) == {j \in DOMAIN l : l[j].kind = "root"}
        anchors  == {j \in DOMAIN from : from[j].kind \in {"graffiti", "host"}}
        secret   == UNION {(j + 3)..(j + 2 + Len(Userinfo(from, j))) : j \in {i \in DOMAIN from : UrlAt(from, i)}}
        users    == {j \in roots(from) : HomeAt(from, j - 3)}
    IN anchors = {} =>
         Cardinality(roots(log[k].into)) >= Cardinality(roots(from) \ (secret \cup users))

(* A redacted line says all that is no name, and no more of a URL than     *)
(* that (redact.rs).                                                       *)
RedactionIsSound ==
  /\ Reversible
  /\ UserinfoIsHidden
  /\ RootsSurvive

(* The parser inverts the format's escaping (find_closing_brace,           *)
(* parse_labels, unquote): quotes, backslashes, newlines, commas, braces   *)
(* and spaces inside a label value come back as they were.                 *)
ReadsWhatWasWritten ==
  made.of = "sample" =>
    made.into = IF made.from.value = NaN THEN NoSample
                ELSE [made.from EXCEPT !.labels = ToSet(@)]

(* The sums agree with each other: a family's total is its groups', each   *)
(* taken at its first line, and what has no label, each group's is what a  *)
(* matcher on its value sees, a family that is not there sums to zero, and *)
(* no total is lost to a NaN.                                              *)
Firsts(s, name, label) ==
  LET of(k) == {j \in Family(s, name) : Value(s[j], label) = Value(s[k], label)}
  IN {k \in Family(s, name) : Value(s[k], label) # {} /\ \A j \in of(k) : k <= j}

Grouped(s, name, label) ==
  LET groups == SumByLabel(s, name, label)
  IN Total([k \in 1..Len(s) |->
              IF k \in Firsts(s, name, label)
              THEN groups[CHOOSE v \in Value(s[k], label) : TRUE] ELSE 0])

AddsUp(s, name, label) ==
  LET groups    == SumByLabel(s, name, label)
      unlabeled == {k \in Family(s, name) : Value(s[k], label) = {}}
  IN /\ SumAll(s, name) # NaN
     /\ SumAll(s, name) = Grouped(s, name, label) + SumOver(s, unlabeled)
     /\ \A v \in DOMAIN groups : groups[v] = MatchingValue(s, name, {<<label, v>>})
     /\ ~HasMetric(s, name) => SumAll(s, name) = 0

TotalsAddUp ==
  made.of = "page" =>
    LET written == {made.from[k] : k \in DOMAIN made.from} IN
    \A name \in {x.name : x \in written} \cup {<<"z">>},
       label \in {l[1] : l \in UNION {ToSet(x.labels) : x \in written}} \cup {<<"z">>} :
      AddsUp(made.into, name, label)

(* A metrics page is read as its process wrote it, and counted without a   *)
(* gap (metrics.rs).                                                       *)
MetricsAreRead ==
  /\ ReadsWhatWasWritten
  /\ TotalsAddUp

(* What merge.rs orders a line by and what logfmt.rs shows beside it are   *)
(* the same instant ("merge::leading_timestamp, which shares this lookup").*)
DatedAsShown ==
  made.of = "line" /\ ~made.into.passthrough =>
    (made.into.text # None =>
       LeadingTimestamp(made.from) = ParseTimestamp(made.into.text))

(* "a message containing one [\" - \"] whole" (parse_console): a line as   *)
(* Teku's console layout writes it is shown with its level and all of its  *)
(* message, dashes, levels and stamps in it included.                      *)
MessageIsWhole ==
  made.of = "line" /\ made.from.json = None =>
    LET w == made.from.words IN
    (/\ Len(w) > 3 /\ w[3].is = "dash" /\ w[2].is \in LEVELS
     /\ w[1].is = "stamp" /\ Plain(w[1].stamp)) =>
      /\ ~made.into.passthrough
      /\ made.into.level = w[2].is /\ made.into.text = w[1].stamp
      /\ made.into.message = SubSeq(w, 4, Len(w))

(* --tz moves the reading, never the instant, and keeps the shape (restamp *)
(* "in the same shape it arrived in"): take the offset that is shown off   *)
(* the stamp that is shown, and the stamp of the node is back, over        *)
(* midnight, the end of a month, a leap second and a change of the clocks. *)
(* A second Z costs the shape and may cost the line (Panics).              *)
SameInstant ==
  made.of = "line" /\ ~made.into.passthrough /\ made.into.shown # made.into.text =>
    LET text  == made.into.text
        shown == made.into.shown
        was   == ParseTimestamp(text)
        is    == ParseTimestamp(shown)
    IN /\ ~Panics(text) =>
            /\ is # None /\ is.kind = was.kind
            /\ IF was.kind = "absolute" THEN Shift(is.at, -shown.offset) = was.at
               ELSE (is.at.ms - shown.offset - was.at.ms) % DAY_MS = 0
       /\ (shown.ms = None) <=> (text.ms = None)
       /\ shown.ms # None => /\ shown.ms.sep = text.ms.sep
                             /\ text.zs <= 1 => shown.ms.width = text.ms.width
       /\ shown.date # None => shown.sep = text.sep

(* "a real line that happens to end mid-sequence still shows everything    *)
(* that came after" (sanitize): no control survives, and every character   *)
(* that is part of no control sequence does.                               *)
TextSurvives ==
  made.of = "print" =>
    /\ \A i \in DOMAIN made.into : IsSafe(made.into[i])
    /\ Readable(made.into) = Readable(made.from)

(* Sanitising a record field by field (parse_console, parse_json) is       *)
(* sanitising the whole of it, unless a field ends inside a sequence.      *)
SplitsAnywhere ==
  made.of = "print" =>
    \A n \in 0..Len(made.from) :
      LET head == SubSeq(made.from, 1, n)
          rest == SubSeq(made.from, n + 1, Len(made.from))
      IN Open(head) \/ Sanitize(head) \o Sanitize(rest) = made.into

(* What a line of a log says reaches the terminal whole, under the stamp   *)
(* the merger ordered it by (logfmt.rs, term.rs).                          *)
LinesKeepTheirText ==
  /\ DatedAsShown
  /\ MessageIsWhole
  /\ TextSurvives
  /\ SplitsAnywhere

(* The Gregorian calendar (civil_from_days, days_from_civil): the date of  *)
(* the next day is the day after, over every month's end and leap day, and *)
(* the second function inverts the first.                                  *)
CalendarIsGregorian ==
  made.of = "day" =>
    LET date == made.into IN
    /\ CivilFromDays(made.from + 1) = DayAfter(date)
    /\ DaysFromCivil(date[1], date[2], date[3]) = made.from
    /\ made.from = 0 => date = <<1970, 1, 1>>

(* A date is right wherever one is computed: under --tz, and in the name   *)
(* and header of a dump (logfmt.rs, dump.rs).                              *)
DatesAreRight ==
  /\ SameInstant
  /\ CalendarIsGregorian

=============================================================================
