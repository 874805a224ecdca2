------------------------------ MODULE LogLine ------------------------------
(***************************************************************************)
(* One log line: what it is dated by, what is shown of it, and its stamp   *)
(* in another zone (logfmt.rs; leading_timestamp of merge.rs).             *)
(*                                                                         *)
(* A stamp's text is its fields; an instant is a day and the milliseconds  *)
(* into it, which is what the program's one count of milliseconds comes    *)
(* to.  A console line is a sequence of words, a stamp being one of them.  *)
(*                                                                         *)
(* A definition that carries another's name and a suffix is that operation *)
(* with a slip in it, kept to show that the properties notice the slip.    *)
(***************************************************************************)
EXTENDS Calendar, FiniteSetsExt, Option

DAY_MS == 86400000
LEVELS == {"ERROR", "WARN", "INFO", "DEBUG", "TRACE", "FATAL"}

ColorForLevel(level) ==
  CASE level = "ERROR" -> 31 [] level = "WARN" -> 33 [] level = "INFO" -> 32
    [] level = "DEBUG" -> 36 [] OTHER -> 0

Instant(day, ms) == [day |-> day + ms \div DAY_MS, ms |-> ms % DAY_MS]
Shift(at, by) == Instant(at.day, at.ms + by)

-----------------------------------------------------------------------------
Scale(width) == CASE width = 1 -> 100 [] width = 2 -> 10 [] OTHER -> 1

(* A second may be the 60th; the digits after the separator are a fraction.*)
TimeOfDayMs(s) ==
  IF s.h > 23 \/ s.mi > 59 \/ s.sec > 60 \/ (s.ms # None /\ s.ms.width > 3) THEN None
  ELSE s.h * 3600000 + s.mi * 60000 + s.sec * 1000
         + IF s.ms = None THEN 0 ELSE s.ms.digits * Scale(s.ms.width)

DateDays(d) == IF d[2] \in 1..12 /\ d[3] \in 1..31 THEN DaysFromCivil(d[1], d[2], d[3]) ELSE None

ParseTimestamp(s) ==
  LET ms == TimeOfDayMs(s) IN
  IF ms = None THEN None
  ELSE IF s.date = None THEN [kind |-> "time_of_day", at |-> [day |-> 0, ms |-> ms]]
  ELSE IF DateDays(s.date) = None THEN None
  ELSE [kind |-> "absolute", at |-> Instant(DateDays(s.date), ms)]

(* A zone: the offset before and from an instant on, and today's.          *)
AtOrAfter(a, b) == a.day > b.day \/ (a.day = b.day /\ a.ms >= b.ms)
ToOffset(zone, at) == IF AtOrAfter(at, zone.change) THEN zone.after ELSE zone.before

(* restamp takes one Z off where parse_timestamp takes them all, and cuts  *)
(* the three digits it has at the length of what follows the separator.    *)
Width(s) == s.ms.width + IF s.zs > 1 THEN s.zs - 1 ELSE 0

Written(s, date, ms_of_day, offset) ==
  [date |-> date, sep |-> s.sep, h |-> ms_of_day \div 3600000,
   mi |-> (ms_of_day \div 60000) % 60, sec |-> (ms_of_day \div 1000) % 60,
   ms |-> IF s.ms = None THEN None
          ELSE [sep |-> s.ms.sep, width |-> Width(s),
                digits |-> (ms_of_day % 1000) \div Scale(Width(s))],
   zs |-> 0, offset |-> Trunc(offset, 60000) * 60000]

Panics(s) == ParseTimestamp(s) # None /\ s.ms # None /\ Width(s) > 3

Restamp_same_date(s, zone) ==
  LET stamp == ParseTimestamp(s) IN
  IF stamp = None THEN None
  ELSE LET offset == IF s.date = None THEN zone.today ELSE ToOffset(zone, stamp.at)
           local  == Shift(stamp.at, offset)
       IN Written(s, s.date, local.ms, offset)
Restamp(s, zone) ==
  LET stamp == ParseTimestamp(s) IN
  IF stamp = None THEN None
  ELSE LET offset == IF s.date = None THEN zone.today ELSE ToOffset(zone, stamp.at)
           local  == Shift(stamp.at, offset)
       IN Written(s, IF s.date = None THEN None ELSE CivilFromDays(local.day), local.ms, offset)

(* What the fields of a stamp may be, and of a zone, whose offsets are     *)
(* whole minutes.                                                          *)
IsStamp(s) ==
  /\ {s.h, s.mi, s.sec, s.zs} \subseteq Nat
  /\ s.date # None => s.date \in [1..3 -> Int]
  /\ s.ms # None => /\ s.ms.sep \in STRING
                    /\ s.ms.width \in Nat \ {0} /\ s.ms.digits \in Nat
                    /\ s.ms.width <= 3 => s.ms.digits * Scale(s.ms.width) < 1000
IsZone(zone) == \A o \in {zone.before, zone.after, zone.today} : o \in Int /\ o % 60000 = 0

-----------------------------------------------------------------------------
(* Words: a stamp, something that only looks like one, a level, a dash     *)
(* between spaces, and anything else.                                      *)
Dashes(words) == {i \in 2..(Len(words) - 1) : words[i].is = "dash"}

(* Where the head ends: at the first dash that has a space on either side. *)
HeadEnd_last(words) == IF Dashes(words) = {} THEN 0 ELSE Max(Dashes(words))
HeadEnd(words) == IF Dashes(words) = {} THEN 0 ELSE Min(Dashes(words))

(* Digits, dashes, colons, dots and spaces only: no T, no comma, no Z.     *)
Plain(s) == /\ s.date # None => s.sep = " "
            /\ s.ms # None => s.ms.sep = "."
            /\ s.zs = 0
LooksLikeTimestamp(words) ==
  /\ words # <<>>
  /\ \A i \in DOMAIN words : words[i].is = "clock" \/ (words[i].is = "stamp" /\ Plain(words[i].stamp))

HeadWords(words) == SubSeq(words, 1, HeadEnd(words) - 1)
Stamps(head)     == SubSeq(head, 1, Len(head) - 1)

ParseConsole(words) ==
  LET head == HeadWords(words) IN
  IF Len(head) < 2 THEN None
  ELSE IF head[Len(head)].is \notin LEVELS \/ ~LooksLikeTimestamp(Stamps(head)) THEN None
  ELSE [stamp   |-> Stamps(head), level |-> head[Len(head)].is,
        message |-> SubSeq(words, HeadEnd(words) + 1, Len(words))]

JsonTimestamp(v) == IF v.timestamp # None THEN v.timestamp ELSE v.at_timestamp

One(stamps) == IF Len(stamps) = 1 THEN stamps[1].stamp ELSE None   \* several read as no stamp

(* merge.rs: what dates a line.  No level is asked for here.               *)
DatedBy(line, json) ==
  LET head == HeadWords(line.words)
      text == IF line.json # None THEN json ELSE IF Len(head) < 2 THEN None ELSE One(Stamps(head))
  IN IF text = None THEN None ELSE ParseTimestamp(text)

LeadingTimestamp_at_only(line) == DatedBy(line, IF line.json = None THEN None ELSE line.json.at_timestamp)
LeadingTimestamp(line) == DatedBy(line, IF line.json = None THEN None ELSE JsonTimestamp(line.json))

(* What is shown: a record with its stamp and its colour, or the line.     *)
FormatLogLine(line, zone) ==
  LET console == ParseConsole(line.words)
      text    == IF line.json # None THEN JsonTimestamp(line.json) ELSE One(console.stamp)
      shown   == IF zone = None \/ text = None THEN None ELSE Restamp(text, zone)
      record(level, message) ==
        [passthrough |-> FALSE, text |-> text, shown |-> IF shown = None THEN text ELSE shown,
         level |-> level, color |-> ColorForLevel(level), message |-> message]
  IN IF line.json # None THEN record(line.json.level, line.json.message)
     ELSE IF console = None THEN [passthrough |-> TRUE, message |-> line.words]
     ELSE record(console.level, console.message)

=============================================================================
