--------------------------- MODULE RecordBuilder ---------------------------
(***************************************************************************)
(* RecordBuilder of merge.rs: the grouping of one source's raw lines into  *)
(* records, and the dating of a record from the stamp of its first line.   *)
(*                                                                         *)
(* A raw line is what leading_timestamp makes of it: None for a line that  *)
(* carries no timestamp, otherwise a stamp, which is an absolute time or a *)
(* time of day.  The lines of a source are numbered in the order they are  *)
(* read, and a record keeps the numbers of its first and its last line     *)
(* where the code keeps their text: its lines are always consecutive.      *)
(*                                                                         *)
(* Optional records (pending, completed) are sequences of at most one, so  *)
(* that "queue it if there is one" is a concatenation.                     *)
(*                                                                         *)
(* A definition that carries another's name and a suffix is that operation *)
(* with a slip in it, kept to show that the properties notice the slip.    *)
(***************************************************************************)
EXTENDS LogSources, Sequences

CONSTANTS DAY,             \* DAY_MS
          SESSION_START    \* session_start_ms

ASSUME BuilderAssumption ==
  /\ DAY \in Nat \ {0}
  /\ SESSION_START \in Int

Stamp == [kind : {"absolute"}, at : Int]
           \cup [kind : {"time_of_day"}, at : 0..(DAY - 1)]

Record == [time : Int, first : Nat, last : Nat]

Builder == [last : Int \cup {None}, pending : Seq(Record)]

NewBuilder == [last |-> None, pending |-> <<>>]

-----------------------------------------------------------------------------
(* Where an undated record lands. *)
UndatedTime_last_unwrapped(last) == last
UndatedTime(last) == IF last = None THEN SESSION_START ELSE last

(* A time of day is placed on the day of the last time seen, or of the     *)
(* session's start when there is none, and on the next day if that would   *)
(* go backwards.                                                           *)
Dated_no_rollover(last, timeOfDay) ==
  (UndatedTime(last) \div DAY) * DAY + timeOfDay
Dated(last, timeOfDay) ==
  LET base    == UndatedTime(last)
      sameDay == (base \div DAY) * DAY + timeOfDay
  IN IF sameDay < base THEN sameDay + DAY ELSE sameDay

(* RecordBuilder::resolve: never before the last time seen. *)
Resolve_unclamped(last, stamp) ==
  IF stamp.kind = "absolute" THEN stamp.at ELSE Dated(last, stamp.at)
Resolve(last, stamp) ==
  LET candidate == IF stamp.kind = "absolute" THEN stamp.at
                                              ELSE Dated(last, stamp.at)
  IN IF last # None /\ candidate < last THEN last ELSE candidate

OneLine(time, n) == [time |-> time, first |-> n, last |-> n]

(* RecordBuilder::push_line on line number n: the builder it leaves, the   *)
(* record it completed, and the time of this line if it carries one.       *)
Pushed(b, n, line) ==
  IF line # None
  THEN LET time == Resolve(b.last, line)
       IN [builder   |-> [last |-> time, pending |-> <<OneLine(time, n)>>],
           completed |-> b.pending,
           stampedAt |-> time]
  ELSE IF b.pending # <<>>
  THEN [builder   |-> [b EXCEPT !.pending = <<[b.pending[1] EXCEPT !.last = n]>>],
        completed |-> <<>>,
        stampedAt |-> None]
  ELSE IF b.last = None
  THEN [builder   |-> b,
        completed |-> <<OneLine(UndatedTime(b.last), n)>>,
        stampedAt |-> None]
  ELSE [builder   |-> [b EXCEPT !.pending = <<OneLine(UndatedTime(b.last), n)>>],
        completed |-> <<>>,
        stampedAt |-> None]

(* RecordBuilder::finish: what is taken, and the builder left behind. *)
Finished(b) == [b EXCEPT !.pending = <<>>]

=============================================================================
