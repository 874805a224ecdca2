------------------------------ MODULE MCMerger ------------------------------
(* Values for the constants of Merger. *)
EXTENDS Merger

Absolute(times) == {[kind |-> "absolute", at |-> t] : t \in times}
TimeOfDay(times) == {[kind |-> "time_of_day", at |-> t] : t \in times}

(* Dated lines on either side of the start of a `logs' session, which is   *)
(* 1, and a time of day that lies before it.                               *)
const_LogsStamps == Absolute({0, 2}) \cup TimeOfDay({0})

const_Arrivals == {2}

=============================================================================
