----------------------------- MODULE SkewClocks -----------------------------
(***************************************************************************)
(* SkewWatch against processes whose clocks are known.  Every process is   *)
(* `clock' behind this host, for the whole session, and a line reaches     *)
(* tekops some delay after it was written, never before: the sample that   *)
(* Merger::push_line takes is clock + delay.  A backlog is a run of lines  *)
(* with long delays; a live line has none.                                 *)
(***************************************************************************)
EXTENDS SkewWatch, Sequences

CONSTANTS Clocks,   \* how far behind this host's clock a process may stamp
          Delays    \* how long after it was written a line may arrive

ASSUME ClocksAssumption == Clocks \subseteq Int /\ Delays \subseteq Nat

VARIABLES clock,    \* the offset each process really has
          told      \* the notes take_skew_note has handed to the emitter

clockVars == <<offsets, skewNote, skewJudged, clock, told>>

ClocksInit ==
  /\ SkewInit
  /\ clock \in [Source -> Clocks]
  /\ told = <<>>

LineArrives(i, delay) ==
  /\ Observe(i, clock[i] + delay)
  /\ UNCHANGED <<clock, told>>

(* The emitter asks on every tick; most ticks find nothing. *)
EmitterAsks ==
  /\ told' = IF skewNote = None THEN told ELSE Append(told, skewNote)
  /\ TakeNote
  /\ UNCHANGED clock

ClocksNext ==
  \/ \E i \in Source, delay \in Delays : LineArrives(i, delay)
  \/ EmitterAsks

ClocksSpec == ClocksInit /\ [][ClocksNext]_clockVars

-----------------------------------------------------------------------------
ClocksTypeOK ==
  /\ SkewTypeOK
  /\ clock \in [Source -> Clocks]
  /\ told \in Seq(Note)

(* The source has delivered a line that was stamped as it arrived. *)
Live(s) == offsets[s] = clock[s]

(* The zone by which the clocks of two processes differ, None if they do   *)
(* not differ by one.                                                      *)
TrueZone(s, t) == AsZoneOffset(Distance(clock[s], clock[t]))

(* The operator has been told of a skew, or is about to be. *)
Reported == skewNote # None \/ told # <<>>

(* "Said once, not on every tick" (merge.rs, a_large_skew_is_reported_once *)
(* and the doc of check_skew: "Notices, once"): however the estimates move *)
(* afterwards, one session is told about a skew at most one time.          *)
SaidOnce == Len(told) + (IF skewNote = None THEN 0 ELSE 1) <= 1

(* Two processes whose clocks are a timezone apart do not go unreported:   *)
(* once each has delivered one line stamped as it arrived, the note has    *)
(* been raised, whichever stale lines came before and in whatever order.   *)
TrueSkewIsReported ==
  \A s, t \in Source :
    Live(s) /\ Live(t) /\ TrueZone(s, t) # None => Reported

=============================================================================
