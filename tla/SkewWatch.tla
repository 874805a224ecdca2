----------------------------- MODULE SkewWatch -----------------------------
(***************************************************************************)
(* The part of merge.rs that notices two processes stamping different      *)
(* clocks: Merger::observe, Merger::check_skew, Merger::take_skew_note and *)
(* as_zone_offset.  A source's offset is the smallest arrival - stamp seen *)
(* on its lines; the spread of the offsets is judged after every sample,   *)
(* and the first spread that looks like a timezone is reported, once.      *)
(*                                                                         *)
(* Merger.tla takes this module's actions into its own, and SkewClocks.tla *)
(* runs them against processes whose clocks are known.                     *)
(*                                                                         *)
(* A definition that carries another's name and a suffix is that operation *)
(* with a slip in it, kept to show that the properties notice the slip.    *)
(***************************************************************************)
EXTENDS LogSources, FiniteSets, FiniteSetsExt

CONSTANTS ZONE_STEP,       \* ZONE_STEP_MS
          ZONE_TOLERANCE   \* ZONE_TOLERANCE_MS

ASSUME SkewAssumption ==
  /\ ZONE_STEP \in Nat \ {0}
  /\ ZONE_TOLERANCE \in Nat

Note == [ahead : Source, behind : Source, zone : Int]

ASSUME NoteAssumption == None \notin Note

VARIABLES offsets,      \* Merger::offsets
          skewNote,     \* Merger::skew_note
          skewJudged    \* Merger::skew_judged

skewVars == <<offsets, skewNote, skewJudged>>

SkewTypeOK ==
  /\ offsets \in [Source -> Int \cup {None}]
  /\ skewNote \in Note \cup {None}
  /\ skewJudged \in BOOLEAN

SkewInit ==
  /\ offsets = [s \in Source |-> None]
  /\ skewNote = None
  /\ skewJudged = FALSE

Distance(a, b) == IF a < b THEN b - a ELSE a - b

(* The multiple of ZONE_STEP nearest to a difference. *)
Rounded(difference) ==
  ((difference + ZONE_STEP \div 2) \div ZONE_STEP) * ZONE_STEP

AsZoneOffset(difference) ==
  IF difference >= ZONE_STEP
     /\ Distance(difference, Rounded(difference)) <= ZONE_TOLERANCE
  THEN Rounded(difference)
  ELSE None

(* check_skew, run on the offsets a sample has just produced: whether it   *)
(* has something to say, and what.                                         *)
MayJudge_again(o) == N >= 2 /\ \A s \in Source : o[s] # None
MayJudge(o) == ~skewJudged /\ N >= 2 /\ \A s \in Source : o[s] # None

SkewNote_off_by_one(o, base, zone) ==
  [ahead  |-> Min({s \in Source : o[s] = base}),
   behind |-> Min({s \in Source : o[s] # base}) + 1,
   zone   |-> zone]
SkewNote(o, base, zone) ==
  [ahead  |-> Min({s \in Source : o[s] = base}),
   behind |-> Min({s \in Source : o[s] # base}),
   zone   |-> zone]

CheckSkew(o) ==
  LET base == Min({o[s] : s \in Source})
      zone == AsZoneOffset(Max({o[s] : s \in Source}) - base)
  IN IF MayJudge(o) /\ zone # None
     THEN skewJudged' = TRUE /\ skewNote' = SkewNote(o, base, zone)
     ELSE UNCHANGED <<skewNote, skewJudged>>

Observe_judged_before(i, sample) ==
  /\ offsets' = [offsets EXCEPT ![i] = IF @ = None \/ sample < @ THEN sample ELSE @]
  /\ CheckSkew(offsets)
Observe(i, sample) ==
  LET o == [offsets EXCEPT ![i] = IF @ = None \/ sample < @ THEN sample ELSE @]
  IN /\ offsets' = o
     /\ CheckSkew(o)

TakeNote ==
  /\ skewNote' = None
  /\ UNCHANGED <<offsets, skewJudged>>

=============================================================================
