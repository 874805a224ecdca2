----------------------------- MODULE LogsProofs -----------------------------
(***************************************************************************)
(* Theorems about where a log is read from (LogTargets), for any           *)
(* containers that may be running and any rungs that may be given, about   *)
(* what its lines are dated by (Texts, LogLine, Calendar), for any lines,  *)
(* zones and days, about what the redactor makes of them (Redaction), for  *)
(* any lines of a dump, and about what is read of a metrics page           *)
(* (Exposition), for any samples a process reports.                        *)
(***************************************************************************)
EXTENDS LogTargets, Texts, FiniteSetTheorems, SequenceTheorems, WellFoundedInduction, TLAPS

(* What each step leaves behind is a function of the invocation and of the *)
(* host, which do not change.                                              *)
StepInv ==
  /\ step = "start" => ps = None
  /\ step # "start" => ps = IF NeedsDetection(given) /\ answers THEN running ELSE None
  /\ sources = IF Resolved THEN Resolve(given, Found(ps, only), present, select)
                           ELSE [s \in Slot |-> None]
  /\ step = "running" => ~Missing

InvocationOK ==
  /\ given \subseteq Rung /\ only \in Stack \cup {None} /\ select \in Slot \cup {None}
  /\ running \subseteq Containers /\ answers \in BOOLEAN /\ present \in BOOLEAN
  /\ step \in {"start", "asked", "resolved", "running", "refused"}

TargetsInv == InvocationOK /\ StepInv

-----------------------------------------------------------------------------
(* first_target looks at six places.                                       *)
LEMMA PlaceBounded == \A r \in Rung : Place(r) \in 0..5
BY DEF Rung, Slot, Tier, Kind, Place

(* Some rung is not preceded by another, and the first is such a one.      *)
LEMMA FirstTargetIsFirst ==
  ASSUME NEW rungs \in SUBSET Rung, rungs # {}
  PROVE  /\ FirstTarget(rungs) \in rungs
         /\ \A q \in rungs : Place(FirstTarget(rungs)) <= Place(q)
<1> DEFINE Least(r) == \A q \in rungs : Place(r) <= Place(q)
<1> DEFINE At(k) == \E r \in rungs : Place(r) = k
<1>1. \A r \in rungs : Place(r) \in 0..5
  BY PlaceBounded
<1>2. \A k \in 0..5 : At(k) /\ (\A j \in 0..5 : j < k => ~At(j))
                        => \E r \in rungs : Least(r)
  <2> TAKE k \in 0..5
  <2> HAVE At(k) /\ (\A j \in 0..5 : j < k => ~At(j))
  <2>1. PICK r \in rungs : Place(r) = k
    OBVIOUS
  <2>2. \A q \in rungs : ~(Place(q) < k)
    BY <1>1
  <2> QED BY <1>1, <2>1, <2>2
<1>3. \E k \in 0..5 : At(k)
  BY <1>1
<1>4. \E k \in 0..5 : At(k) /\ \A j \in 0..5 : j < k => ~At(j)
  <2> HIDE DEF At
  <2> QED BY <1>3
<1>5. \E r \in rungs : Least(r)
  BY <1>2, <1>4
<1>6. FirstTarget(rungs) = CHOOSE r \in rungs : Least(r)
  BY DEF FirstTarget
<1> QED BY <1>5, <1>6

(* Two rungs of one slot are never at the same place, so which comes first *)
(* is decided.                                                             *)
LEMMA PlaceTellsApart ==
  ASSUME NEW r \in Rung, NEW q \in Rung, r.slot = q.slot, Place(r) = Place(q)
  PROVE  r = q
<1>1. /\ r = [slot |-> r.slot, tier |-> r.tier, kind |-> r.kind]
      /\ q = [slot |-> q.slot, tier |-> q.tier, kind |-> q.kind]
      /\ r.tier \in Tier /\ q.tier \in Tier /\ r.kind \in Kind /\ q.kind \in Kind
  BY DEF Rung
<1>2. r.tier = q.tier /\ r.kind = q.kind
  BY <1>1 DEF Tier, Kind, Place
<1> QED BY <1>1, <1>2

(* A slot is stated exactly when one of its rungs was given, and by one of *)
(* them.                                                                   *)
LEMMA StatedByARung ==
  ASSUME NEW g \in SUBSET Rung, NEW slot \in Slot, NEW tiers
  PROVE  LET stated == Stated(g, slot, tiers)
             rungs  == {r \in g : r.slot = slot /\ r.tier \in tiers}
         IN /\ rungs = {} => stated = None
            /\ rungs # {} => /\ stated \in rungs /\ stated # None
                             /\ \A q \in rungs : Place(stated) <= Place(q)
<1> DEFINE rungs == {r \in g : r.slot = slot /\ r.tier \in tiers}
<1>1. Stated(g, slot, tiers) = FirstTarget(rungs)
  BY DEF Stated
<1>2. CASE rungs = {}
  BY <1>1, <1>2 DEF FirstTarget
<1>3. CASE rungs # {}
  <2>1. /\ FirstTarget(rungs) \in rungs
        /\ \A q \in rungs : Place(FirstTarget(rungs)) <= Place(q)
    BY <1>3, FirstTargetIsFirst
  <2>2. None \notin rungs
    BY TargetsAssumption
  <2> QED BY <1>1, <1>3, <2>1, <2>2
<1> QED BY <1>2, <1>3

(* detect_role never makes a container up, and never ignores the stack.    *)
LEMMA DetectedMatches ==
  ASSUME NEW up, NEW role, NEW stack, Detected(up, role, stack) # None
  PROVE  up # None /\ Detected(up, role, stack) \in Matches(up, role, stack)
<1>1. up # None /\ Cardinality(Matches(up, role, stack)) = 1
  BY DEF Detected
<1>2. Matches(up, role, stack) # {}
  BY <1>1, FS_EmptySet
<1> QED BY <1>1, <1>2 DEF Detected

(* What a slot resolves to is a rung of it, a container of its role, or    *)
(* the default log.                                                        *)
LEMMA LadderFits ==
  ASSUME NEW g \in SUBSET Rung, NEW up, up = None \/ up \subseteq Containers,
         NEW stack, NEW there \in BOOLEAN, NEW slot \in Slot
  PROVE  LET target == Ladder(g, Found(up, stack), there, slot)
         IN target = None \/ Fits(target, slot)
<1> DEFINE stated == Stated(g, slot, Tier)
           found  == Detected(up, slot, stack)
<1>1. Found(up, stack)[slot] = found
  BY DEF Found
<1>2. stated # None => Fits(stated, slot)
  BY StatedByARung DEF Fits
<1>3. found # None => Fits(found, slot)
  BY DetectedMatches DEF Matches, Fits
<1>4. slot = "bn" => Fits(DefaultLog, slot)
  BY DEF Fits
<1> QED BY <1>1, <1>2, <1>3, <1>4 DEF Ladder, OrElse

(* The three rules keep it so.                                             *)
LEMMA ResolveFits ==
  ASSUME NEW g \in SUBSET Rung, NEW up, up = None \/ up \subseteq Containers,
         NEW stack, NEW there \in BOOLEAN, NEW chosen
  PROVE  LET srcs == Resolve(g, Found(up, stack), there, chosen)
         IN /\ DOMAIN srcs = Slot
            /\ \A s \in Slot : srcs[s] = None \/ Fits(srcs[s], s)
<1> DEFINE found == Found(up, stack)
           one(s) == OneSlot(g, found, there, s)
<1>1. \A s \in Slot : one(s) = None \/ Fits(one(s), s)
  <2> TAKE s \in Slot
  <2>1. Stated(g, s, Tier) = None \/ Fits(Stated(g, s, Tier), s)
    BY StatedByARung DEF Fits
  <2>2. Ladder(g, found, there, s) = None \/ Fits(Ladder(g, found, there, s), s)
    BY LadderFits
  <2> HIDE DEF found
  <2> QED BY <2>1, <2>2 DEF OneSlot
<1>2. Fits(DefaultLog, "bn")
  BY DEF Fits
<1> QED BY <1>1, <1>2 DEF Resolve, Slot

-----------------------------------------------------------------------------
(* Every step of an invocation is a function of what was given and of what *)
(* the host answers.                                                       *)
THEOREM TargetsInvariant == Spec => []TargetsInv
<1>1. Init => TargetsInv
  BY DEF Init, TargetsInv, InvocationOK, StepInv, Resolved
<1>2. TargetsInv /\ [Next]_vars => TargetsInv'
  <2> SUFFICES ASSUME TargetsInv, [Next]_vars PROVE TargetsInv'
    OBVIOUS
  <2> USE DEF TargetsInv, InvocationOK, StepInv, Resolved, invocation, host
  <2>1. CASE AskDocker
    BY <2>1 DEF AskDocker, NeedsDetection
  <2>2. CASE ResolveSources
    BY <2>2 DEF ResolveSources
  <2>3. CASE CheckSelection
    BY <2>3 DEF CheckSelection, Missing
  <2>4. CASE UNCHANGED vars
    BY <2>4 DEF vars, Missing
  <2> QED BY <2>1, <2>2, <2>3, <2>4 DEF Next
<1> QED BY <1>1, <1>2, PTL DEF Spec

(* Whatever was given and whatever runs on the host, a slot is filled only *)
(* by something that can fill it.                                          *)
THEOREM TypeCorrect == Spec => []TypeOK
<1>1. TargetsInv => TypeOK
  <2> SUFFICES ASSUME TargetsInv PROVE TypeOK
    OBVIOUS
  <2> USE DEF TargetsInv, InvocationOK, StepInv
  <2>1. ps = None \/ ps \subseteq Containers
    BY DEF NeedsDetection
  <2>2. /\ DOMAIN sources = Slot
        /\ \A s \in Slot : sources[s] = None \/ Fits(sources[s], s)
    <3>1. CASE Resolved
      BY <3>1, <2>1, ResolveFits
    <3>2. CASE ~Resolved
      BY <3>2
    <3> QED BY <3>1, <3>2
  <2> QED BY <2>1, <2>2 DEF TypeOK
<1> QED BY <1>1, TargetsInvariant, PTL

-----------------------------------------------------------------------------
(* When both slots are stated, what detection found is not looked at.      *)
LEMMA StatedIgnoresFound ==
  ASSUME NEW g \in SUBSET Rung, ~NeedsDetection(g),
         NEW f1, NEW f2, NEW there, NEW chosen
  PROVE  Resolve(g, f1, there, chosen) = Resolve(g, f2, there, chosen)
<1>1. \A s \in Slot : Stated(g, s, Tier) # None
  <2> TAKE s \in Slot
  <2>1. \E r \in g : r.slot = s /\ r.tier \in Tier
    BY DEF NeedsDetection, Rung
  <2> QED BY <2>1, StatedByARung
<1>2. \A s \in Slot : Ladder(g, f1, there, s) = Ladder(g, f2, there, s)
  BY <1>1 DEF Ladder, OrElse
<1>3. \A s \in Slot : OneSlot(g, f1, there, s) = OneSlot(g, f2, there, s)
  BY <1>2 DEF OneSlot
<1> QED BY <1>3 DEF Resolve

(* The gate that saves a `docker ps' never costs a source.                 *)
THEOREM SkippingDetectionIsSafe == Spec => []AskingLessChangesNothing
<1>1. TargetsInv => AskingLessChangesNothing
  <2> SUFFICES ASSUME TargetsInv, Resolved
               PROVE  sources = Resolve(given, Found(IF answers THEN running ELSE None, only),
                                        present, select)
    BY DEF AskingLessChangesNothing
  <2> USE DEF TargetsInv, InvocationOK, StepInv
  <2>1. sources = Resolve(given, Found(ps, only), present, select)
    OBVIOUS
  <2>2. ps = IF NeedsDetection(given) /\ answers THEN running ELSE None
    BY DEF Resolved
  <2>3. CASE NeedsDetection(given)
    BY <2>1, <2>2, <2>3
  <2>4. CASE ~NeedsDetection(given)
    BY <2>1, <2>4, StatedIgnoresFound
  <2> QED BY <2>3, <2>4
<1> QED BY <1>1, TargetsInvariant, PTL

(* Detection only ever answers with the one container it can mean.         *)
THEOREM DetectionNeverGuesses == Spec => []NeverAGuess
<1>1. TargetsInv => NeverAGuess
  <2> SUFFICES ASSUME TargetsInv, NEW s \in Slot, sources[s] \in Containers, NEW c \in running
               PROVE  c = sources[s] <=> c.role = s /\ only \in {None, c.stack}
    BY DEF NeverAGuess
  <2> USE DEF TargetsInv, InvocationOK, StepInv
  <2> DEFINE found == Found(ps, only)
  <2>1. ps = None \/ ps = running
    BY DEF NeedsDetection
  <2>2. \A x \in Rung \cup {None, DefaultLog} : x \notin Containers
    BY TargetsAssumption
  <2>3. \A t \in Slot : \A tiers : Stated(given, t, tiers) \in Rung \cup {None}
    BY StatedByARung
  <2>4. \A t \in Slot : OneSlot(given, found, present, t)
                         \in Rung \cup {None, DefaultLog, found[t]}
    <3> HIDE DEF found
    <3> QED BY <2>3 DEF OneSlot, Ladder, OrElse
  <2>5. sources[s] = found[s]
    <3>1. CASE Resolved
      <4> HIDE DEF found
      <4> QED BY <2>2, <2>4, <3>1 DEF Resolve, found
    <3>2. CASE ~Resolved
      BY <2>2, <3>2
    <3> QED BY <3>1, <3>2
  <2>6. found[s] = Detected(ps, s, only) /\ found[s] # None
    BY <2>2, <2>5 DEF Found
  <2>7. /\ ps = running
        /\ found[s] \in Matches(running, s, only)
        /\ Cardinality(Matches(running, s, only)) = 1
    BY <2>1, <2>6, DetectedMatches DEF Detected
  <2>8. Matches(running, s, only) = {found[s]}
    <3>1. Matches(running, s, only) \subseteq Containers
      BY DEF Matches
    <3>2. IsFiniteSet(Matches(running, s, only))
      BY <3>1, TargetsAssumption, FS_Subset
    <3> QED BY <3>2, <2>7, FS_Singleton
  <2>9. c \in Matches(running, s, only) <=> c.role = s /\ only \in {None, c.stack}
    BY DEF Matches
  <2> QED BY <2>5, <2>8, <2>9
<1> QED BY <1>1, TargetsInvariant, PTL

-----------------------------------------------------------------------------
(* The first of a slot's rungs is a typed one as soon as one was typed, so *)
(* what the config file says of that slot is not read.                     *)
LEMMA TypedComesFirst ==
  ASSUME NEW g \in SUBSET Rung, NEW slot \in Slot, Stated(g, slot, ByHand) # None
  PROVE  Stated(g, slot, Tier) = Stated({r \in g : r.tier # "config"}, slot, Tier)
<1> DEFINE typed == {r \in g : r.tier # "config"}
           a == Stated(g, slot, Tier)
           b == Stated(typed, slot, Tier)
<1>1. PICK q \in g : q.slot = slot /\ q.tier \in ByHand
  BY StatedByARung
<1>2. /\ a \in g /\ a.slot = slot
      /\ \A r \in g : r.slot = slot /\ r.tier \in Tier => Place(a) <= Place(r)
  <2>1. q.tier \in Tier
    BY <1>1 DEF ByHand, Tier
  <2> QED BY <1>1, <2>1, StatedByARung
<1>3. /\ b \in typed /\ b.slot = slot
      /\ \A r \in typed : r.slot = slot /\ r.tier \in Tier => Place(b) <= Place(r)
  <2>1. typed \in SUBSET Rung /\ q \in typed /\ q.tier \in Tier
    BY <1>1 DEF ByHand, Tier
  <2> HIDE DEF typed
  <2> QED BY <1>1, <2>1, StatedByARung
<1>4. a.tier # "config"
  <2>1. Place(a) <= Place(q) /\ Place(q) <= 3
    BY <1>1, <1>2 DEF Rung, Kind, ByHand, Tier, Place
  <2>2. a.tier = "config" => Place(a) >= 4
    BY <1>2 DEF Rung, Kind, Place
  <2> QED BY <1>2, <2>1, <2>2, PlaceBounded
<1>5. a \in typed /\ a \in Rung /\ b \in Rung /\ a.tier \in Tier /\ b.tier \in Tier
  BY <1>2, <1>3, <1>4 DEF Rung
<1>6. Place(a) = Place(b)
  BY <1>2, <1>3, <1>5, PlaceBounded
<1> QED BY <1>2, <1>3, <1>5, <1>6, PlaceTellsApart

(* When one side only is typed, the rest of the ladder is not looked at.   *)
LEMMA OneSideStands ==
  ASSUME NEW g \in SUBSET Rung, NEW found, NEW there, NEW slot \in Slot,
         Stated(g, slot, ByHand) # None, Stated(g, Other(slot), ByHand) = None
  PROVE  /\ OneSlot(g, found, there, slot) = Stated(g, slot, Tier)
         /\ OneSlot(g, found, there, Other(slot)) = None
BY DEF OneSlot, Other, Slot

(* An invocation that names one side by flag or variable is read as it is  *)
(* written, on every host and with every config file.                      *)
THEOREM OneSideIsOneSide == Spec => []OneSidedIgnoresTheHost
<1>1. TargetsInv => OneSidedIgnoresTheHost
  <2> DEFINE typed == {r \in given : r.tier # "config"}
             none  == [s \in Slot |-> None]
  <2> SUFFICES ASSUME TargetsInv, Resolved, Cardinality({r.slot : r \in typed}) = 1
               PROVE  sources = Resolve(typed, none, FALSE, select)
    BY DEF OneSidedIgnoresTheHost
  <2> USE DEF TargetsInv, InvocationOK, StepInv
  <2>1. PICK side \in Slot : {r.slot : r \in typed} = {side}
    <3>1. {r.slot : r \in typed} \subseteq Slot
      BY DEF Rung
    <3>2. IsFiniteSet(Slot)
      <4>1. IsFiniteSet({"bn"} \cup {"vc"})
        BY FS_Singleton, FS_Union, Zenon
      <4>2. Slot = {"bn"} \cup {"vc"}
        BY DEF Slot
      <4> QED BY <4>1, <4>2, Zenon
    <3>3. IsFiniteSet({r.slot : r \in typed})
      BY <3>1, <3>2, FS_Subset
    <3> QED BY <3>1, <3>3, FS_Singleton
  <2>2. typed \in SUBSET Rung /\ \A r \in given : r.tier \in Tier
    BY DEF Rung
  <2>3. Stated(given, side, ByHand) # None
    <3>1. \E r \in given : r.slot = side /\ r.tier \in ByHand
      BY <2>1, <2>2 DEF Tier, ByHand
    <3> QED BY <3>1, StatedByARung
  <2>4. Stated(given, Other(side), ByHand) = None
    <3>1. \A r \in given : ~(r.slot = Other(side) /\ r.tier \in ByHand)
      BY <2>1 DEF ByHand, Other, Slot
    <3>2. Other(side) \in Slot
      BY DEF Other, Slot
    <3> QED BY <3>1, <3>2, StatedByARung
  <2>5. Stated(typed, side, ByHand) # None
    <3>1. \E r \in typed : r.slot = side /\ r.tier \in ByHand
      BY <2>1, <2>2 DEF Tier, ByHand
    <3> HIDE DEF typed
    <3> QED BY <2>2, <3>1, StatedByARung
  <2>6. Stated(typed, Other(side), ByHand) = None
    <3>1. \A r \in typed : r.slot # Other(side)
      BY <2>1 DEF Other, Slot
    <3>2. Other(side) \in Slot
      BY DEF Other, Slot
    <3> HIDE DEF typed
    <3> QED BY <2>2, <3>1, <3>2, StatedByARung
  <2>7. Stated(given, side, Tier) = Stated(typed, side, Tier)
    BY <2>3, TypedComesFirst
  <2>8. \A s \in Slot : OneSlot(given, Found(ps, only), present, s)
                         = OneSlot(typed, none, FALSE, s)
    <3>1. \A s \in Slot : s = side \/ s = Other(side)
      BY DEF Other, Slot
    <3> HIDE DEF typed, none
    <3>2. /\ OneSlot(given, Found(ps, only), present, side) = Stated(given, side, Tier)
          /\ OneSlot(given, Found(ps, only), present, Other(side)) = None
      BY <2>3, <2>4, OneSideStands
    <3>3. /\ OneSlot(typed, none, FALSE, side) = Stated(typed, side, Tier)
          /\ OneSlot(typed, none, FALSE, Other(side)) = None
      BY <2>2, <2>5, <2>6, OneSideStands
    <3> QED BY <2>7, <3>1, <3>2, <3>3
  <2> HIDE DEF typed, none
  <2> QED BY <2>8 DEF Resolve
<1> QED BY <1>1, TargetsInvariant, PTL

(* A session that starts reads something, and only what was asked for.     *)
THEOREM SessionsHaveSources == Spec => []SessionHasASource
<1>1. TargetsInv => SessionHasASource
  <2> SUFFICES ASSUME TargetsInv, step = "running"
               PROVE  Active # {} /\ (select # None => Active = {select})
    BY DEF SessionHasASource
  <2> USE DEF TargetsInv, InvocationOK, StepInv
  <2>1. sources = Resolve(given, Found(ps, only), present, select) /\ ~Missing
    BY DEF Resolved
  <2>2. CASE select = None
    BY <2>1, <2>2, TargetsAssumption DEF Resolve, Active, Slot
  <2>3. CASE select \in Slot
    BY <2>1, <2>3, TargetsAssumption DEF Resolve, Active, Missing
  <2> QED BY <2>2, <2>3
<1> QED BY <1>1, TargetsInvariant, PTL

(* A path that is not there is only read when it is all there is to say.   *)
THEOREM AbsentDefaultComesLast == Spec => []AbsentDefaultIsTheLastResort
<1>1. TargetsInv => AbsentDefaultIsTheLastResort
  <2> DEFINE found  == Found(ps, only)
             one(s) == OneSlot(given, found, present, s)
  <2> SUFFICES ASSUME TargetsInv, Resolved, sources["bn"] = DefaultLog, ~present
               PROVE  given = {} /\ \A s \in Slot : found[s] = None
    BY DEF AbsentDefaultIsTheLastResort
  <2> USE DEF TargetsInv, InvocationOK, StepInv
  <2>1. ps = None \/ ps \subseteq Containers
    BY DEF NeedsDetection
  <2>2. \A s \in Slot : \A tiers : Stated(given, s, tiers) # DefaultLog
    BY StatedByARung, TargetsAssumption
  <2>3. \A s \in Slot : found[s] # DefaultLog
    BY <2>1, DetectedMatches, TargetsAssumption DEF Found, Matches
  <2>4. one("bn") # DefaultLog
    <3> HIDE DEF found
    <3> QED BY <2>2, <2>3, TargetsAssumption DEF OneSlot, Ladder, OrElse, Slot
  <2>5. \A s \in Slot : one(s) = None
    <3> HIDE DEF found
    <3> QED BY <2>4, TargetsAssumption DEF Resolve, Slot, found
  <2>6. \A s \in Slot : Stated(given, s, Tier) = None
    <3>1. \A s \in Slot : Stated(given, s, ByHand) = None
      <4> SUFFICES ASSUME NEW s \in Slot, Stated(given, s, ByHand) # None PROVE FALSE
        OBVIOUS
      <4>1. \E r \in given : r.slot = s /\ r.tier \in Tier
        BY StatedByARung DEF ByHand, Tier
      <4>2. Stated(given, s, Tier) # None
        BY <4>1, StatedByARung
      <4> HIDE DEF found
      <4> QED BY <2>5, <4>2 DEF OneSlot, Ladder, OrElse
    <3>2. \A s \in Slot : Other(s) \in Slot
      BY DEF Other, Slot
    <3> HIDE DEF found
    <3> QED BY <2>5, <3>1, <3>2 DEF OneSlot, Ladder, OrElse
  <2>7. given = {}
    <3>1. \A r \in given : r.slot \in Slot /\ r.tier \in Tier
      BY DEF Rung
    <3> QED BY <2>6, <3>1, StatedByARung
  <2>8. \A s \in Slot : found[s] = None
    <3>1. \A s \in Slot : Other(s) \in Slot /\ Stated(given, s, ByHand) = None
      BY <2>7, StatedByARung DEF Other, Slot
    <3> HIDE DEF found
    <3> QED BY <2>5, <2>6, <3>1 DEF OneSlot, Ladder, OrElse
  <2> QED BY <2>7, <2>8
<1> QED BY <1>1, TargetsInvariant, PTL

-----------------------------------------------------------------------------
(* Division by the numbers of the calendar, as inequalities.               *)
LEMMA Divisions ==
  ASSUME NEW n \in Int
  PROVE  /\ n \div 146097 \in Int /\ 146097 * (n \div 146097) <= n /\ n < 146097 * (n \div 146097) + 146097
         /\ n \div 146096 \in Int /\ 146096 * (n \div 146096) <= n /\ n < 146096 * (n \div 146096) + 146096
         /\ n \div 36524 \in Int /\ 36524 * (n \div 36524) <= n /\ n < 36524 * (n \div 36524) + 36524
         /\ n \div 1460 \in Int /\ 1460 * (n \div 1460) <= n /\ n < 1460 * (n \div 1460) + 1460
         /\ n \div 365 \in Int /\ 365 * (n \div 365) <= n /\ n < 365 * (n \div 365) + 365
         /\ n \div 400 \in Int /\ 400 * (n \div 400) <= n /\ n < 400 * (n \div 400) + 400
         /\ n \div 153 \in Int /\ 153 * (n \div 153) <= n /\ n < 153 * (n \div 153) + 153
         /\ n \div 100 \in Int /\ 100 * (n \div 100) <= n /\ n < 100 * (n \div 100) + 100
         /\ n \div 5 \in Int /\ 5 * (n \div 5) <= n /\ n < 5 * (n \div 5) + 5
         /\ n \div 4 \in Int /\ 4 * (n \div 4) <= n /\ n < 4 * (n \div 4) + 4
OBVIOUS

LEMMA TruncIsDiv ==
  ASSUME NEW n \in Int, NEW k \in Int, n >= 0
  PROVE  Trunc(n, k) = n \div k
BY DEF Trunc

(* Truncating after the shift is rounding down.                            *)
LEMMA FloorEra ==
  ASSUME NEW z \in Int
  PROVE  Trunc(IF z >= 0 THEN z ELSE z - 146096, 146097) = z \div 146097
<1>1. CASE z >= 0
  BY <1>1 DEF Trunc
<1>2. CASE z < 0
  <2>1. Trunc(z - 146096, 146097) = -((146096 - z) \div 146097)
    BY <1>2 DEF Trunc
  <2>2. (146096 - z) \div 146097 = -(z \div 146097)
    BY <1>2
  <2> QED
    BY <1>2, <2>1, <2>2
<1> QED
  BY <1>1, <1>2

FloorArg(y) == IF y >= 0 THEN y ELSE y - 399

LEMMA FloorYears ==
  ASSUME NEW y \in Int
  PROVE  Trunc(FloorArg(y), 400) = y \div 400
<1> USE DEF FloorArg
<1>1. CASE y >= 0
  BY <1>1 DEF Trunc
<1>2. CASE y < 0
  <2>1. Trunc(y - 399, 400) = -((399 - y) \div 400)
    BY <1>2 DEF Trunc
  <2>2. (399 - y) \div 400 = -(y \div 400)
    BY <1>2
  <2> QED
    BY <1>2, <2>1, <2>2
<1> QED
  BY <1>1, <1>2

(* An era of 400 years, which begin in March: d is the day of the era, y   *)
(* the year of it as the program computes it, e and f its fourth and its   *)
(* hundredth, a, b and c its days' parts.                                  *)
LEMMA YearOfDay ==
  ASSUME NEW d \in Int, NEW a \in Int, NEW b \in Int, NEW c \in Int, NEW y \in Int, NEW e \in Int, NEW f \in Int,
         0 <= d, d <= 146096,
         1460 * a <= d, d < 1460 * a + 1460,
         36524 * b <= d, d < 36524 * b + 36524,
         146096 * c <= d, d < 146096 * c + 146096,
         365 * y <= d - a + b - c, d - a + b - c < 365 * y + 365,
         4 * e <= y, y < 4 * e + 4,
         100 * f <= y, y < 100 * f + 100
  PROVE  /\ 0 <= y /\ y <= 399
         /\ 0 <= d - (365 * y + e - f) /\ d - (365 * y + e - f) <= 365
         /\ d - (365 * y + e - f) = 365 => (y + 1 = 4 * (e + 1) /\ (y + 1 # 100 * (f + 1) \/ y = 399))
OBVIOUS

(* The other way: the day that is doy days into the year y is of it.       *)
LEMMA DayOfYear ==
  ASSUME NEW d \in Int, NEW a \in Int, NEW b \in Int, NEW c \in Int, NEW y \in Int, NEW e \in Int, NEW f \in Int,
         NEW doy \in Int, NEW w \in Int,
         0 <= y, y <= 399, d = 365 * y + e - f + doy, 0 <= doy, doy <= 365,
         doy = 365 => (y + 1 = 4 * (e + 1) /\ (y + 1 # 100 * (f + 1) \/ y = 399)),
         1460 * a <= d, d < 1460 * a + 1460,
         36524 * b <= d, d < 36524 * b + 36524,
         146096 * c <= d, d < 146096 * c + 146096,
         365 * w <= d - a + b - c, d - a + b - c < 365 * w + 365,
         4 * e <= y, y < 4 * e + 4,
         100 * f <= y, y < 100 * f + 100
  PROVE  w = y /\ d <= 146096
OBVIOUS

LEMMA Remainders ==
  ASSUME NEW n \in Int
  PROVE  /\ n % 4 = n - 4 * (n \div 4) /\ n % 100 = n - 100 * (n \div 100)
         /\ n % 400 = n - 400 * (n \div 400)
OBVIOUS

(* A day is the day doy of the year y of an era; years begin in March, so  *)
(* that a leap day is the last of its year.                                *)
LongYear(y) == (y + 1) % 4 = 0 /\ ((y + 1) % 100 # 0 \/ y = 399)
IsDay(y, doy) ==
  /\ y \in Int /\ 0 <= y /\ y <= 399 /\ doy \in Int /\ 0 <= doy /\ doy <= 365
  /\ doy = 365 => LongYear(y)
DayInEra(y, doy)  == 365 * y + y \div 4 - y \div 100 + doy
DayOf(era, y, doy) == 146097 * era + DayInEra(y, doy) - 719468

MonthOf(doy) == (5 * doy + 2) \div 153
DateOf(era, y, doy) ==
  LET mp == MonthOf(doy)
      m  == IF mp < 10 THEN mp + 3 ELSE mp - 9
  IN <<y + era * 400 + (IF m <= 2 THEN 1 ELSE 0), m, doy - (153 * mp + 2) \div 5 + 1>>

LEMMA LongYearIs ==
  ASSUME NEW y \in Int, 0 <= y, y <= 399
  PROVE  LongYear(y) <=> (y + 1 = 4 * (y \div 4 + 1) /\ (y + 1 # 100 * (y \div 100 + 1) \/ y = 399))
<1>1. /\ y \in Int /\ y + 1 \in Int
      /\ (y + 1) % 4 = (y + 1) - 4 * ((y + 1) \div 4)
      /\ (y + 1) % 100 = (y + 1) - 100 * ((y + 1) \div 100)
  BY Remainders
<1>2. /\ (y + 1) \div 4 \in Int /\ 4 * ((y + 1) \div 4) <= y + 1 /\ y + 1 < 4 * ((y + 1) \div 4) + 4
      /\ (y + 1) \div 100 \in Int /\ 100 * ((y + 1) \div 100) <= y + 1 /\ y + 1 < 100 * ((y + 1) \div 100) + 100
      /\ y \div 4 \in Int /\ 4 * (y \div 4) <= y /\ y < 4 * (y \div 4) + 4
      /\ y \div 100 \in Int /\ 100 * (y \div 100) <= y /\ y < 100 * (y \div 100) + 100
  BY <1>1, Divisions
<1>3. ASSUME NEW a \in Int, NEW b \in Int, NEW c \in Int, NEW d \in Int,
             4 * a <= y + 1, y + 1 < 4 * a + 4, 100 * b <= y + 1, y + 1 < 100 * b + 100,
             4 * c <= y, y < 4 * c + 4, 100 * d <= y, y < 100 * d + 100
      PROVE  /\ (y + 1 = 4 * a) <=> (y + 1 = 4 * (c + 1))
             /\ (y + 1 = 100 * b) <=> (y + 1 = 100 * (d + 1))
  BY <1>1, <1>3
<1>4. /\ (y + 1 = 4 * ((y + 1) \div 4)) <=> (y + 1 = 4 * (y \div 4 + 1))
      /\ (y + 1 = 100 * ((y + 1) \div 100)) <=> (y + 1 = 100 * (y \div 100 + 1))
  BY <1>2, <1>3
<1> QED
  BY <1>1, <1>2, <1>4 DEF LongYear

(* Every day of an era is one day of one year of it.                       *)
LEMMA EveryDayIsOne ==
  ASSUME NEW d \in Int, 0 <= d, d <= 146096
  PROVE  \E y, doy : IsDay(y, doy) /\ d = DayInEra(y, doy)
                     /\ y = (d - d \div 1460 + d \div 36524 - d \div 146096) \div 365
<1> DEFINE n == d - d \div 1460 + d \div 36524 - d \div 146096
           y == n \div 365
           doy == d - (365 * y + y \div 4 - y \div 100)
<1>2. /\ d \div 146096 \in Int /\ 146096 * (d \div 146096) <= d /\ d < 146096 * (d \div 146096) + 146096
      /\ d \div 36524 \in Int /\ 36524 * (d \div 36524) <= d /\ d < 36524 * (d \div 36524) + 36524
      /\ d \div 1460 \in Int /\ 1460 * (d \div 1460) <= d /\ d < 1460 * (d \div 1460) + 1460
  BY Divisions
<1>3. n \in Int
  BY <1>2
<1>4. y \in Int /\ 365 * y <= n /\ n < 365 * y + 365
  BY <1>3, Divisions
<1>5. /\ y \div 4 \in Int /\ 4 * (y \div 4) <= y /\ y < 4 * (y \div 4) + 4
      /\ y \div 100 \in Int /\ 100 * (y \div 100) <= y /\ y < 100 * (y \div 100) + 100
  BY <1>4, Divisions
<1> HIDE DEF y
<1>6. /\ 0 <= y /\ y <= 399 /\ 0 <= doy /\ doy <= 365
      /\ doy = 365 => (y + 1 = 4 * (y \div 4 + 1) /\ (y + 1 # 100 * (y \div 100 + 1) \/ y = 399))
  BY <1>2, <1>4, <1>5, YearOfDay
<1>7. doy \in Int
  BY <1>4, <1>5
<1>8. IsDay(y, doy)
  BY <1>4, <1>6, <1>7, LongYearIs DEF IsDay
<1>9. d = DayInEra(y, doy)
  BY <1>4, <1>5 DEF DayInEra
<1>10. y = (d - d \div 1460 + d \div 36524 - d \div 146096) \div 365
  BY SMT DEF y
<1> HIDE DEF doy
<1> QED
  BY <1>8, <1>9, <1>10, SMT

(* And the program finds it.                                               *)
LEMMA DayIsFound ==
  ASSUME NEW y, NEW doy, IsDay(y, doy)
  PROVE  LET d == DayInEra(y, doy) IN
         /\ d \in Int /\ 0 <= d /\ d <= 146096
         /\ (d - d \div 1460 + d \div 36524 - d \div 146096) \div 365 = y
<1> DEFINE d == DayInEra(y, doy)
           n == d - d \div 1460 + d \div 36524 - d \div 146096
           w == n \div 365
<1>1. /\ y \in Int /\ 0 <= y /\ y <= 399 /\ doy \in Int /\ 0 <= doy /\ doy <= 365
      /\ doy = 365 => (y + 1 = 4 * (y \div 4 + 1) /\ (y + 1 # 100 * (y \div 100 + 1) \/ y = 399))
  BY LongYearIs DEF IsDay
<1>2. /\ y \div 4 \in Int /\ 4 * (y \div 4) <= y /\ y < 4 * (y \div 4) + 4
      /\ y \div 100 \in Int /\ 100 * (y \div 100) <= y /\ y < 100 * (y \div 100) + 100
  BY <1>1, Divisions
<1>3. d \in Int /\ d = 365 * y + y \div 4 - y \div 100 + doy /\ 0 <= d
  BY <1>1, <1>2 DEF DayInEra
<1> HIDE DEF d
<1>4. /\ d \div 146096 \in Int /\ 146096 * (d \div 146096) <= d /\ d < 146096 * (d \div 146096) + 146096
      /\ d \div 36524 \in Int /\ 36524 * (d \div 36524) <= d /\ d < 36524 * (d \div 36524) + 36524
      /\ d \div 1460 \in Int /\ 1460 * (d \div 1460) <= d /\ d < 1460 * (d \div 1460) + 1460
  BY <1>3, Divisions
<1>5. n \in Int
  BY <1>3, <1>4
<1>6. w \in Int /\ 365 * w <= n /\ n < 365 * w + 365
  BY <1>5, Divisions
<1> HIDE DEF w
<1>7. w = y /\ d <= 146096
  BY <1>1, <1>2, <1>3, <1>4, <1>6, DayOfYear
<1>9. (d - d \div 1460 + d \div 36524 - d \div 146096) \div 365 = y
  BY <1>7, SMT DEF w
<1> QED
  BY <1>3, <1>7, <1>9, SMT DEF d

(* The months of a year that begins in March.                              *)
LEMMA MonthFits ==
  ASSUME NEW doy \in Int, 0 <= doy, doy <= 365
  PROVE  LET mp == MonthOf(doy) g == (153 * mp + 2) \div 5 IN
         /\ mp \in Int /\ 0 <= mp /\ mp <= 11 /\ g \in Int /\ 0 <= g
         /\ 153 * mp <= 5 * doy + 2 /\ 5 * doy + 2 < 153 * mp + 153
         /\ 5 * g <= 153 * mp + 2 /\ 153 * mp + 2 < 5 * g + 5
         /\ 1 <= doy - g + 1 /\ doy - g + 1 <= 31
         /\ mp = 11 => doy - g + 1 = doy - 336
BY SMT DEF MonthOf

InMonth(doy, mp, g) ==
  /\ mp \in Int /\ 0 <= mp /\ mp <= 11 /\ g \in Int
  /\ 153 * mp <= 5 * doy + 2 /\ 5 * doy + 2 < 153 * mp + 153
  /\ 5 * g <= 153 * mp + 2 /\ 153 * mp + 2 < 5 * g + 5

LEMMA MonthIs ==
  ASSUME NEW doy \in Int, 0 <= doy, doy <= 365
  PROVE  InMonth(doy, MonthOf(doy), (153 * MonthOf(doy) + 2) \div 5)
BY MonthFits, SMT DEF InMonth

LEMMA NextDayOfMonth ==
  ASSUME NEW doy \in Int, NEW mp \in Int, NEW g \in Int, NEW np \in Int, NEW h \in Int,
         0 <= doy, doy <= 364,
         153 * mp <= 5 * doy + 2, 5 * doy + 2 < 153 * mp + 153,
         153 * np <= 5 * (doy + 1) + 2, 5 * (doy + 1) + 2 < 153 * np + 153,
         5 * g <= 153 * mp + 2, 153 * mp + 2 < 5 * g + 5,
         5 * h <= 153 * np + 2, 153 * np + 2 < 5 * h + 5
  PROVE  LET len == IF mp \in {1, 3, 6, 8} THEN 30 ELSE 31
             d   == doy - g + 1 IN
         \/ np = mp /\ h = g /\ (mp # 11 => d < len)
         \/ np = mp + 1 /\ doy + 1 - h + 1 = 1 /\ d = len /\ mp # 11
BY SMT

(* What the program works out on the way, by its names for it.             *)
CivilParts(day, z, era, doe, yoe, doy, mp, m) ==
  /\ z = day + 719468
  /\ era = Trunc(IF z >= 0 THEN z ELSE z - 146096, 146097)
  /\ doe = z - era * 146097
  /\ yoe = Trunc(doe - Trunc(doe, 1460) + Trunc(doe, 36524) - Trunc(doe, 146096), 365)
  /\ doy = doe - (365 * yoe + Trunc(yoe, 4) - Trunc(yoe, 100))
  /\ mp = Trunc(5 * doy + 2, 153)
  /\ m = IF mp < 10 THEN mp + 3 ELSE mp - 9

LEMMA CivilSteps ==
  ASSUME NEW day, NEW z, NEW era, NEW doe, NEW yoe, NEW doy, NEW mp, NEW m,
         CivilParts(day, z, era, doe, yoe, doy, mp, m)
  PROVE  CivilFromDays(day)
           = <<yoe + era * 400 + (IF m <= 2 THEN 1 ELSE 0), m, doy - Trunc(153 * mp + 2, 5) + 1>>
BY SMTT(60) DEF CivilFromDays, CivilParts

LEMMA CivilOfDay ==
  ASSUME NEW era \in Int, NEW y, NEW doy, IsDay(y, doy)
  PROVE  CivilFromDays(DayOf(era, y, doy)) = DateOf(era, y, doy)
<1> DEFINE d == DayInEra(y, doy)
           z == DayOf(era, y, doy) + 719468
           n == d - d \div 1460 + d \div 36524 - d \div 146096
           mp == MonthOf(doy)
<1>1. d \in Int /\ 0 <= d /\ d <= 146096 /\ n \div 365 = y
  BY DayIsFound, SMT
<1>2. /\ y \in Int /\ 0 <= y /\ doy \in Int /\ 0 <= doy /\ doy <= 365
  BY DEF IsDay
<1>3. d = 365 * y + y \div 4 - y \div 100 + doy /\ y \div 4 \in Int /\ y \div 100 \in Int
  BY <1>2, Divisions, SMT DEF DayInEra
<1> HIDE DEF d
<1>4. z = 146097 * era + d /\ z \in Int
  BY <1>1, SMT DEF DayOf, d
<1> HIDE DEF z
<1>5. Trunc(IF z >= 0 THEN z ELSE z - 146096, 146097) = era
  <2>1. z \div 146097 \in Int /\ 146097 * (z \div 146097) <= z /\ z < 146097 * (z \div 146097) + 146097
    BY <1>4, Divisions, SMT
  <2>2. z \div 146097 = era
    BY <1>1, <1>4, <2>1, SMT
  <2> QED
    BY <1>4, <2>2, FloorEra, SMT
<1>6. z - era * 146097 = d
  BY <1>1, <1>4, SMT
<1>7. Trunc(d, 1460) = d \div 1460 /\ Trunc(d, 36524) = d \div 36524 /\ Trunc(d, 146096) = d \div 146096
  BY <1>1, TruncIsDiv, SMT
<1>8. n \in Int /\ n >= 0
  <2>1. d \div 1460 \in Int /\ d \div 36524 \in Int /\ d \div 146096 \in Int
    BY <1>1, Divisions, SMT
  <2>2. n \in Int
    BY <1>1, <2>1, SMT
  <2> HIDE DEF n
  <2>3. 365 * (n \div 365) <= n
    BY <2>2, Divisions, SMT
  <2> QED
    BY <1>1, <1>2, <2>2, <2>3, SMT
<1>9. Trunc(d - Trunc(d, 1460) + Trunc(d, 36524) - Trunc(d, 146096), 365) = y
  <2>1. Trunc(n, 365) = n \div 365
    BY <1>8, TruncIsDiv, SMT
  <2> QED
    BY <1>1, <1>7, <2>1, SMT
<1>10. Trunc(y, 4) = y \div 4 /\ Trunc(y, 100) = y \div 100
  BY <1>2, TruncIsDiv, SMT
<1>11. d - (365 * y + Trunc(y, 4) - Trunc(y, 100)) = doy
  BY <1>2, <1>3, <1>10, SMT
<1>12. /\ mp \in Int /\ 0 <= mp /\ Trunc(5 * doy + 2, 153) = mp
       /\ Trunc(153 * mp + 2, 5) = (153 * mp + 2) \div 5
  <2>1. mp \in Int /\ 0 <= mp
    BY <1>2, MonthFits, SMT
  <2>2. Trunc(5 * doy + 2, 153) = (5 * doy + 2) \div 153
    BY <1>2, TruncIsDiv, SMT
  <2> HIDE DEF mp
  <2>3. 153 * mp + 2 \in Int /\ 153 * mp + 2 >= 0
    BY <2>1, SMT
  <2>4. ASSUME NEW x \in Int, x >= 0 PROVE Trunc(x, 5) = x \div 5
    BY <2>4, TruncIsDiv, SMT
  <2>5. Trunc(153 * mp + 2, 5) = (153 * mp + 2) \div 5
    BY <2>3, <2>4, SMT
  <2> QED
    BY <2>1, <2>2, <2>5, SMT DEF mp, MonthOf
<1> HIDE DEF n, mp
<1> DEFINE m == IF mp < 10 THEN mp + 3 ELSE mp - 9
<1>13. CivilFromDays(DayOf(era, y, doy))
         = <<y + era * 400 + (IF m <= 2 THEN 1 ELSE 0), m, doy - Trunc(153 * mp + 2, 5) + 1>>
  <2>1. CivilParts(DayOf(era, y, doy), z, era, d, y, doy, mp, m)
    BY <1>5, <1>6, <1>9, <1>11, <1>12, SMT DEF CivilParts, z
  <2> HIDE DEF z, m
  <2> QED
    BY <2>1, CivilSteps, SMT
<1> QED
  BY <1>12, <1>13, SMT DEF DateOf, mp

(* Every day is one of one era.                                            *)
LEMMA EveryDayHasADate ==
  ASSUME NEW day \in Int
  PROVE  \E era \in Int : \E y, doy : IsDay(y, doy) /\ day = DayOf(era, y, doy)
<1> DEFINE z == day + 719468
           era == z \div 146097
           d == z - 146097 * era
<1>1. z \in Int
  BY SMT
<1> HIDE DEF z
<1>2. era \in Int /\ 146097 * era <= z /\ z < 146097 * era + 146097
  BY <1>1, Divisions, SMT
<1> HIDE DEF era
<1>3. d \in Int /\ 0 <= d /\ d <= 146096
  BY <1>1, <1>2, SMT
<1> HIDE DEF d
<1>4. PICK y, doy : IsDay(y, doy) /\ d = DayInEra(y, doy)
  BY <1>3, EveryDayIsOne, SMT
<1>5. day = DayOf(era, y, doy)
  BY <1>2, <1>3, <1>4, SMT DEF DayOf, d, z
<1> QED
  BY <1>2, <1>4, <1>5, SMT

LEMMA DayIsInt ==
  ASSUME NEW era \in Int, NEW y, NEW doy, IsDay(y, doy)
  PROVE  DayOf(era, y, doy) \in Int /\ DayInEra(y, doy) \in Int
BY DayIsFound, SMT DEF DayOf

(* What the program works out on the way back.                             *)
DayBack(year, m, d, y, era, yoe, mp, doy) ==
  /\ y = IF m <= 2 THEN year - 1 ELSE year
  /\ era = Trunc(IF y >= 0 THEN y ELSE y - 399, 400)
  /\ yoe = y - era * 400
  /\ mp = IF m > 2 THEN m - 3 ELSE m + 9
  /\ doy = Trunc(153 * mp + 2, 5) + d - 1

LEMMA DaysSteps ==
  ASSUME NEW year, NEW m, NEW d, NEW y, NEW era, NEW yoe, NEW mp, NEW doy,
         DayBack(year, m, d, y, era, yoe, mp, doy)
  PROVE  DaysFromCivil(year, m, d)
           = era * 146097 + (yoe * 365 + Trunc(yoe, 4) - Trunc(yoe, 100) + doy) - 719468
BY SMTT(60) DEF DaysFromCivil, DayBack

LEMMA MonthSteps ==
  ASSUME NEW doy \in Int, 0 <= doy, doy <= 365
  PROVE  Trunc(153 * MonthOf(doy) + 2, 5) = (153 * MonthOf(doy) + 2) \div 5
<1> DEFINE mp == MonthOf(doy)
<1>1. mp \in Int /\ 0 <= mp
  BY MonthFits, SMT
<1> HIDE DEF mp
<1>2. 153 * mp + 2 \in Int /\ 153 * mp + 2 >= 0
  BY <1>1, SMT
<1>3. ASSUME NEW x \in Int, x >= 0 PROVE Trunc(x, 5) = x \div 5
  BY <1>3, TruncIsDiv, SMT
<1>4. Trunc(153 * mp + 2, 5) = (153 * mp + 2) \div 5
  BY <1>2, <1>3, SMT
<1> QED
  BY <1>4, SMT DEF mp

LEMMA DaysOfDate ==
  ASSUME NEW era \in Int, NEW y, NEW doy, IsDay(y, doy)
  PROVE  LET date == DateOf(era, y, doy)
         IN DaysFromCivil(date[1], date[2], date[3]) = DayOf(era, y, doy)
<1> DEFINE mp == MonthOf(doy)
           g  == (153 * mp + 2) \div 5
           m  == IF mp < 10 THEN mp + 3 ELSE mp - 9
           year == y + era * 400 + (IF m <= 2 THEN 1 ELSE 0)
           w == y + era * 400
<1>1. /\ y \in Int /\ 0 <= y /\ y <= 399 /\ doy \in Int /\ 0 <= doy /\ doy <= 365
  BY DEF IsDay
<1>2. mp \in Int /\ 0 <= mp /\ mp <= 11 /\ g \in Int
  BY <1>1, MonthFits, SMT
<1>3. Trunc(153 * mp + 2, 5) = g
  BY <1>1, MonthSteps, SMT
<1>4. DateOf(era, y, doy) = <<year, m, doy - g + 1>>
  BY SMT DEF DateOf
<1>5. Trunc(y, 4) = y \div 4 /\ Trunc(y, 100) = y \div 100
  BY <1>1, TruncIsDiv, SMT
<1>6. y \div 4 \in Int /\ y \div 100 \in Int
  BY <1>1, Divisions, SMT
<1> HIDE DEF mp, g
<1>7. w \in Int
  BY <1>1, SMT
<1>8. w = IF m <= 2 THEN year - 1 ELSE year
  BY <1>1, <1>2, SMT
<1>9. mp = IF m > 2 THEN m - 3 ELSE m + 9
  BY <1>2, SMT
<1>10. era = Trunc(IF w >= 0 THEN w ELSE w - 399, 400)
  <2>1. w \div 400 \in Int /\ 400 * (w \div 400) <= w /\ w < 400 * (w \div 400) + 400
    BY <1>7, Divisions, SMT
  <2>2. w \div 400 = era
    BY <1>1, <2>1, SMT
  <2> HIDE DEF w
  <2>3. Trunc(FloorArg(w), 400) = w \div 400
    BY <1>7, FloorYears, SMT
  <2> QED
    BY <2>2, <2>3, SMT DEF FloorArg
<1>11. y = w - era * 400
  BY <1>1, SMT
<1>12. doy = Trunc(153 * mp + 2, 5) + (doy - g + 1) - 1
  BY <1>1, <1>2, <1>3, SMT
<1> HIDE DEF w, year, m
<1>13. DayBack(year, m, doy - g + 1, w, era, y, mp, doy)
  BY <1>8, <1>9, <1>10, <1>11, <1>12, SMT DEF DayBack
<1>14. DaysFromCivil(year, m, doy - g + 1)
         = era * 146097 + (y * 365 + Trunc(y, 4) - Trunc(y, 100) + doy) - 719468
  BY <1>13, DaysSteps, SMT
<1>15. era * 146097 + (y * 365 + Trunc(y, 4) - Trunc(y, 100) + doy) - 719468 = DayOf(era, y, doy)
  BY <1>1, <1>5, <1>6, SMT DEF DayOf, DayInEra
<1> QED
  BY <1>4, <1>14, <1>15, SMT

(* The year of the calendar a March year ends in is a leap year if it is   *)
(* long.                                                                   *)
LEMMA LeapIsLong ==
  ASSUME NEW era \in Int, NEW y \in Int, 0 <= y, y <= 399
  PROVE  Leap(y + era * 400 + 1) <=> LongYear(y)
<1> DEFINE Y == y + era * 400 + 1
           v == y + 1
<1>1. Y \in Int /\ v \in Int /\ Y = v + 400 * era /\ 1 <= v /\ v <= 400
  BY SMT
<1> HIDE DEF Y, v
<1>2. /\ Y % 4 = Y - 4 * (Y \div 4) /\ Y % 100 = Y - 100 * (Y \div 100) /\ Y % 400 = Y - 400 * (Y \div 400)
      /\ v % 4 = v - 4 * (v \div 4) /\ v % 100 = v - 100 * (v \div 100)
  BY <1>1, Remainders, SMT
<1>3. /\ Y \div 4 \in Int /\ 4 * (Y \div 4) <= Y /\ Y < 4 * (Y \div 4) + 4
      /\ Y \div 100 \in Int /\ 100 * (Y \div 100) <= Y /\ Y < 100 * (Y \div 100) + 100
      /\ Y \div 400 \in Int /\ 400 * (Y \div 400) <= Y /\ Y < 400 * (Y \div 400) + 400
      /\ v \div 4 \in Int /\ 4 * (v \div 4) <= v /\ v < 4 * (v \div 4) + 4
      /\ v \div 100 \in Int /\ 100 * (v \div 100) <= v /\ v < 100 * (v \div 100) + 100
  BY <1>1, Divisions, SMT
<1>4. ASSUME NEW a \in Int, NEW b \in Int, NEW c \in Int, NEW p \in Int, NEW q \in Int,
             4 * a <= Y, Y < 4 * a + 4, 100 * b <= Y, Y < 100 * b + 100, 400 * c <= Y, Y < 400 * c + 400,
             4 * p <= v, v < 4 * p + 4, 100 * q <= v, v < 100 * q + 100
      PROVE  /\ (Y - 4 * a = 0) <=> (v - 4 * p = 0)
             /\ (Y - 100 * b = 0) <=> (v - 100 * q = 0)
             /\ (Y - 400 * c = 0) <=> (v = 400)
  BY <1>1, <1>4, SMT
<1>5. /\ (Y % 4 = 0) <=> (v % 4 = 0)
      /\ (Y % 100 = 0) <=> (v % 100 = 0)
      /\ (Y % 400 = 0) <=> (v = 400)
  BY <1>2, <1>3, <1>4, SMT
<1>6. (v = 400) <=> (y = 399)
  BY SMT DEF v
<1>7. Leap(Y) <=> (v % 4 = 0 /\ (v % 100 # 0 \/ y = 399))
  BY <1>5, <1>6 DEF Leap
<1> QED
  BY <1>7, SMT DEF LongYear, v, Y

(* A day that is not the last of its March year.                           *)
LEMMA NextInYear ==
  ASSUME NEW era \in Int, NEW y, NEW doy, IsDay(y, doy), IsDay(y, doy + 1)
  PROVE  DateOf(era, y, doy + 1) = DayAfter(DateOf(era, y, doy))
<1> DEFINE k == doy + 1
           mp == MonthOf(doy)
           np == MonthOf(k)
           g  == (153 * mp + 2) \div 5
           h  == (153 * np + 2) \div 5
           month(p) == IF p < 10 THEN p + 3 ELSE p - 9
           m == month(mp)
           n == month(np)
           year(j) == y + era * 400 + (IF j <= 2 THEN 1 ELSE 0)
           d == doy - g + 1
           e == k - h + 1
<1>1. /\ y \in Int /\ 0 <= y /\ y <= 399 /\ doy \in Int /\ 0 <= doy /\ doy <= 364
      /\ doy + 1 = 365 => LongYear(y)
  BY SMT DEF IsDay
<1>2. DateOf(era, y, doy) = <<year(m), m, d>> /\ DateOf(era, y, doy + 1) = <<year(n), n, e>>
  <2>1. DateOf(era, y, doy) = <<year(m), m, d>>
    BY SMT DEF DateOf
  <2>2. DateOf(era, y, k) = <<year(n), n, e>>
    <3> HIDE DEF k
    <3> QED
      BY SMT DEF DateOf
  <2> QED
    BY <2>1, <2>2
<1>3. /\ mp \in Int /\ 0 <= mp /\ mp <= 11 /\ g \in Int
      /\ 153 * mp <= 5 * doy + 2 /\ 5 * doy + 2 < 153 * mp + 153
      /\ 5 * g <= 153 * mp + 2 /\ 153 * mp + 2 < 5 * g + 5
  BY <1>1, MonthFits, SMT
<1>4. /\ np \in Int /\ 0 <= np /\ np <= 11 /\ h \in Int
      /\ 153 * np <= 5 * k + 2 /\ 5 * k + 2 < 153 * np + 153
      /\ 5 * h <= 153 * np + 2 /\ 153 * np + 2 < 5 * h + 5
  <2>1. k \in Int /\ 0 <= k /\ k <= 365
    BY <1>1, SMT
  <2>3. InMonth(k, np, h)
    <3> HIDE DEF k
    <3> QED
      BY <2>1, MonthIs, SMT
  <2> HIDE DEF k, np, h
  <2> QED
    BY <2>3, SMT DEF InMonth
<1> HIDE DEF mp, np, g, h
<1> DEFINE len == IF mp \in {1, 3, 6, 8} THEN 30 ELSE 31
<1>5. \/ np = mp /\ h = g /\ (mp # 11 => d < len)
      \/ np = mp + 1 /\ e = 1 /\ d = len /\ mp # 11
  BY <1>1, <1>3, <1>4, NextDayOfMonth, SMT
<1>6. mp # 11 => MonthLength(year(m), m) = len
  <2>1. mp \in {0, 1, 2, 3, 4, 5, 6, 7, 8, 9, 10, 11}
    BY <1>3, SMT
  <2> QED
    BY <2>1, SMT DEF MonthLength
<1>7. CASE np = mp /\ h = g
  <2>1. d < MonthLength(year(m), m)
    <3>1. CASE mp # 11
      <4>1. d < len
        BY <1>3, <1>5, <1>7, <3>1, SMT
      <4> HIDE DEF d, len, m
      <4> QED
        BY <1>6, <3>1, <4>1, SMT
    <3>2. CASE mp = 11
      <4>1. m = 2 /\ year(m) = y + era * 400 + 1
        BY <3>2, SMT
      <4>2. g = 337
        BY <1>3, <3>2, SMT
      <4>3. d = doy - 336
        BY <1>1, <4>2, SMT
      <4>4. doy = 364 => Leap(y + era * 400 + 1)
        BY <1>1, LeapIsLong, SMT
      <4>5. MonthLength(year(m), m) = IF Leap(y + era * 400 + 1) THEN 29 ELSE 28
        BY <4>1, SMT DEF MonthLength
      <4> HIDE DEF d, m, year
      <4> QED
        BY <1>1, <4>3, <4>4, <4>5, SMT
    <3> QED
      BY <3>1, <3>2
  <2>2. n = m /\ e = d + 1
    BY <1>1, <1>3, <1>7, SMT
  <2>3. DayAfter(<<year(m), m, d>>) = <<year(m), m, d + 1>>
    <3> HIDE DEF year, m, d
    <3> QED
      BY <2>1, SMT DEF DayAfter
  <2> HIDE DEF year, m, d, n, e
  <2> QED
    BY <1>2, <2>2, <2>3, SMT
<1>8. CASE np = mp + 1 /\ e = 1 /\ d = len /\ mp # 11
  <2>1. ~(d < MonthLength(year(m), m))
    <3>1. len \in Int
      BY SMT
    <3> HIDE DEF len, d, year, m
    <3> QED
      BY <1>6, <1>8, <3>1, SMT
  <2>2. IF m < 12 THEN n = m + 1 /\ year(n) = year(m) ELSE n = 1 /\ year(n) = year(m) + 1
    BY <1>1, <1>3, <1>8, SMT
  <2>3. DayAfter(<<year(m), m, d>>) = IF m < 12 THEN <<year(m), m + 1, 1>> ELSE <<year(m) + 1, 1, 1>>
    <3> HIDE DEF year, m, d
    <3> QED
      BY <2>1, SMT DEF DayAfter
  <2> HIDE DEF year, m, d, n, e
  <2> QED
    BY <1>2, <1>8, <2>2, <2>3, SMT
<1> HIDE DEF d, e, len
<1> QED
  BY <1>5, <1>7, <1>8

(* The last of a March year is the last of February.                       *)
LEMMA LastOfYear ==
  ASSUME NEW era \in Int, NEW y, NEW doy, IsDay(y, doy), ~IsDay(y, doy + 1)
  PROVE  DayAfter(DateOf(era, y, doy)) = <<y + era * 400 + 1, 3, 1>>
<1> DEFINE mp == MonthOf(doy)
           g  == (153 * mp + 2) \div 5
           Y  == y + era * 400 + 1
<1>1. /\ y \in Int /\ 0 <= y /\ y <= 399 /\ doy \in Int /\ 0 <= doy /\ doy <= 365
      /\ doy = 365 => LongYear(y)
      /\ doy = 365 \/ (doy = 364 /\ ~LongYear(y))
  BY SMT DEF IsDay
<1>2. /\ mp \in Int /\ 0 <= mp /\ mp <= 11 /\ g \in Int
      /\ 153 * mp <= 5 * doy + 2 /\ 5 * doy + 2 < 153 * mp + 153
      /\ 5 * g <= 153 * mp + 2 /\ 153 * mp + 2 < 5 * g + 5
  BY <1>1, MonthFits, SMT
<1> HIDE DEF g, mp
<1>3. mp = 11
  BY <1>1, <1>2, SMT
<1>4. g = 337
  BY <1>2, <1>3, SMT
<1>5. DateOf(era, y, doy) = <<Y, 2, doy - 337 + 1>>
  BY <1>3, <1>4, SMT DEF DateOf, mp, g
<1>6. MonthLength(Y, 2) = IF LongYear(y) THEN 29 ELSE 28
  <2>1. Leap(Y) <=> LongYear(y)
    BY <1>1, LeapIsLong, SMT
  <2> HIDE DEF Y
  <2> QED
    BY <2>1, SMT DEF MonthLength
<1> HIDE DEF Y
<1>7. ~(doy - 337 + 1 < MonthLength(Y, 2))
  BY <1>1, <1>6, SMT
<1>8. DayAfter(<<Y, 2, doy - 337 + 1>>) = <<Y, 3, 1>>
  BY <1>7, SMT DEF DayAfter
<1> QED
  BY <1>5, <1>8, SMT DEF Y

(* The day after the last of a March year is the first of the next, which  *)
(* may be in the next era.                                                 *)
LEMMA FirstOfNext ==
  ASSUME NEW era \in Int, NEW y, NEW doy, IsDay(y, doy), ~IsDay(y, doy + 1)
  PROVE  CivilFromDays(DayOf(era, y, doy) + 1) = <<y + era * 400 + 1, 3, 1>>
<1>1. /\ y \in Int /\ 0 <= y /\ y <= 399 /\ doy \in Int /\ 0 <= doy /\ doy <= 365
      /\ doy = IF LongYear(y) THEN 365 ELSE 364
  BY SMT DEF IsDay
<1>2. LongYear(y) <=> (y + 1 = 4 * (y \div 4 + 1) /\ (y + 1 # 100 * (y \div 100 + 1) \/ y = 399))
  BY <1>1, LongYearIs
<1>3. /\ y \div 4 \in Int /\ 4 * (y \div 4) <= y /\ y < 4 * (y \div 4) + 4
      /\ y \div 100 \in Int /\ 100 * (y \div 100) <= y /\ y < 100 * (y \div 100) + 100
  BY <1>1, Divisions
<1>4. DayInEra(y, doy) = 365 * y + y \div 4 - y \div 100 + doy
  BY SMT DEF DayInEra
<1>5. DateOf(era, y + 1, 0) = <<y + era * 400 + 1, 3, 1>> /\ DateOf(era + 1, 0, 0) = <<(era + 1) * 400, 3, 1>>
  <2>1. MonthOf(0) = 0 /\ (153 * 0 + 2) \div 5 = 0
    BY SMT DEF MonthOf
  <2> QED
    BY <1>1, <2>1, SMT DEF DateOf
<1>6. CASE y < 399
  <2> DEFINE w == y + 1
  <2>1. IsDay(w, 0)
    BY <1>1, <1>6, SMT DEF IsDay
  <2>2. /\ w \div 4 \in Int /\ 4 * (w \div 4) <= w /\ w < 4 * (w \div 4) + 4
        /\ w \div 100 \in Int /\ 100 * (w \div 100) <= w /\ w < 100 * (w \div 100) + 100
    BY <1>1, Divisions
  <2>3. DayInEra(w, 0) = 365 * w + w \div 4 - w \div 100 + 0
    BY SMT DEF DayInEra
  <2>4. ASSUME NEW a \in Int, NEW b \in Int, NEW c \in Int, NEW d \in Int, NEW long \in BOOLEAN,
               4 * a <= y, y < 4 * a + 4, 100 * b <= y, y < 100 * b + 100,
               4 * c <= y + 1, y + 1 < 4 * c + 4, 100 * d <= y + 1, y + 1 < 100 * d + 100,
               long <=> (y + 1 = 4 * (a + 1) /\ (y + 1 # 100 * (b + 1) \/ y = 399)),
               doy = IF long THEN 365 ELSE 364
        PROVE  365 * (y + 1) + c - d = 365 * y + a - b + doy + 1
    BY <1>1, <1>6, <2>4, SMT
  <2>5. DayInEra(w, 0) = DayInEra(y, doy) + 1
    <3>1. LongYear(y) \in BOOLEAN
      BY DEF LongYear
    <3> QED
      BY <1>1, <1>2, <1>3, <1>4, <2>2, <2>3, <2>4, <3>1, SMT
  <2>6. DayInEra(y, doy) \in Int
    BY DayIsInt
  <2>7. DayOf(era, w, 0) = DayOf(era, y, doy) + 1
    BY <2>5, <2>6, SMT DEF DayOf
  <2>8. CivilFromDays(DayOf(era, w, 0)) = DateOf(era, w, 0)
    <3> HIDE DEF w
    <3> QED
      BY <2>1, CivilOfDay, SMT
  <2> QED
    BY <1>5, <2>7, <2>8, SMT
<1>7. CASE y = 399
  <2>1. IsDay(0, 0)
    BY SMT DEF IsDay
  <2>2. DayInEra(0, 0) = 0 /\ DayInEra(y, doy) = 146096
    <3>1. LongYear(y)
      BY <1>2, <1>3, <1>7, SMT
    <3>2. 399 \div 4 = 99 /\ 399 \div 100 = 3 /\ 0 \div 4 = 0 /\ 0 \div 100 = 0
      BY SMT
    <3> QED
      BY <1>1, <1>7, <3>1, <3>2, SMT DEF DayInEra
  <2>3. DayOf(era + 1, 0, 0) = DayOf(era, y, doy) + 1
    BY <2>2, SMT DEF DayOf
  <2>4. CivilFromDays(DayOf(era + 1, 0, 0)) = DateOf(era + 1, 0, 0)
    <3>1. era + 1 \in Int
      BY SMT
    <3> QED
      BY <2>1, <3>1, CivilOfDay, SMT
  <2>5. (era + 1) * 400 = y + era * 400 + 1
    BY <1>7, SMT
  <2> QED
    BY <1>5, <2>3, <2>4, <2>5, SMT
<1> QED
  BY <1>1, <1>6, <1>7, SMT

(* civil_from_days counts the days as the Gregorian calendar does, and     *)
(* days_from_civil is its inverse.                                         *)
LEMMA DaysAreGregorian ==
  ASSUME NEW day \in Int
  PROVE  LET date == CivilFromDays(day) IN
         /\ CivilFromDays(day + 1) = DayAfter(date)
         /\ DaysFromCivil(date[1], date[2], date[3]) = day
<1>1. PICK era \in Int : \E y, doy : IsDay(y, doy) /\ day = DayOf(era, y, doy)
  BY EveryDayHasADate
<1>2. PICK y, doy : IsDay(y, doy) /\ day = DayOf(era, y, doy)
  BY <1>1
<1>3. CivilFromDays(day) = DateOf(era, y, doy)
  BY <1>2, CivilOfDay
<1>4. CivilFromDays(day + 1) = DayAfter(DateOf(era, y, doy))
  <2>1. CASE IsDay(y, doy + 1)
    <3>1. DayInEra(y, doy + 1) = DayInEra(y, doy) + 1
      <4>1. y \in Int /\ doy \in Int /\ y \div 4 \in Int /\ y \div 100 \in Int
        BY <1>2, Divisions DEF IsDay
      <4> QED
        BY <4>1, SMT DEF DayInEra
    <3>2. DayInEra(y, doy) \in Int
      BY <1>2, DayIsInt
    <3>3. DayOf(era, y, doy + 1) = day + 1
      BY <1>2, <3>1, <3>2, SMT DEF DayOf
    <3>4. CivilFromDays(DayOf(era, y, doy + 1)) = DateOf(era, y, doy + 1)
      BY <2>1, CivilOfDay
    <3> QED
      BY <1>2, <2>1, <3>3, <3>4, NextInYear
  <2>2. CASE ~IsDay(y, doy + 1)
    BY <1>2, <2>2, FirstOfNext, LastOfYear
  <2> QED
    BY <2>1, <2>2
<1>5. DaysFromCivil(DateOf(era, y, doy)[1], DateOf(era, y, doy)[2], DateOf(era, y, doy)[3]) = day
  BY <1>2, DaysOfDate
<1> QED
  BY <1>3, <1>4, <1>5

(* "1970-01-01" is the day zero.                                           *)
LEMMA EpochIsDayZero == CivilFromDays(0) = <<1970, 1, 1>>
<1>1. IsDay(369, 306)
  BY SMT DEF IsDay
<1>2. 369 \div 4 = 92 /\ 369 \div 100 = 3 /\ 4 \in Int
  BY SMT
<1>3. DayOf(4, 369, 306) = 0
  BY <1>2, SMT DEF DayOf, DayInEra
<1>4. MonthOf(306) = 10 /\ (153 * 10 + 2) \div 5 = 306
  BY SMT DEF MonthOf
<1>5. DateOf(4, 369, 306) = <<1970, 1, 1>>
  BY <1>4, SMT DEF DateOf
<1> QED
  BY <1>1, <1>2, <1>3, <1>5, CivilOfDay, SMT

-----------------------------------------------------------------------------
(* from the calendar, proved in Cal3 *)
LEMMA TruncIsInt ==
  ASSUME NEW a \in Int
  PROVE  /\ Trunc(a, 400) \in Int /\ Trunc(a, 5) \in Int /\ Trunc(a, 4) \in Int /\ Trunc(a, 100) \in Int
BY SMT DEF Trunc

LEMMA DaysAreInt ==
  ASSUME NEW year \in Int, NEW m \in Int, NEW d \in Int
  PROVE  DaysFromCivil(year, m, d) \in Int
<1> DEFINE y == IF m <= 2 THEN year - 1 ELSE year
           era == Trunc(IF y >= 0 THEN y ELSE y - 399, 400)
           yoe == y - era * 400
           mp  == IF m > 2 THEN m - 3 ELSE m + 9
           doy == Trunc(153 * mp + 2, 5) + d - 1
           doe == yoe * 365 + Trunc(yoe, 4) - Trunc(yoe, 100) + doy
<1>1. y \in Int
  BY SMT
<1> HIDE DEF y
<1>2. era \in Int
  <2>1. (IF y >= 0 THEN y ELSE y - 399) \in Int
    BY <1>1, SMT
  <2> QED
    BY <2>1, TruncIsInt, SMT
<1> HIDE DEF era
<1>3. yoe \in Int
  BY <1>1, <1>2, SMT
<1>4. mp \in Int
  BY SMT
<1> HIDE DEF yoe, mp
<1>5. doy \in Int
  <2>1. 153 * mp + 2 \in Int
    BY <1>4, SMT
  <2> QED
    BY <2>1, TruncIsInt, SMT
<1> HIDE DEF doy
<1>6. doe \in Int
  BY <1>3, <1>5, TruncIsInt, SMT
<1> HIDE DEF doe
<1>7. era * 146097 + doe - 719468 \in Int
  BY <1>2, <1>6, SMT
<1> QED
  BY <1>7, SMT DEF DaysFromCivil, y, era, yoe, mp, doy, doe

-----------------------------------------------------------------------------
(* Milliseconds of a day.                                                  *)
LEMMA DayParts ==
  ASSUME NEW n \in Int
  PROVE  /\ n \div DAY_MS \in Int /\ n % DAY_MS \in Int
         /\ n % DAY_MS = n - 86400000 * (n \div DAY_MS)
         /\ 0 <= n % DAY_MS /\ n % DAY_MS < 86400000
BY SMT DEF DAY_MS

LEMMA SecondParts ==
  ASSUME NEW n \in Int, NEW q \in Int, NEW r \in Int, n = 1000 * q + r, 0 <= r, r < 1000
  PROVE  n % 1000 = r
BY SMT

(* The fraction of a stamp, in milliseconds.                               *)
Fraction(s) == IF s.ms = None THEN 0 ELSE s.ms.digits * Scale(s.ms.width)

LEMMA ScaleIs ==
  /\ Scale(1) = 100 /\ Scale(2) = 10
  /\ \A w : w \notin {1, 2} => Scale(w) = 1
BY SMT DEF Scale

LEMMA FractionIs ==
  ASSUME NEW s, IsStamp(s), TimeOfDayMs(s) # None
  PROVE  /\ Fraction(s) \in Int /\ 0 <= Fraction(s) /\ Fraction(s) < 1000
         /\ s.ms # None => s.ms.width \in {1, 2, 3} /\ s.ms.digits \in Int
<1>1. CASE s.ms = None
  BY <1>1, SMT DEF Fraction
<1>2. CASE s.ms # None
  <2>1. s.ms.width \in Nat \ {0} /\ s.ms.digits \in Nat /\ ~(s.ms.width > 3)
    BY <1>2 DEF IsStamp, TimeOfDayMs
  <2>2. s.ms.width \in {1, 2, 3} /\ s.ms.digits * Scale(s.ms.width) < 1000
    BY <1>2, <2>1, SMT DEF IsStamp
  <2>3. Scale(s.ms.width) \in {100, 10, 1}
    BY <2>2, ScaleIs, SMT
  <2> QED
    BY <1>2, <2>1, <2>2, <2>3, SMT DEF Fraction
<1> QED
  BY <1>1, <1>2, SMT

(* A time of day is whole seconds and a fraction.                          *)
HasFraction(a, r) ==
  /\ a \in Int /\ r \in Int /\ 0 <= r /\ r < 1000
  /\ \E q \in Int : a = 1000 * q + r

LEMMA TimeOfDayIs ==
  ASSUME NEW s, IsStamp(s), TimeOfDayMs(s) # None
  PROVE  HasFraction(TimeOfDayMs(s), Fraction(s))
<1> DEFINE q == s.h * 3600 + s.mi * 60 + s.sec
<1>1. s.h \in Int /\ s.mi \in Int /\ s.sec \in Int
  BY SMT DEF IsStamp
<1>2. q \in Int
  BY <1>1, SMT
<1>3. Fraction(s) \in Int /\ 0 <= Fraction(s) /\ Fraction(s) < 1000
  BY FractionIs, SMT
<1>4. TimeOfDayMs(s) = s.h * 3600000 + s.mi * 60000 + s.sec * 1000 + Fraction(s)
  BY SMT DEF TimeOfDayMs, Fraction
<1> HIDE DEF Fraction
<1>5. TimeOfDayMs(s) = 1000 * q + Fraction(s) /\ TimeOfDayMs(s) \in Int
  BY <1>1, <1>3, <1>4, SMT
<1> QED
  BY <1>2, <1>3, <1>5, SMT DEF HasFraction

(* Whole minutes do not touch the fraction, nor do whole days.             *)
WholeMinutes(o) == o \in Int /\ o % 60000 = 0

LEMMA FractionStays ==
  ASSUME NEW a, NEW r, HasFraction(a, r), NEW o, WholeMinutes(o)
  PROVE  /\ HasFraction((a + o) % DAY_MS, r)
         /\ HasFraction(((a % DAY_MS) + o) % DAY_MS, r)
<1>0. PICK q \in Int : a = 1000 * q + r
  BY SMT DEF HasFraction
<1>11. a \in Int /\ r \in Int /\ 0 <= r /\ r < 1000 /\ o \in Int /\ o % 60000 = 0
  BY SMT DEF HasFraction, WholeMinutes
<1> DEFINE k == o \div 60000
           n == a + o
           b == a % DAY_MS
           m == b + o
<1>1. k \in Int /\ o = 60000 * k
  BY <1>11, SMT
<1> HIDE DEF k
<1>2. n \in Int
  BY <1>11, SMT
<1>3. /\ n \div DAY_MS \in Int /\ n % DAY_MS \in Int /\ n % DAY_MS = n - 86400000 * (n \div DAY_MS)
  BY <1>2, DayParts, SMT
<1>4. b \in Int /\ a \div DAY_MS \in Int /\ b = a - 86400000 * (a \div DAY_MS)
  BY <1>11, DayParts, SMT
<1> HIDE DEF b
<1>5. m \in Int
  <2>1. o \in Int
    BY SMT DEF WholeMinutes
  <2> QED
    BY <1>4, <2>1, SMT
<1>6. /\ m \div DAY_MS \in Int /\ m % DAY_MS \in Int /\ m % DAY_MS = m - 86400000 * (m \div DAY_MS)
  BY <1>5, DayParts, SMT
<1> HIDE DEF n, m
<1>7. n = a + o /\ m = b + o
  BY SMT DEF n, m
<1>8. ASSUME NEW x \in Int, NEW y \in Int
      PROVE  1000 * (q + 60 * k - 86400 * x - 86400 * y) + r = 1000 * q + r + 60000 * k - 86400000 * x - 86400000 * y
  BY <1>11, <1>1, SMT
<1>9. HasFraction(n % DAY_MS, r)
  <2> DEFINE x == n \div DAY_MS
             p == q + 60 * k - 86400 * x
  <2>1. p \in Int
    BY <1>1, <1>3, SMT
  <2>2. n % DAY_MS = 1000 * p + r
    <3> HIDE DEF x
    <3> QED
      BY <1>11, <1>0, <1>1, <1>3, <1>7, SMT DEF x
  <2> HIDE DEF p
  <2> QED
    BY <1>11, <1>3, <2>1, <2>2, SMT DEF HasFraction
<1>10. HasFraction(m % DAY_MS, r)
  <2> DEFINE x == m \div DAY_MS
             y == a \div DAY_MS
             p == q + 60 * k - 86400 * x - 86400 * y
  <2>1. p \in Int
    BY <1>1, <1>4, <1>6, SMT
  <2>2. m % DAY_MS = 1000 * p + r
    <3> HIDE DEF x, y
    <3> QED
      BY <1>11, <1>0, <1>1, <1>4, <1>6, <1>7, SMT DEF x, y
  <2> HIDE DEF p
  <2> QED
    BY <1>11, <1>6, <2>1, <2>2, SMT DEF HasFraction
<1> QED
  BY <1>9, <1>10, SMT DEF n, m, b

-----------------------------------------------------------------------------
(* The hours, minutes and seconds of a time of day.                        *)
LEMMA ClockParts ==
  ASSUME NEW t \in Int, 0 <= t, t < 86400000
  PROVE  /\ t \div 3600000 \in Int /\ (t \div 60000) % 60 \in Int /\ (t \div 1000) % 60 \in Int
         /\ t \div 3600000 <= 23 /\ (t \div 60000) % 60 <= 59 /\ (t \div 1000) % 60 <= 59
         /\ t = (t \div 3600000) * 3600000 + ((t \div 60000) % 60) * 60000
                  + ((t \div 1000) % 60) * 1000 + (t % 1000)
<1> DEFINE h == t \div 3600000
           m == t \div 60000
           s == t \div 1000
           n == m \div 60
           k == s \div 60
<1>1. /\ h \in Int /\ 3600000 * h <= t /\ t < 3600000 * h + 3600000
      /\ m \in Int /\ 60000 * m <= t /\ t < 60000 * m + 60000
      /\ s \in Int /\ t = 1000 * s + (t % 1000) /\ 0 <= t % 1000 /\ t % 1000 < 1000 /\ (t % 1000) \in Int
  BY SMT
<1> HIDE DEF h, m, s
<1>2. /\ n \in Int /\ m % 60 = m - 60 * n /\ 0 <= m % 60 /\ m % 60 < 60
      /\ k \in Int /\ s % 60 = s - 60 * k /\ 0 <= s % 60 /\ s % 60 < 60
  BY <1>1, SMT
<1> HIDE DEF n, k
<1>3. h = n /\ m = k
  BY <1>1, <1>2, SMT
<1>4. /\ h <= 23 /\ m % 60 \in Int /\ s % 60 \in Int /\ m % 60 <= 59 /\ s % 60 <= 59
      /\ t = h * 3600000 + (m % 60) * 60000 + (s % 60) * 1000 + (t % 1000)
  BY <1>1, <1>2, <1>3, SMT
<1> QED
  BY <1>1, <1>4, SMT DEF h, m, s

LEMMA DigitsKept ==
  ASSUME NEW s, IsStamp(s), TimeOfDayMs(s) # None, s.ms # None, Width(s) <= 3
  PROVE  /\ Width(s) \in {1, 2, 3}
         /\ (Fraction(s) \div Scale(Width(s))) * Scale(Width(s)) = Fraction(s)
<1>1. s.ms.width \in {1, 2, 3} /\ s.ms.digits \in Int /\ Fraction(s) = s.ms.digits * Scale(s.ms.width)
  BY FractionIs, SMT DEF Fraction
<1>2. s.zs \in Nat
  BY SMT DEF IsStamp
<1>3. Width(s) \in {1, 2, 3} /\ s.ms.width <= Width(s)
  BY <1>1, <1>2, SMT DEF Width
<1> DEFINE w == Width(s)
           d == s.ms.digits
<1>4. CASE s.ms.width = 1
  <2>1. Fraction(s) = d * 100
    BY <1>1, <1>4, ScaleIs, SMT
  <2>2. Scale(w) \in {100, 10, 1}
    BY <1>3, ScaleIs, SMT
  <2> HIDE DEF w, d
  <2> QED
    BY <1>1, <1>3, <2>1, <2>2, SMT DEF w, d
<1>5. CASE s.ms.width = 2
  <2>1. Fraction(s) = d * 10
    BY <1>1, <1>5, ScaleIs, SMT
  <2>2. Scale(w) \in {10, 1}
    BY <1>3, <1>5, ScaleIs, SMT
  <2> HIDE DEF w, d
  <2> QED
    BY <1>1, <1>3, <2>1, <2>2, SMT DEF w, d
<1>6. CASE s.ms.width = 3
  <2>1. Fraction(s) = d * 1
    BY <1>1, <1>6, ScaleIs, SMT
  <2>2. Scale(w) = 1
    BY <1>3, <1>6, ScaleIs, SMT
  <2> HIDE DEF w, d
  <2> QED
    BY <1>1, <1>3, <2>1, <2>2, SMT DEF w, d
<1> QED
  BY <1>1, <1>4, <1>5, <1>6, SMT

(* A time of day that is written as a stamp's was is read as it is.        *)
LEMMA WrittenIsRead ==
  ASSUME NEW s, IsStamp(s), TimeOfDayMs(s) # None, s.ms # None => Width(s) <= 3,
         NEW t \in Int, 0 <= t, t < 86400000, HasFraction(t, Fraction(s)),
         NEW date, NEW offset
  PROVE  TimeOfDayMs(Written(s, date, t, offset)) = t
<1>0. t % 1000 = Fraction(s)
  BY SecondParts, SMT DEF HasFraction
<1> DEFINE w == Written(s, date, t, offset)
           f == IF s.ms = None THEN None
                ELSE [sep |-> s.ms.sep, width |-> Width(s), digits |-> (t % 1000) \div Scale(Width(s))]
<1>1. w.h = t \div 3600000 /\ w.mi = (t \div 60000) % 60 /\ w.sec = (t \div 1000) % 60 /\ w.ms = f
  BY SMT DEF Written
<1> HIDE DEF w
<1>2. ~(w.h > 23) /\ ~(w.mi > 59) /\ ~(w.sec > 60)
  BY <1>1, ClockParts, SMT
<1>3. CASE s.ms = None
  <2>1. w.ms = None
    BY <1>1, <1>3, SMT
  <2>2. TimeOfDayMs(w) = w.h * 3600000 + w.mi * 60000 + w.sec * 1000 + 0
    BY <1>2, <2>1, SMT DEF TimeOfDayMs
  <2>3. t % 1000 = 0
    BY <1>0, <1>3, SMT DEF Fraction
  <2> QED
    BY <1>1, <2>2, <2>3, ClockParts, SMT DEF w
<1>4. CASE s.ms # None
  <2>1. f = [sep |-> s.ms.sep, width |-> Width(s), digits |-> (t % 1000) \div Scale(Width(s))]
    BY <1>4, SMT
  <2>2. Width(s) \in {1, 2, 3} /\ ((t % 1000) \div Scale(Width(s))) * Scale(Width(s)) = t % 1000
    BY <1>0, <1>4, DigitsKept, SMT
  <2>3. (t % 1000) \div Scale(Width(s)) \in Int
    BY <2>2, ScaleIs, SMT
  <2>4. f # None
    <3>1. s.ms.sep \in STRING
      BY <1>4, SMT DEF IsStamp
    <3>2. f \in [sep : STRING, width : Int, digits : Int]
      BY <2>1, <2>2, <2>3, <3>1, SMT
    <3> HIDE DEF f
    <3> QED
      BY <3>2, TextsAssumption
  <2>5. w.ms # None /\ w.ms.width = Width(s) /\ w.ms.digits = (t % 1000) \div Scale(Width(s))
    BY <1>1, <2>1, <2>4, SMT
  <2>6. TimeOfDayMs(w) = w.h * 3600000 + w.mi * 60000 + w.sec * 1000 + w.ms.digits * Scale(w.ms.width)
    BY <1>2, <2>2, <2>5, SMT DEF TimeOfDayMs
  <2>7. TimeOfDayMs(w) = w.h * 3600000 + w.mi * 60000 + w.sec * 1000 + (t % 1000)
    BY <2>2, <2>5, <2>6, SMT
  <2> QED
    BY <1>1, <2>7, ClockParts, SMT DEF w
<1> QED
  BY <1>3, <1>4, SMT DEF w

-----------------------------------------------------------------------------
(* A date of the calendar is one that parse_timestamp takes.               *)
LEMMA CivilIsADate ==
  ASSUME NEW day \in Int
  PROVE  /\ CivilFromDays(day) \in [1..3 -> Int]
         /\ CivilFromDays(day) # None
         /\ DateDays(CivilFromDays(day)) = day
<1>1. PICK era \in Int : \E y, doy : IsDay(y, doy) /\ day = DayOf(era, y, doy)
  BY EveryDayHasADate, SMT
<1>2. PICK y, doy : IsDay(y, doy) /\ day = DayOf(era, y, doy)
  BY <1>1, SMT
<1>3. CivilFromDays(day) = DateOf(era, y, doy)
  BY <1>2, CivilOfDay, SMT
<1> DEFINE mp == MonthOf(doy)
           g  == (153 * mp + 2) \div 5
           m  == IF mp < 10 THEN mp + 3 ELSE mp - 9
           year == y + era * 400 + (IF m <= 2 THEN 1 ELSE 0)
           d == doy - g + 1
<1>4. y \in Int /\ doy \in Int /\ 0 <= doy /\ doy <= 365
  BY <1>2, SMT DEF IsDay
<1>5. DateOf(era, y, doy) = <<year, m, d>>
  BY SMT DEF DateOf
<1>6. mp \in Int /\ 0 <= mp /\ mp <= 11 /\ g \in Int /\ 1 <= d /\ d <= 31
  BY <1>4, MonthFits, SMT
<1> HIDE DEF mp, g
<1>7. year \in Int /\ m \in 1..12 /\ d \in 1..31
  BY <1>4, <1>6, SMT
<1> HIDE DEF year, m, d
<1> DEFINE c == CivilFromDays(day)
<1>8. c = <<year, m, d>>
  BY <1>3, <1>5, SMT
<1>9. c \in [1..3 -> Int] /\ c[2] \in 1..12 /\ c[3] \in 1..31
  BY <1>7, <1>8, SMT
<1>10. DaysFromCivil(c[1], c[2], c[3]) = day
  BY DaysAreGregorian, SMT
<1> HIDE DEF c
<1>11. c # None
  BY <1>9, TextsAssumption, SMT
<1>12. DateDays(c) = day
  BY <1>9, <1>10, SMT DEF DateDays
<1> QED
  BY <1>9, <1>11, <1>12, SMT DEF c

LEMMA DateDaysIsInt ==
  ASSUME NEW date \in [1..3 -> Int], DateDays(date) # None
  PROVE  DateDays(date) \in Int
<1>1. date[1] \in Int /\ date[2] \in Int /\ date[3] \in Int
  BY SMT
<1>2. DateDays(date) = DaysFromCivil(date[1], date[2], date[3])
  BY SMT DEF DateDays
<1> QED
  BY <1>1, <1>2, DaysAreInt, SMT

(* What is read of a stamp.                                                *)
IsInstant(at) ==
  /\ at.day \in Int /\ at.ms \in Int /\ at = [day |-> at.day, ms |-> at.ms]
  /\ 0 <= at.ms /\ at.ms < 86400000

LEMMA StampIsRead ==
  ASSUME NEW s, IsStamp(s), ParseTimestamp(s) # None
  PROVE  LET was == ParseTimestamp(s) IN
         /\ TimeOfDayMs(s) # None
         /\ s.date = None => was.kind = "time_of_day" /\ was.at.ms = TimeOfDayMs(s)
         /\ s.date # None => /\ was.kind = "absolute" /\ was.at.ms = TimeOfDayMs(s) % DAY_MS
                             /\ IsInstant(was.at)
<1> DEFINE ms == TimeOfDayMs(s)
<1>1. ms # None
  BY SMT DEF ParseTimestamp
<1>2. ms \in Int
  BY <1>1, TimeOfDayIs, SMT DEF HasFraction
<1> HIDE DEF ms
<1>3. CASE s.date = None
  <2>1. ParseTimestamp(s) = [kind |-> "time_of_day", at |-> [day |-> 0, ms |-> ms]]
    BY <1>1, <1>3, SMT DEF ParseTimestamp, ms
  <2> QED
    BY <1>1, <1>2, <1>3, <2>1, SMT DEF ms
<1>4. CASE s.date # None
  <2>1. s.date \in [1..3 -> Int]
    BY <1>4, SMT DEF IsStamp
  <2>2. DateDays(s.date) # None
    BY <1>1, <1>4, SMT DEF ParseTimestamp, ms
  <2>3. DateDays(s.date) \in Int
    BY <2>1, <2>2, DateDaysIsInt, SMT
  <2>4. ParseTimestamp(s) = [kind |-> "absolute", at |-> Instant(DateDays(s.date), ms)]
    BY <1>1, <1>4, <2>2, SMT DEF ParseTimestamp, ms
  <2>5. ms \div DAY_MS \in Int /\ ms % DAY_MS \in Int /\ 0 <= ms % DAY_MS /\ ms % DAY_MS < 86400000
    BY <1>2, DayParts, SMT
  <2>6. Instant(DateDays(s.date), ms) = [day |-> DateDays(s.date) + ms \div DAY_MS, ms |-> ms % DAY_MS]
    BY SMT DEF Instant
  <2> DEFINE q == ms \div DAY_MS
             r == ms % DAY_MS
  <2> HIDE DEF q, r
  <2>7. Instant(DateDays(s.date), ms) = [day |-> DateDays(s.date) + q, ms |-> r]
    BY <2>6, SMT DEF q, r
  <2>8. q \in Int /\ r \in Int /\ 0 <= r /\ r < 86400000
    BY <2>5, SMT DEF q, r
  <2>9. r = TimeOfDayMs(s) % DAY_MS
    BY SMT DEF r, ms
  <2> DEFINE p == DateDays(s.date) + q
  <2>10. p \in Int
    BY <2>3, <2>8, SMT
  <2> HIDE DEF p
  <2>11. ParseTimestamp(s) = [kind |-> "absolute", at |-> [day |-> p, ms |-> r]]
    BY <2>4, <2>7, SMT DEF p
  <2>12. IsInstant([day |-> p, ms |-> r])
    BY <2>8, <2>10, SMT DEF IsInstant
  <2> QED
    BY <1>1, <1>4, <2>9, <2>11, <2>12, SMT DEF ms
<1> QED
  BY <1>3, <1>4, SMT

(* To another zone and back.                                               *)
LEMMA ThereAndBack ==
  ASSUME NEW at, IsInstant(at), NEW o \in Int
  PROVE  LET local == Shift(at, o)
         IN /\ local.day \in Int /\ local.ms = (at.ms + o) % DAY_MS
            /\ Shift([day |-> local.day, ms |-> local.ms], -o) = at
<1>0. at.day \in Int /\ at.ms \in Int /\ 0 <= at.ms /\ at.ms < 86400000 /\ at = [day |-> at.day, ms |-> at.ms]
  BY SMT DEF IsInstant
<1> DEFINE n == at.ms + o
           q == n \div DAY_MS
           t == n % DAY_MS
           k == t + (-o)
<1>1. n \in Int
  BY <1>0, SMT
<1>2. q \in Int /\ t \in Int /\ t = n - 86400000 * q /\ 0 <= t /\ t < 86400000
  <2> HIDE DEF n
  <2> QED
    BY <1>1, DayParts, SMT
<1>3. Shift(at, o) = [day |-> at.day + q, ms |-> t]
  BY SMT DEF Shift, Instant
<1> HIDE DEF q, t
<1>4. k \in Int
  BY <1>0, <1>2, SMT
<1>5. k \div DAY_MS \in Int /\ k % DAY_MS = k - 86400000 * (k \div DAY_MS) /\ 0 <= k % DAY_MS /\ k % DAY_MS < 86400000
  BY <1>4, DayParts, SMT
<1> DEFINE p == k \div DAY_MS
           r == k % DAY_MS
<1>6. Shift([day |-> at.day + q, ms |-> t], -o) = [day |-> at.day + q + p, ms |-> r]
  BY SMT DEF Shift, Instant
<1>7. p \in Int /\ r = k - 86400000 * p /\ 0 <= r /\ r < 86400000
  BY <1>5, SMT
<1> HIDE DEF p, r
<1>8. k = at.ms - 86400000 * q
  BY <1>0, <1>2, SMT
<1> HIDE DEF k
<1>9. p = -q /\ r = at.ms
  BY <1>0, <1>2, <1>7, <1>8, SMT
<1>10. at.day + q + p = at.day
  BY <1>0, <1>2, <1>9, SMT
<1>11. Shift([day |-> at.day + q, ms |-> t], -o) = at
  BY <1>0, <1>6, <1>9, <1>10, SMT
<1>12. at.day + q \in Int
  BY <1>0, <1>2, SMT
<1> DEFINE local == Shift(at, o)
<1>13. local.day = at.day + q /\ local.ms = t
  BY <1>3, SMT
<1> QED
  BY <1>11, <1>12, <1>13, SMT DEF t

(* The fields of what is written.                                          *)
LEMMA WrittenParts ==
  ASSUME NEW s, IsStamp(s), TimeOfDayMs(s) # None, NEW t \in Int, 0 <= t, t < 86400000,
         NEW date, NEW offset, WholeMinutes(offset)
  PROVE  LET w == Written(s, date, t, offset)
         IN /\ w.date = date /\ w.sep = s.sep /\ w.offset = offset
            /\ w.ms = None <=> s.ms = None
            /\ s.ms # None => w.ms.sep = s.ms.sep /\ (s.zs <= 1 => w.ms.width = s.ms.width)
<1> DEFINE w == Written(s, date, t, offset)
           f == IF s.ms = None THEN None
                ELSE [sep |-> s.ms.sep, width |-> Width(s), digits |-> (t % 1000) \div Scale(Width(s))]
<1>1. w.date = date /\ w.sep = s.sep /\ w.ms = f /\ w.offset = Trunc(offset, 60000) * 60000
  BY SMT DEF Written
<1>2. Trunc(offset, 60000) * 60000 = offset
  <2>0. offset \in Int /\ offset % 60000 = 0
    BY SMT DEF WholeMinutes
  <2> DEFINE k == offset \div 60000
  <2>1. k \in Int /\ offset = 60000 * k
    BY <2>0, SMT
  <2>2. CASE offset >= 0
    BY <2>0, <2>1, <2>2, SMT DEF Trunc
  <2>3. CASE offset < 0
    <3>1. (-offset) \div 60000 = -k
      <4> DEFINE n == -offset
                 j == n \div 60000
      <4>1. n \in Int /\ n = 60000 * (-k)
        BY <2>0, <2>1, SMT
      <4>2. j \in Int /\ 60000 * j <= n /\ n < 60000 * j + 60000
        BY <4>1, SMT
      <4> HIDE DEF j, k
      <4>3. j = -k
        BY <2>1, <4>1, <4>2, SMT
      <4> QED
        BY <4>3, SMT DEF j
    <3> HIDE DEF k
    <3>2. Trunc(offset, 60000) = -((-offset) \div 60000)
      BY <2>0, <2>3, SMT DEF Trunc
    <3> QED
      BY <2>0, <2>1, <3>1, <3>2, SMT
  <2> QED
    BY <2>0, <2>2, <2>3, SMT
<1>3. CASE s.ms = None
  BY <1>1, <1>2, <1>3, SMT
<1>4. CASE s.ms # None
  <2>1. f = [sep |-> s.ms.sep, width |-> Width(s), digits |-> (t % 1000) \div Scale(Width(s))]
    BY <1>4, SMT
  <2>2. s.ms.width \in Int /\ s.zs \in Int /\ s.ms.sep \in STRING
    BY <1>4, SMT DEF IsStamp
  <2>3. Width(s) \in Int /\ (s.zs <= 1 => Width(s) = s.ms.width)
    BY <2>2, SMT DEF Width
  <2>4. Scale(Width(s)) \in {100, 10, 1}
    BY ScaleIs, SMT
  <2>5. (t % 1000) \div Scale(Width(s)) \in Int
    BY <2>4, SMT
  <2>6. f \in [sep : STRING, width : Int, digits : Int]
    BY <2>1, <2>2, <2>3, <2>5, SMT
  <2>7. f # None
    <3> HIDE DEF f
    <3> QED
      BY <2>6, TextsAssumption, SMT
  <2>8. f.sep = s.ms.sep /\ f.width = Width(s)
    BY <2>1, SMT
  <2> HIDE DEF f
  <2> QED
    BY <1>1, <1>2, <1>4, <2>3, <2>7, <2>8, SMT
<1> QED
  BY <1>3, <1>4, SMT

LEMMA NarrowEnough ==
  ASSUME NEW s, IsStamp(s), ParseTimestamp(s) # None, ~Panics(s), s.ms # None
  PROVE  Width(s) <= 3
<1>1. s.ms.width \in Int /\ s.zs \in Int
  BY SMT DEF IsStamp
<1>2. Width(s) \in Int
  BY <1>1, SMT DEF Width
<1> QED
  BY <1>2, SMT DEF Panics

(* What is read is not nothing.                                            *)
LEMMA ReadIsSomething ==
  ASSUME NEW kind \in {"absolute", "time_of_day"}, NEW day \in Int, NEW ms \in Int
  PROVE  [kind |-> kind, at |-> [day |-> day, ms |-> ms]] # None
BY TextsAssumption, SMT

(* Without a date, the zone turns the clock.                               *)
LEMMA ClockIsTurned ==
  ASSUME NEW s, IsStamp(s), NEW zone, IsZone(zone), ParseTimestamp(s) # None, ~Panics(s),
         s.date = None
  PROVE  LET shown == Restamp(s, zone)
             was   == ParseTimestamp(s)
             is    == ParseTimestamp(shown)
         IN /\ is # None /\ is.kind = was.kind /\ was.kind = "time_of_day"
            /\ (is.at.ms - shown.offset - was.at.ms) % DAY_MS = 0
<1> DEFINE ms == TimeOfDayMs(s)
           o  == zone.today
           t  == (ms + o) % DAY_MS
           w  == Written(s, None, t, o)
<1>1. /\ TimeOfDayMs(s) # None
      /\ ParseTimestamp(s).kind = "time_of_day" /\ ParseTimestamp(s).at.ms = TimeOfDayMs(s)
  BY StampIsRead, Zenon
<1>2. WholeMinutes(o) /\ o \in Int
  BY SMT DEF IsZone, WholeMinutes
<1>3. s.ms # None => Width(s) <= 3
  BY NarrowEnough, Zenon
<1>4. HasFraction(ms, Fraction(s))
  BY <1>1, TimeOfDayIs, Zenon
<1>6. ms \in Int
  BY <1>4, SMT DEF HasFraction
<1> HIDE DEF ms
<1> HIDE DEF o
<1>7. HasFraction(t, Fraction(s))
  BY <1>2, <1>4, FractionStays, Zenon
<1> DEFINE n == ms + o
<1>8. n \in Int
  BY <1>2, <1>6, SMT
<1> HIDE DEF n
<1>9. n % DAY_MS \in Int /\ 0 <= n % DAY_MS /\ n % DAY_MS < 86400000 /\ n \div DAY_MS \in Int
      /\ n % DAY_MS = n - 86400000 * (n \div DAY_MS)
  BY <1>8, DayParts, SMT
<1>5. t = n % DAY_MS /\ n = ms + o
  BY DEF n
<1>10. Restamp(s, zone) = w
  <2>1. Restamp(s, zone) = Written(s, None, Shift(ParseTimestamp(s).at, o).ms, o)
    BY SMT DEF Restamp, o
  <2>2. Shift(ParseTimestamp(s).at, o).ms = t
    BY <1>1, SMT DEF Shift, Instant, ms
  <2> QED
    BY <2>1, <2>2, SMT
<1> HIDE DEF t
<1>18. t \in Int /\ 0 <= t /\ t < 86400000
  BY <1>5, <1>9, SMT
<1>11. TimeOfDayMs(w) = t
  BY <1>1, <1>3, <1>7, <1>18, WrittenIsRead, SMT
<1>12. w.date = None /\ w.offset = o
  BY <1>1, <1>2, <1>18, WrittenParts, SMT
<1> HIDE DEF w
<1>13. t # None
  BY <1>18, TextsAssumption, SMT
<1>14. ParseTimestamp(w) = [kind |-> "time_of_day", at |-> [day |-> 0, ms |-> t]]
  BY <1>11, <1>12, <1>13, SMT DEF ParseTimestamp
<1>15. ParseTimestamp(w) # None
  BY <1>18, <1>14, ReadIsSomething, SMT
<1>16. (t - o - ms) % DAY_MS = 0
  <2> DEFINE k == n \div DAY_MS
             e == t - o - ms
  <2>1. k \in Int /\ e = 86400000 * (-k)
    BY <1>2, <1>5, <1>6, <1>9, SMT
  <2> HIDE DEF k, e
  <2>2. e % 86400000 = 0
    BY <2>1, SMT
  <2> QED
    BY <2>2, SMT DEF e, DAY_MS
<1>17. /\ ParseTimestamp(w).kind = "time_of_day" /\ ParseTimestamp(w).at.ms = t
  BY <1>14, SMT
<1> QED
  BY <1>1, <1>10, <1>12, <1>15, <1>16, <1>17, Zenon DEF ms

(* With one, it names the same instant on another clock and calendar.      *)
LEMMA InstantIsKept ==
  ASSUME NEW s, IsStamp(s), NEW zone, IsZone(zone), ParseTimestamp(s) # None, ~Panics(s),
         s.date # None
  PROVE  LET shown == Restamp(s, zone)
             was   == ParseTimestamp(s)
             is    == ParseTimestamp(shown)
         IN /\ is # None /\ is.kind = was.kind /\ was.kind = "absolute"
            /\ Shift(is.at, -shown.offset) = was.at
<1> DEFINE ms == TimeOfDayMs(s)
           at == ParseTimestamp(s).at
           o  == ToOffset(zone, at)
           local == Shift(at, o)
           d  == local.day
           t  == local.ms
           w  == Written(s, CivilFromDays(d), t, o)
<1>1. /\ ms # None /\ IsInstant(at)
      /\ ParseTimestamp(s).kind = "absolute" /\ at.ms = ms % DAY_MS
  BY StampIsRead, Zenon
<1>2. WholeMinutes(o) /\ o \in Int
  BY SMT DEF IsZone, ToOffset, WholeMinutes
<1>3. s.ms # None => Width(s) <= 3
  BY NarrowEnough, Zenon
<1>4. HasFraction(ms, Fraction(s))
  BY <1>1, TimeOfDayIs, Zenon
<1>6. Restamp(s, zone) = w
  BY SMT DEF Restamp
<1>7. TimeOfDayMs(s) # None
  BY <1>1, SMT
<1> HIDE DEF ms, at, o
<1>8. at.ms \in Int
  BY <1>1, SMT DEF IsInstant
<1>9. /\ d \in Int /\ t = (at.ms + o) % DAY_MS
      /\ Shift([day |-> d, ms |-> t], -o) = at
  BY <1>1, <1>2, ThereAndBack, Zenon
<1>11. t \in Int /\ 0 <= t /\ t < 86400000
  <2> DEFINE n == at.ms + o
  <2>1. n \in Int
    BY <1>2, <1>8, SMT
  <2>2. t = n % DAY_MS
    BY <1>9, Zenon
  <2> HIDE DEF n, t
  <2> QED
    BY <2>1, <2>2, DayParts, SMT
<1>12. HasFraction(t, Fraction(s))
  <2>1. HasFraction(((ms % DAY_MS) + o) % DAY_MS, Fraction(s))
    BY <1>2, <1>4, FractionStays, Zenon
  <2> HIDE DEF t
  <2> QED
    BY <1>1, <1>9, <2>1, Zenon DEF t
<1> HIDE DEF local, d, t
<1>13. TimeOfDayMs(w) = t
  BY <1>3, <1>7, <1>11, <1>12, WrittenIsRead, SMT
<1>14. w.date = CivilFromDays(d) /\ w.offset = o
  BY <1>2, <1>7, <1>11, WrittenParts, SMT
<1>15. CivilFromDays(d) # None /\ DateDays(CivilFromDays(d)) = d
  BY <1>9, CivilIsADate, SMT
<1>16. t # None /\ d # None
  BY <1>9, <1>11, TextsAssumption, SMT
<1> HIDE DEF w
<1>17. ParseTimestamp(w) = [kind |-> "absolute", at |-> Instant(d, t)]
  BY <1>13, <1>14, <1>15, <1>16, SMT DEF ParseTimestamp
<1>18. Instant(d, t) = [day |-> d, ms |-> t]
  <2>1. t \div DAY_MS = 0 /\ t % DAY_MS = t
    BY <1>11, SMT DEF DAY_MS
  <2>2. d + 0 = d
    BY <1>9, SMT
  <2> QED
    BY <2>1, <2>2, SMT DEF Instant
<1>19. ParseTimestamp(w) # None
  BY <1>9, <1>11, <1>17, <1>18, ReadIsSomething, SMT
<1>20. Shift(ParseTimestamp(w).at, -w.offset) = at
  BY <1>9, <1>14, <1>17, <1>18, SMT
<1>21. ParseTimestamp(w).kind = "absolute"
  BY <1>17, SMT
<1> QED
  BY <1>1, <1>6, <1>19, <1>20, <1>21, SMT DEF at

-----------------------------------------------------------------------------
(* Lines *)

LEMMA LeastNumber ==
  ASSUME NEW T \in SUBSET Nat, T # {}
  PROVE  Min(T) \in T /\ \A y \in T : Min(T) <= y
<1>1. PICK x \in T : \A y \in T : <<y, x>> \notin OpToRel(<, Nat)
  BY NatLessThanWellFounded, WFMin
<1>2. \A y \in T : y < x => <<y, x>> \in OpToRel(<, Nat)
  BY DEF OpToRel
<1>3. \A y \in T : ~(y < x)
  BY <1>1, <1>2
<1>4. \A y \in T : x <= y
  BY <1>3, SMT
<1>5. QED
  BY <1>4 DEF Min

(* Where the head of a console line ends.                                  *)
LEMMA HeadIsInTheLine ==
  ASSUME NEW w, Len(w) \in Nat, Dashes(w) # {}
  PROVE  /\ HeadEnd(w) \in Dashes(w) /\ \A i \in Dashes(w) : HeadEnd(w) <= i
         /\ HeadEnd(w) \in Int /\ 2 <= HeadEnd(w) /\ HeadEnd(w) <= Len(w) - 1
         /\ w[HeadEnd(w)].is = "dash"
<1>1. Dashes(w) \subseteq Nat
  BY SMT DEF Dashes
<1>2. HeadEnd(w) = Min(Dashes(w))
  BY DEF HeadEnd
<1>3. HeadEnd(w) \in Dashes(w) /\ \A i \in Dashes(w) : HeadEnd(w) <= i
  BY <1>1, <1>2, LeastNumber
<1> QED
  BY <1>3, SMT DEF Dashes

Word(w) == {w[i] : i \in DOMAIN w}

(* The head is the words before, and what may be a stamp is all of it but  *)
(* the last word.                                                          *)
LEMMA HeadIs ==
  ASSUME NEW w, w \in Seq(Word(w)), ~(Len(HeadWords(w)) < 2)
  PROVE  LET head == HeadWords(w) n == HeadEnd(w)
         IN /\ Dashes(w) # {} /\ n \in Int /\ 3 <= n /\ n <= Len(w) - 1
            /\ head \in Seq(Word(w)) /\ Len(head) = n - 1
            /\ \A i \in 1..(n - 1) : head[i] = w[i]
            /\ Stamps(head) \in Seq(Word(w)) /\ Len(Stamps(head)) = n - 2
            /\ \A i \in 1..(n - 2) : Stamps(head)[i] = w[i]
<1> DEFINE n == HeadEnd(w)
           head == HeadWords(w)
           W == Word(w)
<1>1. Len(w) \in Nat /\ \A i \in 1..Len(w) : w[i] \in W
  BY SMT
<1>2. Dashes(w) # {}
  <2> SUFFICES ASSUME Dashes(w) = {} PROVE FALSE
    OBVIOUS
  <2>1. head = SubSeq(w, 1, -1)
    BY SMT DEF HeadWords, HeadEnd
  <2>2. head = << >>
    BY <2>1, SubSeqEmpty, SMT
  <2> QED
    BY <2>2, SMT
<1>3. n \in Int /\ 2 <= n /\ n <= Len(w) - 1
  BY <1>1, <1>2, HeadIsInTheLine
<1> HIDE DEF n, W
<1> DEFINE k == n - 1
<1>4. k \in Int /\ 1 <= k /\ k <= Len(w)
  BY <1>1, <1>3, SMT
<1>5. head = SubSeq(w, 1, k)
  BY DEF HeadWords, n
<1> HIDE DEF k, head
<1>6. \A i \in 1..k : w[i] \in W
  BY <1>1, <1>4, SMT
<1>7. /\ head \in Seq(W) /\ Len(head) = k
      /\ \A i \in 1..k : head[i] = w[i]
  BY <1>4, <1>5, <1>6, SubSeqProperties, SMT
<1>8. 2 <= k
  BY <1>7 DEF head
<1> DEFINE j == k - 1
           st == Stamps(head)
<1>9. j \in Int /\ 1 <= j /\ j < k
  BY <1>4, <1>8, SMT
<1>10. st = SubSeq(head, 1, j)
  BY <1>7 DEF Stamps
<1> HIDE DEF j, st
<1>11. \A i \in 1..j : head[i] = w[i] /\ head[i] \in W
  BY <1>4, <1>6, <1>7, <1>9, SMT
<1>12. /\ st \in Seq(W) /\ Len(st) = j
       /\ \A i \in 1..j : st[i] = head[i]
  BY <1>9, <1>10, <1>11, SubSeqProperties, SMT
<1>13. /\ st \in Seq(W) /\ Len(st) = n - 2
       /\ \A i \in 1..(n - 2) : st[i] = w[i]
  BY <1>3, <1>11, <1>12, SMT DEF j, k
<1>14. /\ head \in Seq(W) /\ Len(head) = n - 1 /\ 3 <= n
       /\ \A i \in 1..(n - 1) : head[i] = w[i]
  BY <1>3, <1>7, <1>8, SMT DEF k
<1> QED
  BY <1>2, <1>3, <1>13, <1>14 DEF n, head, W, st

(* What is shown of a line that is not passed through.                     *)
LEMMA RecordIs ==
  ASSUME NEW l, NEW zone, ~FormatLogLine(l, zone).passthrough
  PROVE  LET f == FormatLogLine(l, zone) IN
         /\ l.json # None => f.text = JsonTimestamp(l.json)
         /\ l.json = None => /\ ParseConsole(l.words) # None
                             /\ f.text = One(ParseConsole(l.words).stamp)
         /\ f.shown # f.text => /\ zone # None /\ f.text # None
                                /\ f.shown = Restamp(f.text, zone) /\ f.shown # None
<1>1. CASE l.json # None
  BY <1>1 DEF FormatLogLine
<1>2. CASE l.json = None
  <2>1. ParseConsole(l.words) # None
    BY <1>2 DEF FormatLogLine
  <2> QED
    BY <1>2, <2>1 DEF FormatLogLine
<1> QED
  BY <1>1, <1>2

(* What parse_console takes a record from.                                 *)
LEMMA ConsoleIs ==
  ASSUME NEW w, ParseConsole(w) # None
  PROVE  LET head == HeadWords(w) IN
         /\ ~(Len(head) < 2) /\ LooksLikeTimestamp(Stamps(head))
         /\ ParseConsole(w).stamp = Stamps(head)
BY DEF ParseConsole

(* The text of a stamp that is shown is a stamp.                           *)
LEMMA ShownIsAStamp ==
  ASSUME NEW l \in LogLines, ~FormatLogLine(l, l.zone).passthrough,
         FormatLogLine(l, l.zone).text # None
  PROVE  IsStamp(FormatLogLine(l, l.zone).text)
<1> DEFINE f == FormatLogLine(l, l.zone)
           w == l.words
<1>1. CASE l.json # None
  <2>1. f.text \in {l.json.timestamp, l.json.at_timestamp}
    BY <1>1, RecordIs DEF JsonTimestamp
  <2> QED
    BY <1>1, <2>1, TextsAssumption
<1>2. CASE l.json = None
  <2> DEFINE st == Stamps(HeadWords(w))
  <2>1. ParseConsole(w) # None /\ f.text = One(ParseConsole(w).stamp)
    BY <1>2, RecordIs
  <2>2. ~(Len(HeadWords(w)) < 2) /\ LooksLikeTimestamp(st) /\ f.text = One(st)
    BY <2>1, ConsoleIs
  <2>3. w \in Seq(Word(w))
    BY TextsAssumption DEF Word
  <2>6. st \in Seq(Word(w))
    BY <2>2, <2>3, HeadIs
  <2>7. Len(st) = 1 /\ f.text = st[1].stamp
    BY <2>2 DEF One
  <2>8. st[1] \in Word(w)
    <3> HIDE DEF st
    <3>1. 1 \in 1..Len(st)
      BY <2>7, SMT
    <3> QED
      BY <2>6, <3>1, ElementOfSeq
  <2>9. PICK i \in DOMAIN w : st[1] = w[i]
    BY <2>8 DEF Word
  <2>10. IF w[i].is = "stamp" THEN IsStamp(w[i].stamp) ELSE w[i].stamp = None
    BY TextsAssumption
  <2> QED
    BY <2>7, <2>9, <2>10
<1> QED
  BY <1>1, <1>2

(* --tz moves the reading, never the instant.                              *)
LEMMA LineKeepsItsInstant ==
  ASSUME NEW l \in LogLines,
         made = [of |-> "line", from |-> l, into |-> FormatLogLine(l, l.zone)]
  PROVE  SameInstant
<1> DEFINE f == FormatLogLine(l, l.zone)
<1> SUFFICES ASSUME made.of = "line", ~made.into.passthrough, made.into.shown # made.into.text
             PROVE  LET text  == made.into.text
                        shown == made.into.shown
                        was   == ParseTimestamp(text)
                        is    == ParseTimestamp(shown)
                    IN /\ ~Panics(text) =>
                            /\ is # None /\ is.kind = was.kind
                            /\ IF was.kind = "absolute" THEN Shift(is.at, -shown.offset) = was.at
                               ELSE (is.at.ms - shown.offset - was.at.ms) % DAY_MS = 0
                       /\ (shown.ms = None) <=> (text.ms = None)
                       /\ shown.ms # None => /\ shown.ms.sep = text.ms.sep
                                             /\ text.zs <= 1 => shown.ms.width = text.ms.width
                       /\ shown.date # None => shown.sep = text.sep
  BY DEF SameInstant
<1>1. made.into = f
  OBVIOUS
<1> DEFINE s == f.text
           zone == l.zone
<1>2. /\ zone # None /\ s # None /\ f.shown = Restamp(s, zone) /\ Restamp(s, zone) # None
  BY <1>1, RecordIs
<1>3. IsStamp(s)
  BY <1>1, <1>2, ShownIsAStamp
<1>4. IsZone(zone)
  BY <1>2, TextsAssumption
<1> HIDE DEF s, zone, f
<1>5. ParseTimestamp(s) # None
  BY <1>2 DEF Restamp
<1>6. ~Panics(s) => LET was == ParseTimestamp(s) is == ParseTimestamp(f.shown) IN
                    /\ is # None /\ is.kind = was.kind
                    /\ IF was.kind = "absolute" THEN Shift(is.at, -f.shown.offset) = was.at
                       ELSE (is.at.ms - f.shown.offset - was.at.ms) % DAY_MS = 0
  <2> SUFFICES ASSUME ~Panics(s)
               PROVE  LET was == ParseTimestamp(s) is == ParseTimestamp(f.shown) IN
                      /\ is # None /\ is.kind = was.kind
                      /\ IF was.kind = "absolute" THEN Shift(is.at, -f.shown.offset) = was.at
                         ELSE (is.at.ms - f.shown.offset - was.at.ms) % DAY_MS = 0
    OBVIOUS
  <2>1. CASE s.date = None
    <3>1. "time_of_day" # "absolute"
      OBVIOUS
    <3> QED
      BY <1>2, <1>3, <1>4, <1>5, <2>1, <3>1, ClockIsTurned
  <2>2. CASE s.date # None
    BY <1>2, <1>3, <1>4, <1>5, <2>2, InstantIsKept
  <2> QED
    BY <2>1, <2>2
<1>7. \E date, t, o :
        /\ t \in Int /\ 0 <= t /\ t < 86400000 /\ WholeMinutes(o)
        /\ Restamp(s, zone) = Written(s, date, t, o)
  <2> DEFINE stamp  == ParseTimestamp(s)
             o      == IF s.date = None THEN zone.today ELSE ToOffset(zone, stamp.at)
             n      == stamp.at.ms + o
             date   == IF s.date = None THEN None ELSE CivilFromDays(Shift(stamp.at, o).day)
  <2>1. Restamp(s, zone) = Written(s, date, Shift(stamp.at, o).ms, o)
    BY <1>5 DEF Restamp
  <2>2. WholeMinutes(o) /\ o \in Int
    BY <1>4, SMT DEF IsZone, WholeMinutes, ToOffset
  <2>3. stamp.at.ms \in Int
    <3>1. CASE s.date = None
      <4>1. stamp.at.ms = TimeOfDayMs(s) /\ HasFraction(TimeOfDayMs(s), Fraction(s))
        BY <1>3, <1>5, <3>1, StampIsRead, TimeOfDayIs
      <4> QED
        BY <4>1, SMT DEF HasFraction
    <3>2. CASE s.date # None
      <4>1. IsInstant(stamp.at)
        BY <1>3, <1>5, <3>2, StampIsRead
      <4> QED
        BY <4>1, SMT DEF IsInstant
    <3> QED
      BY <3>1, <3>2
  <2>4. Shift(stamp.at, o).ms = n % DAY_MS
    BY DEF Shift, Instant
  <2> HIDE DEF stamp, o, date
  <2>5. n \in Int
    BY <2>2, <2>3, SMT
  <2> HIDE DEF n
  <2>6. n % DAY_MS \in Int /\ 0 <= n % DAY_MS /\ n % DAY_MS < 86400000
    BY <2>5, DayParts, SMT
  <2>7. Restamp(s, zone) = Written(s, date, n % DAY_MS, o)
    BY <2>1, <2>4
  <2> DEFINE t == n % DAY_MS
  <2> HIDE DEF t
  <2>8. t \in Int /\ 0 <= t /\ t < 86400000 /\ Restamp(s, zone) = Written(s, date, t, o)
    BY <2>6, <2>7, SMT DEF t
  <2> QED
    BY <2>2, <2>8, SMT
<1>8. TimeOfDayMs(s) # None
  BY <1>3, <1>5, StampIsRead
<1>9. LET w == f.shown
      IN /\ w.sep = s.sep
         /\ w.ms = None <=> s.ms = None
         /\ s.ms # None => w.ms.sep = s.ms.sep /\ (s.zs <= 1 => w.ms.width = s.ms.width)
  <2>1. PICK date, t, o : /\ t \in Int /\ 0 <= t /\ t < 86400000 /\ WholeMinutes(o)
                           /\ Restamp(s, zone) = Written(s, date, t, o)
    BY <1>7
  <2> DEFINE w == Written(s, date, t, o)
  <2>2. /\ w.sep = s.sep
        /\ w.ms = None <=> s.ms = None
        /\ s.ms # None => w.ms.sep = s.ms.sep /\ (s.zs <= 1 => w.ms.width = s.ms.width)
    BY <1>3, <1>8, <2>1, WrittenParts, SMT
  <2> HIDE DEF w
  <2>3. f.shown = w
    BY <1>2, <2>1, SMT DEF w
  <2> QED
    BY <2>2, <2>3
<1> QED
  BY <1>1, <1>6, <1>9 DEF s

(* What a made conversion is of, and what it came to.                      *)
MadeInv ==
  \/ made = Nothing
  \/ \E x \in Samples : made = [of |-> "sample", from |-> x, into |-> ParseLine(Reported(x))]
  \/ \E p \in Pages : made = [of   |-> "page", from |-> p,
                             into |-> ParseExposition([k \in DOMAIN p |-> Reported(p[k])])]
  \/ \E l \in LogLines : made = [of |-> "line", from |-> l, into |-> FormatLogLine(l, l.zone)]
  \/ \E p \in Prints : made = [of |-> "print", from |-> p, into |-> Sanitize(p)]
  \/ \E d \in Days : made = [of |-> "day", from |-> d, into |-> CivilFromDays(d)]

LEMMA MadeInvariant == TextsSpec => []MadeInv
<1>1. TextsInit => MadeInv
  BY DEF TextsInit, MadeInv
<1>2. MadeInv /\ [TextsNext]_textVars => MadeInv'
  <2> SUFFICES ASSUME MadeInv, [TextsNext]_textVars PROVE MadeInv'
    OBVIOUS
  <2>1. CASE made' = made
    BY <2>1 DEF MadeInv, Nothing
  <2>2. CASE ReadSample
    BY <2>2 DEF ReadSample, Make, MadeInv
  <2>3. CASE ReadPage
    BY <2>3 DEF ReadPage, Make, MadeInv
  <2>4. CASE ShowLine
    BY <2>4 DEF ShowLine, Make, MadeInv
  <2>5. CASE PrintText
    BY <2>5 DEF PrintText, Make, MadeInv
  <2>6. CASE CountDay
    BY <2>6 DEF CountDay, Make, MadeInv
  <2>7. CASE RedactLine \/ UNCHANGED textVars
    BY <2>1, <2>7 DEF RedactLine, textVars
  <2> QED
    BY <2>2, <2>3, <2>4, <2>5, <2>6, <2>7 DEF TextsNext
<1> QED
  BY <1>1, <1>2, PTL DEF TextsSpec

(* A conversion of a kind has been made of one of the texts of that kind.  *)
LEMMA MadeIs ==
  ASSUME MadeInv
  PROVE  /\ made.of = "line" =>
              \E l \in LogLines : made = [of |-> "line", from |-> l, into |-> FormatLogLine(l, l.zone)]
         /\ made.of = "print" =>
              \E p \in Prints : made = [of |-> "print", from |-> p, into |-> Sanitize(p)]
         /\ made.of = "day" =>
              \E d \in Days : made = [of |-> "day", from |-> d, into |-> CivilFromDays(d)]
         /\ made.of \in {"nothing", "sample", "page", "line", "print", "day"}
<1>1. \A of, f, t : made = [of |-> of, from |-> f, into |-> t] => made.of = of
  OBVIOUS
<1>2. made.of = "line" =>
        \E l \in LogLines : made = [of |-> "line", from |-> l, into |-> FormatLogLine(l, l.zone)]
  BY <1>1, Zenon DEF MadeInv, Nothing
<1>3. made.of = "print" =>
        \E p \in Prints : made = [of |-> "print", from |-> p, into |-> Sanitize(p)]
  BY <1>1, Zenon DEF MadeInv, Nothing
<1>4. made.of = "day" =>
        \E d \in Days : made = [of |-> "day", from |-> d, into |-> CivilFromDays(d)]
  BY <1>1, Zenon DEF MadeInv, Nothing
<1>5. made.of \in {"nothing", "sample", "page", "line", "print", "day"}
  BY <1>1, Zenon DEF MadeInv, Nothing
<1> QED
  BY <1>2, <1>3, <1>4, <1>5

(* Under --tz the reading moves and the instant stays, and a day has the   *)
(* date that the Gregorian calendar gives it, whatever the line, the zone  *)
(* and the day.                                                            *)
THEOREM DatesAreAlwaysRight == TextsSpec => []DatesAreRight
<1>1. MadeInv => SameInstant
  <2> SUFFICES ASSUME MadeInv, made.of = "line" PROVE SameInstant
    BY DEF SameInstant
  <2>1. \E l \in LogLines : made = [of |-> "line", from |-> l, into |-> FormatLogLine(l, l.zone)]
    BY MadeIs
  <2> QED
    BY <2>1, LineKeepsItsInstant
<1>2. MadeInv => CalendarIsGregorian
  <2> SUFFICES ASSUME MadeInv, made.of = "day" PROVE CalendarIsGregorian
    BY DEF CalendarIsGregorian
  <2>1. PICK d \in Days : made = [of |-> "day", from |-> d, into |-> CivilFromDays(d)]
    BY MadeIs
  <2>2. d \in Int /\ made.from = d /\ made.into = CivilFromDays(d)
    BY <2>1, TextsAssumption
  <2>3. /\ CivilFromDays(d + 1) = DayAfter(CivilFromDays(d))
        /\ DaysFromCivil(CivilFromDays(d)[1], CivilFromDays(d)[2], CivilFromDays(d)[3]) = d
    BY <2>2, DaysAreGregorian
  <2>4. d = 0 => CivilFromDays(d) = <<1970, 1, 1>>
    BY EpochIsDayZero, SMT
  <2> QED
    BY <2>2, <2>3, <2>4, SMT DEF CalendarIsGregorian
<1> QED
  BY <1>1, <1>2, MadeInvariant, PTL DEF DatesAreRight

(* A line is ordered by the stamp that is shown with it: the merger and    *)
(* the formatter find the same one.                                        *)
THEOREM LinesAreDatedAsShown == TextsSpec => []DatedAsShown
<1>1. MadeInv => DatedAsShown
  <2> SUFFICES ASSUME MadeInv, made.of = "line", ~made.into.passthrough, made.into.text # None
               PROVE  LeadingTimestamp(made.from) = ParseTimestamp(made.into.text)
    BY DEF DatedAsShown
  <2>1. PICK l \in LogLines : made = [of |-> "line", from |-> l, into |-> FormatLogLine(l, l.zone)]
    BY MadeIs
  <2> DEFINE f == FormatLogLine(l, l.zone)
  <2>2. made.from = l /\ made.into = f
    BY <2>1
  <2> HIDE DEF f
  <2>3. CASE l.json # None
    <3>1. f.text = JsonTimestamp(l.json)
      BY <2>2, <2>3, RecordIs DEF f
    <3>2. LeadingTimestamp(l) = ParseTimestamp(JsonTimestamp(l.json))
      BY <2>2, <2>3, <3>1, SMT DEF LeadingTimestamp, DatedBy
    <3> QED
      BY <2>2, <3>1, <3>2
  <2>4. CASE l.json = None
    <3>1. ParseConsole(l.words) # None /\ f.text = One(ParseConsole(l.words).stamp)
      BY <2>2, <2>4, RecordIs DEF f
    <3>2. ~(Len(HeadWords(l.words)) < 2) /\ f.text = One(Stamps(HeadWords(l.words)))
      BY <3>1, ConsoleIs
    <3>3. LeadingTimestamp(l) = ParseTimestamp(One(Stamps(HeadWords(l.words))))
      BY <2>2, <2>4, <3>2, SMT DEF LeadingTimestamp, DatedBy
    <3> QED
      BY <2>2, <3>2, <3>3
  <2> QED
    BY <2>3, <2>4
<1> QED
  BY <1>1, MadeInvariant, PTL

(* A line as Teku's console layout writes it.                              *)
Console(w) ==
  /\ Len(w) > 3 /\ w[3].is = "dash" /\ w[2].is \in LEVELS
  /\ w[1].is = "stamp" /\ Plain(w[1].stamp)

LEMMA ConsoleHead ==
  ASSUME NEW w, w \in Seq(Word(w)), Console(w)
  PROVE  /\ HeadEnd(w) = 3
         /\ HeadWords(w) = <<w[1], w[2]>> /\ Stamps(HeadWords(w)) = <<w[1]>>
<1>1. Len(w) \in Int /\ Len(w) > 3
  BY SMT DEF Console
<1>2. 3 \in Dashes(w) /\ 2 \notin Dashes(w)
  BY <1>1, SMT DEF Console, Dashes, LEVELS
<1>3. HeadEnd(w) \in Dashes(w) /\ HeadEnd(w) <= 3 /\ HeadEnd(w) \in Int /\ 2 <= HeadEnd(w)
  <2>1. Len(w) \in Nat /\ Dashes(w) # {}
    BY <1>1, <1>2, SMT
  <2> QED
    BY <1>2, <2>1, HeadIsInTheLine
<1>4. HeadEnd(w) = 3
  BY <1>2, <1>3, SMT
<1>5. HeadWords(w) = SubSeq(w, 1, 2)
  BY <1>4, SMT DEF HeadWords
<1> DEFINE W == Word(w)
<1>6. /\ HeadWords(w) \in Seq(W) /\ Len(HeadWords(w)) = 2
      /\ HeadWords(w)[1] = w[1] /\ HeadWords(w)[2] = w[2]
  <2>1. \A i \in 1..2 : w[i] \in W
    BY <1>1, SMT DEF Word
  <2> HIDE DEF W
  <2>2. /\ SubSeq(w, 1, 2) \in Seq(W) /\ Len(SubSeq(w, 1, 2)) = 2
        /\ \A i \in 1..2 : SubSeq(w, 1, 2)[i] = w[i]
    BY <2>1, SubSeqProperties, SMT
  <2> QED
    BY <1>5, <2>2, SMT
<1>7. HeadWords(w) = <<w[1], w[2]>>
  <2> HIDE DEF W
  <2> QED
    BY <1>6, SMT
<1>8. Stamps(HeadWords(w)) = SubSeq(HeadWords(w), 1, 1)
  BY <1>6, SMT DEF Stamps
<1>9. Stamps(HeadWords(w)) = <<w[1]>>
  <2> HIDE DEF W
  <2> DEFINE h == HeadWords(w)
  <2>1. \A i \in 1..1 : h[i] \in {w[1]}
    BY <1>6, SMT
  <2> HIDE DEF h
  <2>2. /\ SubSeq(h, 1, 1) \in Seq({w[1]}) /\ Len(SubSeq(h, 1, 1)) = 1
        /\ \A i \in 1..1 : SubSeq(h, 1, 1)[i] = h[i]
    BY <2>1, SubSeqProperties, SMT
  <2>3. SubSeq(h, 1, 1) = <<w[1]>>
    <3> DEFINE g == SubSeq(h, 1, 1)
               S == {w[1]}
    <3>1. g \in Seq(S) /\ Len(g) = 1 /\ g[1] = w[1]
      BY <2>1, <2>2, SMT
    <3> HIDE DEF g, S
    <3>2. g = <<w[1]>>
      BY <3>1, SMT
    <3> QED
      BY <3>2 DEF g
  <2> QED
    BY <1>8, <2>3 DEF h
<1> QED
  BY <1>4, <1>7, <1>9

(* A console line is shown with its level and all of its message.          *)
THEOREM MessagesAreWhole == TextsSpec => []MessageIsWhole
<1>1. MadeInv => MessageIsWhole
  <2> SUFFICES ASSUME MadeInv, made.of = "line", made.from.json = None, Console(made.from.words)
               PROVE  LET w == made.from.words IN
                      /\ ~made.into.passthrough
                      /\ made.into.level = w[2].is /\ made.into.text = w[1].stamp
                      /\ made.into.message = SubSeq(w, 4, Len(w))
    BY DEF MessageIsWhole, Console
  <2>1. PICK l \in LogLines : made = [of |-> "line", from |-> l, into |-> FormatLogLine(l, l.zone)]
    BY MadeIs
  <2> DEFINE f == FormatLogLine(l, l.zone)
             w == l.words
  <2>2. made.from = l /\ made.into = f /\ l.json = None /\ Console(w)
    BY <2>1
  <2>3. w \in Seq(Word(w))
    BY TextsAssumption DEF Word
  <2>4. /\ HeadEnd(w) = 3
        /\ HeadWords(w) = <<w[1], w[2]>> /\ Stamps(HeadWords(w)) = <<w[1]>>
    BY <2>2, <2>3, ConsoleHead
  <2> DEFINE rest == SubSeq(w, 4, Len(w))
             record == [stamp |-> <<w[1]>>, level |-> w[2].is, message |-> rest]
  <2>5. LooksLikeTimestamp(<<w[1]>>)
    BY <2>2, SMT DEF LooksLikeTimestamp, Console
  <2>6. ParseConsole(w) = record
    <3>1. /\ Len(HeadWords(w)) = 2 /\ HeadWords(w)[2].is \in LEVELS
      BY <2>2, <2>4, SMT DEF Console
    <3>2. SubSeq(w, HeadEnd(w) + 1, Len(w)) = rest
      BY <2>4, SMT
    <3>3. /\ HeadWords(w)[Len(HeadWords(w))].is \in LEVELS
          /\ HeadWords(w)[Len(HeadWords(w))].is = w[2].is
      BY <2>4, <3>1, SMT
    <3>4. ~(Len(HeadWords(w)) < 2)
      BY <3>1, SMT
    <3> QED
      BY <2>4, <2>5, <3>2, <3>3, <3>4, Zenon DEF ParseConsole
  <2>7. record # None
    <3>1. w[2].is \in LEVELS /\ <<w[1]>> \in Seq(Word(w)) /\ rest \in Seq(Word(w))
      <4>1. Len(w) \in Int /\ \A i \in 4..Len(w) : w[i] \in Word(w)
        BY <2>3, SMT DEF Word
      <4>2. rest \in Seq(Word(w))
        BY <4>1, SubSeqProperties, SMT
      <4>3. w[1] \in Word(w)
        BY <2>2, <2>3, SMT DEF Console, Word
      <4> QED
        BY <2>2, <4>2, <4>3, SMT DEF Console
    <3>2. record \in [stamp : Seq(Word(w)), level : LEVELS, message : Seq(Word(w))]
      BY <3>1
    <3>3. None \notin [stamp : Seq(Word(w)), level : LEVELS, message : Seq(Word(w))]
      BY TextsAssumption DEF Word
    <3> QED
      BY <3>2, <3>3
  <2>8. /\ ~f.passthrough /\ f.level = record.level /\ f.text = One(record.stamp)
        /\ f.message = record.message
    <3> HIDE DEF record
    <3> QED
      BY <2>2, <2>6, <2>7 DEF FormatLogLine
  <2>9. One(<<w[1]>>) = w[1].stamp
    BY SMT DEF One
  <2> QED
    BY <2>2, <2>8, <2>9
<1> QED
  BY <1>1, MadeInvariant, PTL

-----------------------------------------------------------------------------
(* Induction over the positions of a text, from its end.                   *)
LEMMA FromTheEnd ==
  ASSUME NEW n \in Nat, NEW T, n + 1 \in T,
         \A i \in 1..n : (\A j \in (i + 1)..(n + 1) : j \in T) => i \in T
  PROVE  \A i \in 1..(n + 1) : i \in T
<1> DEFINE B == {k \in 0..n : (n + 1) - k \notin T}
<1>1. SUFFICES ASSUME B # {} PROVE FALSE
  <2> SUFFICES ASSUME NEW i \in 1..(n + 1), i \notin T PROVE FALSE
    OBVIOUS
  <2>1. (n + 1) - ((n + 1) - i) = i /\ (n + 1) - i \in 0..n
    BY SMT
  <2>2. (n + 1) - i \in B
    BY <2>1
  <2> QED
    BY <1>1, <2>2
<1>2. B \in SUBSET Nat
  BY SMT
<1> DEFINE k == Min(B)
           i == (n + 1) - k
<1>3. k \in B /\ \A y \in B : k <= y
  BY <1>1, <1>2, LeastNumber
<1> HIDE DEF k
<1>4. k \in 0..n /\ i \notin T
  BY <1>3
<1>5. k # 0
  BY <1>4, SMT
<1>6. i \in 1..n
  BY <1>4, <1>5, SMT
<1>7. ASSUME NEW j \in (i + 1)..(n + 1) PROVE j \in T
  <2>1. (n + 1) - j \in 0..n /\ (n + 1) - j < k /\ (n + 1) - ((n + 1) - j) = j
    BY <1>4, SMT
  <2>2. (n + 1) - j \notin B
    BY <1>3, <2>1, SMT
  <2> QED
    BY <2>1, <2>2
<1> QED
  BY <1>4, <1>6, <1>7

(* A loop that only goes forward comes to its end, and what it writes is   *)
(* what it says, one after the other.                                      *)
GoesForward(S, n, said, next) ==
  /\ n \in Nat /\ said \in [1..n -> Seq(S)] /\ next \in [1..n -> Int]
  /\ \A i \in 1..n : i < next[i] /\ next[i] <= n + 1

Walked(S, n, said, next, w) ==
  /\ \A i \in 1..(n + 1) : w[i] \in Seq(S)
  /\ w[n + 1] = <<>>
  /\ \A i \in 1..n : w[i] = said[i] \o w[next[i]]

LEMMA WalkIs ==
  ASSUME NEW S, NEW n, NEW said, NEW next, GoesForward(S, n, said, next)
  PROVE  Walked(S, n, said, next, Walk(n, said, next))
<1> DEFINE Val(f, i) == IF i > n THEN <<>> ELSE said[i] \o f[next[i]]
           Good(k) == \E f : f = [i \in k..(n + 1) |-> Val(f, i)]
           T == {k \in 1..(n + 1) : Good(k)}
<1>1. n \in Nat /\ \A i \in 1..n : next[i] \in (i + 1)..(n + 1)
  BY SMT DEF GoesForward
<1>2. n + 1 \in T
  <2> DEFINE f == [i \in (n + 1)..(n + 1) |-> <<>>]
  <2>1. \A i \in (n + 1)..(n + 1) : Val(f, i) = <<>>
    BY <1>1, SMT
  <2>2. f = [i \in (n + 1)..(n + 1) |-> Val(f, i)]
    BY <2>1
  <2>3. Good(n + 1)
    BY <2>2
  <2>4. n + 1 \in 1..(n + 1)
    BY <1>1, SMT
  <2> QED
    BY <2>3, <2>4
<1>3. ASSUME NEW i \in 1..n, \A j \in (i + 1)..(n + 1) : j \in T
      PROVE  i \in T
  <2>1. i + 1 \in (i + 1)..(n + 1) /\ i \in 1..(n + 1)
    BY <1>1, SMT
  <2>2. Good(i + 1)
    BY <1>3, <2>1
  <2>3. PICK f : f = [j \in (i + 1)..(n + 1) |-> Val(f, j)]
    BY <2>2
  <2> DEFINE g == [j \in i..(n + 1) |-> IF j = i THEN said[i] \o f[next[i]] ELSE f[j]]
  <2>4. ASSUME NEW j \in i..(n + 1) PROVE g[j] = Val(g, j)
    <3>1. CASE j = i
      <4>1. next[i] \in i..(n + 1) /\ next[i] # i /\ ~(i > n)
        BY <1>1, SMT
      <4>2. g[next[i]] = f[next[i]]
        BY <4>1
      <4>3. g[j] = said[i] \o f[next[i]]
        BY <3>1
      <4> QED
        BY <3>1, <4>1, <4>2, <4>3
    <3>2. CASE j # i
      <4>1. j \in (i + 1)..(n + 1)
        BY <1>1, <3>2, SMT
      <4>2. g[j] = f[j] /\ f[j] = Val(f, j)
        BY <2>3, <3>2, <4>1
      <4>3. CASE j > n
        BY <4>2, <4>3
      <4>4. CASE ~(j > n)
        <5>1. j \in 1..n
          BY <1>1, <4>1, <4>4, SMT
        <5>2. next[j] \in i..(n + 1) /\ next[j] # i
          BY <1>1, <4>1, <5>1, SMT
        <5>3. g[next[j]] = f[next[j]]
          BY <5>2
        <5> QED
          BY <4>2, <4>4, <5>3
      <4> QED
        BY <4>3, <4>4
    <3> QED
      BY <3>1, <3>2
  <2>5. g = [j \in i..(n + 1) |-> Val(g, j)]
    <3> DEFINE h == [j \in i..(n + 1) |-> Val(g, j)]
    <3>1. \A j \in i..(n + 1) : g[j] = h[j]
      BY <2>4
    <3> QED
      BY <3>1
  <2>6. Good(i)
    BY <2>5
  <2> QED
    BY <2>1, <2>6
<1>4. 1 \in T
  <2> HIDE DEF T
  <2>1. \A i \in 1..(n + 1) : i \in T
    BY <1>1, <1>2, <1>3, FromTheEnd
  <2> QED
    BY <1>1, <2>1, SMT
<1> DEFINE w == Walk(n, said, next)
<1>5. w = CHOOSE f : f = [i \in 1..(n + 1) |-> Val(f, i)]
  BY DEF Walk
<1>6. w = [i \in 1..(n + 1) |-> Val(w, i)]
  <2>1. \E f : f = [i \in 1..(n + 1) |-> Val(f, i)]
    BY <1>4
  <2> HIDE DEF w
  <2> QED
    BY <1>5, <2>1
<1> HIDE DEF w
<1>7. \A i \in 1..(n + 1) : w[i] = Val(w, i)
  <2> SUFFICES ASSUME NEW i \in 1..(n + 1) PROVE w[i] = Val(w, i)
    OBVIOUS
  <2> DEFINE h == [k \in 1..(n + 1) |-> Val(w, k)]
  <2>1. h[i] = Val(w, i)
    OBVIOUS
  <2>2. w = h
    BY <1>6
  <2> HIDE DEF h
  <2> QED
    BY <2>1, <2>2
<1>8. w[n + 1] = <<>>
  <2>1. n + 1 \in 1..(n + 1) /\ n + 1 > n
    BY <1>1, SMT
  <2> QED
    BY <1>7, <2>1
<1>9. \A i \in 1..n : w[i] = said[i] \o w[next[i]]
  <2> SUFFICES ASSUME NEW i \in 1..n PROVE w[i] = said[i] \o w[next[i]]
    OBVIOUS
  <2>1. i \in 1..(n + 1) /\ ~(i > n)
    BY <1>1, SMT
  <2> QED
    BY <1>7, <2>1
<1>10. \A i \in 1..(n + 1) : w[i] \in Seq(S)
  <2> DEFINE Q == {i \in 1..(n + 1) : w[i] \in Seq(S)}
  <2>1. n + 1 \in Q
    <3>1. <<>> \in Seq(S) /\ n + 1 \in 1..(n + 1)
      BY <1>1, SMT
    <3> QED
      BY <1>8, <3>1
  <2>2. ASSUME NEW i \in 1..n, \A j \in (i + 1)..(n + 1) : j \in Q
        PROVE  i \in Q
    <3>1. next[i] \in (i + 1)..(n + 1) /\ said[i] \in Seq(S) /\ i \in 1..(n + 1)
      BY <1>1, SMT DEF GoesForward
    <3>2. w[next[i]] \in Seq(S)
      BY <2>2, <3>1
    <3>3. w[i] \in Seq(S)
      BY <1>9, <3>1, <3>2, ConcatProperties
    <3> QED
      BY <3>1, <3>3
  <2> HIDE DEF Q
  <2>3. \A i \in 1..(n + 1) : i \in Q
    BY <1>1, <2>1, <2>2, FromTheEnd
  <2> QED
    BY <2>3 DEF Q
<1> QED
  BY <1>8, <1>9, <1>10 DEF w, Walked

(* Where a run ends: only there.                                           *)
InRun(s, from, range, j) ==
  /\ j \in from..(Len(s) + 1)
  /\ j = Len(s) + 1 \/ s[j] \notin range
  /\ \A i \in from..(j - 1) : s[i] \in range

LEMMA RunEndIs ==
  ASSUME NEW s, Len(s) \in Nat, NEW from \in 1..(Len(s) + 1), NEW range
  PROVE  /\ InRun(s, from, range, RunEnd(s, from, range))
         /\ \A j : InRun(s, from, range, j) => RunEnd(s, from, range) = j
<1> DEFINE n == Len(s)
           B == {j \in from..(n + 1) : j = n + 1 \/ s[j] \notin range}
           m == Min(B)
<1>1. n + 1 \in B /\ B \in SUBSET Nat
  BY SMT
<1>2. m \in B /\ \A y \in B : m <= y
  BY <1>1, LeastNumber
<1> HIDE DEF m
<1>3. \A i \in from..(m - 1) : s[i] \in range
  <2> SUFFICES ASSUME NEW i \in from..(m - 1), s[i] \notin range PROVE FALSE
    OBVIOUS
  <2>1. i \in from..(n + 1) /\ i < m
    BY <1>2, SMT
  <2>2. i \in B
    BY <2>1
  <2> QED
    BY <1>2, <2>1, <2>2, SMT
<1>4. InRun(s, from, range, m)
  BY <1>2, <1>3 DEF InRun
<1>5. \E j \in from..(n + 1) : (j = n + 1 \/ s[j] \notin range) /\ \A i \in from..(j - 1) : s[i] \in range
  BY <1>4 DEF InRun
<1> DEFINE e == RunEnd(s, from, range)
<1>6. e \in from..(n + 1) /\ (e = n + 1 \/ s[e] \notin range) /\ \A i \in from..(e - 1) : s[i] \in range
  BY <1>5 DEF RunEnd
<1>7. InRun(s, from, range, e)
  BY <1>6 DEF InRun
<1> HIDE DEF e
<1>8. ASSUME NEW j, InRun(s, from, range, j) PROVE e = j
  <2>1. j \in from..(n + 1) /\ (j = n + 1 \/ s[j] \notin range) /\ \A i \in from..(j - 1) : s[i] \in range
    BY <1>8 DEF InRun
  <2>2. ~(e < j)
    BY <1>6, <2>1, SMT
  <2>3. ~(j < e)
    BY <1>6, <2>1, SMT
  <2> QED
    BY <1>6, <2>1, <2>2, <2>3, SMT
<1> QED
  BY <1>7, <1>8 DEF e

(* The two runs after an introducer.                                       *)
LEMMA SequenceIs ==
  ASSUME NEW s \in Seq(Char), NEW i \in 1..Len(s), Introduced(s, i)
  PROVE  LET p == RunEnd(s, i + 2, Parameter)
             q == RunEnd(s, p, Intermediate)
         IN /\ Len(s) \in Nat /\ i + 2 \in 1..(Len(s) + 1)
            /\ InRun(s, i + 2, Parameter, p) /\ p \in 1..(Len(s) + 1)
            /\ InRun(s, p, Intermediate, q) /\ q \in 1..(Len(s) + 1)
            /\ i + 2 <= p /\ p <= q
<1> DEFINE p == RunEnd(s, i + 2, Parameter)
           q == RunEnd(s, p, Intermediate)
<1>1. Len(s) \in Nat /\ i < Len(s)
  BY DEF Introduced
<1>2. i + 2 \in 1..(Len(s) + 1)
  BY <1>1, SMT
<1>3. InRun(s, i + 2, Parameter, p)
  BY <1>1, <1>2, RunEndIs
<1>4. p \in 1..(Len(s) + 1) /\ i + 2 <= p
  BY <1>2, <1>3, SMT DEF InRun
<1> HIDE DEF p
<1>5. InRun(s, p, Intermediate, q)
  BY <1>1, <1>4, RunEndIs
<1>6. q \in 1..(Len(s) + 1) /\ p <= q
  BY <1>4, <1>5, SMT DEF InRun
<1> QED
  BY <1>1, <1>2, <1>3, <1>4, <1>5, <1>6 DEF p

CanBeRead(c) == c \in {"TAB", "text"}

LEMMA FinalIs ==
  ASSUME NEW s \in Seq(Char), NEW i \in 1..Len(s), Introduced(s, i),
         FindCsiFinal(s, i + 2) # 0
  PROVE  LET f == FindCsiFinal(s, i + 2)
         IN /\ f \in Int /\ i + 2 <= f /\ f <= Len(s)
            /\ \A j \in i..f : ~CanBeRead(s[j])
<1> DEFINE p == RunEnd(s, i + 2, Parameter)
           q == RunEnd(s, p, Intermediate)
<1>1. /\ Len(s) \in Nat /\ i + 2 \in 1..(Len(s) + 1)
      /\ InRun(s, i + 2, Parameter, p) /\ p \in 1..(Len(s) + 1)
      /\ InRun(s, p, Intermediate, q) /\ q \in 1..(Len(s) + 1)
      /\ i + 2 <= p /\ p <= q
  BY SequenceIs
<1>2. FindCsiFinal(s, i + 2) = q /\ q <= Len(s) /\ s[q] \in Final
  BY DEF FindCsiFinal
<1> HIDE DEF p, q
<1>3. ASSUME NEW j \in i..q PROVE ~CanBeRead(s[j])
  <2>1. s[i] = "ESC" /\ s[i + 1] = "bracket"
    BY DEF Introduced
  <2>2. j = i \/ j = i + 1 \/ j \in (i + 2)..(p - 1) \/ j \in p..(q - 1) \/ j = q
    BY <1>1, SMT
  <2>3. s[j] \in {"ESC", "bracket"} \cup Parameter \cup Intermediate \cup Final
    BY <1>1, <1>2, <2>1, <2>2 DEF InRun
  <2> QED
    BY <2>3, SMT DEF CanBeRead, Parameter, Intermediate, Final
<1> QED
  BY <1>1, <1>2, <1>3, SMT

-----------------------------------------------------------------------------
(* What sanitize writes.                                                   *)
Harmless == {c \in Char : IsSafe(c)} \cup {"replacement"}
Cleaned(s) ==
  Walk(Len(s), [i \in DOMAIN s |-> Said(s, i)], [i \in DOMAIN s |-> After(s, i)])

LEMMA AfterIs ==
  ASSUME NEW s \in Seq(Char), NEW i \in 1..Len(s)
  PROVE  After(s, i) \in Int /\ i < After(s, i) /\ After(s, i) <= Len(s) + 1
<1>1. Len(s) \in Nat
  OBVIOUS
<1>2. CASE ~Introduced(s, i)
  BY <1>1, <1>2, SMT DEF After
<1>3. CASE Introduced(s, i) /\ FindCsiFinal(s, i + 2) # 0
  <2>1. FindCsiFinal(s, i + 2) \in Int /\ i + 2 <= FindCsiFinal(s, i + 2) /\ FindCsiFinal(s, i + 2) <= Len(s)
    BY <1>3, FinalIs
  <2>2. After(s, i) = FindCsiFinal(s, i + 2) + 1
    BY <1>3 DEF After
  <2> QED
    BY <1>1, <2>1, <2>2, SMT
<1>4. CASE Introduced(s, i) /\ FindCsiFinal(s, i + 2) = 0
  <2>1. After(s, i) = i + 2 /\ i < Len(s)
    BY <1>4 DEF After, Introduced
  <2> QED
    BY <1>1, <2>1, SMT
<1> QED
  BY <1>2, <1>3, <1>4

LEMMA SaidIs ==
  ASSUME NEW s \in Seq(Char), NEW i \in 1..Len(s)
  PROVE  Said(s, i) \in Seq(Harmless)
<1>1. s[i] \in Char
  BY ElementOfSeq
<1> DEFINE c == IF IsSafe(s[i]) THEN s[i] ELSE "replacement"
<1>2. c \in Harmless /\ "replacement" \in Harmless
  BY <1>1 DEF Harmless
<1>3. Said(s, i) = <<c>> \/ Said(s, i) = <<>> \/ Said(s, i) = <<"replacement">>
  BY DEF Said
<1> HIDE DEF c
<1>4. \A x \in Harmless : <<x>> \in Seq(Harmless)
  OBVIOUS
<1>5. <<>> \in Seq(Harmless)
  OBVIOUS
<1> QED
  BY <1>2, <1>3, <1>4, <1>5, Zenon

LEMMA CleanedIs ==
  ASSUME NEW s \in Seq(Char)
  PROVE  /\ Len(s) \in Nat
         /\ \A i \in 1..(Len(s) + 1) : Cleaned(s)[i] \in Seq(Harmless)
         /\ Cleaned(s)[Len(s) + 1] = <<>>
         /\ \A i \in 1..Len(s) : Cleaned(s)[i] = Said(s, i) \o Cleaned(s)[After(s, i)]
<1> DEFINE n == Len(s)
           said == [i \in 1..n |-> Said(s, i)]
           next == [i \in 1..n |-> After(s, i)]
<1>1. n \in Nat /\ DOMAIN s = 1..n
  OBVIOUS
<1>2. Cleaned(s) = Walk(n, said, next)
  BY <1>1 DEF Cleaned
<1>3. GoesForward(Harmless, n, said, next)
  <2>1. \A i \in 1..n : /\ said[i] = Said(s, i) /\ said[i] \in Seq(Harmless)
                        /\ next[i] = After(s, i) /\ next[i] \in Int /\ i < next[i] /\ next[i] <= n + 1
    BY SaidIs, AfterIs
  <2>2. said \in [1..n -> Seq(Harmless)] /\ next \in [1..n -> Int]
    BY <2>1
  <2> QED
    BY <1>1, <2>1, <2>2 DEF GoesForward
<1>4. \A i \in 1..n : said[i] = Said(s, i) /\ next[i] = After(s, i)
  OBVIOUS
<1> HIDE DEF said, next
<1>5. Walked(Harmless, n, said, next, Cleaned(s))
  BY <1>2, <1>3, WalkIs, Zenon
<1> QED
  BY <1>1, <1>4, <1>5 DEF Walked

-----------------------------------------------------------------------------
(* What can be read of a text, position by position.                       *)
Read(c) == IF CanBeRead(c) THEN <<c>> ELSE <<>>
Reading(s) ==
  Walk(Len(s), [i \in DOMAIN s |-> IF s[i] \in {"TAB", "text"} THEN <<s[i]>> ELSE <<>>],
       [i \in DOMAIN s |-> i + 1])

LEMMA ReadingIs ==
  ASSUME NEW S, NEW s \in Seq(S)
  PROVE  /\ Len(s) \in Nat /\ Readable(s) = Reading(s)[1]
         /\ \A i \in 1..(Len(s) + 1) : Reading(s)[i] \in Seq(S)
         /\ Reading(s)[Len(s) + 1] = <<>>
         /\ \A i \in 1..Len(s) : Reading(s)[i] = Read(s[i]) \o Reading(s)[i + 1]
<1> DEFINE n == Len(s)
           said == [i \in 1..n |-> IF s[i] \in {"TAB", "text"} THEN <<s[i]>> ELSE <<>>]
           next == [i \in 1..n |-> i + 1]
<1>1. n \in Nat /\ DOMAIN s = 1..n
  OBVIOUS
<1>2. Reading(s) = Walk(n, said, next)
  BY <1>1 DEF Reading
<1>3. \A i \in 1..n : said[i] = Read(s[i]) /\ next[i] = i + 1
  BY DEF Read, CanBeRead
<1>4. GoesForward(S, n, said, next)
  <2>1. \A i \in 1..n : said[i] \in Seq(S)
    <3> SUFFICES ASSUME NEW i \in 1..n PROVE said[i] \in Seq(S)
      OBVIOUS
    <3>1. s[i] \in S
      BY ElementOfSeq
    <3>2. <<s[i]>> \in Seq(S) /\ <<>> \in Seq(S)
      BY <3>1
    <3> QED
      BY <3>2
  <2>2. \A i \in 1..n : next[i] \in Int /\ i < next[i] /\ next[i] <= n + 1
    BY <1>1, SMT
  <2>3. said \in [1..n -> Seq(S)] /\ next \in [1..n -> Int]
    BY <2>1, <2>2
  <2> HIDE DEF said, next
  <2> QED
    BY <1>1, <2>2, <2>3 DEF GoesForward
<1>5. Readable(s) = Reading(s)[1]
  BY DEF Readable, Reading
<1> HIDE DEF said, next
<1>6. Walked(S, n, said, next, Reading(s))
  BY <1>2, <1>4, WalkIs, Zenon
<1> QED
  BY <1>1, <1>3, <1>5, <1>6 DEF Walked

(* What can be read of one more character in front.                        *)
LEMMA ReadingOneMore ==
  ASSUME NEW S, NEW c \in S, NEW t \in Seq(S)
  PROVE  Readable(<<c>> \o t) = Read(c) \o Readable(t)
<1> DEFINE u == <<c>> \o t
           n == Len(t)
           Q == {k \in 1..(n + 1) : Reading(u)[k + 1] = Reading(t)[k]}
<1>1. n \in Nat /\ u \in Seq(S) /\ Len(u) = n + 1 /\ u[1] = c
  BY SMT
<1>2. \A k \in 1..n : u[k + 1] = t[k]
  BY SMT
<1> HIDE DEF u
<1>3. /\ Readable(u) = Reading(u)[1] /\ Reading(u)[n + 2] = <<>>
      /\ \A i \in 1..(n + 1) : Reading(u)[i] = Read(u[i]) \o Reading(u)[i + 1]
  <2>1. (n + 1) + 1 = n + 2
    BY <1>1, SMT
  <2> QED
    BY <1>1, <2>1, ReadingIs
<1>4. /\ Readable(t) = Reading(t)[1] /\ Reading(t)[n + 1] = <<>>
      /\ \A i \in 1..n : Reading(t)[i] = Read(t[i]) \o Reading(t)[i + 1]
  BY ReadingIs
<1>5. n + 1 \in Q
  <2>1. (n + 1) + 1 = n + 2 /\ n + 1 \in 1..(n + 1)
    BY <1>1, SMT
  <2> QED
    BY <1>3, <1>4, <2>1
<1>6. ASSUME NEW i \in 1..n, \A j \in (i + 1)..(n + 1) : j \in Q
      PROVE  i \in Q
  <2>1. i + 1 \in (i + 1)..(n + 1) /\ i + 1 \in 1..(n + 1) /\ i \in 1..(n + 1)
    BY <1>1, SMT
  <2>2. Reading(u)[(i + 1) + 1] = Reading(t)[i + 1]
    BY <1>6, <2>1
  <2>3. Reading(u)[i + 1] = Read(u[i + 1]) \o Reading(u)[(i + 1) + 1]
    BY <1>3, <2>1
  <2> QED
    BY <1>2, <1>4, <2>1, <2>2, <2>3
<1> HIDE DEF Q
<1>7. \A k \in 1..(n + 1) : k \in Q
  BY <1>1, <1>5, <1>6, FromTheEnd
<1>8. Reading(u)[1 + 1] = Reading(t)[1]
  <2>1. 1 \in 1..(n + 1)
    BY <1>1, SMT
  <2> QED
    BY <1>7, <2>1 DEF Q
<1>9. Reading(u)[1] = Read(c) \o Reading(u)[1 + 1]
  <2>1. 1 \in 1..(n + 1)
    BY <1>1, SMT
  <2> QED
    BY <1>1, <1>3, <2>1
<1> QED
  BY <1>3, <1>4, <1>8, <1>9 DEF u

(* Nothing to read in between.                                             *)
LEMMA NothingInBetween ==
  ASSUME NEW S, NEW s \in Seq(S), NEW i \in 1..Len(s), NEW k \in i..(Len(s) + 1),
         \A j \in i..(k - 1) : ~CanBeRead(s[j])
  PROVE  Reading(s)[i] = Reading(s)[k]
<1> DEFINE n == Len(s)
           Q == {j \in 1..(n + 1) : j \in i..k => Reading(s)[j] = Reading(s)[k]}
<1>1. /\ n \in Nat /\ \A j \in 1..(n + 1) : Reading(s)[j] \in Seq(S)
      /\ \A j \in 1..n : Reading(s)[j] = Read(s[j]) \o Reading(s)[j + 1]
  BY ReadingIs
<1>2. n + 1 \in Q
  <2>1. n + 1 \in i..k => n + 1 = k
    BY <1>1, SMT
  <2>2. n + 1 \in 1..(n + 1)
    BY <1>1, SMT
  <2> QED
    BY <2>1, <2>2
<1>3. ASSUME NEW j \in 1..n, \A h \in (j + 1)..(n + 1) : h \in Q
      PROVE  j \in Q
  <2>1. j \in 1..(n + 1) /\ j + 1 \in (j + 1)..(n + 1) /\ j + 1 \in 1..(n + 1)
    BY <1>1, SMT
  <2>2. CASE j \in i..(k - 1)
    <3>1. j + 1 \in i..k
      BY <2>2, SMT
    <3>2. Reading(s)[j + 1] = Reading(s)[k]
      BY <1>3, <2>1, <3>1
    <3>3. Read(s[j]) = <<>>
      BY <2>2 DEF Read
    <3>4. Reading(s)[j] = Reading(s)[j + 1]
      BY <1>1, <2>1, <3>3, ConcatEmptySeq
    <3> QED
      BY <2>1, <3>2, <3>4
  <2>3. CASE j \notin i..(k - 1)
    <3>1. j \in i..k => j = k
      BY <2>3, SMT
    <3> QED
      BY <2>1, <3>1
  <2> QED
    BY <2>2, <2>3
<1> HIDE DEF Q
<1>4. \A j \in 1..(n + 1) : j \in Q
  BY <1>1, <1>2, <1>3, FromTheEnd
<1>5. i \in 1..(n + 1) /\ i \in i..k
  BY <1>1, SMT
<1> QED
  BY <1>4, <1>5 DEF Q

(* No character that can be read is lost, and no control survives.         *)
LEMMA TextIsKept ==
  ASSUME NEW s \in Seq(Char)
  PROVE  /\ Sanitize(s) = Cleaned(s)[1] /\ Sanitize(s) \in Seq(Harmless)
         /\ Readable(Sanitize(s)) = Readable(s)
<1> DEFINE n == Len(s)
           C == Cleaned(s)
           G == Reading(s)
           Q == {i \in 1..(n + 1) : Readable(C[i]) = G[i]}
<1>1. /\ n \in Nat /\ C[n + 1] = <<>>
      /\ \A i \in 1..(n + 1) : C[i] \in Seq(Harmless)
      /\ \A i \in 1..n : C[i] = Said(s, i) \o C[After(s, i)]
  BY CleanedIs
<1>2. /\ Readable(s) = G[1] /\ G[n + 1] = <<>>
      /\ \A i \in 1..(n + 1) : G[i] \in Seq(Char)
      /\ \A i \in 1..n : G[i] = Read(s[i]) \o G[i + 1]
  BY ReadingIs
<1>3. Readable(<<>>) = <<>>
  <2>1. <<>> \in Seq({}) /\ Len(<<>>) = 0
    OBVIOUS
  <2>2. Readable(<<>>) = Reading(<<>>)[1] /\ Reading(<<>>)[Len(<<>>) + 1] = <<>>
    BY <2>1, ReadingIs
  <2> QED
    BY <2>1, <2>2, SMT
<1>4. n + 1 \in Q
  <2>1. n + 1 \in 1..(n + 1)
    BY <1>1, SMT
  <2> QED
    BY <1>1, <1>2, <1>3, <2>1
<1> HIDE DEF C, G
<1>5. ASSUME NEW i \in 1..n, \A j \in (i + 1)..(n + 1) : j \in Q
      PROVE  i \in Q
  <2> DEFINE a == After(s, i)
  <2>1. i \in 1..(n + 1) /\ a \in (i + 1)..(n + 1) /\ a \in 1..(n + 1)
    BY <1>1, AfterIs, SMT
  <2>2. /\ C[i] = Said(s, i) \o C[a] /\ C[a] \in Seq(Harmless)
        /\ Readable(C[a]) = G[a] /\ G[a] \in Seq(Char)
    BY <1>1, <1>2, <1>5, <2>1
  <2>3. s[i] \in Char
    BY ElementOfSeq
  <2>4. Read("replacement") = <<>> /\ "replacement" \in Harmless
    BY SMT DEF Read, CanBeRead, Harmless
  <2>5. CASE ~Introduced(s, i)
    <3> DEFINE c == IF IsSafe(s[i]) THEN s[i] ELSE "replacement"
    <3>1. a = i + 1 /\ Said(s, i) = <<c>>
      BY <2>5 DEF After, Said
    <3>2. c \in Harmless
      BY <2>3 DEF Harmless
    <3>3. Read(c) = Read(s[i])
      <4>1. CASE IsSafe(s[i])
        BY <4>1
      <4>2. CASE ~IsSafe(s[i])
        <5>1. Read(s[i]) = <<>>
          BY <4>2, SMT DEF IsSafe, Control, Read, CanBeRead
        <5> QED
          BY <2>4, <4>2, <5>1
      <4> QED
        BY <4>1, <4>2
    <3> HIDE DEF c
    <3>4. Readable(C[i]) = Read(s[i]) \o G[a]
      <4>1. C[i] = <<c>> \o C[a]
        BY <2>2, <3>1
      <4>2. Readable(<<c>> \o C[a]) = Read(c) \o Readable(C[a])
        BY <2>2, <3>2, ReadingOneMore, Zenon
      <4> QED
        BY <2>2, <3>3, <4>1, <4>2
    <3> QED
      BY <1>2, <2>1, <3>1, <3>4
  <2>6. CASE Introduced(s, i) /\ FindCsiFinal(s, i + 2) = 0
    <3>1. a = i + 2 /\ Said(s, i) = <<"replacement">>
      BY <2>6 DEF After, Said
    <3>2. Readable(C[i]) = <<>> \o G[a]
      <4>1. C[i] = <<"replacement">> \o C[a]
        BY <2>2, <3>1
      <4>2. Readable(<<"replacement">> \o C[a]) = Read("replacement") \o Readable(C[a])
        BY <2>2, <2>4, ReadingOneMore, Zenon
      <4> QED
        BY <2>2, <2>4, <4>1, <4>2
    <3>3. Readable(C[i]) = G[a]
      BY <2>2, <3>2, ConcatEmptySeq
    <3>4. G[i] = G[a]
      <4>1. s[i] = "ESC" /\ s[i + 1] = "bracket"
        BY <2>6 DEF Introduced
      <4>2. ~CanBeRead(s[i]) /\ ~CanBeRead(s[i + 1])
        BY <4>1, SMT DEF CanBeRead
      <4>3. \A j \in i..(a - 1) : ~CanBeRead(s[j])
        BY <2>1, <3>1, <4>2, SMT
      <4>4. a \in i..(n + 1)
        BY <1>1, <2>1, SMT
      <4> QED
        BY <4>3, <4>4, NothingInBetween DEF G
    <3> QED
      BY <2>1, <3>3, <3>4
  <2>7. CASE Introduced(s, i) /\ FindCsiFinal(s, i + 2) # 0
    <3>1. a = FindCsiFinal(s, i + 2) + 1 /\ Said(s, i) = <<>>
      BY <2>7 DEF After, Said
    <3>2. Readable(C[i]) = G[a]
      BY <2>2, <3>1, ConcatEmptySeq
    <3>3. G[i] = G[a]
      <4>1. /\ FindCsiFinal(s, i + 2) \in Int
            /\ \A j \in i..FindCsiFinal(s, i + 2) : ~CanBeRead(s[j])
        BY <2>7, FinalIs
      <4>2. a - 1 = FindCsiFinal(s, i + 2)
        BY <3>1, <4>1, SMT
      <4>3. \A j \in i..(a - 1) : ~CanBeRead(s[j])
        BY <4>1, <4>2
      <4>4. a \in i..(n + 1)
        BY <1>1, <2>1, SMT
      <4> QED
        BY <4>3, <4>4, NothingInBetween DEF G
    <3> QED
      BY <2>1, <3>2, <3>3
  <2> QED
    BY <2>5, <2>6, <2>7
<1> HIDE DEF Q
<1>6. \A i \in 1..(n + 1) : i \in Q
  BY <1>1, <1>4, <1>5, FromTheEnd
<1>7. 1 \in 1..(n + 1)
  BY <1>1, SMT
<1>8. Sanitize(s) = C[1]
  BY DEF Sanitize, Cleaned, C
<1> QED
  BY <1>1, <1>2, <1>6, <1>7, <1>8 DEF Q, C

-----------------------------------------------------------------------------
(* A text in two parts.                                                    *)
Parts(s, n, head, rest) ==
  /\ s \in Seq(Char) /\ head \in Seq(Char) /\ rest \in Seq(Char)
  /\ Len(s) \in Nat /\ n \in 0..Len(s) /\ Len(head) = n /\ Len(rest) = Len(s) - n
  /\ \A i \in 1..n : head[i] = s[i]
  /\ \A k \in 1..(Len(s) - n) : rest[k] = s[n + k]

LEMMA PartsAre ==
  ASSUME NEW s \in Seq(Char), NEW n \in 0..Len(s)
  PROVE  Parts(s, n, SubSeq(s, 1, n), SubSeq(s, n + 1, Len(s)))
<1>1. Len(s) \in Nat
  OBVIOUS
<1>2. /\ SubSeq(s, 1, n) \in Seq(Char) /\ Len(SubSeq(s, 1, n)) = n
      /\ \A i \in 1..n : SubSeq(s, 1, n)[i] = s[i]
  BY <1>1, SMT
<1>3. /\ SubSeq(s, n + 1, Len(s)) \in Seq(Char) /\ Len(SubSeq(s, n + 1, Len(s))) = Len(s) - n
      /\ \A k \in 1..(Len(s) - n) : SubSeq(s, n + 1, Len(s))[k] = s[n + k]
  BY <1>1, SMT
<1> QED
  BY <1>1, <1>2, <1>3 DEF Parts

(* What follows a place says the same on its own.                          *)
LEMMA RunsAlike ==
  ASSUME NEW s, NEW n, NEW head, NEW rest, Parts(s, n, head, rest),
         NEW k \in 1..(Len(rest) + 1), NEW range
  PROVE  RunEnd(s, n + k, range) = n + RunEnd(rest, k, range)
<1> DEFINE j == RunEnd(rest, k, range)
<1>1. /\ Len(s) \in Nat /\ n \in 0..Len(s) /\ Len(rest) = Len(s) - n /\ Len(rest) \in Nat
      /\ \A i \in 1..Len(rest) : rest[i] = s[n + i]
  BY SMT DEF Parts
<1>2. InRun(rest, k, range, j)
  BY <1>1, RunEndIs
<1> HIDE DEF j
<1>3. /\ j \in k..(Len(rest) + 1) /\ (j = Len(rest) + 1 \/ rest[j] \notin range)
      /\ \A i \in k..(j - 1) : rest[i] \in range
  BY <1>2 DEF InRun
<1>9. j \in k..(Len(rest) + 1)
  BY <1>3
<1>4. n + j \in (n + k)..(Len(s) + 1)
  BY <1>1, <1>9, SMT
<1>5. n + j = Len(s) + 1 \/ s[n + j] \notin range
  <2>1. CASE j = Len(rest) + 1
    BY <1>1, <2>1, SMT
  <2>2. CASE j # Len(rest) + 1
    <3>1. j \in 1..Len(rest)
      BY <1>1, <1>9, <2>2, SMT
    <3> QED
      BY <1>1, <1>3, <2>2, <3>1
  <2> QED
    BY <2>1, <2>2
<1>6. ASSUME NEW i \in (n + k)..((n + j) - 1) PROVE s[i] \in range
  <2>1. i - n \in k..(j - 1) /\ i - n \in 1..Len(rest) /\ n + (i - n) = i
    BY <1>1, <1>3, SMT
  <2> QED
    BY <1>1, <1>3, <2>1
<1>7. InRun(s, n + k, range, n + j)
  <2> DEFINE from == n + k
             e == n + j
  <2>1. /\ e \in from..(Len(s) + 1) /\ (e = Len(s) + 1 \/ s[e] \notin range)
        /\ \A i \in from..(e - 1) : s[i] \in range
    BY <1>4, <1>5, <1>6
  <2> HIDE DEF from, e
  <2>2. InRun(s, from, range, e)
    BY <2>1 DEF InRun
  <2> QED
    BY <2>2 DEF from, e
<1>8. n + k \in 1..(Len(s) + 1)
  BY <1>1, SMT
<1> QED
  BY <1>1, <1>7, <1>8, RunEndIs DEF j

LEMMA RestAlike ==
  ASSUME NEW s, NEW n, NEW head, NEW rest, Parts(s, n, head, rest),
         NEW k \in 1..Len(rest)
  PROVE  Said(s, n + k) = Said(rest, k) /\ After(s, n + k) = n + After(rest, k)
<1>1. /\ s \in Seq(Char) /\ rest \in Seq(Char) /\ Len(s) \in Nat /\ n \in 0..Len(s)
      /\ Len(rest) = Len(s) - n /\ Len(rest) \in Nat
      /\ \A i \in 1..Len(rest) : rest[i] = s[n + i]
  BY SMT DEF Parts
<1>2. rest[k] = s[n + k] /\ n + k \in 1..Len(s)
  BY <1>1, SMT
<1>3. k < Len(rest) <=> n + k < Len(s)
  BY <1>1, SMT
<1>4. k < Len(rest) => rest[k + 1] = s[n + k + 1]
  <2>1. k < Len(rest) => k + 1 \in 1..Len(rest)
    BY <1>1, SMT
  <2>2. n + (k + 1) = n + k + 1
    BY <1>1, SMT
  <2> QED
    BY <1>1, <2>1, <2>2
<1>5. Introduced(s, n + k) <=> Introduced(rest, k)
  BY <1>2, <1>3, <1>4 DEF Introduced
<1>6. CASE ~Introduced(rest, k)
  <2>1. Said(s, n + k) = Said(rest, k)
    BY <1>2, <1>5, <1>6 DEF Said
  <2>2. After(s, n + k) = (n + k) + 1 /\ After(rest, k) = k + 1
    BY <1>5, <1>6 DEF After
  <2> QED
    BY <1>1, <2>1, <2>2, SMT
<1>7. CASE Introduced(rest, k)
  <2> DEFINE p == RunEnd(rest, k + 2, Parameter)
             q == RunEnd(rest, p, Intermediate)
  <2>1. /\ k + 2 \in 1..(Len(rest) + 1) /\ p \in 1..(Len(rest) + 1) /\ q \in 1..(Len(rest) + 1)
    BY <1>1, <1>7, SequenceIs
  <2>2. RunEnd(s, (n + k) + 2, Parameter) = n + p
    <3>1. (n + k) + 2 = n + (k + 2)
      BY <1>1, SMT
    <3>2. RunEnd(s, n + (k + 2), Parameter) = n + p
      BY <2>1, RunsAlike
    <3> QED
      BY <3>1, <3>2
  <2>3. RunEnd(s, n + p, Intermediate) = n + q
    BY <2>1, RunsAlike
  <2>4. FindCsiFinal(rest, k + 2) = IF q <= Len(rest) /\ rest[q] \in Final THEN q ELSE 0
    BY DEF FindCsiFinal
  <2>5. FindCsiFinal(s, (n + k) + 2) = IF n + q <= Len(s) /\ s[n + q] \in Final THEN n + q ELSE 0
    BY <2>2, <2>3 DEF FindCsiFinal
  <2> HIDE DEF p, q
  <2>6. q <= Len(rest) <=> n + q <= Len(s)
    BY <1>1, <2>1, SMT
  <2>7. q <= Len(rest) => rest[q] = s[n + q]
    BY <1>1, <2>1, SMT
  <2>8. CASE q <= Len(rest) /\ rest[q] \in Final
    <3>1. FindCsiFinal(rest, k + 2) = q /\ FindCsiFinal(s, (n + k) + 2) = n + q
      BY <2>4, <2>5, <2>6, <2>7, <2>8
    <3>2. q # 0 /\ n + q # 0
      BY <1>1, <2>1, SMT
    <3>3. Said(s, n + k) = <<>> /\ Said(rest, k) = <<>>
      BY <1>5, <1>7, <3>1, <3>2 DEF Said
    <3>4. After(s, n + k) = (n + q) + 1 /\ After(rest, k) = q + 1
      BY <1>5, <1>7, <3>1, <3>2 DEF After
    <3> QED
      BY <1>1, <2>1, <3>3, <3>4, SMT
  <2>9. CASE ~(q <= Len(rest) /\ rest[q] \in Final)
    <3>1. FindCsiFinal(rest, k + 2) = 0 /\ FindCsiFinal(s, (n + k) + 2) = 0
      BY <2>4, <2>5, <2>6, <2>7, <2>9
    <3>3. Said(s, n + k) = <<"replacement">> /\ Said(rest, k) = <<"replacement">>
      BY <1>5, <1>7, <3>1 DEF Said
    <3>4. After(s, n + k) = (n + k) + 2 /\ After(rest, k) = k + 2
      BY <1>5, <1>7, <3>1 DEF After
    <3> QED
      BY <1>1, <3>3, <3>4, SMT
  <2> QED
    BY <2>8, <2>9
<1> QED
  BY <1>6, <1>7

LEMMA RestIsCleanedAlike ==
  ASSUME NEW s, NEW n, NEW head, NEW rest, Parts(s, n, head, rest)
  PROVE  Cleaned(s)[n + 1] = Cleaned(rest)[1]
<1> DEFINE m == Len(rest)
           C == Cleaned(s)
           D == Cleaned(rest)
           Q == {k \in 1..(m + 1) : C[n + k] = D[k]}
<1>1. /\ s \in Seq(Char) /\ rest \in Seq(Char) /\ Len(s) \in Nat /\ n \in 0..Len(s)
      /\ m = Len(s) - n /\ m \in Nat
  BY SMT DEF Parts
<1>2. C[Len(s) + 1] = <<>> /\ \A i \in 1..Len(s) : C[i] = Said(s, i) \o C[After(s, i)]
  BY <1>1, CleanedIs
<1>3. D[m + 1] = <<>> /\ \A i \in 1..m : D[i] = Said(rest, i) \o D[After(rest, i)]
  BY <1>1, CleanedIs
<1> HIDE DEF C, D
<1>4. m + 1 \in Q
  <2>1. n + (m + 1) = Len(s) + 1 /\ m + 1 \in 1..(m + 1)
    BY <1>1, SMT
  <2> QED
    BY <1>2, <1>3, <2>1
<1>5. ASSUME NEW k \in 1..m, \A j \in (k + 1)..(m + 1) : j \in Q
      PROVE  k \in Q
  <2>1. Said(s, n + k) = Said(rest, k) /\ After(s, n + k) = n + After(rest, k)
    BY RestAlike
  <2>2. After(rest, k) \in (k + 1)..(m + 1) /\ n + k \in 1..Len(s) /\ k \in 1..(m + 1)
    BY <1>1, AfterIs, SMT
  <2>3. C[n + After(rest, k)] = D[After(rest, k)]
    BY <1>5, <2>2
  <2> QED
    BY <1>2, <1>3, <2>1, <2>2, <2>3
<1> HIDE DEF Q, m
<1>6. \A k \in 1..(m + 1) : k \in Q
  BY <1>1, <1>4, <1>5, FromTheEnd
<1>7. 1 \in 1..(m + 1)
  BY <1>1, SMT
<1> QED
  BY <1>6, <1>7 DEF Q, C, D

(* What precedes a place does, unless it stops inside a sequence.          *)
LEMMA HeadAlike ==
  ASSUME NEW s, NEW n, NEW head, NEW rest, Parts(s, n, head, rest), ~Open(head),
         NEW i \in 1..n
  PROVE  Said(s, i) = Said(head, i) /\ After(s, i) = After(head, i)
<1>1. /\ s \in Seq(Char) /\ head \in Seq(Char) /\ Len(s) \in Nat /\ n \in 0..Len(s)
      /\ Len(head) = n /\ n \in Nat /\ DOMAIN head = 1..n
      /\ \A j \in 1..n : head[j] = s[j]
  BY SMT DEF Parts
<1>2. head[i] = s[i] /\ i \in 1..Len(s)
  BY <1>1, SMT
<1>3. Introduced(s, i) <=> Introduced(head, i)
  <2>1. CASE i < n
    <3>1. i + 1 \in 1..n /\ i < Len(s)
      BY <1>1, <2>1, SMT
    <3> QED
      BY <1>1, <1>2, <2>1, <3>1 DEF Introduced
  <2>2. CASE ~(i < n)
    <3>1. s[i] # "ESC"
      BY <1>1, <1>2, <2>2 DEF Open
    <3> QED
      BY <1>2, <3>1 DEF Introduced
  <2> QED
    BY <2>1, <2>2
<1>4. CASE ~Introduced(head, i)
  BY <1>2, <1>3, <1>4 DEF Said, After
<1>5. CASE Introduced(head, i)
  <2> DEFINE p == RunEnd(head, i + 2, Parameter)
             q == RunEnd(head, p, Intermediate)
  <2>1. /\ i + 2 \in 1..(n + 1)
        /\ InRun(head, i + 2, Parameter, p) /\ p \in 1..(n + 1)
        /\ InRun(head, p, Intermediate, q) /\ q \in 1..(n + 1)
        /\ i + 2 <= p /\ p <= q
    BY <1>1, <1>5, SequenceIs
  <2>2. q # n + 1
    BY <1>1, <1>5 DEF Open, Introduced
  <2> HIDE DEF p, q
  <2>3. q \in 1..n /\ p \in 1..n
    BY <1>1, <2>1, <2>2, SMT
  <2>4. InRun(s, i + 2, Parameter, p)
    BY <1>1, <2>1, <2>3, SMT DEF InRun
  <2>5. InRun(s, p, Intermediate, q)
    BY <1>1, <2>1, <2>3, SMT DEF InRun
  <2>6. i + 2 \in 1..(Len(s) + 1) /\ p \in 1..(Len(s) + 1)
    BY <1>1, <2>1, <2>3, SMT
  <2>7. RunEnd(s, i + 2, Parameter) = p
    BY <1>1, <2>4, <2>6, RunEndIs
  <2>8. RunEnd(s, p, Intermediate) = q
    BY <1>1, <2>5, <2>6, RunEndIs
  <2>9. q <= Len(s) /\ q <= n /\ head[q] = s[q]
    BY <1>1, <2>3, SMT
  <2>10. FindCsiFinal(s, i + 2) = FindCsiFinal(head, i + 2)
    BY <1>1, <2>7, <2>8, <2>9 DEF FindCsiFinal, p, q
  <2> QED
    BY <1>3, <1>5, <2>10 DEF Said, After
<1> QED
  BY <1>4, <1>5

(* Cleaning a text in two parts is cleaning the whole of it.               *)
LEMMA SplitsWhereClosed ==
  ASSUME NEW s, NEW n, NEW head, NEW rest, Parts(s, n, head, rest), ~Open(head)
  PROVE  Sanitize(s) = Sanitize(head) \o Sanitize(rest)
<1> DEFINE C == Cleaned(s)
           H == Cleaned(head)
           X == Cleaned(s)[n + 1]
           Q == {i \in 1..(n + 1) : C[i] = H[i] \o X}
<1>1. /\ s \in Seq(Char) /\ head \in Seq(Char) /\ rest \in Seq(Char)
      /\ Len(s) \in Nat /\ n \in 0..Len(s) /\ n \in Nat /\ Len(head) = n
  BY SMT DEF Parts
<1>2. /\ \A i \in 1..(Len(s) + 1) : C[i] \in Seq(Harmless)
      /\ \A i \in 1..Len(s) : C[i] = Said(s, i) \o C[After(s, i)]
  BY <1>1, CleanedIs
<1>3. /\ H[n + 1] = <<>> /\ \A i \in 1..(n + 1) : H[i] \in Seq(Harmless)
      /\ \A i \in 1..n : H[i] = Said(head, i) \o H[After(head, i)]
  BY <1>1, CleanedIs
<1>4. X = C[n + 1] /\ X \in Seq(Harmless)
  BY <1>1, <1>2, SMT
<1> HIDE DEF C, H, X
<1>5. n + 1 \in Q
  <2>1. n + 1 \in 1..(n + 1)
    BY <1>1, SMT
  <2>2. <<>> \o X = X
    BY <1>4, ConcatEmptySeq
  <2> QED
    BY <1>3, <1>4, <2>1, <2>2
<1>6. ASSUME NEW i \in 1..n, \A j \in (i + 1)..(n + 1) : j \in Q
      PROVE  i \in Q
  <2> DEFINE a == After(head, i)
             d == Said(head, i)
  <2>1. Said(s, i) = d /\ After(s, i) = a
    BY <1>6, HeadAlike
  <2>2. a \in (i + 1)..(n + 1) /\ a \in 1..(n + 1) /\ i \in 1..Len(s) /\ i \in 1..(n + 1)
    BY <1>1, AfterIs, SMT
  <2>3. d \in Seq(Harmless)
    BY <1>1, SaidIs
  <2> HIDE DEF a, d
  <2>4. C[a] = H[a] \o X
    BY <1>6, <2>2
  <2>5. C[i] = d \o (H[a] \o X) /\ H[i] = d \o H[a]
    BY <1>2, <1>3, <2>1, <2>2, <2>4 DEF a, d
  <2>6. d \o (H[a] \o X) = (d \o H[a]) \o X
    <3>1. H[a] \in Seq(Harmless)
      BY <1>3, <2>2
    <3>2. \A t, u, v \in Seq(Harmless) : (t \o u) \o v = t \o (u \o v)
      BY ConcatAssociative
    <3> QED
      BY <1>4, <2>3, <3>1, <3>2
  <2> QED
    BY <2>2, <2>5, <2>6
<1> HIDE DEF Q
<1>7. \A i \in 1..(n + 1) : i \in Q
  BY <1>1, <1>5, <1>6, FromTheEnd
<1>8. C[1] = H[1] \o X
  <2>1. 1 \in 1..(n + 1)
    BY <1>1, SMT
  <2> QED
    BY <1>7, <2>1 DEF Q
<1>9. Sanitize(s) = C[1] /\ Sanitize(head) = H[1] /\ Sanitize(rest) = Cleaned(rest)[1]
  BY DEF Sanitize, Cleaned, C, H
<1>10. X = Cleaned(rest)[1]
  BY RestIsCleanedAlike DEF X
<1> QED
  BY <1>8, <1>9, <1>10

-----------------------------------------------------------------------------
(* Sanitising leaves no control and loses no readable character, and it    *)
(* can be done field by field.                                             *)
LEMMA PrintsAreClean ==
  ASSUME NEW s \in Seq(Char)
  PROVE  /\ \A i \in DOMAIN Sanitize(s) : IsSafe(Sanitize(s)[i])
         /\ Readable(Sanitize(s)) = Readable(s)
         /\ \A n \in 0..Len(s) :
              LET head == SubSeq(s, 1, n)
                  rest == SubSeq(s, n + 1, Len(s))
              IN Open(head) \/ Sanitize(head) \o Sanitize(rest) = Sanitize(s)
<1>1. Sanitize(s) \in Seq(Harmless) /\ Readable(Sanitize(s)) = Readable(s)
  BY TextIsKept
<1>2. ASSUME NEW i \in DOMAIN Sanitize(s) PROVE IsSafe(Sanitize(s)[i])
  <2>1. i \in 1..Len(Sanitize(s))
    BY <1>1
  <2>2. Sanitize(s)[i] \in Harmless
    BY <1>1, <2>1, ElementOfSeq
  <2>3. IsSafe("replacement")
    BY SMT DEF IsSafe, Control
  <2> QED
    BY <2>2, <2>3 DEF Harmless
<1>3. ASSUME NEW n \in 0..Len(s), ~Open(SubSeq(s, 1, n))
      PROVE  Sanitize(SubSeq(s, 1, n)) \o Sanitize(SubSeq(s, n + 1, Len(s))) = Sanitize(s)
  BY <1>3, PartsAre, SplitsWhereClosed
<1> QED
  BY <1>1, <1>2, <1>3

(* What is printed of a text is all of it that can be read and nothing     *)
(* that steers the terminal, wherever its fields are cut, and the rest of  *)
(* a line is dated and whole as above (term.rs, logfmt.rs).                *)
THEOREM LinesAlwaysKeepTheirText == TextsSpec => []LinesKeepTheirText
<1>1. MadeInv => TextSurvives /\ SplitsAnywhere
  <2> SUFFICES ASSUME MadeInv, made.of = "print"
               PROVE  /\ \A i \in DOMAIN made.into : IsSafe(made.into[i])
                      /\ Readable(made.into) = Readable(made.from)
                      /\ \A n \in 0..Len(made.from) :
                           LET head == SubSeq(made.from, 1, n)
                               rest == SubSeq(made.from, n + 1, Len(made.from))
                           IN Open(head) \/ Sanitize(head) \o Sanitize(rest) = made.into
    BY DEF TextSurvives, SplitsAnywhere
  <2>1. PICK p \in Prints : made = [of |-> "print", from |-> p, into |-> Sanitize(p)]
    BY MadeIs
  <2>2. p \in Seq(Char) /\ made.from = p /\ made.into = Sanitize(p)
    BY <2>1, TextsAssumption
  <2> QED
    BY <2>2, PrintsAreClean
<1> QED
  BY <1>1, MadeInvariant, LinesAreDatedAsShown, MessagesAreWhole, PTL DEF LinesKeepTheirText

-----------------------------------------------------------------------------
(* What the redactor has named, and what it may find in a line.            *)
AValue   == Seq(AnItem)
APiece   == [cat : Category \cup {"none"}, value : AValue, rest : AValue]

NamesOnce(r) == r \in Seq(Category \X AValue) /\ IsInjective(r)

Continues(s, r) == Len(r) <= Len(s) /\ \A k \in 1..Len(r) : s[k] = r[k]

LEMMA ContinuesOn ==
  ASSUME NEW r, NamesOnce(r), NEW s, NamesOnce(s), NEW t, NamesOnce(t),
         Continues(s, r), Continues(t, s)
  PROVE  Continues(t, r)
<1>1. Len(r) \in Nat /\ Len(s) \in Nat /\ Len(t) \in Nat
  BY DEF NamesOnce
<1>2. \A k \in 1..Len(r) : k \in 1..Len(s)
  BY <1>1, SMT DEF Continues
<1> QED
  BY <1>1, <1>2, SMT DEF Continues

(* A name given stays given, and only what has none is added.              *)
LEMMA TokenNames ==
  ASSUME NEW r, NamesOnce(r), NEW cat \in Category, NEW value \in AValue
  PROVE  /\ NamesOnce(Token(r, cat, value)) /\ Continues(Token(r, cat, value), r)
         /\ Named(Token(r, cat, value), cat, value)
<1> DEFINE e == <<cat, value>>
           u == Append(r, e)
<1>1. r \in Seq(Category \X AValue) /\ Len(r) \in Nat /\ DOMAIN r = 1..Len(r) /\ e \in Category \X AValue
  BY DEF NamesOnce
<1>2. CASE Named(r, cat, value)
  BY <1>1, <1>2, SMT DEF Token, Continues
<1>3. CASE ~Named(r, cat, value)
  <2>1. Token(r, cat, value) = u
    BY <1>3 DEF Token
  <2>2. \A k \in 1..Len(r) : r[k] # e
    BY <1>1, <1>3 DEF Named
  <2> HIDE DEF e
  <2>3. /\ u \in Seq(Category \X AValue) /\ Len(u) = Len(r) + 1 /\ u[Len(r) + 1] = e
        /\ \A k \in 1..Len(r) : u[k] = r[k]
    BY <1>1, AppendProperties
  <2>4. DOMAIN u = 1..(Len(r) + 1)
    BY <2>3, LenProperties
  <2> HIDE DEF u
  <2>5. IsInjective(u)
    <3> SUFFICES ASSUME NEW a \in 1..(Len(r) + 1), NEW b \in 1..(Len(r) + 1), u[a] = u[b], a # b
                 PROVE  FALSE
      BY <2>4 DEF IsInjective
    <3>1. CASE a = Len(r) + 1
      <4>1. b \in 1..Len(r)
        BY <1>1, <3>1, SMT
      <4> QED
        BY <2>2, <2>3, <3>1, <4>1
    <3>2. CASE b = Len(r) + 1
      <4>1. a \in 1..Len(r)
        BY <1>1, <3>2, SMT
      <4> QED
        BY <2>2, <2>3, <3>2, <4>1
    <3>3. CASE a # Len(r) + 1 /\ b # Len(r) + 1
      <4>1. a \in 1..Len(r) /\ b \in 1..Len(r)
        BY <1>1, <3>3, SMT
      <4> QED
        BY <1>1, <2>3, <4>1 DEF NamesOnce, IsInjective
    <3> QED
      BY <3>1, <3>2, <3>3
  <2>6. Continues(u, r)
    BY <1>1, <2>3, SMT DEF Continues
  <2>7. Named(u, cat, value)
    <3>1. Len(r) + 1 \in 1..(Len(r) + 1)
      BY <1>1, SMT
    <3> QED
      BY <2>3, <2>4, <3>1 DEF Named, e
  <2> QED
    BY <2>1, <2>3, <2>5, <2>6, <2>7 DEF NamesOnce
<1> QED
  BY <1>2, <1>3

LEMMA NamedStays ==
  ASSUME NEW r, NamesOnce(r), NEW s, NamesOnce(s), Continues(s, r),
         NEW cat, NEW value, Named(r, cat, value)
  PROVE  Named(s, cat, value)
<1>1. DOMAIN r = 1..Len(r) /\ DOMAIN s = 1..Len(s) /\ Len(r) \in Nat /\ Len(s) \in Nat
  BY DEF NamesOnce
<1>2. PICK k \in 1..Len(r) : r[k] = <<cat, value>>
  BY <1>1 DEF Named
<1>3. k \in 1..Len(s) /\ s[k] = r[k]
  BY <1>1, SMT DEF Continues
<1> QED
  BY <1>1, <1>2, <1>3 DEF Named

(* And it keeps its number.                                                *)
LEMMA NumberStays ==
  ASSUME NEW r, NamesOnce(r), NEW cat, NEW value, Named(r, cat, value)
  PROVE  /\ Number(r, cat, value) \in Nat
         /\ \A s : NamesOnce(s) /\ Continues(s, r) => Number(s, cat, value) = Number(r, cat, value)
<1> DEFINE Of(q) == {k \in DOMAIN q : q[k][1] = cat /\ \E j \in k..Len(q) : q[j] = <<cat, value>>}
<1>1. DOMAIN r = 1..Len(r) /\ Len(r) \in Nat
  BY DEF NamesOnce
<1>2. PICK m \in 1..Len(r) : r[m] = <<cat, value>>
  BY <1>1 DEF Named
<1>3. Number(r, cat, value) \in Nat
  <2>1. IsFiniteSet(1..Len(r)) /\ Of(r) \subseteq 1..Len(r)
    BY <1>1, FS_Interval
  <2>2. IsFiniteSet(Of(r))
    BY <2>1, FS_Subset
  <2> QED
    BY <2>2, FS_CardinalityType DEF Number
<1>4. ASSUME NEW s, NamesOnce(s), Continues(s, r) PROVE Number(s, cat, value) = Number(r, cat, value)
  <2>1. DOMAIN s = 1..Len(s) /\ Len(s) \in Nat /\ IsInjective(s)
    BY <1>4 DEF NamesOnce
  <2>2. m \in 1..Len(s) /\ s[m] = r[m] /\ Len(r) <= Len(s) /\ \A k \in 1..Len(r) : s[k] = r[k]
    BY <1>1, <1>4, <2>1, SMT DEF Continues
  <2>3. \A k \in Of(s) : k \in Of(r)
    <3> SUFFICES ASSUME NEW k \in Of(s) PROVE k \in Of(r)
      OBVIOUS
    <3>1. PICK j \in k..Len(s) : s[j] = <<cat, value>>
      OBVIOUS
    <3>2. k \in 1..Len(s) /\ j \in 1..Len(s)
      BY <2>1, SMT
    <3>3. j = m
      BY <1>2, <2>1, <2>2, <3>1, <3>2 DEF IsInjective
    <3>4. k \in 1..Len(r) /\ m \in k..Len(r)
      BY <1>1, <2>1, <3>2, <3>3, SMT
    <3> QED
      BY <1>1, <1>2, <2>2, <3>4
  <2>4. \A k \in Of(r) : k \in Of(s)
    <3> SUFFICES ASSUME NEW k \in Of(r) PROVE k \in Of(s)
      OBVIOUS
    <3>1. PICK j \in k..Len(r) : r[j] = <<cat, value>>
      OBVIOUS
    <3>2. k \in 1..Len(r) /\ j \in 1..Len(r) /\ k \in 1..Len(s) /\ j \in k..Len(s)
      BY <1>1, <2>1, <2>2, SMT
    <3> QED
      BY <2>1, <2>2, <3>1, <3>2
  <2>5. Of(s) = Of(r)
    BY <2>3, <2>4
  <2> QED
    BY <2>5 DEF Number
<1> QED
  BY <1>3, <1>4

-----------------------------------------------------------------------------
(* Induction over the places of a sequence, from its start.                *)
LEMMA FromTheStart ==
  ASSUME NEW n \in Nat, NEW T, 0 \in T,
         \A i \in 1..n : (\A j \in 0..(i - 1) : j \in T) => i \in T
  PROVE  \A i \in 0..n : i \in T
<1> DEFINE B == {k \in 0..n : k \notin T}
<1>1. SUFFICES ASSUME B # {} PROVE FALSE
  OBVIOUS
<1>2. B \in SUBSET Nat
  BY SMT
<1>3. Min(B) \in B /\ \A y \in B : Min(B) <= y
  BY <1>1, <1>2, LeastNumber
<1> DEFINE k == Min(B)
<1> HIDE DEF k
<1>4. k \in 0..n /\ k \notin T /\ \A y \in B : k <= y
  BY <1>3 DEF k
<1>5. k \in 1..n
  BY <1>4, SMT
<1>6. \A j \in 0..(k - 1) : j \in T
  <2> SUFFICES ASSUME NEW j \in 0..(k - 1), j \notin T PROVE FALSE
    OBVIOUS
  <2>1. j \in 0..n /\ ~(k <= j)
    BY <1>5, SMT
  <2> QED
    BY <1>4, <2>1
<1> QED
  BY <1>4, <1>5, <1>6

(* What the redactor has named after each piece.                           *)
NamesAfter(before, piece) ==
  IF piece.cat = "none" THEN before ELSE Token(before, piece.cat, piece.value)

LEMMA RegistryIs ==
  ASSUME NEW pieces \in Seq(APiece), NEW r
  PROVE  /\ Registry(r, pieces)[0] = r
         /\ \A k \in 1..Len(pieces) :
              Registry(r, pieces)[k] = NamesAfter(Registry(r, pieces)[k - 1], pieces[k])
<1> DEFINE n == Len(pieces)
           Val(f, k) == IF k = 0 THEN r
                        ELSE IF pieces[k].cat = "none" THEN f[k - 1]
                        ELSE Token(f[k - 1], pieces[k].cat, pieces[k].value)
           Good(m) == \E f : f = [k \in 0..m |-> Val(f, k)]
           T == {m \in 0..n : Good(m)}
<1>1. n \in Nat
  OBVIOUS
<1>2. 0 \in T
  <2> DEFINE f == [k \in 0..0 |-> r]
  <2>1. \A k \in 0..0 : k = 0
    BY SMT
  <2>2. f = [k \in 0..0 |-> Val(f, k)]
    BY <2>1
  <2>3. Good(0)
    BY <2>2
  <2>4. 0 \in 0..n
    BY <1>1, SMT
  <2> QED
    BY <2>3, <2>4
<1>3. ASSUME NEW i \in 1..n, \A j \in 0..(i - 1) : j \in T PROVE i \in T
  <2>1. i - 1 \in 0..(i - 1) /\ i \in 0..n /\ i # 0 /\ i \in 0..i /\ i - 1 # i
    BY <1>1, SMT
  <2>2. PICK f : f = [k \in 0..(i - 1) |-> Val(f, k)]
    BY <1>3, <2>1
  <2> DEFINE g == [k \in 0..i |-> IF k = i THEN Val(f, i) ELSE f[k]]
  <2>3. ASSUME NEW k \in 0..i PROVE g[k] = Val(g, k)
    <3>1. CASE k = i
      <4>1. i - 1 \in 0..i
        BY <2>1, SMT
      <4>2. g[i - 1] = f[i - 1] /\ g[i] = Val(f, i)
        BY <2>1, <4>1
      <4> HIDE DEF g
      <4> QED
        BY <3>1, <4>2
    <3>2. CASE k # i
      <4>1. k \in 0..(i - 1) /\ (k # 0 => k - 1 \in 0..i /\ k - 1 # i)
        BY <1>1, <3>2, SMT
      <4>2. g[k] = f[k] /\ f[k] = Val(f, k)
        BY <2>2, <3>2, <4>1
      <4>3. k # 0 => g[k - 1] = f[k - 1]
        BY <4>1
      <4> HIDE DEF g
      <4> QED
        BY <4>2, <4>3
    <3> QED
      BY <3>1, <3>2
  <2>4. g = [k \in 0..i |-> Val(g, k)]
    <3> DEFINE h == [k \in 0..i |-> Val(g, k)]
    <3>1. \A k \in 0..i : g[k] = h[k]
      BY <2>3
    <3> QED
      BY <3>1
  <2>5. Good(i)
    BY <2>4
  <2> QED
    BY <2>1, <2>5
<1>4. n \in T
  <2> HIDE DEF T
  <2>1. \A i \in 0..n : i \in T
    BY <1>1, <1>2, <1>3, FromTheStart
  <2> QED
    BY <1>1, <2>1, SMT
<1> DEFINE w == Registry(r, pieces)
<1>5. w = CHOOSE f : f = [k \in 0..n |-> Val(f, k)]
  BY DEF Registry
<1>6. w = [k \in 0..n |-> Val(w, k)]
  <2>1. \E f : f = [k \in 0..n |-> Val(f, k)]
    BY <1>4
  <2> HIDE DEF w
  <2> QED
    BY <1>5, <2>1
<1> HIDE DEF w
<1>7. \A k \in 0..n : w[k] = Val(w, k)
  <2> SUFFICES ASSUME NEW k \in 0..n PROVE w[k] = Val(w, k)
    OBVIOUS
  <2> DEFINE h == [i \in 0..n |-> Val(w, i)]
  <2>1. h[k] = Val(w, k)
    OBVIOUS
  <2>2. w = h
    BY <1>6
  <2> HIDE DEF h
  <2> QED
    BY <2>1, <2>2
<1>8. 0 \in 0..n /\ \A k \in 1..n : k \in 0..n /\ k # 0
  BY <1>1, SMT
<1> QED
  BY <1>7, <1>8 DEF w, NamesAfter

LEMMA PieceIs ==
  ASSUME NEW pieces \in Seq(APiece), NEW k \in 1..Len(pieces)
  PROVE  /\ pieces[k].rest \in AValue /\ pieces[k].value \in AValue
         /\ pieces[k].cat # "none" => pieces[k].cat \in Category
<1>1. pieces[k] \in APiece
  BY ElementOfSeq
<1> QED
  BY <1>1 DEF APiece

(* Along the pieces names are only added, and what is hidden has one.      *)
LEMMA RegistryGrows ==
  ASSUME NEW pieces \in Seq(APiece), NEW r, NamesOnce(r)
  PROVE  LET reg == Registry(r, pieces)
         IN /\ \A k \in 0..Len(pieces) : NamesOnce(reg[k])
            /\ \A k \in 0..Len(pieces) : \A j \in 0..k : Continues(reg[k], reg[j])
            /\ \A k \in 1..Len(pieces) :
                 pieces[k].cat # "none" => Named(reg[k], pieces[k].cat, pieces[k].value)
<1> DEFINE n == Len(pieces)
           reg == Registry(r, pieces)
           T == {k \in 0..n : NamesOnce(reg[k]) /\ \A j \in 0..k : Continues(reg[k], reg[j])}
<1>1. n \in Nat
  OBVIOUS
<1>2. reg[0] = r /\ \A k \in 1..n : reg[k] = NamesAfter(reg[k - 1], pieces[k])
  BY RegistryIs
<1> HIDE DEF reg
<1>3. \A s : NamesOnce(s) => Continues(s, s)
  <2>1. \A s : NamesOnce(s) => Len(s) \in Nat
    BY DEF NamesOnce
  <2> QED
    BY <2>1, SMT DEF Continues
<1>4. 0 \in T
  <2>1. 0 \in 0..n /\ \A j \in 0..0 : j = 0
    BY <1>1, SMT
  <2> QED
    BY <1>2, <1>3, <2>1
<1>5. \A k \in 1..n : NamesOnce(reg[k - 1]) =>
        /\ NamesOnce(reg[k]) /\ Continues(reg[k], reg[k - 1])
        /\ pieces[k].cat # "none" => Named(reg[k], pieces[k].cat, pieces[k].value)
  <2> SUFFICES ASSUME NEW k \in 1..n, NamesOnce(reg[k - 1])
               PROVE  /\ NamesOnce(reg[k]) /\ Continues(reg[k], reg[k - 1])
                      /\ pieces[k].cat # "none" => Named(reg[k], pieces[k].cat, pieces[k].value)
    OBVIOUS
  <2>1. CASE pieces[k].cat = "none"
    BY <1>2, <1>3, <2>1 DEF NamesAfter
  <2>2. CASE pieces[k].cat # "none"
    <3>1. reg[k] = Token(reg[k - 1], pieces[k].cat, pieces[k].value)
      BY <1>2, <2>2 DEF NamesAfter
    <3>2. pieces[k].cat \in Category /\ pieces[k].value \in AValue
      BY <2>2, PieceIs
    <3> DEFINE b == reg[k - 1]
               c == pieces[k].cat
               v == pieces[k].value
    <3>3. NamesOnce(b) /\ c \in Category /\ v \in AValue
      BY <3>2
    <3> HIDE DEF b, c, v
    <3>4. NamesOnce(Token(b, c, v)) /\ Continues(Token(b, c, v), b) /\ Named(Token(b, c, v), c, v)
      BY <3>3, TokenNames
    <3> QED
      BY <3>1, <3>4 DEF b, c, v
  <2> QED
    BY <2>1, <2>2
<1>6. ASSUME NEW i \in 1..n, \A j \in 0..(i - 1) : j \in T PROVE i \in T
  <2>1. i - 1 \in T /\ i \in 0..n
    BY <1>1, <1>6, SMT
  <2>2. NamesOnce(reg[i]) /\ Continues(reg[i], reg[i - 1])
    BY <1>5, <2>1
  <2>3. ASSUME NEW j \in 0..i PROVE Continues(reg[i], reg[j])
    <3>1. CASE j = i
      BY <1>3, <2>2, <3>1
    <3>2. CASE j # i
      <4>1. j \in 0..(i - 1)
        BY <1>1, <3>2, SMT
      <4>2. NamesOnce(reg[j]) /\ NamesOnce(reg[i - 1]) /\ Continues(reg[i - 1], reg[j])
        BY <1>6, <2>1, <4>1
      <4> QED
        BY <2>2, <4>2, ContinuesOn, Zenon
    <3> QED
      BY <3>1, <3>2
  <2> QED
    BY <2>1, <2>2, <2>3
<1> HIDE DEF T
<1>7. \A k \in 0..n : k \in T
  BY <1>1, <1>4, <1>6, FromTheStart
<1>8. \A k \in 1..n : k - 1 \in 0..n
  BY <1>1, SMT
<1> QED
  BY <1>5, <1>7, <1>8 DEF T, reg

(* Who already knows all the names gives no other.                         *)
LEMMA NothingToName ==
  ASSUME NEW pieces \in Seq(APiece), NEW s,
         \A k \in 1..Len(pieces) :
           pieces[k].cat # "none" => Named(s, pieces[k].cat, pieces[k].value)
  PROVE  \A k \in 0..Len(pieces) : Registry(s, pieces)[k] = s
<1> DEFINE n == Len(pieces)
           reg == Registry(s, pieces)
           T == {k \in 0..n : reg[k] = s}
<1>1. n \in Nat
  OBVIOUS
<1>2. reg[0] = s /\ \A k \in 1..n : reg[k] = NamesAfter(reg[k - 1], pieces[k])
  BY RegistryIs
<1> HIDE DEF reg
<1>3. 0 \in T
  BY <1>1, <1>2, SMT
<1>4. ASSUME NEW i \in 1..n, \A j \in 0..(i - 1) : j \in T PROVE i \in T
  <2>1. i - 1 \in T /\ i \in 0..n
    BY <1>1, <1>4, SMT
  <2>2. reg[i] = NamesAfter(s, pieces[i])
    BY <1>2, <2>1
  <2>3. NamesAfter(s, pieces[i]) = s
    BY DEF NamesAfter, Token
  <2> QED
    BY <2>1, <2>2, <2>3
<1> HIDE DEF T
<1>5. \A k \in 0..n : k \in T
  BY <1>1, <1>3, <1>4, FromTheStart
<1> QED
  BY <1>5 DEF T, reg

LEMMA PlaceholderIs ==
  ASSUME NEW r, NEW cat \in Category, NEW value, Number(r, cat, value) \in Nat
  PROVE  Placeholder(r, cat, value) \in AValue
<1> DEFINE m == Number(r, cat, value)
           a == Mark("lt")
           b == Item("name", cat, m, "")
           c == Mark("gt")
<1>1. Placeholder(r, cat, value) = <<a, b, c>>
  BY DEF Placeholder
<1>2. "lt" \in Kinds /\ "gt" \in Kinds /\ "name" \in Kinds /\ "" \in Tails
  BY DEF Kinds, Delim, Tails
<1>3. "" \in Ids \cup Category \cup {""} /\ cat \in Ids \cup Category \cup {""} /\ 0 \in Nat /\ m \in Nat
  OBVIOUS
<1> HIDE DEF m
<1>4. \A kind \in Kinds, id \in Ids \cup Category \cup {""}, n \in Nat, tail \in Tails :
        Item(kind, id, n, tail) \in AnItem
  BY Zenon DEF Item, AnItem
<1>5. a \in AnItem /\ b \in AnItem /\ c \in AnItem
  BY <1>2, <1>3, <1>4 DEF Mark
<1> HIDE DEF a, b, c
<1> QED
  BY <1>1, <1>5 DEF AValue

LEMMA RedactedIs ==
  ASSUME NEW pieces \in Seq(APiece), NEW k \in 1..Len(pieces), NEW r, NamesOnce(r),
         pieces[k].cat # "none" => Named(r, pieces[k].cat, pieces[k].value)
  PROVE  /\ Redacted(r, pieces[k]) \in AValue
         /\ \A s : NamesOnce(s) /\ Continues(s, r) => Redacted(s, pieces[k]) = Redacted(r, pieces[k])
<1> DEFINE c == pieces[k].cat
           v == pieces[k].value
           rest == pieces[k].rest
<1>1. rest \in AValue /\ (c # "none" => c \in Category /\ v \in AValue)
  BY PieceIs
<1>2. \A s : Redacted(s, pieces[k]) = IF c = "none" THEN rest ELSE Placeholder(s, c, v) \o rest
  BY DEF Redacted
<1>3. c # "none" => Named(r, c, v)
  OBVIOUS
<1> HIDE DEF c, v, rest
<1>4. CASE c = "none"
  BY <1>1, <1>2, <1>4
<1>5. CASE c # "none"
  <2>1. /\ Number(r, c, v) \in Nat
        /\ \A s : NamesOnce(s) /\ Continues(s, r) => Number(s, c, v) = Number(r, c, v)
    BY <1>3, <1>5, NumberStays, Zenon
  <2> DEFINE ph == Placeholder(r, c, v)
  <2>3. \A s : NamesOnce(s) /\ Continues(s, r) => Placeholder(s, c, v) = ph
    BY <2>1, Zenon DEF Placeholder
  <2>4. Placeholder(r, c, v) = ph
    OBVIOUS
  <2>7. ph \in AValue
    BY <1>1, <1>5, <2>1, PlaceholderIs, Zenon
  <2> HIDE DEF ph
  <2>8. ph \o rest \in AValue
    BY <1>1, <2>7, ConcatProperties DEF AValue
  <2> QED
    BY <1>2, <1>5, <2>3, <2>4, <2>8
<1> QED
  BY <1>4, <1>5

(* What is written is what the pieces are redacted to.                     *)
LEMMA WriteOutSays ==
  ASSUME NEW pieces \in Seq(APiece), NEW r, NEW X,
         \A k \in 1..Len(pieces) : Redacted(Registry(r, pieces)[k], pieces[k]) \in Seq(X)
  PROVE  LET n    == Len(pieces)
             said == [k \in 1..n |-> Redacted(Registry(r, pieces)[k], pieces[k])]
             next == [k \in 1..n |-> k + 1]
         IN /\ Walked(X, n, said, next, Walk(n, said, next))
            /\ WriteOut(r, pieces) = [r |-> Registry(r, pieces)[n], out |-> Walk(n, said, next)[1]]
            /\ WriteOut(r, pieces).out \in Seq(X)
<1> DEFINE n == Len(pieces)
           said == [k \in 1..n |-> Redacted(Registry(r, pieces)[k], pieces[k])]
           next == [k \in 1..n |-> k + 1]
<1>1. n \in Nat
  OBVIOUS
<1>2. GoesForward(X, n, said, next)
  <2>1. \A i \in 1..n : next[i] \in Int /\ i < next[i] /\ next[i] <= n + 1
    BY <1>1, SMT
  <2>2. said \in [1..n -> Seq(X)] /\ next \in [1..n -> Int]
    BY <2>1
  <2> HIDE DEF said, next
  <2> QED
    BY <1>1, <2>1, <2>2 DEF GoesForward
<1>3. WriteOut(r, pieces) = [r |-> Registry(r, pieces)[n], out |-> Walk(n, said, next)[1]]
  BY DEF WriteOut
<1> HIDE DEF said, next
<1>4. Walked(X, n, said, next, Walk(n, said, next))
  BY <1>2, WalkIs, Zenon
<1>5. 1 \in 1..(n + 1)
  BY <1>1, SMT
<1>6. Walk(n, said, next)[1] \in Seq(X)
  BY <1>4, <1>5 DEF Walked
<1> QED
  BY <1>3, <1>4, <1>6 DEF said, next

(* A pass adds names, and who has these and more writes the same.          *)
LEMMA WriteOutIs ==
  ASSUME NEW pieces \in Seq(APiece), NEW r, NamesOnce(r)
  PROVE  LET done == WriteOut(r, pieces)
         IN /\ NamesOnce(done.r) /\ done.out \in AValue /\ Continues(done.r, r)
            /\ \A s : NamesOnce(s) /\ Continues(s, done.r)
                        => WriteOut(s, pieces) = [r |-> s, out |-> done.out]
<1> DEFINE n == Len(pieces)
           reg == Registry(r, pieces)
           said == [k \in 1..n |-> Redacted(reg[k], pieces[k])]
           next == [k \in 1..n |-> k + 1]
<1>1. n \in Nat /\ 0 \in 0..n /\ n \in 0..n /\ \A k \in 1..n : k \in 0..n
  BY SMT
<1>2. /\ \A k \in 0..n : NamesOnce(reg[k])
      /\ \A k \in 0..n : \A j \in 0..k : Continues(reg[k], reg[j])
      /\ \A k \in 1..n : pieces[k].cat # "none" => Named(reg[k], pieces[k].cat, pieces[k].value)
      /\ reg[0] = r
  BY RegistryGrows, RegistryIs
<1>3. \A k \in 1..n : /\ Redacted(reg[k], pieces[k]) \in AValue
                      /\ \A s : NamesOnce(s) /\ Continues(s, reg[k])
                                  => Redacted(s, pieces[k]) = Redacted(reg[k], pieces[k])
  <2> SUFFICES ASSUME NEW k \in 1..n
               PROVE  /\ Redacted(reg[k], pieces[k]) \in AValue
                      /\ \A s : NamesOnce(s) /\ Continues(s, reg[k])
                                  => Redacted(s, pieces[k]) = Redacted(reg[k], pieces[k])
    OBVIOUS
  <2>1. NamesOnce(reg[k]) /\ (pieces[k].cat # "none" => Named(reg[k], pieces[k].cat, pieces[k].value))
    BY <1>1, <1>2
  <2> HIDE DEF reg
  <2> QED
    BY <2>1, RedactedIs
<1>4. /\ WriteOut(r, pieces) = [r |-> reg[n], out |-> Walk(n, said, next)[1]]
      /\ WriteOut(r, pieces).out \in AValue
  BY <1>3, WriteOutSays DEF AValue
<1>5. ASSUME NEW s, NamesOnce(s), Continues(s, reg[n])
      PROVE  WriteOut(s, pieces) = [r |-> s, out |-> Walk(n, said, next)[1]]
  <2>1. \A k \in 1..n : Continues(s, reg[k])
    <3> SUFFICES ASSUME NEW k \in 1..n PROVE Continues(s, reg[k])
      OBVIOUS
    <3>1. NamesOnce(reg[k]) /\ NamesOnce(reg[n]) /\ Continues(reg[n], reg[k])
      BY <1>1, <1>2
    <3> HIDE DEF reg
    <3> QED
      BY <1>5, <3>1, ContinuesOn, Zenon
  <2>2. \A k \in 1..n : pieces[k].cat # "none" => Named(s, pieces[k].cat, pieces[k].value)
    <3> SUFFICES ASSUME NEW k \in 1..n, pieces[k].cat # "none"
                 PROVE  Named(s, pieces[k].cat, pieces[k].value)
      OBVIOUS
    <3>1. NamesOnce(reg[k]) /\ Named(reg[k], pieces[k].cat, pieces[k].value) /\ Continues(s, reg[k])
      BY <1>1, <1>2, <2>1
    <3> HIDE DEF reg
    <3> QED
      BY <1>5, <3>1, NamedStays, Zenon
  <2>3. \A k \in 0..n : Registry(s, pieces)[k] = s
    BY <2>2, NothingToName
  <2> DEFINE again == [k \in 1..n |-> Redacted(Registry(s, pieces)[k], pieces[k])]
  <2>4. \A k \in 1..n : Redacted(Registry(s, pieces)[k], pieces[k]) = Redacted(reg[k], pieces[k])
    BY <1>1, <1>3, <1>5, <2>1, <2>3, Zenon
  <2>5. again = said
    BY <2>4
  <2>6. WriteOut(s, pieces) = [r |-> Registry(s, pieces)[n], out |-> Walk(n, again, next)[1]]
    BY DEF WriteOut
  <2> HIDE DEF again, said, next, reg
  <2> QED
    BY <1>1, <2>3, <2>5, <2>6, Zenon
<1>6. NamesOnce(reg[n]) /\ Continues(reg[n], r)
  BY <1>1, <1>2
<1> HIDE DEF said, next, reg
<1>7. WriteOut(r, pieces).r = reg[n] /\ WriteOut(r, pieces).out = Walk(n, said, next)[1]
  BY <1>4
<1> QED
  BY <1>4, <1>5, <1>6, <1>7, Zenon

-----------------------------------------------------------------------------
(* Each pass takes a line apart into pieces.                               *)
LEMMA GreatestNumber ==
  ASSUME NEW n \in Nat, NEW A \in SUBSET (0..n), A # {}
  PROVE  LET m == CHOOSE j \in A : \A i \in A : i <= j
         IN m \in A /\ \A i \in A : i <= m
<1> DEFINE B == {n - j : j \in A}
<1>1. B \in SUBSET Nat /\ B # {}
  <2>1. \A j \in A : n - j \in Nat
    BY SMT
  <2> QED
    BY <2>1
<1>2. Min(B) \in B /\ \A y \in B : Min(B) <= y
  BY <1>1, LeastNumber
<1>3. PICK j \in A : Min(B) = n - j
  BY <1>2
<1>4. \A i \in A : n - j <= n - i
  BY <1>2, <1>3
<1>5. \A i \in A : i <= j
  BY <1>4, SMT
<1> QED
  BY <1>5

LEMMA FirstFromIs ==
  ASSUME NEW l, Len(l) \in Nat, NEW from \in 1..(Len(l) + 1), NEW kinds
  PROVE  LET first == FirstFrom(l, from, kinds)
         IN /\ first \in from..(Len(l) + 1)
            /\ first = Len(l) + 1 \/ l[first].kind \in kinds
            /\ \A j \in from..(first - 1) : l[j].kind \notin kinds
<1> DEFINE n == Len(l)
           B == {j \in from..(n + 1) : j = n + 1 \/ l[j].kind \in kinds}
           m == Min(B)
<1>1. n + 1 \in B /\ B \in SUBSET Nat
  BY SMT
<1>2. m \in B /\ \A y \in B : m <= y
  BY <1>1, LeastNumber
<1> HIDE DEF m
<1>3. \A j \in from..(m - 1) : j \in from..(n + 1) /\ ~(m <= j)
  BY <1>2, SMT
<1>4. /\ m \in from..(n + 1) /\ (m = n + 1 \/ l[m].kind \in kinds)
      /\ \A j \in from..(m - 1) : l[j].kind \notin kinds
  BY <1>2, <1>3
<1> QED
  BY <1>4 DEF FirstFrom

LEMMA KeptIs == \A items \in AValue : Kept(items) \in APiece
BY SMT DEF Kept, Hidden, APiece, AValue

LEMMA HiddenIs == \A cat \in Category, value \in AValue, rest \in AValue : Hidden(cat, value, rest) \in APiece
BY SMT DEF Hidden, APiece

LEMMA OneItem ==
  ASSUME NEW l \in AValue
  PROVE  /\ Len(l) \in Nat /\ DOMAIN l = 1..Len(l)
         /\ \A k \in 1..Len(l) : l[k] \in AnItem /\ <<l[k]>> \in AValue
         /\ \A i \in 1..(Len(l) + 1), j \in 0..Len(l) : SubSeq(l, i, j) \in AValue
<1>1. Len(l) \in Nat /\ DOMAIN l = 1..Len(l) /\ \A k \in 1..Len(l) : l[k] \in AnItem
  BY ElementOfSeq DEF AValue
<1>2. \A x \in AnItem : <<x>> \in AValue
  BY DEF AValue
<1>3. ASSUME NEW i \in 1..(Len(l) + 1), NEW j \in 0..Len(l) PROVE SubSeq(l, i, j) \in AValue
  <2>1. i \in Int /\ j \in Int /\ \A k \in i..j : k \in 1..Len(l)
    BY <1>1, SMT
  <2> QED
    BY <1>1, <2>1, SubSeqProperties DEF AValue
<1> QED
  BY <1>1, <1>2, <1>3

(* A URL: its scheme, its userinfo and the rest of it.                     *)
LEMMA UrlIs ==
  ASSUME NEW l \in AValue, NEW k \in 1..Len(l), UrlAt(l, k)
  PROVE  /\ k + 2 \in 1..Len(l) /\ k + 3 \in 1..(Len(l) + 1)
         /\ AuthEnd(l, k) \in (k + 3)..(Len(l) + 1) /\ UrlEnd(l, k) \in AuthEnd(l, k)..(Len(l) + 1)
         /\ Userinfo(l, k) \in AValue /\ k + 3 + Len(Userinfo(l, k)) \in (k + 3)..AuthEnd(l, k)
<1>1. Len(l) \in Nat /\ DOMAIN l = 1..Len(l)
      /\ \A i \in 1..(Len(l) + 1), j \in 0..Len(l) : SubSeq(l, i, j) \in AValue
  BY OneItem
<1>2. k + 2 \in 1..Len(l)
  BY <1>1 DEF UrlAt, Is
<1>3. k + 3 \in 1..(Len(l) + 1)
  BY <1>1, <1>2, SMT
<1> DEFINE a == AuthEnd(l, k)
           u == UrlEnd(l, k)
<1>4. /\ a \in (k + 3)..(Len(l) + 1)
      /\ \A j \in (k + 3)..(a - 1) : l[j].kind \notin {"slash", "space", "lt", "gt"}
  BY <1>1, <1>3, FirstFromIs DEF AuthEnd
<1>5. u \in (k + 3)..(Len(l) + 1) /\ (u = Len(l) + 1 \/ l[u].kind \in {"space", "lt", "gt"})
  BY <1>1, <1>3, FirstFromIs DEF UrlEnd
<1> HIDE DEF a, u
<1>6. u \in a..(Len(l) + 1)
  <2> SUFFICES ASSUME u < a PROVE FALSE
    BY <1>4, <1>5, SMT
  <2>1. u \in (k + 3)..(a - 1) /\ u # Len(l) + 1
    BY <1>1, <1>4, <1>5, SMT
  <2> QED
    BY <1>4, <1>5, <2>1
<1> DEFINE ats == {j \in (k + 3)..(a - 1) : l[j].kind = "at"}
           m == CHOOSE j \in ats : \A i \in ats : i <= j
<1>7. Userinfo(l, k) = IF ats = {} THEN <<>> ELSE SubSeq(l, k + 3, m - 1)
  BY DEF Userinfo, a
<1>8. CASE ats = {}
  <2>1. Userinfo(l, k) = <<>> /\ Len(<<>>) = 0 /\ <<>> \in AValue
    BY <1>7, <1>8 DEF AValue
  <2> QED
    BY <1>1, <1>2, <1>3, <1>4, <1>6, <2>1, SMT DEF a, u
<1>9. CASE ats # {}
  <2>1. ats \in SUBSET (0..Len(l))
    BY <1>1, <1>3, <1>4, SMT
  <2>2. m \in ats
    BY <1>1, <1>9, <2>1, GreatestNumber
  <2> HIDE DEF m
  <2>3. m \in (k + 3)..(a - 1)
    BY <2>2
  <2>4. m - 1 \in 0..Len(l) /\ m - 1 \in Int /\ k + 3 \in Int
    BY <1>1, <1>3, <1>4, <2>3, SMT
  <2>5. SubSeq(l, k + 3, m - 1) \in AValue
    BY <1>1, <1>3, <2>4
  <2>6. Len(SubSeq(l, k + 3, m - 1)) = IF k + 3 <= m - 1 THEN m - 1 - (k + 3) + 1 ELSE 0
    <3>1. \A i \in (k + 3)..(m - 1) : l[i] \in AnItem
      <4>1. \A i \in (k + 3)..(m - 1) : i \in 1..Len(l)
        BY <1>1, <1>3, <2>4, SMT
      <4> QED
        BY <4>1, OneItem
    <3> QED
      BY <2>4, <3>1, SubSeqProperties
  <2> DEFINE len == Len(SubSeq(l, k + 3, m - 1))
  <2>7. k + 3 + len \in (k + 3)..a
    <3> HIDE DEF len
    <3>1. len = IF k + 3 <= m - 1 THEN m - 1 - (k + 3) + 1 ELSE 0
      BY <2>6 DEF len
    <3> QED
      BY <1>1, <1>3, <1>4, <2>3, <3>1, SMT
  <2> QED
    BY <1>2, <1>3, <1>4, <1>6, <1>7, <1>9, <2>5, <2>7 DEF a, u
<1> QED
  BY <1>8, <1>9

LEMMA OneUrlIs ==
  ASSUME NEW l \in AValue, NEW k \in 1..Len(l), UrlAt(l, k)
  PROVE  RedactOneUrl(l, k) \in Seq(APiece)
<1> DEFINE user    == Userinfo(l, k)
           from    == k + 3 + Len(user)
           m       == UrlEnd(l, k) - from
           part(j) == IF j > AuthEnd(l, k) /\ IsOpaqueSecret(l, j)
                      THEN Hidden("secret", <<l[j]>>, <<>>) ELSE Kept(<<l[j]>>)
           head    == <<Kept(SubSeq(l, k, k + 2))>>
           auth    == IF user = <<>> THEN <<>> ELSE <<Hidden("secret", user, <<>>)>>
           tail    == [i \in 1..m |-> part(from + i - 1)]
<1>1. Len(l) \in Nat /\ (\A j \in 1..Len(l) : <<l[j]>> \in AValue)
      /\ \A i \in 1..(Len(l) + 1), j \in 0..Len(l) : SubSeq(l, i, j) \in AValue
  BY OneItem
<1>2. /\ k + 2 \in 1..Len(l) /\ k + 3 \in 1..(Len(l) + 1)
      /\ AuthEnd(l, k) \in (k + 3)..(Len(l) + 1) /\ UrlEnd(l, k) \in AuthEnd(l, k)..(Len(l) + 1)
      /\ user \in AValue /\ from \in (k + 3)..AuthEnd(l, k)
  BY UrlIs
<1>3. "secret" \in Category /\ <<>> \in AValue
  BY DEF Category, AValue
<1>4. head \in Seq(APiece)
  <2>1. k \in 1..(Len(l) + 1) /\ k + 2 \in 0..Len(l)
    BY <1>1, <1>2, SMT
  <2>2. Kept(SubSeq(l, k, k + 2)) \in APiece
    BY <1>1, <2>1, KeptIs
  <2> QED
    BY <2>2
<1>5. auth \in Seq(APiece)
  <2>1. Hidden("secret", user, <<>>) \in APiece
    BY <1>2, <1>3, HiddenIs
  <2> HIDE DEF user
  <2>2. <<Hidden("secret", user, <<>>)>> \in Seq(APiece) /\ <<>> \in Seq(APiece)
    BY <2>1
  <2> QED
    BY <2>2
<1>6. tail \in Seq(APiece)
  <2> DEFINE a == AuthEnd(l, k)
             u == UrlEnd(l, k)
  <2> HIDE DEF a, u, from
  <2>1. m \in Nat /\ \A i \in 1..m : from + i - 1 \in 1..Len(l)
    BY <1>1, <1>2, SMT DEF a, u
  <2>2. \A j \in 1..Len(l) : part(j) \in APiece
    BY <1>1, <1>3, KeptIs, HiddenIs
  <2> HIDE DEF part
  <2>3. \A i \in 1..m : part(from + i - 1) \in APiece
    BY <2>1, <2>2
  <2> HIDE DEF m
  <2>4. tail \in [1..m -> APiece]
    BY <2>3
  <2> QED
    BY <2>1, <2>4
<1>7. RedactOneUrl(l, k) = head \o auth \o tail
  BY DEF RedactOneUrl
<1> HIDE DEF head, auth, tail
<1>8. head \o auth \in Seq(APiece)
  BY <1>4, <1>5, ConcatProperties
<1>9. (head \o auth) \o tail \in Seq(APiece)
  BY <1>6, <1>8, ConcatProperties
<1> QED
  BY <1>7, <1>9

LEMMA UrlPiecesAre ==
  ASSUME NEW l \in AValue
  PROVE  UrlPieces(l) \in Seq(APiece)
<1> DEFINE n == Len(l)
           said == [k \in 1..n |-> IF UrlAt(l, k) THEN RedactOneUrl(l, k) ELSE <<Kept(<<l[k]>>)>>]
           next == [k \in 1..n |-> IF UrlAt(l, k) THEN UrlEnd(l, k) ELSE k + 1]
<1>1. n \in Nat /\ \A j \in 1..n : <<l[j]>> \in AValue
  BY OneItem
<1>2. \A k \in 1..n : said[k] \in Seq(APiece)
  <2> SUFFICES ASSUME NEW k \in 1..n PROVE said[k] \in Seq(APiece)
    OBVIOUS
  <2>1. CASE UrlAt(l, k)
    BY <2>1, OneUrlIs
  <2>2. CASE ~UrlAt(l, k)
    <3>1. Kept(<<l[k]>>) \in APiece
      BY <1>1, KeptIs
    <3> QED
      BY <2>2, <3>1
  <2> QED
    BY <2>1, <2>2
<1>3. \A k \in 1..n : next[k] \in Int /\ k < next[k] /\ next[k] <= n + 1
  <2> SUFFICES ASSUME NEW k \in 1..n PROVE next[k] \in Int /\ k < next[k] /\ next[k] <= n + 1
    OBVIOUS
  <2>1. CASE UrlAt(l, k)
    <3> DEFINE u == UrlEnd(l, k)
               a == AuthEnd(l, k)
    <3>1. a \in (k + 3)..(n + 1) /\ u \in a..(n + 1)
      BY <2>1, UrlIs
    <3> HIDE DEF u, a
    <3>2. u \in Int /\ k < u /\ u <= n + 1
      BY <1>1, <3>1, SMT
    <3> QED
      BY <2>1, <3>2 DEF u
  <2>2. CASE ~UrlAt(l, k)
    BY <1>1, <2>2, SMT
  <2> QED
    BY <2>1, <2>2
<1>4. UrlPieces(l) = Walk(n, said, next)[1]
  BY DEF UrlPieces
<1> HIDE DEF said, next
<1>5. said \in [1..n -> Seq(APiece)] /\ next \in [1..n -> Int]
  <2>1. DOMAIN said = 1..n /\ DOMAIN next = 1..n /\ said = [k \in 1..n |-> said[k]] /\ next = [k \in 1..n |-> next[k]]
    BY DEF said, next
  <2> QED
    BY <1>2, <1>3, <2>1
<1>6. GoesForward(APiece, n, said, next)
  BY <1>1, <1>3, <1>5 DEF GoesForward
<1>7. Walked(APiece, n, said, next, Walk(n, said, next)) /\ 1 \in 1..(n + 1)
  BY <1>1, <1>6, WalkIs
<1> QED
  BY <1>4, <1>7 DEF Walked

(* A home path: its three first items and the name.                        *)
HomeNext(l, k) == IF HomeAt(l, k) THEN k + 4 ELSE k + 1

LEMMA HomeMarksAre ==
  ASSUME NEW l \in AValue, NEW k \in 1..Len(l)
  PROVE  /\ HomeMarks(l, k) \in Seq(APiece)
         /\ HomeNext(l, k) \in Int /\ k < HomeNext(l, k) /\ HomeNext(l, k) <= Len(l) + 1
<1>1. /\ Len(l) \in Nat /\ DOMAIN l = 1..Len(l) /\ \A j \in 1..Len(l) : <<l[j]>> \in AValue
      /\ \A i \in 1..(Len(l) + 1), j \in 0..Len(l) : SubSeq(l, i, j) \in AValue
  BY OneItem
<1>2. CASE HomeAt(l, k)
  <2>1. k + 3 \in 1..Len(l)
    BY <1>1, <1>2 DEF HomeAt
  <2>2. k \in 1..(Len(l) + 1) /\ k + 2 \in 0..Len(l)
    BY <1>1, <2>1, SMT
  <2>3. "user" \in Category /\ <<>> \in AValue
    BY DEF Category, AValue
  <2> DEFINE a == Kept(SubSeq(l, k, k + 2))
             b == Hidden("user", <<l[k + 3]>>, <<>>)
  <2>4. a \in APiece /\ b \in APiece
    BY <1>1, <2>1, <2>2, <2>3, KeptIs, HiddenIs
  <2>5. HomeMarks(l, k) = <<a, b>>
    BY <1>2 DEF HomeMarks
  <2> HIDE DEF a, b
  <2>6. HomeMarks(l, k) \in Seq(APiece)
    BY <2>4, <2>5
  <2> QED
    BY <1>1, <1>2, <2>1, <2>6, SMT DEF HomeNext
<1>3. CASE ~HomeAt(l, k)
  <2>1. Kept(<<l[k]>>) \in APiece
    BY <1>1, KeptIs
  <2>2. HomeMarks(l, k) \in Seq(APiece)
    BY <1>3, <2>1 DEF HomeMarks
  <2> QED
    BY <1>1, <1>3, <2>2, SMT DEF HomeNext
<1> QED
  BY <1>2, <1>3

LEMMA HomePiecesAre ==
  ASSUME NEW l \in AValue
  PROVE  LET n    == Len(l)
             said == [k \in 1..n |-> HomeMarks(l, k)]
             next == [k \in 1..n |-> HomeNext(l, k)]
         IN /\ Walked(APiece, n, said, next, Walk(n, said, next))
            /\ HomePieces(l) = Walk(n, said, next)[1]
            /\ HomePieces(l) \in Seq(APiece)
<1> DEFINE n == Len(l)
           said == [k \in 1..n |-> HomeMarks(l, k)]
           next == [k \in 1..n |-> HomeNext(l, k)]
<1>1. n \in Nat /\ 1 \in 1..(n + 1)
  BY OneItem
<1>2. \A k \in 1..n : /\ HomeMarks(l, k) \in Seq(APiece)
                      /\ HomeNext(l, k) \in Int /\ k < HomeNext(l, k) /\ HomeNext(l, k) <= n + 1
  BY HomeMarksAre
<1>3. GoesForward(APiece, n, said, next)
  <2>1. said \in [1..n -> Seq(APiece)] /\ next \in [1..n -> Int]
    BY <1>2
  <2>2. \A k \in 1..n : k < next[k] /\ next[k] <= n + 1
    BY <1>2
  <2> HIDE DEF said, next
  <2> QED
    BY <1>1, <2>1, <2>2 DEF GoesForward
<1>4. HomePieces(l) = Walk(n, said, next)[1]
  BY DEF HomePieces, HomeNext
<1> HIDE DEF said, next
<1>5. Walked(APiece, n, said, next, Walk(n, said, next))
  BY <1>3, WalkIs, Zenon
<1>6. HomePieces(l) \in Seq(APiece)
  BY <1>1, <1>4, <1>5 DEF Walked
<1> QED
  BY <1>4, <1>5, <1>6 DEF said, next

(* A word by itself.                                                       *)
LEMMA TokenIsAPiece ==
  ASSUME NEW w \in AnItem, NEW prev
  PROVE  ReplaceToken(w, prev) \in APiece
<1>1. /\ <<>> \in AValue /\ <<w>> \in AValue /\ "ip" \in Category
  BY DEF AValue, Category
<1>2. Port \in AnItem
  <2>1. "port" \in Kinds /\ "" \in Tails /\ "" \in Ids \cup Category \cup {""} /\ 0 \in Nat
    BY DEF Kinds, Tails
  <2>2. \A kind \in Kinds, id \in Ids \cup Category \cup {""}, n \in Nat, tail \in Tails :
          Item(kind, id, n, tail) \in AnItem
    BY Zenon DEF Item, AnItem
  <2> QED
    BY <2>1, <2>2 DEF Port
<1>3. <<Port>> \in AValue
  BY <1>2 DEF AValue
<1>4. HostOf(w) # <<>> => HostOf(w) \in AValue
  <2>1. [w EXCEPT !.tail = ""] \in AnItem
    BY DEF AnItem, Tails
  <2> DEFINE x == [w EXCEPT !.tail = ""]
  <2>2. HostOf(w) # <<>> => HostOf(w) = <<x>>
    BY DEF HostOf
  <2>3. x \in AnItem
    BY <2>1
  <2> HIDE DEF x
  <2>4. <<x>> \in AValue
    BY <2>3 DEF AValue
  <2> QED
    BY <2>2, <2>4
<1> DEFINE c == IF ShapeOf(w) # "none" THEN ShapeOf(w) ELSE Anchored(w, prev)
<1>5. c # "none" => c \in Category
  <2>1. ShapeOf(w) # "none" => ShapeOf(w) \in {"enr", "ip", "peer", "pubkey", "address"}
    BY DEF ShapeOf, HexShape
  <2>2. Anchored(w, prev) \in {"graffiti", "validator", "host", "none"}
    BY DEF Anchored
  <2> QED
    BY <2>1, <2>2 DEF Category, Anchor
<1>6. ReplaceToken(w, prev) = IF HostOf(w) # <<>> THEN Hidden("ip", HostOf(w), <<Port>>)
                              ELSE IF c = "none" THEN Kept(<<w>>) ELSE Hidden(c, <<w>>, <<>>)
  BY DEF ReplaceToken
<1> HIDE DEF c
<1> QED
  BY <1>1, <1>3, <1>4, <1>5, <1>6, KeptIs, HiddenIs

LEMMA TokenPiecesAre ==
  ASSUME NEW l \in AValue
  PROVE  TokenPieces(l) \in Seq(APiece) /\ Len(TokenPieces(l)) = Len(l)
<1> DEFINE n == Len(l)
           said(k) == IF IsWord(l[k]) THEN ReplaceToken(l[k], Prev(l, k)) ELSE Kept(<<l[k]>>)
<1>1. n \in Nat /\ \A k \in 1..n : l[k] \in AnItem /\ <<l[k]>> \in AValue
  BY OneItem
<1>2. \A k \in 1..n : said(k) \in APiece
  BY <1>1, TokenIsAPiece, KeptIs
<1> HIDE DEF said
<1>3. TokenPieces(l) = [k \in 1..n |-> said(k)]
  BY DEF TokenPieces, said
<1>4. [k \in 1..n |-> said(k)] \in [1..n -> APiece]
  BY <1>2
<1> QED
  BY <1>1, <1>3, <1>4

-----------------------------------------------------------------------------
(* Redacting a line adds names, and who has these and more writes the same *)
(* line.                                                                   *)
LEMMA RedactIs ==
  ASSUME NEW l \in AValue, NEW r, NamesOnce(r)
  PROVE  LET done == Redact(r, l)
         IN /\ NamesOnce(done.r) /\ done.line \in AValue /\ Continues(done.r, r)
            /\ \A s : NamesOnce(s) /\ Continues(s, done.r)
                        => Redact(s, l) = [r |-> s, line |-> done.line]
<1> DEFINE u == WriteOut(r, UrlPieces(l))
           h == WriteOut(u.r, HomePieces(u.out))
           t == WriteOut(h.r, TokenPieces(h.out))
<1>1. /\ NamesOnce(u.r) /\ u.out \in AValue /\ Continues(u.r, r)
      /\ \A s : NamesOnce(s) /\ Continues(s, u.r) => WriteOut(s, UrlPieces(l)) = [r |-> s, out |-> u.out]
  BY UrlPiecesAre, WriteOutIs
<1> HIDE DEF u
<1>2. /\ NamesOnce(h.r) /\ h.out \in AValue /\ Continues(h.r, u.r)
      /\ \A s : NamesOnce(s) /\ Continues(s, h.r)
                  => WriteOut(s, HomePieces(u.out)) = [r |-> s, out |-> h.out]
  <2>1. HomePieces(u.out) \in Seq(APiece)
    BY <1>1, HomePiecesAre
  <2> QED
    BY <1>1, <2>1, WriteOutIs
<1> HIDE DEF h
<1>3. /\ NamesOnce(t.r) /\ t.out \in AValue /\ Continues(t.r, h.r)
      /\ \A s : NamesOnce(s) /\ Continues(s, t.r)
                  => WriteOut(s, TokenPieces(h.out)) = [r |-> s, out |-> t.out]
  <2>1. TokenPieces(h.out) \in Seq(APiece)
    BY <1>2, TokenPiecesAre
  <2> QED
    BY <1>2, <2>1, WriteOutIs
<1>4. Redact(r, l) = [r |-> t.r, line |-> t.out]
  BY DEF Redact, u, h
<1> HIDE DEF t
<1>5. Redact(r, l).r = t.r /\ Redact(r, l).line = t.out
  BY <1>4
<1>6. Continues(t.r, u.r) /\ Continues(t.r, r)
  <2>1. Continues(t.r, u.r)
    BY <1>1, <1>2, <1>3, ContinuesOn, Zenon
  <2> QED
    BY <1>1, <1>3, <2>1, ContinuesOn, Zenon
<1>7. ASSUME NEW s, NamesOnce(s), Continues(s, t.r) PROVE Redact(s, l) = [r |-> s, line |-> t.out]
  <2>1. Continues(s, h.r)
    BY <1>2, <1>3, <1>7, ContinuesOn, Zenon
  <2>2. Continues(s, u.r)
    BY <1>1, <1>2, <1>3, <1>7, <1>6, ContinuesOn, Zenon
  <2> DEFINE su == WriteOut(s, UrlPieces(l))
             sh == WriteOut(su.r, HomePieces(su.out))
             st == WriteOut(sh.r, TokenPieces(sh.out))
  <2>3. su = [r |-> s, out |-> u.out]
    BY <1>1, <1>7, <2>2
  <2> HIDE DEF su
  <2>4. sh = [r |-> s, out |-> h.out]
    <3>1. su.r = s /\ su.out = u.out
      BY <2>3
    <3> QED
      BY <1>2, <1>7, <2>1, <3>1
  <2> HIDE DEF sh
  <2>5. st = [r |-> s, out |-> t.out]
    <3>1. sh.r = s /\ sh.out = h.out
      BY <2>4
    <3> QED
      BY <1>3, <1>7, <3>1
  <2>6. Redact(s, l) = [r |-> st.r, line |-> st.out]
    BY DEF Redact, su, sh
  <2> HIDE DEF st
  <2>7. st.r = s /\ st.out = t.out
    BY <2>5
  <2> QED
    BY <2>6, <2>7
<1> QED
  BY <1>3, <1>5, <1>6, <1>7, Zenon

(* Every line reads the same whoever redacts it with the names given so    *)
(* far, and more.                                                          *)
Settled(r, line) ==
  /\ line.from \in AValue
  /\ \A s : NamesOnce(s) /\ Continues(s, r)
              => Redact(s, line.from) = [r |-> s, line |-> line.into]

LogInv ==
  /\ NamesOnce(names)
  /\ Len(log) \in 0..Len(Lines) /\ DOMAIN log = 1..Len(log)
  /\ \A k \in 1..Len(log) : Settled(names, log[k])

LEMMA AppendIs ==
  ASSUME NEW s, Len(s) \in Nat, DOMAIN s = 1..Len(s), NEW x
  PROVE  /\ DOMAIN Append(s, x) = 1..(Len(s) + 1) /\ Len(Append(s, x)) = Len(s) + 1
         /\ Append(s, x)[Len(s) + 1] = x
         /\ \A k \in 1..Len(s) : Append(s, x)[k] = s[k]
OBVIOUS

LEMMA LineIsRead == \A i \in 1..Len(Lines) : Lines[i] \subseteq AValue
<1>1. Lines \in Seq(SUBSET AValue)
  BY TextsAssumption DEF AValue
<1> QED
  BY <1>1, ElementOfSeq

LEMMA LogInvInit == TextsInit => LogInv
<1> SUFFICES ASSUME TextsInit PROVE LogInv
  OBVIOUS
<1>1. names = <<>> /\ log = <<>>
  BY DEF TextsInit
<1>2. Lines \in Seq(SUBSET AValue)
  BY TextsAssumption DEF AValue
<1>3. Len(Lines) \in Nat
  BY <1>2
<1>4. /\ <<>> \in Seq(Category \X AValue) /\ DOMAIN <<>> = {} /\ Len(<<>>) = 0 /\ 1..0 = {}
  OBVIOUS
<1>5. 0 \in 0..Len(Lines)
  BY <1>3, SMT
<1>6. NamesOnce(<<>>)
  BY <1>4 DEF NamesOnce, IsInjective
<1> QED
  BY <1>1, <1>4, <1>5, <1>6 DEF LogInv

LEMMA LogInvStep == LogInv /\ [TextsNext]_textVars => LogInv'
<1> SUFFICES ASSUME LogInv, [TextsNext]_textVars PROVE LogInv'
  OBVIOUS
<1>1. CASE RedactLine
  <2> DEFINE n == Len(log)
  <2>1. PICK l \in Lines[n + 1] :
          /\ names' = Redact(names, l).r
          /\ log' = Append(log, [from |-> l, into |-> Redact(names, l).line])
    BY <1>1 DEF RedactLine
  <2>2. Lines \in Seq(SUBSET AValue)
    BY TextsAssumption DEF AValue
  <2>3. Len(Lines) \in Nat /\ n \in 0..Len(Lines) /\ n < Len(Lines)
    BY <1>1, <2>2 DEF LogInv, RedactLine
  <2>4. n + 1 \in 1..Len(Lines) /\ n + 1 \in 0..Len(Lines) /\ n \in Nat
    BY <2>3, SMT
  <2>5. l \in AValue
    BY <2>1, <2>4, LineIsRead
  <2> DEFINE d == Redact(names, l)
             x == [from |-> l, into |-> d.line]
  <2>6. NamesOnce(names) /\ DOMAIN log = 1..n /\ \A k \in 1..n : Settled(names, log[k])
    BY DEF LogInv
  <2>7. /\ NamesOnce(d.r) /\ Continues(d.r, names)
        /\ \A s : NamesOnce(s) /\ Continues(s, d.r) => Redact(s, l) = [r |-> s, line |-> d.line]
    BY <2>5, <2>6, RedactIs
  <2> HIDE DEF d
  <2>8. /\ DOMAIN log' = 1..(n + 1) /\ Len(log') = n + 1 /\ log'[n + 1] = x
        /\ \A k \in 1..n : log'[k] = log[k]
    BY <2>1, <2>4, <2>6, AppendIs DEF d
  <2>9. names' = d.r
    BY <2>1 DEF d
  <2>10. Settled(d.r, x)
    BY <2>5, <2>7 DEF Settled
  <2>11. ASSUME NEW k \in 1..n PROVE Settled(d.r, log[k])
    <3>1. /\ log[k].from \in AValue
          /\ \A s : NamesOnce(s) /\ Continues(s, names)
                      => Redact(s, log[k].from) = [r |-> s, line |-> log[k].into]
      BY <2>6 DEF Settled
    <3>2. \A s : NamesOnce(s) /\ Continues(s, d.r) => Continues(s, names)
      BY <2>6, <2>7, ContinuesOn, Zenon
    <3> QED
      BY <3>1, <3>2, Zenon DEF Settled
  <2>12. \A k \in 1..(n + 1) : k \in 1..n \/ k = n + 1
    BY <2>4, SMT
  <2>13. \A k \in 1..(n + 1) : Settled(d.r, log'[k])
    BY <2>8, <2>10, <2>11, <2>12
  <2>14. NamesOnce(names') /\ \A k \in 1..Len(log') : Settled(names', log'[k])
    BY <2>7, <2>8, <2>9, <2>13
  <2>15. Len(log') \in 0..Len(Lines) /\ DOMAIN log' = 1..Len(log')
    BY <2>4, <2>8
  <2> QED
    BY <2>14, <2>15, Zenon DEF LogInv, NamesOnce, Settled
<1>2. CASE UNCHANGED <<names, log>>
  BY <1>2, Zenon DEF LogInv, NamesOnce, Settled
<1>3. CASE ReadSample \/ ReadPage \/ ShowLine \/ PrintText \/ CountDay \/ UNCHANGED textVars
  <2>1. UNCHANGED <<names, log>>
    BY <1>3, Zenon DEF ReadSample, ReadPage, ShowLine, PrintText, CountDay, Make, textVars
  <2> QED
    BY <1>2, <2>1
<1> QED
  BY <1>1, <1>3 DEF TextsNext

LEMMA LogInvariant == TextsSpec => []LogInv
<1> QED
  BY LogInvInit, LogInvStep, PTL DEF TextsSpec

(* One value gets one name, and keeps it: whatever lines come in whatever  *)
(* order, redacting any of them again with the names given so far writes   *)
(* the same line and adds no name (Redactor::token).                       *)
THEOREM NamesAreAlwaysStable == TextsSpec => []NamesAreStable
<1>1. LogInv => StableNames
  <2> SUFFICES ASSUME LogInv, NEW k \in DOMAIN log
               PROVE  Redact(names, log[k].from) = [r |-> names, line |-> log[k].into]
    BY DEF StableNames
  <2>1. Settled(names, log[k]) /\ NamesOnce(names)
    BY DEF LogInv
  <2>2. Continues(names, names)
    <3>1. Len(names) \in Nat
      BY <2>1 DEF NamesOnce
    <3> QED
      BY <3>1, SMT DEF Continues
  <2> QED
    BY <2>1, <2>2, Zenon DEF Settled
<1>2. LogInv => IsInjective(names) /\ Len(log) <= Len(Lines) /\ \A k \in DOMAIN names : names[k][1] \in Category
  <2> SUFFICES ASSUME LogInv
               PROVE  IsInjective(names) /\ Len(log) <= Len(Lines) /\ \A k \in DOMAIN names : names[k][1] \in Category
    OBVIOUS
  <2>1. names \in Seq(Category \X AValue) /\ IsInjective(names) /\ Len(log) \in 0..Len(Lines)
    BY DEF LogInv, NamesOnce
  <2>2. Len(log) <= Len(Lines)
    <3>1. Lines \in Seq(SUBSET AValue)
      BY TextsAssumption DEF AValue
    <3>2. Len(Lines) \in Nat
      BY <3>1
    <3> QED
      BY <2>1, <3>2, SMT
  <2>3. \A k \in DOMAIN names : names[k] \in Category \X AValue
    BY <2>1, ElementOfSeq, LenProperties
  <2> QED
    BY <2>1, <2>2, <2>3
<1>3. MadeInv => made.of \in {"nothing", "sample", "page", "line", "print", "day"}
  BY MadeIs
<1>4. LogInv /\ MadeInv => NamesAreStable
  BY <1>1, <1>2, <1>3, Zenon DEF NamesAreStable, TextsTypeOK
<1> QED
  BY <1>4, LogInvariant, MadeInvariant, PTL

-----------------------------------------------------------------------------
(* What is written when every name is known, piece after piece.            *)
Out(s, pieces) ==
  Walk(Len(pieces), [k \in 1..Len(pieces) |-> Redacted(s, pieces[k])],
       [k \in 1..Len(pieces) |-> k + 1])

LEMMA NumberIs ==
  ASSUME NEW s, NamesOnce(s), NEW cat, NEW value
  PROVE  Number(s, cat, value) \in Nat
<1> DEFINE of == {k \in DOMAIN s : s[k][1] = cat /\ \E j \in k..Len(s) : s[j] = <<cat, value>>}
<1>1. DOMAIN s = 1..Len(s) /\ Len(s) \in Nat
  BY DEF NamesOnce
<1>2. IsFiniteSet(1..Len(s)) /\ of \subseteq 1..Len(s)
  BY <1>1, FS_Interval
<1>3. IsFiniteSet(of)
  BY <1>2, FS_Subset
<1> QED
  BY <1>3, FS_CardinalityType DEF Number

LEMMA PieceIsWritten ==
  ASSUME NEW s, NamesOnce(s), NEW piece \in APiece
  PROVE  Redacted(s, piece) \in AValue
<1> DEFINE c == piece.cat
           v == piece.value
           rest == piece.rest
<1>1. rest \in AValue /\ v \in AValue /\ (c # "none" => c \in Category)
  BY DEF APiece
<1>2. Redacted(s, piece) = IF c = "none" THEN rest ELSE Placeholder(s, c, v) \o rest
  BY DEF Redacted
<1> HIDE DEF c, v, rest
<1>3. CASE c = "none"
  BY <1>1, <1>2, <1>3
<1>4. CASE c # "none"
  <2>1. Placeholder(s, c, v) \in AValue
    BY <1>1, <1>4, NumberIs, PlaceholderIs, Zenon
  <2> QED
    BY <1>1, <1>2, <1>4, <2>1, ConcatProperties DEF AValue
<1> QED
  BY <1>3, <1>4

LEMMA OutIs ==
  ASSUME NEW s, NamesOnce(s), NEW pieces \in Seq(APiece)
  PROVE  /\ Len(pieces) \in Nat /\ Out(s, pieces)[Len(pieces) + 1] = <<>>
         /\ \A k \in 1..(Len(pieces) + 1) : Out(s, pieces)[k] \in AValue
         /\ \A k \in 1..Len(pieces) : Out(s, pieces)[k] = Redacted(s, pieces[k]) \o Out(s, pieces)[k + 1]
<1> DEFINE n == Len(pieces)
           said == [k \in 1..n |-> Redacted(s, pieces[k])]
           next == [k \in 1..n |-> k + 1]
<1>1. n \in Nat
  OBVIOUS
<1>2. \A k \in 1..n : Redacted(s, pieces[k]) \in AValue
  BY ElementOfSeq, PieceIsWritten
<1>3. GoesForward(AnItem, n, said, next)
  <2>1. \A i \in 1..n : next[i] \in Int /\ i < next[i] /\ next[i] <= n + 1
    BY <1>1, SMT
  <2>2. said \in [1..n -> Seq(AnItem)] /\ next \in [1..n -> Int]
    BY <1>2, <2>1 DEF AValue
  <2> HIDE DEF said, next
  <2> QED
    BY <1>1, <2>1, <2>2 DEF GoesForward
<1>4. \A k \in 1..n : said[k] = Redacted(s, pieces[k]) /\ next[k] = k + 1
  OBVIOUS
<1>5. Out(s, pieces) = Walk(n, said, next)
  BY DEF Out
<1> HIDE DEF said, next
<1>6. Walked(AnItem, n, said, next, Out(s, pieces))
  BY <1>3, <1>5, WalkIs, Zenon
<1> QED
  BY <1>1, <1>4, <1>6 DEF Walked, AValue

(* The pass writes that with the names it ends with.                       *)
LEMMA WrittenKnowingAll ==
  ASSUME NEW pieces \in Seq(APiece), NEW r, NamesOnce(r)
  PROVE  LET done == WriteOut(r, pieces)
         IN NamesOnce(done.r) /\ done.out = Out(done.r, pieces)[1]
<1> DEFINE n == Len(pieces)
           reg == Registry(r, pieces)
           s == reg[n]
           next == [k \in 1..n |-> k + 1]
<1>1. n \in Nat /\ n \in 0..n /\ \A k \in 1..n : k \in 0..n
  BY SMT
<1>2. WriteOut(r, pieces).r = s
  BY DEF WriteOut
<1>3. \A k \in 1..n : pieces[k].cat # "none" => Named(s, pieces[k].cat, pieces[k].value)
  <2> SUFFICES ASSUME NEW k \in 1..n, pieces[k].cat # "none"
               PROVE  Named(s, pieces[k].cat, pieces[k].value)
    OBVIOUS
  <2>1. /\ NamesOnce(reg[k]) /\ NamesOnce(s) /\ Continues(s, reg[k])
        /\ Named(reg[k], pieces[k].cat, pieces[k].value)
    BY <1>1, RegistryGrows
  <2> HIDE DEF reg, s
  <2> QED
    BY <2>1, NamedStays, Zenon
<1>4. NamesOnce(s) /\ Continues(s, s)
  <2>1. NamesOnce(s) /\ Continues(s, s)
    BY <1>1, RegistryGrows
  <2> QED
    BY <2>1
<1> HIDE DEF s
<1>5. \A k \in 0..n : Registry(s, pieces)[k] = s
  BY <1>3, NothingToName
<1>6. WriteOut(s, pieces) = [r |-> s, out |-> WriteOut(r, pieces).out]
  BY <1>2, <1>4, WriteOutIs
<1> DEFINE said == [k \in 1..n |-> Redacted(Registry(s, pieces)[k], pieces[k])]
           all == [k \in 1..n |-> Redacted(s, pieces[k])]
<1>7. said = all
  BY <1>1, <1>5
<1>8. WriteOut(s, pieces).out = Walk(n, said, next)[1]
  BY DEF WriteOut
<1>9. Out(s, pieces) = Walk(n, all, next)
  BY DEF Out
<1> HIDE DEF said, all, next
<1>10. WriteOut(s, pieces).out = WriteOut(r, pieces).out
  BY <1>6
<1> QED
  BY <1>2, <1>4, <1>7, <1>8, <1>9, <1>10, Zenon

LEMMA PartsAssociate == \A t, u, v \in AValue : t \o (u \o v) = (t \o u) \o v
<1>1. \A t, u, v \in Seq(AnItem) : (t \o u) \o v = t \o (u \o v)
  BY ConcatAssociative
<1> QED
  BY <1>1 DEF AValue

(* Two parts are written one after the other.                              *)
LEMMA OutInParts ==
  ASSUME NEW s, NamesOnce(s), NEW P \in Seq(APiece), NEW Q \in Seq(APiece)
  PROVE  P \o Q \in Seq(APiece) /\ Out(s, P \o Q)[1] = Out(s, P)[1] \o Out(s, Q)[1]
<1> DEFINE m == Len(P)
           n == Len(Q)
           PQ == P \o Q
           O == Out(s, PQ)
           A == Out(s, P)
           B == Out(s, Q)
           TB == {k \in 1..(n + 1) : O[m + k] = B[k]}
           TA == {k \in 1..(m + 1) : O[k] = A[k] \o B[1]}
<1>1. /\ m \in Nat /\ n \in Nat /\ PQ \in Seq(APiece) /\ Len(PQ) = m + n
      /\ \A i \in 1..(m + n) : PQ[i] = IF i <= m THEN P[i] ELSE Q[i - m]
  BY ConcatProperties, LenProperties
<1> HIDE DEF PQ
<1>2. /\ O[m + n + 1] = <<>>
      /\ \A k \in 1..(m + n) : O[k] = Redacted(s, PQ[k]) \o O[k + 1]
  BY <1>1, OutIs
<1>3. /\ A[m + 1] = <<>> /\ \A k \in 1..(m + 1) : A[k] \in AValue
      /\ \A k \in 1..m : A[k] = Redacted(s, P[k]) \o A[k + 1]
  BY OutIs
<1>4. /\ B[n + 1] = <<>> /\ \A k \in 1..(n + 1) : B[k] \in AValue
      /\ \A k \in 1..n : B[k] = Redacted(s, Q[k]) \o B[k + 1]
  BY OutIs
<1>5. \A k \in 1..m : Redacted(s, P[k]) \in AValue
  BY ElementOfSeq, PieceIsWritten
<1> HIDE DEF O, A, B
<1>6. n + 1 \in TB
  <2>1. n + 1 \in 1..(n + 1) /\ m + (n + 1) = m + n + 1
    BY <1>1, SMT
  <2> QED
    BY <1>2, <1>4, <2>1
<1>7. ASSUME NEW i \in 1..n, \A j \in (i + 1)..(n + 1) : j \in TB PROVE i \in TB
  <2>1. /\ i \in 1..(n + 1) /\ i + 1 \in (i + 1)..(n + 1) /\ m + i \in 1..(m + n)
        /\ ~(m + i <= m) /\ (m + i) - m = i /\ (m + i) + 1 = m + (i + 1)
    BY <1>1, SMT
  <2>2. PQ[m + i] = Q[i] /\ O[m + (i + 1)] = B[i + 1]
    BY <1>1, <1>7, <2>1
  <2> QED
    BY <1>2, <1>4, <2>1, <2>2
<1>8. O[m + 1] = B[1]
  <2>1. \A k \in 1..(n + 1) : k \in TB
    <3> HIDE DEF TB
    <3> QED
      BY <1>1, <1>6, <1>7, FromTheEnd
  <2>2. 1 \in 1..(n + 1)
    BY <1>1, SMT
  <2> QED
    BY <2>1, <2>2
<1>9. B[1] \in AValue
  BY <1>1, <1>4, SMT
<1>10. m + 1 \in TA
  <2>1. <<>> \o B[1] = B[1]
    BY <1>9, ConcatEmptySeq DEF AValue
  <2>2. m + 1 \in 1..(m + 1)
    BY <1>1, SMT
  <2> QED
    BY <1>3, <1>8, <2>1, <2>2
<1>11. ASSUME NEW i \in 1..m, \A j \in (i + 1)..(m + 1) : j \in TA PROVE i \in TA
  <2>1. /\ i \in 1..(m + 1) /\ i + 1 \in (i + 1)..(m + 1) /\ i + 1 \in 1..(m + 1)
        /\ i \in 1..(m + n) /\ i <= m
    BY <1>1, SMT
  <2>2. PQ[i] = P[i] /\ O[i + 1] = A[i + 1] \o B[1]
    BY <1>1, <1>11, <2>1
  <2> DEFINE d == Redacted(s, P[i])
             a == A[i + 1]
             b == B[1]
  <2>3. d \in AValue /\ a \in AValue /\ b \in AValue
    BY <1>3, <1>5, <1>9, <2>1
  <2>4. O[i] = d \o (a \o b) /\ A[i] = d \o a
    BY <1>2, <1>3, <2>1, <2>2
  <2> HIDE DEF d, a, b
  <2>5. d \o (a \o b) = (d \o a) \o b
    BY <2>3, PartsAssociate
  <2>6. O[i] = A[i] \o b
    BY <2>4, <2>5
  <2> QED
    BY <2>1, <2>6 DEF b
<1>12. O[1] = A[1] \o B[1]
  <2>1. \A k \in 1..(m + 1) : k \in TA
    <3> HIDE DEF TA
    <3> QED
      BY <1>1, <1>10, <1>11, FromTheEnd
  <2>2. 1 \in 1..(m + 1)
    BY <1>1, SMT
  <2> QED
    BY <2>1, <2>2
<1> QED
  BY <1>1, <1>12 DEF O, A, B, PQ

-----------------------------------------------------------------------------
(* What a text begins with, as far as home paths go.                       *)
NoHome(t)    == \A j \in DOMAIN t : ~HomeAt(t, j)
StartsWord(t) == 1 \in DOMAIN t /\ IsWord(t[1])
StartsSlashWord(t) == Is(t, 1, "slash") /\ 2 \in DOMAIN t /\ IsWord(t[2])
StartsHome(t) ==
  Is(t, 1, "home") /\ t[1].tail = "" /\ Is(t, 2, "slash") /\ 3 \in DOMAIN t /\ IsWord(t[3])

LEMMA OneMoreItem ==
  ASSUME NEW x \in AnItem, NEW t \in AValue
  PROVE  LET u == <<x>> \o t
         IN /\ u \in AValue
            /\ StartsWord(u) <=> IsWord(x)
            /\ StartsSlashWord(u) <=> x.kind = "slash" /\ StartsWord(t)
            /\ StartsHome(u) <=> x.kind = "home" /\ x.tail = "" /\ StartsSlashWord(t)
            /\ NoHome(u) <=> NoHome(t) /\ ~(x.kind = "slash" /\ StartsHome(t))
<1> DEFINE u == <<x>> \o t
           n == Len(t)
<1>1. n \in Nat /\ DOMAIN t = 1..n
  BY OneItem
<1>2. u \in AValue /\ DOMAIN u = 1..(n + 1) /\ u[1] = x /\ \A k \in 1..n : u[k + 1] = t[k]
  <2>1. <<x>> \in Seq(AnItem) /\ Len(<<x>>) = 1 /\ <<x>>[1] = x
    OBVIOUS
  <2>2. /\ u \in Seq(AnItem) /\ Len(u) = 1 + n
        /\ \A i \in 1..(1 + n) : u[i] = IF i <= 1 THEN <<x>>[i] ELSE t[i - 1]
    BY <2>1, ConcatProperties DEF AValue
  <2>3. DOMAIN u = 1..(1 + n)
    BY <2>2, LenProperties
  <2> HIDE DEF u
  <2>4. 1 + n = n + 1 /\ 1 \in 1..(1 + n) /\ 1 <= 1
        /\ \A k \in 1..n : k + 1 \in 1..(1 + n) /\ ~(k + 1 <= 1) /\ (k + 1) - 1 = k
    BY <1>1, SMT
  <2> QED
    BY <2>1, <2>2, <2>3, <2>4 DEF AValue
<1> HIDE DEF u
<1>3. /\ 1 \in DOMAIN u /\ \A k \in 1..3 : (k + 1 \in DOMAIN u <=> k \in DOMAIN t)
      /\ \A k \in DOMAIN t : u[k + 1] = t[k]
  BY <1>1, <1>2, SMT
<1>4. /\ 2 \in DOMAIN u <=> 1 \in DOMAIN t
      /\ 3 \in DOMAIN u <=> 2 \in DOMAIN t
      /\ 4 \in DOMAIN u <=> 3 \in DOMAIN t
      /\ 1 \in DOMAIN t => u[2] = t[1]
      /\ 2 \in DOMAIN t => u[3] = t[2]
      /\ 3 \in DOMAIN t => u[4] = t[3]
  <2>1. 1 + 1 = 2 /\ 2 + 1 = 3 /\ 3 + 1 = 4 /\ 1 \in 1..3 /\ 2 \in 1..3 /\ 3 \in 1..3
    BY SMT
  <2> QED
    BY <1>3, <2>1
<1>5. StartsWord(u) <=> IsWord(x)
  BY <1>2, <1>3 DEF StartsWord
<1>6. StartsSlashWord(u) <=> x.kind = "slash" /\ StartsWord(t)
  BY <1>2, <1>3, <1>4 DEF StartsSlashWord, StartsWord, Is
<1>7. StartsHome(u) <=> x.kind = "home" /\ x.tail = "" /\ StartsSlashWord(t)
  BY <1>2, <1>3, <1>4 DEF StartsHome, StartsSlashWord, Is
<1>8. HomeAt(u, 1) <=> x.kind = "slash" /\ StartsHome(t)
  <2>1. 1 + 1 = 2 /\ 1 + 2 = 3 /\ 1 + 3 = 4
    BY SMT
  <2> QED
    BY <1>2, <1>3, <1>4, <2>1 DEF HomeAt, StartsHome, Is
<1>9. ASSUME NEW k \in 1..n PROVE HomeAt(u, k + 1) <=> HomeAt(t, k)
  <2>1. /\ (k + 1) + 1 = (k + 1) + 1 /\ (k + 1) + 2 = (k + 2) + 1 /\ (k + 1) + 3 = (k + 3) + 1
        /\ k + 1 \in DOMAIN u /\ k \in DOMAIN t
        /\ ((k + 1) + 1 \in DOMAIN u <=> k + 1 \in DOMAIN t)
        /\ ((k + 2) + 1 \in DOMAIN u <=> k + 2 \in DOMAIN t)
        /\ ((k + 3) + 1 \in DOMAIN u <=> k + 3 \in DOMAIN t)
    BY <1>1, <1>2, SMT
  <2>2. /\ u[k + 1] = t[k]
        /\ k + 1 \in DOMAIN t => u[(k + 1) + 1] = t[k + 1]
        /\ k + 2 \in DOMAIN t => u[(k + 2) + 1] = t[k + 2]
        /\ k + 3 \in DOMAIN t => u[(k + 3) + 1] = t[k + 3]
    BY <1>1, <1>3
  <2> QED
    BY <2>1, <2>2, Zenon DEF HomeAt, Is
<1>10. NoHome(u) <=> NoHome(t) /\ ~HomeAt(u, 1)
  <2>1. \A j \in 1..(n + 1) : j = 1 \/ \E k \in 1..n : j = k + 1
    <3> SUFFICES ASSUME NEW j \in 1..(n + 1), j # 1 PROVE \E k \in 1..n : j = k + 1
      OBVIOUS
    <3>1. j - 1 \in 1..n /\ j = (j - 1) + 1
      BY <1>1, SMT
    <3> QED
      BY <3>1
  <2>2. 1 \in 1..(n + 1) /\ \A k \in 1..n : k + 1 \in 1..(n + 1)
    BY <1>1, SMT
  <2> QED
    BY <1>1, <1>2, <1>9, <2>1, <2>2, Zenon DEF NoHome
<1> QED
  BY <1>2, <1>5, <1>6, <1>7, <1>8, <1>10 DEF u

(* A text that can follow on a line from its place i on.                   *)
Follows(l, i, t) ==
  /\ t \in AValue /\ NoHome(t)
  /\ StartsWord(t) => i \in DOMAIN l /\ IsWord(l[i])
  /\ StartsSlashWord(t) => Is(l, i, "slash") /\ i + 1 \in DOMAIN l /\ IsWord(l[i + 1])
  /\ StartsHome(t) => /\ Is(l, i, "home") /\ l[i].tail = "" /\ Is(l, i + 1, "slash")
                      /\ i + 2 \in DOMAIN l /\ IsWord(l[i + 2])

LEMMA NothingFollows == ASSUME NEW l, NEW i PROVE Follows(l, i, <<>>)
<1>1. <<>> \in AValue /\ DOMAIN <<>> = {}
  BY DEF AValue
<1> QED
  BY <1>1, Zenon DEF Follows, NoHome, StartsWord, StartsSlashWord, StartsHome, Is

(* One item of the line more.                                              *)
LEMMA KeptFollows ==
  ASSUME NEW l \in AValue, NEW i \in 1..Len(l), ~HomeAt(l, i), NEW t, Follows(l, i + 1, t)
  PROVE  Follows(l, i, <<l[i]>> \o t)
<1> DEFINE x == l[i]
           u == <<x>> \o t
<1>1. x \in AnItem /\ i \in DOMAIN l /\ t \in AValue /\ NoHome(t)
  BY OneItem DEF Follows
<1>2. /\ u \in AValue
      /\ StartsWord(u) <=> IsWord(x)
      /\ StartsSlashWord(u) <=> x.kind = "slash" /\ StartsWord(t)
      /\ StartsHome(u) <=> x.kind = "home" /\ x.tail = "" /\ StartsSlashWord(t)
      /\ NoHome(u) <=> NoHome(t) /\ ~(x.kind = "slash" /\ StartsHome(t))
  BY <1>1, OneMoreItem
<1> HIDE DEF u
<1>3. (i + 1) + 1 = i + 2 /\ (i + 1) + 2 = i + 3
  BY SMT
<1>4. ~(x.kind = "slash" /\ StartsHome(t))
  <2> SUFFICES ASSUME x.kind = "slash", StartsHome(t) PROVE FALSE
    OBVIOUS
  <2>1. /\ Is(l, i + 1, "home") /\ l[i + 1].tail = "" /\ Is(l, i + 2, "slash")
        /\ i + 3 \in DOMAIN l /\ IsWord(l[i + 3])
    BY <1>3 DEF Follows
  <2>2. HomeAt(l, i)
    BY <1>1, <2>1 DEF HomeAt, Is
  <2> QED
    BY <2>2
<1>5. StartsWord(u) => IsWord(l[i])
  BY <1>2
<1>6. StartsSlashWord(u) => Is(l, i, "slash") /\ i + 1 \in DOMAIN l /\ IsWord(l[i + 1])
  BY <1>1, <1>2 DEF Follows, Is
<1>7. StartsHome(u) => /\ Is(l, i, "home") /\ l[i].tail = "" /\ Is(l, i + 1, "slash")
                       /\ i + 2 \in DOMAIN l /\ IsWord(l[i + 2])
  BY <1>1, <1>2, <1>3 DEF Follows, Is
<1> QED
  BY <1>1, <1>2, <1>4, <1>5, <1>6, <1>7 DEF Follows, u

(* An item that begins neither a word nor a path.                          *)
Blank(t) == t \in AValue /\ NoHome(t) /\ ~StartsWord(t) /\ ~StartsSlashWord(t) /\ ~StartsHome(t)

LEMMA BlankFollows == ASSUME NEW t, Blank(t), NEW l, NEW i PROVE Follows(l, i, t)
BY DEF Blank, Follows

LEMMA PortIs == Port \in AnItem /\ Port.kind = "port" /\ Port.tail = ""
<1>1. "port" \in Kinds /\ "" \in Tails /\ "" \in Ids \cup Category \cup {""} /\ 0 \in Nat
  BY DEF Kinds, Tails
<1>2. \A kind \in Kinds, id \in Ids \cup Category \cup {""}, n \in Nat, tail \in Tails :
        Item(kind, id, n, tail) \in AnItem
  BY Zenon DEF Item, AnItem
<1>3. Port \in AnItem
  BY <1>1, <1>2 DEF Port
<1> QED
  BY <1>3 DEF Port, Item

LEMMA PlaceholderParts ==
  ASSUME NEW r, NamesOnce(r), NEW cat \in Category, NEW value
  PROVE  \E a, b, c \in AnItem :
           /\ Placeholder(r, cat, value) = <<a, b, c>>
           /\ a.kind = "lt" /\ b.kind = "name" /\ c.kind = "gt"
<1> DEFINE m == Number(r, cat, value)
           a == Mark("lt")
           b == Item("name", cat, m, "")
           c == Mark("gt")
<1>1. Placeholder(r, cat, value) = <<a, b, c>>
  BY DEF Placeholder
<1>2. "lt" \in Kinds /\ "gt" \in Kinds /\ "name" \in Kinds /\ "" \in Tails
  BY DEF Kinds, Delim, Tails
<1>3. "" \in Ids \cup Category \cup {""} /\ cat \in Ids \cup Category \cup {""} /\ 0 \in Nat /\ m \in Nat
  BY NumberIs
<1> HIDE DEF m
<1>4. \A kind \in Kinds, id \in Ids \cup Category \cup {""}, n \in Nat, tail \in Tails :
        Item(kind, id, n, tail) \in AnItem
  BY Zenon DEF Item, AnItem
<1>5. a \in AnItem /\ b \in AnItem /\ c \in AnItem
  BY <1>2, <1>3, <1>4 DEF Mark
<1>6. a.kind = "lt" /\ b.kind = "name" /\ c.kind = "gt"
  BY DEF Mark, Item
<1> HIDE DEF a, b, c
<1> QED
  BY <1>1, <1>5, <1>6

LEMMA ThreeItems ==
  ASSUME NEW S, NEW a \in S, NEW b \in S, NEW c \in S
  PROVE  <<a, b, c>> = <<a>> \o (<<b>> \o <<c>>)
<1>1. <<b>> \o <<c>> = <<b, c>>
  <2>1. <<b>> \in Seq(S) /\ <<b, c>> = Append(<<b>>, c)
    OBVIOUS
  <2> QED
    BY <2>1, AppendIsConcat
<1>2. /\ <<a>> \in Seq(S) /\ Len(<<a>>) = 1 /\ <<a>>[1] = a
      /\ <<b, c>> \in Seq(S) /\ Len(<<b, c>>) = 2 /\ <<b, c>>[1] = b /\ <<b, c>>[2] = c
  OBVIOUS
<1>3. /\ <<a, b, c>> \in Seq(S) /\ Len(<<a, b, c>>) = 3
      /\ <<a, b, c>>[1] = a /\ <<a, b, c>>[2] = b /\ <<a, b, c>>[3] = c
  OBVIOUS
<1> DEFINE u == <<a>> \o <<b, c>>
<1>4. /\ u \in Seq(S) /\ Len(u) = 1 + 2
      /\ \A i \in 1..(1 + 2) : u[i] = IF i <= 1 THEN <<a>>[i] ELSE <<b, c>>[i - 1]
  BY <1>2, ConcatProperties
<1> HIDE DEF u
<1>5. \A i \in 1..3 : u[i] = <<a, b, c>>[i]
  BY <1>2, <1>3, <1>4, SMT
<1>6. u = <<a, b, c>>
  BY <1>3, <1>4, <1>5, SeqEqual, SMT
<1> QED
  BY <1>1, <1>6 DEF u

(* A placeholder in front of a text is one.                                *)
LEMMA PlaceholderBlank ==
  ASSUME NEW r, NamesOnce(r), NEW cat \in Category, NEW value, NEW t \in AValue, NoHome(t)
  PROVE  Blank(Placeholder(r, cat, value) \o t)
<1>1. PICK a \in AnItem, b \in AnItem, c \in AnItem :
        /\ Placeholder(r, cat, value) = <<a, b, c>>
        /\ a.kind = "lt" /\ b.kind = "name" /\ c.kind = "gt"
  BY PlaceholderParts
<1> DEFINE t1 == <<c>> \o t
           t2 == <<b>> \o t1
           t3 == <<a>> \o t2
<1>2. <<a, b, c>> \o t = t3
  <2>1. <<a, b, c>> = <<a>> \o (<<b>> \o <<c>>)
    BY ThreeItems
  <2>2. <<a>> \in AValue /\ <<b>> \in AValue /\ <<c>> \in AValue /\ <<b>> \o <<c>> \in AValue
    BY DEF AValue
  <2> DEFINE A == <<a>>
             B == <<b>>
             C == <<c>>
  <2>3. A \in AValue /\ B \in AValue /\ C \in AValue /\ B \o C \in AValue
    BY <2>2
  <2> HIDE DEF A, B, C
  <2>4. (A \o (B \o C)) \o t = A \o ((B \o C) \o t)
    BY <2>3, PartsAssociate
  <2>5. (B \o C) \o t = B \o (C \o t)
    BY <2>3, PartsAssociate
  <2> QED
    BY <2>1, <2>4, <2>5 DEF A, B, C
<1>3. t1 \in AValue /\ NoHome(t1) /\ ~StartsWord(t1) /\ ~StartsSlashWord(t1) /\ ~StartsHome(t1)
  <2>1. ~IsWord(c)
    BY <1>1 DEF IsWord, Delim
  <2> QED
    BY <1>1, <2>1, OneMoreItem
<1> HIDE DEF t1
<1>4. t2 \in AValue /\ NoHome(t2) /\ ~StartsHome(t2)
  BY <1>1, <1>3, OneMoreItem
<1> HIDE DEF t2
<1>5. Blank(t3)
  <2>1. ~IsWord(a)
    BY <1>1 DEF IsWord, Delim
  <2>2. t3 \in AValue /\ NoHome(t3) /\ ~StartsWord(t3) /\ ~StartsSlashWord(t3) /\ ~StartsHome(t3)
    BY <1>1, <1>4, <2>1, OneMoreItem
  <2> QED
    BY <2>2 DEF Blank
<1> QED
  BY <1>1, <1>2, <1>5

LEMMA OutOfNone == ASSUME NEW s, NamesOnce(s) PROVE Out(s, <<>>)[1] = <<>>
<1>1. <<>> \in Seq(APiece) /\ Len(<<>>) = 0 /\ 0 + 1 = 1
  BY SMT
<1> QED
  BY <1>1, OutIs

LEMMA OutOfOne ==
  ASSUME NEW s, NamesOnce(s), NEW p \in APiece
  PROVE  Out(s, <<p>>)[1] = Redacted(s, p)
<1> DEFINE P == <<p>>
<1>1. P \in Seq(APiece) /\ Len(P) = 1 /\ P[1] = p /\ 1 \in 1..1 /\ 1 + 1 = 2
  BY SMT
<1> HIDE DEF P
<1>2. /\ Out(s, P)[Len(P) + 1] = <<>>
      /\ \A k \in 1..Len(P) : Out(s, P)[k] = Redacted(s, P[k]) \o Out(s, P)[k + 1]
  BY <1>1, OutIs
<1>3. Redacted(s, p) \in AValue
  BY PieceIsWritten
<1>5. Out(s, P)[1] = Redacted(s, P[1]) \o <<>>
  BY <1>1, <1>2
<1>4. Redacted(s, p) \o <<>> = Redacted(s, p)
  BY <1>3, ConcatEmptySeq DEF AValue
<1> QED
  BY <1>1, <1>4, <1>5 DEF P

LEMMA RedactedKept == ASSUME NEW s, NEW items PROVE Redacted(s, Kept(items)) = items
BY DEF Redacted, Kept, Hidden

LEMMA RedactedHidden ==
  ASSUME NEW s, NEW cat \in Category, NEW value, NEW rest
  PROVE  Redacted(s, Hidden(cat, value, rest)) = Placeholder(s, cat, value) \o rest
<1> DEFINE h == Hidden(cat, value, rest)
<1>1. "none" \notin Category
  BY DEF Category, Anchor
<1>2. h.cat = cat /\ h.value = value /\ h.rest = rest
  BY DEF Hidden
<1> HIDE DEF h
<1>3. Redacted(s, h) = Placeholder(s, h.cat, h.value) \o h.rest
  BY <1>1, <1>2 DEF Redacted
<1> QED
  BY <1>2, <1>3 DEF h

LEMMA ThreeInARow ==
  ASSUME NEW l \in AValue, NEW i \in 1..Len(l), i + 2 \in 1..Len(l)
  PROVE  SubSeq(l, i, i + 2) = <<l[i]>> \o (<<l[i + 1]>> \o <<l[i + 2]>>)
<1> DEFINE u == SubSeq(l, i, i + 2)
           v == <<l[i], l[i + 1], l[i + 2]>>
<1>1. Len(l) \in Nat /\ \A k \in 1..Len(l) : l[k] \in AnItem
  BY OneItem
<1>2. /\ i \in Int /\ i + 2 \in Int /\ i <= i + 2 /\ ((i + 2) - i) + 1 = 3
      /\ (i + 1) - 1 = i /\ (i + 2) - 1 = i + 1 /\ (i + 3) - 1 = i + 2
      /\ i + 1 \in 1..Len(l) /\ \A k \in i..(i + 2) : k \in 1..Len(l)
  BY <1>1, SMT
<1>3. /\ u \in Seq(AnItem) /\ Len(u) = 3
      /\ \A k \in 1..3 : u[k] = l[(i + k) - 1]
  BY <1>1, <1>2, SubSeqProperties
<1>4. v \in Seq(AnItem) /\ Len(v) = 3 /\ v[1] = l[i] /\ v[2] = l[i + 1] /\ v[3] = l[i + 2]
  BY <1>1, <1>2
<1> HIDE DEF u, v
<1>5. u[1] = v[1] /\ u[2] = v[2] /\ u[3] = v[3]
  <2>1. 1 \in 1..3 /\ 2 \in 1..3 /\ 3 \in 1..3
    BY SMT
  <2> QED
    BY <1>2, <1>3, <1>4, <2>1
<1>6. \A k \in 1..3 : k = 1 \/ k = 2 \/ k = 3
  BY SMT
<1>7. u = v
  BY <1>3, <1>4, <1>5, <1>6, SeqEqual
<1>8. l[i] \in AnItem /\ l[i + 1] \in AnItem /\ l[i + 2] \in AnItem
  BY <1>1, <1>2
<1>9. v = <<l[i]>> \o (<<l[i + 1]>> \o <<l[i + 2]>>)
  BY <1>8, ThreeItems DEF v
<1> QED
  BY <1>7, <1>9 DEF u

(* A home path in front of a hidden name.                                  *)
LEMMA HomeFollows ==
  ASSUME NEW l \in AValue, NEW i \in 1..Len(l), HomeAt(l, i), NEW v, Blank(v)
  PROVE  Follows(l, i, SubSeq(l, i, i + 2) \o v)
<1> DEFINE x == l[i]
           y == l[i + 1]
           z == l[i + 2]
           v1 == <<z>> \o v
           v2 == <<y>> \o v1
           v3 == <<x>> \o v2
<1>1. /\ Len(l) \in Nat /\ DOMAIN l = 1..Len(l) /\ \A k \in 1..Len(l) : l[k] \in AnItem
      /\ v \in AValue
  BY OneItem DEF Blank
<1>2. i \in DOMAIN l /\ i + 1 \in DOMAIN l /\ i + 2 \in DOMAIN l
      /\ x.kind = "slash" /\ y.kind = "home" /\ z.kind = "slash"
  BY <1>1 DEF HomeAt, Is
<1>3. x \in AnItem /\ y \in AnItem /\ z \in AnItem
  BY <1>1, <1>2
<1>4. SubSeq(l, i, i + 2) \o v = v3
  <2>1. SubSeq(l, i, i + 2) = <<x>> \o (<<y>> \o <<z>>)
    BY <1>1, <1>2, ThreeInARow
  <2> DEFINE A == <<x>>
             B == <<y>>
             C == <<z>>
  <2>2. A \in AValue /\ B \in AValue /\ C \in AValue /\ v \in AValue
    BY <1>1, <1>3 DEF AValue
  <2>3. B \o C \in AValue
    BY <2>2, ConcatProperties DEF AValue
  <2> DEFINE BC == B \o C
  <2> HIDE DEF A, B, C, BC
  <2>6. BC \in AValue
    BY <2>3 DEF BC
  <2>7. (A \o BC) \o v = A \o (BC \o v)
    BY <2>2, <2>6, PartsAssociate
  <2>4. (A \o (B \o C)) \o v = A \o ((B \o C) \o v)
    BY <2>7 DEF BC
  <2>5. (B \o C) \o v = B \o (C \o v)
    BY <2>2, PartsAssociate
  <2> QED
    BY <2>1, <2>4, <2>5 DEF A, B, C
<1>5. IsWord(y) /\ ~IsWord(x) /\ ~IsWord(z)
  BY <1>2 DEF IsWord, Delim
<1> HIDE DEF x, y, z
<1>6. v1 \in AValue /\ NoHome(v1) /\ ~StartsWord(v1) /\ ~StartsSlashWord(v1) /\ ~StartsHome(v1)
  BY <1>1, <1>2, <1>3, <1>5, OneMoreItem DEF Blank
<1> HIDE DEF v1
<1>7. v2 \in AValue /\ NoHome(v2) /\ ~StartsSlashWord(v2) /\ ~StartsHome(v2)
  BY <1>2, <1>3, <1>6, OneMoreItem
<1> HIDE DEF v2
<1>8. v3 \in AValue /\ NoHome(v3) /\ ~StartsWord(v3) /\ ~StartsHome(v3)
  BY <1>2, <1>3, <1>5, <1>7, OneMoreItem
<1> HIDE DEF v3
<1>9. Is(l, i, "slash") /\ i + 1 \in DOMAIN l /\ IsWord(l[i + 1])
  BY <1>2, <1>5 DEF Is, x, y
<1> QED
  BY <1>4, <1>8, <1>9 DEF Follows

(* No name is left in a home path.                                         *)
LEMMA HomesAreHidden ==
  ASSUME NEW l \in AValue, NEW r, NamesOnce(r)
  PROVE  NoHome(WriteOut(r, HomePieces(l)).out)
<1> DEFINE n == Len(l)
           said == [k \in 1..n |-> HomeMarks(l, k)]
           next == [k \in 1..n |-> HomeNext(l, k)]
           H == Walk(n, said, next)
           s == WriteOut(r, HomePieces(l)).r
           T == {k \in 1..(n + 1) : Follows(l, k, Out(s, H[k])[1])}
<1>1. /\ Walked(APiece, n, said, next, H)
      /\ HomePieces(l) = H[1] /\ HomePieces(l) \in Seq(APiece)
  BY HomePiecesAre
<1>2. n \in Nat /\ DOMAIN l = 1..n /\ \A k \in 1..n : l[k] \in AnItem /\ <<l[k]>> \in AValue
  BY OneItem
<1>3. \A k \in 1..n : said[k] = HomeMarks(l, k) /\ next[k] = HomeNext(l, k)
  OBVIOUS
<1>4. \A k \in 1..n : /\ HomeMarks(l, k) \in Seq(APiece)
                      /\ HomeNext(l, k) \in Int /\ k < HomeNext(l, k) /\ HomeNext(l, k) <= n + 1
  BY HomeMarksAre
<1> HIDE DEF said, next, H
<1>5. /\ \A k \in 1..(n + 1) : H[k] \in Seq(APiece)
      /\ H[n + 1] = <<>>
      /\ \A k \in 1..n : H[k] = HomeMarks(l, k) \o H[HomeNext(l, k)]
  BY <1>1, <1>3 DEF Walked
<1>6. NamesOnce(s) /\ WriteOut(r, HomePieces(l)).out = Out(s, HomePieces(l))[1]
  BY <1>1, WrittenKnowingAll
<1> HIDE DEF s
<1>7. n + 1 \in T
  <2>1. Out(s, H[n + 1])[1] = <<>> /\ n + 1 \in 1..(n + 1)
    BY <1>2, <1>5, <1>6, OutOfNone
  <2> QED
    BY <2>1, NothingFollows
<1>8. ASSUME NEW i \in 1..n, \A j \in (i + 1)..(n + 1) : j \in T PROVE i \in T
  <2> DEFINE j == HomeNext(l, i)
             t == Out(s, H[j])[1]
             M == HomeMarks(l, i)
  <2>1. j \in (i + 1)..(n + 1) /\ j \in 1..(n + 1) /\ i \in 1..(n + 1)
    BY <1>2, <1>4, SMT
  <2>2. Follows(l, j, t)
    BY <1>8, <2>1
  <2>3. M \in Seq(APiece) /\ H[j] \in Seq(APiece) /\ H[i] = M \o H[j]
    BY <1>4, <1>5, <2>1
  <2>4. Out(s, H[i])[1] = Out(s, M)[1] \o t
    <3> HIDE DEF j, M
    <3>1. Out(s, M \o H[j])[1] = Out(s, M)[1] \o Out(s, H[j])[1]
      BY <1>6, <2>3, OutInParts
    <3> QED
      BY <2>3, <3>1
  <2>5. t \in AValue /\ NoHome(t)
    BY <2>2 DEF Follows
  <2>6. CASE ~HomeAt(l, i)
    <3>1. j = i + 1 /\ M = <<Kept(<<l[i]>>)>>
      BY <2>6 DEF HomeNext, HomeMarks
    <3>2. Kept(<<l[i]>>) \in APiece
      BY <1>2, KeptIs
    <3>3. Out(s, M)[1] = <<l[i]>>
      BY <1>6, <3>1, <3>2, OutOfOne, RedactedKept
    <3> HIDE DEF j, t, M
    <3>4. Follows(l, i, <<l[i]>> \o t)
      BY <2>2, <2>6, <3>1, KeptFollows
    <3> QED
      BY <2>1, <2>4, <3>3, <3>4 DEF T
  <2>7. CASE HomeAt(l, i)
    <3> DEFINE sub == SubSeq(l, i, i + 2)
               name == <<l[i + 3]>>
               ph == Placeholder(s, "user", name)
               p == Kept(sub)
               q == Hidden("user", name, <<>>)
    <3>1. M = <<p, q>>
      BY <2>7 DEF HomeMarks
    <3>2. i + 3 \in 1..n
      BY <1>2, <2>7 DEF HomeAt
    <3>3. i \in 1..(n + 1) /\ i + 2 \in 0..n
      BY <1>2, <3>2, SMT
    <3>4. sub \in AValue /\ name \in AValue /\ "user" \in Category /\ <<>> \in AValue
      BY <1>2, <3>2, <3>3, OneItem DEF Category, AValue
    <3>5. p \in APiece /\ q \in APiece
      BY <3>4, KeptIs, HiddenIs
    <3>6. Redacted(s, p) = sub /\ Redacted(s, q) = ph \o <<>> /\ ph \in AValue
      <4> HIDE DEF sub, name
      <4>1. Redacted(s, p) = sub /\ Redacted(s, q) = ph \o <<>>
        <5>1. Redacted(s, p) = sub
          BY RedactedKept
        <5>2. Redacted(s, q) = ph \o <<>>
          BY <3>4, RedactedHidden
        <5> QED
          BY <5>1, <5>2
      <4>2. ph \in AValue
        BY <1>6, <3>4, NumberIs, PlaceholderIs
      <4> QED
        BY <4>1, <4>2
    <3>7. ph \o <<>> = ph
      BY <3>6, ConcatEmptySeq DEF AValue
    <3>8. <<p>> \in Seq(APiece) /\ <<q>> \in Seq(APiece)
      BY <3>5
    <3> HIDE DEF p, q, ph, sub, name
    <3>9. <<p, q>> = <<p>> \o <<q>>
      <4>1. <<p, q>> = Append(<<p>>, q)
        OBVIOUS
      <4> QED
        BY <3>5, <3>8, <4>1, AppendIsConcat
    <3>10. Out(s, M)[1] = sub \o ph
      <4>1. Out(s, <<p>>)[1] = sub /\ Out(s, <<q>>)[1] = ph
        BY <1>6, <3>5, <3>6, <3>7, OutOfOne
      <4>2. Out(s, <<p>> \o <<q>>)[1] = Out(s, <<p>>)[1] \o Out(s, <<q>>)[1]
        BY <1>6, <3>8, OutInParts
      <4> QED
        BY <3>1, <3>9, <4>1, <4>2
    <3> HIDE DEF t, M, j
    <3>11. (sub \o ph) \o t = sub \o (ph \o t)
      BY <2>5, <3>4, <3>6, PartsAssociate
    <3>12. Blank(ph \o t)
      BY <1>6, <2>5, <3>4, PlaceholderBlank DEF ph
    <3>13. Follows(l, i, sub \o (ph \o t))
      BY <2>7, <3>12, HomeFollows DEF sub
    <3> QED
      BY <2>1, <2>4, <3>10, <3>11, <3>13 DEF T
  <2> QED
    BY <2>6, <2>7
<1>9. Follows(l, 1, Out(s, H[1])[1])
  <2>1. \A k \in 1..(n + 1) : k \in T
    <3> HIDE DEF T
    <3> QED
      BY <1>2, <1>7, <1>8, FromTheEnd
  <2>2. 1 \in 1..(n + 1)
    BY <1>2, SMT
  <2> QED
    BY <2>1, <2>2
<1> QED
  BY <1>1, <1>6, <1>9 DEF Follows

-----------------------------------------------------------------------------
(* The tokens: a word is kept and tells nothing, or has a name.            *)
LEMMA TokenOutcome ==
  ASSUME NEW l \in AValue, NEW k \in 1..Len(l)
  PROVE  \/ TokenPieces(l)[k] = Kept(<<l[k]>>) /\ ~Sensitive(l[k])
         \/ \E cat \in Category, value \in AValue, rest \in {<<>>, <<Port>>} :
              TokenPieces(l)[k] = Hidden(cat, value, rest)
<1> DEFINE w == l[k]
           prev == Prev(l, k)
           piece == TokenPieces(l)[k]
           c == IF ShapeOf(w) # "none" THEN ShapeOf(w) ELSE Anchored(w, prev)
<1>1. w \in AnItem /\ <<w>> \in AValue /\ Len(l) \in Nat
  BY OneItem
<1>2. piece = IF IsWord(w) THEN ReplaceToken(w, prev) ELSE Kept(<<w>>)
  BY DEF TokenPieces
<1>3. ReplaceToken(w, prev) = IF HostOf(w) # <<>> THEN Hidden("ip", HostOf(w), <<Port>>)
                              ELSE IF c = "none" THEN Kept(<<w>>) ELSE Hidden(c, <<w>>, <<>>)
  BY DEF ReplaceToken
<1>4. CASE ~IsWord(w)
  <2>1. w.kind \in Delim
    BY <1>4 DEF IsWord
  <2>2. ~Sensitive(w)
    BY <2>1 DEF Sensitive, Delim
  <2> QED
    BY <1>2, <1>4, <2>2
<1>5. CASE IsWord(w) /\ HostOf(w) # <<>>
  <2> DEFINE x == [w EXCEPT !.tail = ""]
  <2>1. HostOf(w) = <<x>>
    BY <1>5 DEF HostOf
  <2>2. x \in AnItem
    BY <1>1 DEF AnItem, Tails
  <2> HIDE DEF x
  <2>3. HostOf(w) \in AValue
    BY <2>1, <2>2 DEF AValue
  <2>4. "ip" \in Category
    BY DEF Category
  <2>5. piece = Hidden("ip", HostOf(w), <<Port>>)
    BY <1>2, <1>3, <1>5
  <2> HIDE DEF piece
  <2> QED
    BY <2>3, <2>4, <2>5 DEF piece
<1>6. CASE IsWord(w) /\ HostOf(w) = <<>> /\ c = "none"
  <2>1. piece = Kept(<<w>>)
    BY <1>2, <1>3, <1>6
  <2>2. ShapeOf(w) = "none"
    BY <1>6
  <2>3. ~(w.kind = "ipv4" /\ w.tail = "port")
    <3>1. \A x : <<x>> # <<>>
      OBVIOUS
    <3> QED
      BY <1>6, <3>1 DEF HostOf
  <2>4. ~(w.kind \in {"ipv4", "ipv6", "peer", "pubkey", "address", "enr"} /\ w.tail = "")
    BY <2>2 DEF ShapeOf, HexShape
  <2>5. ~Sensitive(w)
    BY <2>3, <2>4 DEF Sensitive
  <2> QED
    BY <2>1, <2>5
<1>7. CASE IsWord(w) /\ HostOf(w) = <<>> /\ c # "none"
  <2>1. piece = Hidden(c, <<w>>, <<>>)
    BY <1>2, <1>3, <1>7
  <2>2. ShapeOf(w) # "none" => ShapeOf(w) \in {"enr", "ip", "peer", "pubkey", "address"}
    BY DEF ShapeOf, HexShape
  <2>3. Anchored(w, prev) \in {"graffiti", "validator", "host", "none"}
    BY DEF Anchored
  <2>4. c \in Category
    BY <1>7, <2>2, <2>3 DEF Category, Anchor
  <2> HIDE DEF piece, c
  <2> QED
    BY <1>1, <2>1, <2>4 DEF piece
<1> QED
  BY <1>4, <1>5, <1>6, <1>7

(* What a word, or a name in its place, is written as.                     *)
Inert == {x \in AnItem : ~Sensitive(x)}

LEMMA TokenIsInert ==
  ASSUME NEW l \in AValue, NEW k \in 1..Len(l), NEW s, NamesOnce(s)
  PROVE  Redacted(s, TokenPieces(l)[k]) \in Seq(Inert)
<1> DEFINE piece == TokenPieces(l)[k]
<1>1. l[k] \in AnItem
  BY OneItem
<1>2. CASE piece = Kept(<<l[k]>>) /\ ~Sensitive(l[k])
  <2>1. Redacted(s, piece) = <<l[k]>>
    BY <1>2, RedactedKept
  <2>2. l[k] \in Inert
    BY <1>1, <1>2 DEF Inert
  <2> QED
    BY <2>1, <2>2
<1>3. CASE \E cat \in Category, value \in AValue, rest \in {<<>>, <<Port>>} :
             piece = Hidden(cat, value, rest)
  <2>1. PICK cat \in Category, value \in AValue, rest \in {<<>>, <<Port>>} :
          piece = Hidden(cat, value, rest)
    BY <1>3
  <2>2. Redacted(s, piece) = Placeholder(s, cat, value) \o rest
    <3>1. Redacted(s, Hidden(cat, value, rest)) = Placeholder(s, cat, value) \o rest
      BY RedactedHidden
    <3> QED
      BY <2>1, <3>1
  <2>3. PICK a \in AnItem, b \in AnItem, c \in AnItem :
          /\ Placeholder(s, cat, value) = <<a, b, c>>
          /\ a.kind = "lt" /\ b.kind = "name" /\ c.kind = "gt"
    BY PlaceholderParts
  <2>4. a \in Inert /\ b \in Inert /\ c \in Inert
    BY <2>3 DEF Inert, Sensitive
  <2>5. Placeholder(s, cat, value) \in Seq(Inert)
    BY <2>3, <2>4
  <2>6. rest \in Seq(Inert)
    <3>1. Port \in Inert
      BY PortIs DEF Inert, Sensitive
    <3>2. <<Port>> \in Seq(Inert) /\ <<>> \in Seq(Inert)
      BY <3>1
    <3> QED
      BY <2>1, <3>2
  <2> QED
    BY <2>2, <2>5, <2>6, ConcatProperties
<1> QED
  BY <1>2, <1>3, TokenOutcome

LEMMA NothingSensitiveIsLeft ==
  ASSUME NEW l \in AValue, NEW r, NamesOnce(r)
  PROVE  WriteOut(r, TokenPieces(l)).out \in Seq(Inert)
<1> DEFINE P == TokenPieces(l)
<1>1. P \in Seq(APiece) /\ Len(P) = Len(l) /\ Len(l) \in Nat
  BY TokenPiecesAre, OneItem
<1>2. \A k \in 1..Len(P) : Redacted(Registry(r, P)[k], P[k]) \in Seq(Inert)
  <2> SUFFICES ASSUME NEW k \in 1..Len(l) PROVE Redacted(Registry(r, P)[k], P[k]) \in Seq(Inert)
    BY <1>1
  <2>1. k \in 0..Len(P)
    BY <1>1, SMT
  <2>2. NamesOnce(Registry(r, P)[k])
    BY <1>1, <2>1, RegistryGrows
  <2> QED
    BY <2>2, TokenIsInert
<1> HIDE DEF P
<1>3. WriteOut(r, P).out \in Seq(Inert)
  BY <1>1, <1>2, WriteOutSays
<1> QED
  BY <1>3 DEF P

(* And no home path comes about.                                           *)
LEMMA NoHomeComesBack ==
  ASSUME NEW l \in AValue, NoHome(l), NEW r, NamesOnce(r)
  PROVE  NoHome(WriteOut(r, TokenPieces(l)).out)
<1> DEFINE n == Len(l)
           P == TokenPieces(l)
           s == WriteOut(r, P).r
           O == Out(s, P)
           T == {k \in 1..(n + 1) : Follows(l, k, O[k])}
<1>1. P \in Seq(APiece) /\ Len(P) = n /\ n \in Nat /\ DOMAIN l = 1..n
  BY TokenPiecesAre, OneItem
<1> HIDE DEF P
<1>2. NamesOnce(s) /\ WriteOut(r, P).out = O[1]
  BY <1>1, WrittenKnowingAll
<1> HIDE DEF s
<1>3. /\ O[n + 1] = <<>>
      /\ \A k \in 1..n : O[k] = Redacted(s, P[k]) \o O[k + 1]
  BY <1>1, <1>2, OutIs
<1> HIDE DEF O
<1>4. n + 1 \in T
  <2>1. n + 1 \in 1..(n + 1)
    BY <1>1, SMT
  <2> QED
    BY <1>3, <2>1, NothingFollows
<1>5. ASSUME NEW i \in 1..n, \A j \in (i + 1)..(n + 1) : j \in T PROVE i \in T
  <2>1. i + 1 \in (i + 1)..(n + 1) /\ i \in 1..(n + 1)
    BY <1>1, SMT
  <2> DEFINE t == O[i + 1]
  <2>2. Follows(l, i + 1, t) /\ O[i] = Redacted(s, P[i]) \o t
    BY <1>3, <1>5, <2>1
  <2>3. t \in AValue /\ NoHome(t)
    BY <2>2 DEF Follows
  <2> HIDE DEF t
  <2>4. CASE P[i] = Kept(<<l[i]>>)
    <3>1. Redacted(s, P[i]) = <<l[i]>>
      BY <2>4, RedactedKept
    <3>2. ~HomeAt(l, i)
      BY <1>1 DEF NoHome
    <3>3. Follows(l, i, <<l[i]>> \o t)
      BY <2>2, <3>2, KeptFollows
    <3> QED
      BY <2>1, <2>2, <3>1, <3>3
  <2>5. CASE \E cat \in Category, value \in AValue, rest \in {<<>>, <<Port>>} :
               P[i] = Hidden(cat, value, rest)
    <3>1. PICK cat \in Category, value \in AValue, rest \in {<<>>, <<Port>>} :
            P[i] = Hidden(cat, value, rest)
      BY <2>5
    <3> DEFINE ph == Placeholder(s, cat, value)
               v == rest \o t
    <3>2. Redacted(s, P[i]) = ph \o rest
      <4>1. Redacted(s, Hidden(cat, value, rest)) = ph \o rest
        BY RedactedHidden
      <4> QED
        BY <3>1, <4>1
    <3>3. ph \in AValue
      BY <1>2, <3>1, NumberIs, PlaceholderIs
    <3>4. rest \in AValue
      <4>1. <<Port>> \in AValue /\ <<>> \in AValue
        <5>1. Port \in AnItem
          BY PortIs
        <5>2. \A x \in AnItem : <<x>> \in AValue
          BY DEF AValue
        <5>3. <<>> \in AValue
          BY DEF AValue
        <5> QED
          BY <5>1, <5>2, <5>3
      <4> QED
        BY <3>1, <4>1
    <3>5. v \in AValue /\ NoHome(v)
      <4>1. CASE rest = <<>>
        <5>1. <<>> \o t = t
          BY <2>3, ConcatEmptySeq DEF AValue
        <5> QED
          BY <2>3, <4>1, <5>1
      <4>2. CASE rest = <<Port>>
        <5>1. <<Port>> \o t \in AValue /\ NoHome(<<Port>> \o t)
          BY <2>3, PortIs, OneMoreItem
        <5> QED
          BY <4>2, <5>1
      <4> QED
        BY <3>1, <4>1, <4>2
    <3>6. Blank(ph \o v)
      <4> HIDE DEF v
      <4> QED
        BY <1>2, <3>5, PlaceholderBlank
    <3> HIDE DEF ph
    <3>7. (ph \o rest) \o t = ph \o v
      BY <2>3, <3>3, <3>4, PartsAssociate
    <3>8. Follows(l, i, ph \o v)
      BY <3>6, BlankFollows
    <3> QED
      BY <2>1, <2>2, <3>2, <3>7, <3>8
  <2> QED
    BY <2>4, <2>5, TokenOutcome DEF P
<1>6. Follows(l, 1, O[1])
  <2>1. \A k \in 1..(n + 1) : k \in T
    <3> HIDE DEF T
    <3> QED
      BY <1>1, <1>4, <1>5, FromTheEnd
  <2>2. 1 \in 1..(n + 1)
    BY <1>1, SMT
  <2> QED
    BY <2>1, <2>2
<1> QED
  BY <1>2, <1>6 DEF Follows, P

(* A redacted line has neither.                                            *)
LEMMA RedactedIsClean ==
  ASSUME NEW l \in AValue, NEW r, NamesOnce(r)
  PROVE  LET line == Redact(r, l).line
         IN \A j \in DOMAIN line : ~Sensitive(line[j]) /\ ~HomeAt(line, j)
<1> DEFINE u == WriteOut(r, UrlPieces(l))
           h == WriteOut(u.r, HomePieces(u.out))
           t == WriteOut(h.r, TokenPieces(h.out))
<1>1. NamesOnce(u.r) /\ u.out \in AValue
  BY UrlPiecesAre, WriteOutIs
<1> HIDE DEF u
<1>2. NamesOnce(h.r) /\ h.out \in AValue
  <2>1. HomePieces(u.out) \in Seq(APiece)
    BY <1>1, HomePiecesAre
  <2> QED
    BY <1>1, <2>1, WriteOutIs
<1>3. NoHome(h.out)
  BY <1>1, HomesAreHidden
<1> HIDE DEF h
<1>4. t.out \in Seq(Inert) /\ NoHome(t.out)
  BY <1>2, <1>3, NothingSensitiveIsLeft, NoHomeComesBack
<1>5. Redact(r, l).line = t.out
  BY DEF Redact, u, h
<1> HIDE DEF t
<1>6. \A j \in DOMAIN t.out : ~Sensitive(t.out[j]) /\ ~HomeAt(t.out, j)
  <2>1. DOMAIN t.out = 1..Len(t.out)
    BY <1>4, LenProperties
  <2>2. \A j \in 1..Len(t.out) : t.out[j] \in Inert
    BY <1>4, ElementOfSeq
  <2> QED
    BY <1>4, <2>1, <2>2 DEF Inert, NoHome
<1> QED
  BY <1>5, <1>6

(* Whatever the lines are, nothing the redactor recognises is left in them *)
(* when its three passes are done: none brings back what another hid       *)
(* (Redactor::redact).                                                     *)
THEOREM NothingRecognisedIsEverLeft == TextsSpec => []NothingRecognisedIsLeft
<1>1. LogInv => NothingRecognisedIsLeft
  <2> SUFFICES ASSUME LogInv, NEW k \in DOMAIN log
               PROVE  \A j \in DOMAIN log[k].into :
                        ~Sensitive(log[k].into[j]) /\ ~HomeAt(log[k].into, j)
    BY DEF NothingRecognisedIsLeft
  <2>1. Settled(names, log[k]) /\ NamesOnce(names)
    BY DEF LogInv
  <2>2. Continues(names, names)
    <3>1. Len(names) \in Nat
      BY <2>1 DEF NamesOnce
    <3> QED
      BY <3>1, SMT DEF Continues
  <2>3. log[k].from \in AValue /\ Redact(names, log[k].from) = [r |-> names, line |-> log[k].into]
    BY <2>1, <2>2, Zenon DEF Settled
  <2>4. Redact(names, log[k].from).line = log[k].into
    BY <2>3
  <2> QED
    BY <2>1, <2>3, <2>4, RedactedIsClean
<1> QED
  BY <1>1, LogInvariant, PTL

(* What has a name is shown by it and by nothing else, on every line.      *)
THEOREM RedactionIsAlwaysThorough == TextsSpec => []RedactionIsThorough
BY NamesAreAlwaysStable, NothingRecognisedIsEverLeft, PTL DEF RedactionIsThorough

(* A session has its sources, and assumes none without cause.              *)
THEOREM SourcesAreAlwaysThere == Spec => []SourcesAreThere
BY SessionsHaveSources, AbsentDefaultComesLast, PTL DEF SourcesAreThere

-----------------------------------------------------------------------------
(* The sum of a sequence is its last partial sum.                          *)
Sums(x) == LET sum[k \in 0..Len(x)] == IF k = 0 THEN 0 ELSE sum[k - 1] + x[k] IN sum

LEMMA SumsAre ==
  ASSUME NEW n \in Nat, NEW x, Len(x) = n
  PROVE  /\ Sums(x)[0] = 0
         /\ \A k \in 1..n : Sums(x)[k] = Sums(x)[k - 1] + x[k]
         /\ Total(x) = Sums(x)[n]
<1> DEFINE Val(f, k) == IF k = 0 THEN 0 ELSE f[k - 1] + x[k]
           Good(m) == \E f : f = [k \in 0..m |-> Val(f, k)]
           T == {m \in 0..n : Good(m)}
<1>2. 0 \in T
  <2> DEFINE f == [k \in 0..0 |-> 0]
  <2>1. \A k \in 0..0 : k = 0
    BY SMT
  <2>2. f = [k \in 0..0 |-> Val(f, k)]
    BY <2>1
  <2>3. Good(0)
    BY <2>2
  <2>4. 0 \in 0..n
    BY SMT
  <2> QED
    BY <2>3, <2>4
<1>3. ASSUME NEW i \in 1..n, \A j \in 0..(i - 1) : j \in T PROVE i \in T
  <2>1. i - 1 \in 0..(i - 1) /\ i \in 0..n /\ i # 0 /\ i \in 0..i /\ i - 1 # i
    BY SMT
  <2>2. PICK f : f = [k \in 0..(i - 1) |-> Val(f, k)]
    BY <1>3, <2>1
  <2> DEFINE g == [k \in 0..i |-> IF k = i THEN Val(f, i) ELSE f[k]]
  <2>3. ASSUME NEW k \in 0..i PROVE g[k] = Val(g, k)
    <3>1. CASE k = i
      <4>1. i - 1 \in 0..i
        BY <2>1, SMT
      <4>2. g[i - 1] = f[i - 1] /\ g[i] = Val(f, i)
        BY <2>1, <4>1
      <4> HIDE DEF g
      <4> QED
        BY <3>1, <4>2
    <3>2. CASE k # i
      <4>1. k \in 0..(i - 1) /\ (k # 0 => k - 1 \in 0..i /\ k - 1 # i)
        BY <3>2, SMT
      <4>2. g[k] = f[k] /\ f[k] = Val(f, k)
        BY <2>2, <3>2, <4>1
      <4>3. k # 0 => g[k - 1] = f[k - 1]
        BY <4>1
      <4> HIDE DEF g
      <4> QED
        BY <4>2, <4>3
    <3> QED
      BY <3>1, <3>2
  <2>4. g = [k \in 0..i |-> Val(g, k)]
    <3> DEFINE h == [k \in 0..i |-> Val(g, k)]
    <3>1. \A k \in 0..i : g[k] = h[k]
      BY <2>3
    <3> QED
      BY <3>1
  <2>5. Good(i)
    BY <2>4
  <2> QED
    BY <2>1, <2>5
<1>4. n \in T
  <2> HIDE DEF T
  <2>1. \A i \in 0..n : i \in T
    BY <1>2, <1>3, FromTheStart
  <2> QED
    BY <2>1, SMT
<1> DEFINE w == Sums(x)
<1>5. w = CHOOSE f : f = [k \in 0..n |-> Val(f, k)]
  BY DEF Sums
<1>6. w = [k \in 0..n |-> Val(w, k)]
  <2>1. \E f : f = [k \in 0..n |-> Val(f, k)]
    BY <1>4
  <2> HIDE DEF w
  <2> QED
    BY <1>5, <2>1
<1> HIDE DEF w
<1>7. \A k \in 0..n : w[k] = Val(w, k)
  <2> SUFFICES ASSUME NEW k \in 0..n PROVE w[k] = Val(w, k)
    OBVIOUS
  <2> DEFINE h == [i \in 0..n |-> Val(w, i)]
  <2>1. h[k] = Val(w, k)
    OBVIOUS
  <2>2. w = h
    BY <1>6
  <2> HIDE DEF h
  <2> QED
    BY <2>1, <2>2
<1>8. 0 \in 0..n /\ \A k \in 1..n : k \in 0..n /\ k # 0
  BY SMT
<1>9. Total(x) = w[n]
  BY DEF Total, Sums, w
<1> QED
  BY <1>7, <1>8, <1>9 DEF w

(* Numbers over the lines of a page: what stands at a line, and the sum.   *)
Over(n, x) == n \in Nat /\ x \in [1..n -> Int]

LEMMA SumsAreInt ==
  ASSUME NEW n, NEW x, Over(n, x)
  PROVE  /\ Len(x) = n /\ \A k \in 0..n : Sums(x)[k] \in Int
         /\ Total(x) \in Int
<1>1. n \in Nat /\ x \in [1..n -> Int] /\ x \in Seq(Int) /\ Len(x) = n
  BY SMT DEF Over
<1> DEFINE T == {k \in 0..n : Sums(x)[k] \in Int}
<1>2. 0 \in T
  BY <1>1, SumsAre
<1>3. ASSUME NEW i \in 1..n, \A j \in 0..(i - 1) : j \in T PROVE i \in T
  <2>1. i - 1 \in 0..(i - 1) /\ i \in 0..n
    BY <1>1, SMT
  <2>2. Sums(x)[i] = Sums(x)[i - 1] + x[i] /\ Sums(x)[i - 1] \in Int /\ x[i] \in Int
    BY <1>1, <1>3, <2>1, SumsAre
  <2>3. Sums(x)[i] \in Int
    BY <2>2, SMT
  <2> QED
    BY <2>1, <2>3
<1>4. \A k \in 0..n : k \in T
  <2> HIDE DEF T
  <2> QED
    BY <1>1, <1>2, <1>3, FromTheStart
<1>5. Total(x) = Sums(x)[n] /\ n \in 0..n
  BY <1>1, SumsAre, SMT
<1> QED
  BY <1>1, <1>4, <1>5

(* Two partial sums are one.                                               *)
LEMMA SumsAdd ==
  ASSUME NEW n, NEW x, Over(n, x), NEW y, Over(n, y), NEW z, Over(n, z),
         \A k \in 1..n : z[k] = x[k] + y[k]
  PROVE  Total(z) = Total(x) + Total(y)
<1>1. n \in Nat /\ Len(x) = n /\ Len(y) = n /\ Len(z) = n
  BY SumsAreInt DEF Over
<1> DEFINE X == Sums(x)
           Y == Sums(y)
           Z == Sums(z)
           T == {k \in 0..n : Z[k] = X[k] + Y[k]}
<1>2. /\ X[0] = 0 /\ Y[0] = 0 /\ Z[0] = 0
      /\ \A k \in 1..n : /\ X[k] = X[k - 1] + x[k] /\ Y[k] = Y[k - 1] + y[k]
                         /\ Z[k] = Z[k - 1] + z[k]
      /\ Total(x) = X[n] /\ Total(y) = Y[n] /\ Total(z) = Z[n]
  BY <1>1, SumsAre
<1>3. \A k \in 0..n : X[k] \in Int /\ Y[k] \in Int /\ Z[k] \in Int
  BY SumsAreInt
<1>4. \A k \in 1..n : x[k] \in Int /\ y[k] \in Int
  BY DEF Over
<1> HIDE DEF X, Y, Z
<1>5. 0 \in T
  BY <1>1, <1>2, SMT
<1>6. ASSUME NEW i \in 1..n, \A j \in 0..(i - 1) : j \in T PROVE i \in T
  <2>1. i - 1 \in 0..(i - 1) /\ i \in 0..n /\ i - 1 \in 0..n
    BY <1>1, SMT
  <2>2. /\ X[i] = X[i - 1] + x[i] /\ Y[i] = Y[i - 1] + y[i]
        /\ Z[i] = Z[i - 1] + (x[i] + y[i]) /\ Z[i - 1] = X[i - 1] + Y[i - 1]
    BY <1>2, <1>6, <2>1
  <2>3. X[i - 1] \in Int /\ Y[i - 1] \in Int /\ x[i] \in Int /\ y[i] \in Int
    BY <1>3, <1>4, <2>1
  <2>4. Z[i] = X[i] + Y[i]
    BY <2>2, <2>3, SMT
  <2> QED
    BY <2>1, <2>4
<1>7. \A k \in 0..n : k \in T
  <2> HIDE DEF T
  <2> QED
    BY <1>1, <1>5, <1>6, FromTheStart
<1>8. n \in 0..n
  BY <1>1, SMT
<1> QED
  BY <1>2, <1>7, <1>8

(* The samples of a page: a number each, and one value for a label.        *)
PageOK(s) ==
  /\ Len(s) \in Nat /\ DOMAIN s = 1..Len(s)
  /\ \A k \in 1..Len(s) :
       /\ s[k].value \in Int
       /\ \A v, w, l : <<l, v>> \in s[k].labels /\ <<l, w>> \in s[k].labels => v = w
       /\ \A m \in s[k].labels : m = <<m[1], m[2]>>

Share(s, S) == [k \in 1..Len(s) |-> IF k \in S THEN s[k].value ELSE 0]

LEMMA SumOverIs ==
  ASSUME NEW s, PageOK(s), NEW S, S \subseteq 1..Len(s)
  PROVE  /\ Over(Len(s), Share(s, S))
         /\ SumOver(s, S) = Total(Share(s, S)) /\ SumOver(s, S) \in Int
<1>1. NaN \notin Int
  BY ExpositionAssumption
<1>2. \A k \in S : s[k].value # NaN
  BY <1>1 DEF PageOK
<1>3. Over(Len(s), Share(s, S))
  BY DEF PageOK, Over, Share
<1>4. SumOver(s, S) = Total(Share(s, S))
  BY <1>2 DEF SumOver, Share
<1> QED
  BY <1>3, <1>4, SumsAreInt

LEMMA SumOverSplits ==
  ASSUME NEW s, PageOK(s), NEW A, NEW B, A \subseteq 1..Len(s), B \subseteq 1..Len(s),
         A \cap B = {}
  PROVE  SumOver(s, A \cup B) = SumOver(s, A) + SumOver(s, B)
<1> DEFINE n == Len(s)
           x == Share(s, A)
           y == Share(s, B)
           z == Share(s, A \cup B)
<1>1. A \cup B \subseteq 1..n
  OBVIOUS
<1>2. Over(n, x) /\ Over(n, y) /\ Over(n, z)
  BY <1>1, SumOverIs
<1>3. ASSUME NEW k \in 1..n PROVE z[k] = x[k] + y[k]
  <2>1. s[k].value \in Int
    BY DEF PageOK
  <2>2. /\ z[k] = IF k \in A \cup B THEN s[k].value ELSE 0
        /\ x[k] = IF k \in A THEN s[k].value ELSE 0
        /\ y[k] = IF k \in B THEN s[k].value ELSE 0
    BY DEF Share
  <2> HIDE DEF x, y, z
  <2>3. CASE k \in A
    <3>1. z[k] = s[k].value /\ x[k] = s[k].value /\ y[k] = 0
      BY <2>2, <2>3
    <3> QED
      BY <2>1, <3>1, SMT
  <2>4. CASE k \in B
    <3>1. z[k] = s[k].value /\ x[k] = 0 /\ y[k] = s[k].value
      BY <2>2, <2>4
    <3> QED
      BY <2>1, <3>1, SMT
  <2>5. CASE k \notin A \cup B
    <3>1. z[k] = 0 /\ x[k] = 0 /\ y[k] = 0
      BY <2>2, <2>5
    <3> QED
      BY <3>1, SMT
  <2> QED
    BY <2>3, <2>4, <2>5
<1> HIDE DEF x, y, z
<1>4. Total(z) = Total(x) + Total(y)
  BY <1>2, <1>3, SumsAdd
<1> QED
  BY <1>1, <1>4, SumOverIs DEF x, y, z

LEMMA SumOverNone == ASSUME NEW s, PageOK(s) PROVE SumOver(s, {}) = 0
<1>1. \A A : A = {} => SumOver(s, A) = SumOver(s, A) + SumOver(s, A) /\ SumOver(s, A) \in Int
  <2> SUFFICES ASSUME NEW A, A = {}
               PROVE  SumOver(s, A) = SumOver(s, A) + SumOver(s, A) /\ SumOver(s, A) \in Int
    OBVIOUS
  <2>1. A \subseteq 1..Len(s) /\ A \cap A = {} /\ A \cup A = A
    OBVIOUS
  <2>2. SumOver(s, A \cup A) = SumOver(s, A) + SumOver(s, A)
    BY <2>1, SumOverSplits
  <2> QED
    BY <2>1, <2>2, SumOverIs
<1> DEFINE t == SumOver(s, {})
<1>2. t = t + t /\ t \in Int
  BY <1>1
<1> HIDE DEF t
<1>3. t = 0
  BY <1>2, SMT
<1> QED
  BY <1>3 DEF t

-----------------------------------------------------------------------------
(* A sample has one value of a label, or none.                             *)
LEMMA OneValue ==
  ASSUME NEW s, PageOK(s), NEW name, NEW label, NEW k \in Family(s, name)
  PROVE  /\ k \in 1..Len(s)
         /\ \A v : v \in Value(s[k], label) <=> <<label, v>> \in s[k].labels
         /\ \A v \in Value(s[k], label) : Value(s[k], label) = {v}
<1>1. k \in 1..Len(s)
  BY DEF Family, PageOK
<1>2. /\ \A v, w, l : <<l, v>> \in s[k].labels /\ <<l, w>> \in s[k].labels => v = w
      /\ \A m \in s[k].labels : m = <<m[1], m[2]>>
  BY <1>1 DEF PageOK
<1>3. ASSUME NEW v PROVE v \in Value(s[k], label) <=> <<label, v>> \in s[k].labels
  <2>1. ASSUME v \in Value(s[k], label) PROVE <<label, v>> \in s[k].labels
    <3>1. PICK m \in s[k].labels : m[1] = label /\ m[2] = v
      BY <2>1 DEF Value
    <3>2. m = <<m[1], m[2]>>
      BY <1>2
    <3> QED
      BY <3>1, <3>2
  <2>2. ASSUME <<label, v>> \in s[k].labels PROVE v \in Value(s[k], label)
    <3> DEFINE m == <<label, v>>
    <3>1. m \in s[k].labels /\ m[1] = label /\ m[2] = v
      BY <2>2
    <3> HIDE DEF m
    <3> QED
      BY <3>1 DEF Value
  <2> QED
    BY <2>1, <2>2
<1> QED
  BY <1>1, <1>2, <1>3

(* The group of a value, and what the lines up to k put into some group.   *)
Group(s, name, label, v) == {j \in Family(s, name) : v \in Value(s[j], label)}
Covered(s, name, label, k) ==
  {j \in Family(s, name) :
     \E i \in Firsts(s, name, label) : i <= k /\ Value(s[i], label) = Value(s[j], label)}

LEMMA FirstsAre ==
  ASSUME NEW s, PageOK(s), NEW name, NEW label
  PROVE  /\ Firsts(s, name, label) \subseteq 1..Len(s)
         /\ \A k \in Firsts(s, name, label) :
              k \in Family(s, name) /\ Value(s[k], label) # {}
         /\ \A i, k \in Firsts(s, name, label) :
              Value(s[i], label) = Value(s[k], label) => i = k
         /\ \A j \in Family(s, name) : Value(s[j], label) # {} =>
              \E k \in Firsts(s, name, label) : Value(s[k], label) = Value(s[j], label)
<1>1. Family(s, name) \subseteq 1..Len(s) /\ Len(s) \in Nat
  BY DEF Family, PageOK
<1> DEFINE V(k) == Value(s[k], label)
           F == Firsts(s, name, label)
<1>2. \A k : k \in F <=> /\ k \in Family(s, name) /\ V(k) # {}
                         /\ \A j \in Family(s, name) : V(j) = V(k) => k <= j
  BY DEF Firsts
<1>3. \A i, k \in F : V(i) = V(k) => i = k
  <2> SUFFICES ASSUME NEW i \in F, NEW k \in F, V(i) = V(k) PROVE i = k
    OBVIOUS
  <2>1. i <= k /\ k <= i
    BY <1>2
  <2>2. i \in 1..Len(s) /\ k \in 1..Len(s)
    BY <1>1, <1>2
  <2> HIDE DEF F, V
  <2> QED
    BY <1>1, <2>1, <2>2, SMT
<1>4. ASSUME NEW j \in Family(s, name), V(j) # {}
      PROVE  \E k \in F : V(k) = V(j)
  <2> DEFINE T == {i \in Family(s, name) : V(i) = V(j)}
  <2>1. T \in SUBSET Nat /\ T # {}
    BY <1>1
  <2>2. Min(T) \in T /\ \A y \in T : Min(T) <= y
    BY <2>1, LeastNumber
  <2> DEFINE k == Min(T)
  <2> HIDE DEF k
  <2>3. k \in Family(s, name) /\ V(k) = V(j) /\ \A y \in T : k <= y
    BY <2>2 DEF k
  <2>4. k \in F
    BY <1>2, <1>4, <2>3
  <2> QED
    BY <2>3, <2>4
<1> QED
  BY <1>1, <1>2, <1>3, <1>4

(* The groups, each taken at its first line, are all that has the label.   *)
LEMMA GroupsAreTheLabeled ==
  ASSUME NEW s, PageOK(s), NEW name, NEW label
  PROVE  Grouped(s, name, label) = SumOver(s, {j \in Family(s, name) : Value(s[j], label) # {}})
<1> DEFINE n == Len(s)
           F == Firsts(s, name, label)
           V(k) == Value(s[k], label)
           C(k) == Covered(s, name, label, k)
           groups == SumByLabel(s, name, label)
           g == [k \in 1..n |-> IF k \in F THEN groups[CHOOSE v \in V(k) : TRUE] ELSE 0]
           labeled == {j \in Family(s, name) : V(j) # {}}
<1>1. n \in Nat /\ Family(s, name) \subseteq 1..n
  BY DEF Family, PageOK
<1>2. /\ F \subseteq 1..n
      /\ \A k \in F : k \in Family(s, name) /\ V(k) # {}
      /\ \A i, k \in F : V(i) = V(k) => i = k
      /\ \A j \in Family(s, name) : V(j) # {} => \E k \in F : V(k) = V(j)
  BY FirstsAre
<1>3. \A k : C(k) = {j \in Family(s, name) : \E i \in F : i <= k /\ V(i) = V(j)}
  BY DEF Covered
<1>4. \A k : C(k) \subseteq 1..n
  BY <1>1, <1>3
<1>5. ASSUME NEW k \in F
      PROVE  \E v : V(k) = {v} /\ g[k] = SumOver(s, Group(s, name, label, v))
  <2>1. PICK v : v \in V(k)
    BY <1>2
  <2>2. V(k) = {v}
    <3>1. k \in Family(s, name)
      BY <1>2
    <3>2. \A w \in Value(s[k], label) : Value(s[k], label) = {w}
      BY <3>1, OneValue
    <3> QED
      BY <2>1, <3>2
  <2>3. (CHOOSE w \in V(k) : TRUE) = v
    BY <2>2
  <2>4. v \in DistinctLabelValues(s, name, label)
    BY <1>2, <2>1 DEF DistinctLabelValues
  <2>5. groups[v] = SumOver(s, Group(s, name, label, v))
    BY <2>4 DEF SumByLabel, Group
  <2>6. g[k] = groups[CHOOSE w \in V(k) : TRUE]
    BY <1>2
  <2> QED
    BY <2>2, <2>3, <2>5, <2>6
<1>6. ASSUME NEW v PROVE Group(s, name, label, v) = {j \in Family(s, name) : V(j) = {v}}
  <2>1. \A j \in Family(s, name) : v \in V(j) <=> V(j) = {v}
    BY OneValue
  <2> QED
    BY <2>1 DEF Group
<1>7. Over(n, g)
  <2>1. \A k \in F : g[k] \in Int
    <3> SUFFICES ASSUME NEW k \in F PROVE g[k] \in Int
      OBVIOUS
    <3>1. PICK v : V(k) = {v} /\ g[k] = SumOver(s, Group(s, name, label, v))
      BY <1>5
    <3>2. Group(s, name, label, v) \subseteq 1..n
      BY <1>1 DEF Group
    <3> HIDE DEF g
    <3> QED
      BY <3>1, <3>2, SumOverIs
  <2>2. \A k \in 1..n : k \notin F => g[k] = 0
    OBVIOUS
  <2>3. g = [k \in 1..n |-> g[k]]
    OBVIOUS
  <2> HIDE DEF g, F
  <2>4. \A k \in 1..n : g[k] \in Int
    BY <2>1, <2>2
  <2> QED
    BY <1>1, <2>3, <2>4 DEF Over
<1>8. \A k \in 1..n : k \notin F => g[k] = 0
  OBVIOUS
<1>9. Grouped(s, name, label) = Total(g)
  BY DEF Grouped
<1> DEFINE G == Sums(g)
           T == {k \in 0..n : G[k] = SumOver(s, C(k))}
<1> HIDE DEF g, F, V, C
<1>10. /\ G[0] = 0 /\ \A k \in 1..n : G[k] = G[k - 1] + g[k]
       /\ Total(g) = G[n] /\ \A k \in 0..n : G[k] \in Int
  BY <1>1, <1>7, SumsAre, SumsAreInt
<1> HIDE DEF G
<1>11. 0 \in T
  <2>1. \A i \in F : ~(i <= 0)
    BY <1>1, <1>2, SMT
  <2>2. C(0) = {}
    BY <1>3, <2>1
  <2>3. 0 \in 0..n
    BY <1>1, SMT
  <2> QED
    BY <1>10, <2>2, <2>3, SumOverNone
<1>12. ASSUME NEW i \in 1..n, \A j \in 0..(i - 1) : j \in T PROVE i \in T
  <2>1. i - 1 \in 0..(i - 1) /\ i \in 0..n /\ i - 1 \in 0..n
    BY <1>1, SMT
  <2>2. G[i - 1] = SumOver(s, C(i - 1)) /\ G[i] = G[i - 1] + g[i] /\ G[i - 1] \in Int
    BY <1>10, <1>12, <2>1
  <2>3. \A k \in F : k <= i <=> k <= i - 1 \/ k = i
    BY <1>1, <1>2, SMT
  <2>4. CASE i \in F
    <3>1. PICK v : V(i) = {v} /\ g[i] = SumOver(s, Group(s, name, label, v))
      BY <1>5, <2>4
    <3> DEFINE Gr == Group(s, name, label, v)
    <3>2. Gr = {j \in Family(s, name) : V(j) = V(i)}
      BY <1>6, <3>1
    <3> HIDE DEF Gr
    <3>3. C(i) = C(i - 1) \cup Gr
      <4>1. ASSUME NEW j \in Family(s, name) PROVE j \in C(i) <=> j \in C(i - 1) \/ j \in Gr
        <5>1. j \in C(i) <=> \E k \in F : (k <= i - 1 \/ k = i) /\ V(k) = V(j)
          BY <1>3, <2>3
        <5>2. j \in C(i - 1) <=> \E k \in F : k <= i - 1 /\ V(k) = V(j)
          BY <1>3
        <5>3. j \in Gr <=> V(i) = V(j)
          BY <3>2
        <5> QED
          BY <2>4, <5>1, <5>2, <5>3
      <4>2. C(i) \subseteq Family(s, name) /\ C(i - 1) \subseteq Family(s, name) /\ Gr \subseteq Family(s, name)
        BY <1>3, <3>2
      <4> QED
        BY <4>1, <4>2
    <3>4. C(i - 1) \cap Gr = {}
      <4> SUFFICES ASSUME NEW j, j \in C(i - 1), j \in Gr PROVE FALSE
        OBVIOUS
      <4>1. PICK k \in F : k <= i - 1 /\ V(k) = V(j)
        BY <1>3
      <4>2. V(k) = V(i)
        BY <3>2, <4>1
      <4>3. k = i
        BY <1>2, <2>4, <4>2
      <4> QED
        BY <1>1, <4>1, <4>3, SMT
    <3>5. SumOver(s, C(i)) = SumOver(s, C(i - 1)) + SumOver(s, Gr)
      <4> DEFINE A == C(i - 1)
      <4>1. A \subseteq 1..n /\ Gr \subseteq 1..n /\ A \cap Gr = {} /\ C(i) = A \cup Gr
        BY <1>1, <1>4, <3>2, <3>3, <3>4
      <4> HIDE DEF A
      <4>2. SumOver(s, A \cup Gr) = SumOver(s, A) + SumOver(s, Gr)
        BY <4>1, SumOverSplits
      <4> QED
        BY <4>1, <4>2 DEF A
    <3> QED
      BY <2>1, <2>2, <3>1, <3>5 DEF Gr
  <2>5. CASE i \notin F
    <3>1. g[i] = 0 /\ G[i] = G[i - 1]
      <4>1. g[i] = 0
        BY <1>8, <2>5
      <4> QED
        BY <2>2, <4>1, SMT
    <3>2. C(i) = C(i - 1)
      <4>1. \A k \in F : k <= i <=> k <= i - 1
        BY <2>3, <2>5
      <4> QED
        BY <1>3, <4>1
    <3> QED
      BY <2>1, <2>2, <3>1, <3>2
  <2> QED
    BY <2>4, <2>5
<1>13. G[n] = SumOver(s, C(n))
  <2>1. \A k \in 0..n : k \in T
    <3> HIDE DEF T
    <3> QED
      BY <1>1, <1>11, <1>12, FromTheStart
  <2>2. n \in 0..n
    BY <1>1, SMT
  <2> QED
    BY <2>1, <2>2
<1>14. C(n) = labeled
  <2>1. \A k \in F : k <= n
    BY <1>1, <1>2, SMT
  <2>2. \A j \in Family(s, name) : V(j) # {} <=> \E k \in F : V(k) = V(j)
    BY <1>2
  <2> QED
    BY <1>3, <2>1, <2>2
<1> QED
  BY <1>9, <1>10, <1>13, <1>14 DEF V

(* Whatever the page, its totals are the sums of their parts.              *)
LEMMA PageAddsUp == ASSUME NEW s, PageOK(s), NEW name, NEW label PROVE AddsUp(s, name, label)
<1> DEFINE of == Family(s, name)
           groups == SumByLabel(s, name, label)
           some == {k \in of : Value(s[k], label) # {}}
           none == {k \in of : Value(s[k], label) = {}}
<1>1. of \subseteq 1..Len(s)
  BY DEF Family, PageOK
<1>2. SumAll(s, name) = SumOver(s, of) /\ SumAll(s, name) \in Int /\ NaN \notin Int
  BY <1>1, SumOverIs, ExpositionAssumption DEF SumAll
<1>3. SumAll(s, name) = Grouped(s, name, label) + SumOver(s, none)
  <2>1. /\ some \subseteq 1..Len(s) /\ none \subseteq 1..Len(s)
        /\ some \cap none = {} /\ some \cup none = of
    BY <1>1
  <2>2. SumOver(s, some \cup none) = SumOver(s, some) + SumOver(s, none)
    BY <2>1, SumOverSplits
  <2>3. Grouped(s, name, label) = SumOver(s, some)
    BY GroupsAreTheLabeled
  <2> QED
    BY <1>2, <2>1, <2>2, <2>3
<1>4. ASSUME NEW v \in DOMAIN groups PROVE groups[v] = MatchingValue(s, name, {<<label, v>>})
  <2>1. groups[v] = SumOver(s, {k \in of : v \in Value(s[k], label)})
    BY DEF SumByLabel
  <2>2. \A k \in of : v \in Value(s[k], label) <=> <<label, v>> \in s[k].labels
    BY OneValue
  <2>3. {k \in of : v \in Value(s[k], label)}
          = {k \in of : \A m \in {<<label, v>>} : m \in s[k].labels}
    <3>1. \A L : <<label, v>> \in L <=> \A m \in {<<label, v>>} : m \in L
      OBVIOUS
    <3> QED
      BY <2>2, <3>1
  <2> QED
    BY <2>1, <2>3 DEF MatchingValue
<1>5. ~HasMetric(s, name) => SumAll(s, name) = 0
  BY <1>2, SumOverNone DEF HasMetric
<1> QED
  BY <1>2, <1>3, <1>4, <1>5 DEF AddsUp

-----------------------------------------------------------------------------
(* The flags in front of each character of a text.                         *)
LEMMA FlagsAre ==
  ASSUME NEW start, NEW s, Len(s) \in Nat
  PROVE  /\ FlagsFrom(start, s)[0] = start
         /\ \A k \in 1..Len(s) : FlagsFrom(start, s)[k] = Flagged(FlagsFrom(start, s)[k - 1], s[k])
<1> DEFINE n == Len(s)
           Val(f, k) == IF k = 0 THEN start ELSE Flagged(f[k - 1], s[k])
           Good(m) == \E f : f = [k \in 0..m |-> Val(f, k)]
           T == {m \in 0..n : Good(m)}
<1>2. 0 \in T
  <2> DEFINE f == [k \in 0..0 |-> start]
  <2>1. \A k \in 0..0 : k = 0
    BY SMT
  <2>2. f = [k \in 0..0 |-> Val(f, k)]
    BY <2>1
  <2>3. Good(0)
    BY <2>2
  <2>4. 0 \in 0..n
    BY SMT
  <2> QED
    BY <2>3, <2>4
<1>3. ASSUME NEW i \in 1..n, \A j \in 0..(i - 1) : j \in T PROVE i \in T
  <2>1. i - 1 \in 0..(i - 1) /\ i \in 0..n /\ i # 0 /\ i \in 0..i /\ i - 1 # i
    BY SMT
  <2>2. PICK f : f = [k \in 0..(i - 1) |-> Val(f, k)]
    BY <1>3, <2>1
  <2> DEFINE g == [k \in 0..i |-> IF k = i THEN Val(f, i) ELSE f[k]]
  <2>3. ASSUME NEW k \in 0..i PROVE g[k] = Val(g, k)
    <3>1. CASE k = i
      <4>1. i - 1 \in 0..i
        BY <2>1, SMT
      <4>2. g[i - 1] = f[i - 1] /\ g[i] = Val(f, i)
        BY <2>1, <4>1
      <4> HIDE DEF g
      <4> QED
        BY <3>1, <4>2
    <3>2. CASE k # i
      <4>1. k \in 0..(i - 1) /\ (k # 0 => k - 1 \in 0..i /\ k - 1 # i)
        BY <3>2, SMT
      <4>2. g[k] = f[k] /\ f[k] = Val(f, k)
        BY <2>2, <3>2, <4>1
      <4>3. k # 0 => g[k - 1] = f[k - 1]
        BY <4>1
      <4> HIDE DEF g
      <4> QED
        BY <4>2, <4>3
    <3> QED
      BY <3>1, <3>2
  <2>4. g = [k \in 0..i |-> Val(g, k)]
    <3> DEFINE h == [k \in 0..i |-> Val(g, k)]
    <3>1. \A k \in 0..i : g[k] = h[k]
      BY <2>3
    <3> QED
      BY <3>1
  <2>5. Good(i)
    BY <2>4
  <2> QED
    BY <2>1, <2>5
<1>4. n \in T
  <2> HIDE DEF T
  <2>1. \A i \in 0..n : i \in T
    BY <1>2, <1>3, FromTheStart
  <2> QED
    BY <2>1, SMT
<1> DEFINE w == FlagsFrom(start, s)
<1>5. w = CHOOSE f : f = [k \in 0..n |-> Val(f, k)]
  BY DEF FlagsFrom
<1>6. w = [k \in 0..n |-> Val(w, k)]
  <2>1. \E f : f = [k \in 0..n |-> Val(f, k)]
    BY <1>4
  <2> HIDE DEF w
  <2> QED
    BY <1>5, <2>1
<1> HIDE DEF w
<1>7. \A k \in 0..n : w[k] = Val(w, k)
  <2> SUFFICES ASSUME NEW k \in 0..n PROVE w[k] = Val(w, k)
    OBVIOUS
  <2> DEFINE h == [i \in 0..n |-> Val(w, i)]
  <2>1. h[k] = Val(w, k)
    OBVIOUS
  <2>2. w = h
    BY <1>6
  <2> HIDE DEF h
  <2> QED
    BY <2>1, <2>2
<1>8. 0 \in 0..n /\ \A k \in 1..n : k \in 0..n /\ k # 0
  BY SMT
<1> QED
  BY <1>7, <1>8 DEF w

(* What stands behind a text is read with the flags the text ends in.      *)
Text == Seq(Symbol)
End(start, s) == FlagsFrom(start, s)[Len(s)]

LEMMA JoinedText ==
  ASSUME NEW s \in Text, NEW t \in Text
  PROVE  /\ Len(s) \in Nat /\ Len(t) \in Nat /\ DOMAIN s = 1..Len(s) /\ DOMAIN t = 1..Len(t)
         /\ s \o t \in Text /\ Len(s \o t) = Len(s) + Len(t)
         /\ DOMAIN (s \o t) = 1..(Len(s) + Len(t))
         /\ \A i \in 1..Len(s) : (s \o t)[i] = s[i]
         /\ \A i \in 1..Len(t) : (s \o t)[Len(s) + i] = t[i]
<1>1. /\ s \o t \in Seq(Symbol) /\ Len(s \o t) = Len(s) + Len(t)
      /\ \A i \in 1..(Len(s) + Len(t)) : (s \o t)[i] = IF i <= Len(s) THEN s[i] ELSE t[i - Len(s)]
  BY ConcatProperties DEF Text
<1>2. /\ Len(s) \in Nat /\ Len(t) \in Nat /\ DOMAIN s = 1..Len(s) /\ DOMAIN t = 1..Len(t)
      /\ DOMAIN (s \o t) = 1..Len(s \o t)
  BY <1>1, LenProperties DEF Text
<1>3. \A i \in 1..Len(s) : i \in 1..(Len(s) + Len(t)) /\ i <= Len(s)
  BY <1>2, SMT
<1>4. \A i \in 1..Len(t) : /\ Len(s) + i \in 1..(Len(s) + Len(t)) /\ ~(Len(s) + i <= Len(s))
                           /\ (Len(s) + i) - Len(s) = i
  BY <1>2, SMT
<1> HIDE DEF Text
<1>5. \A i \in 1..Len(s) : (s \o t)[i] = s[i]
  BY <1>1, <1>3
<1>6. \A i \in 1..Len(t) : (s \o t)[Len(s) + i] = t[i]
  BY <1>1, <1>4
<1> QED
  BY <1>1, <1>2, <1>5, <1>6 DEF Text

LEMMA FlagsGoOn ==
  ASSUME NEW start, NEW s \in Text, NEW t \in Text
  PROVE  /\ \A k \in 0..Len(s) : FlagsFrom(start, s \o t)[k] = FlagsFrom(start, s)[k]
         /\ \A k \in 0..Len(t) :
              FlagsFrom(start, s \o t)[Len(s) + k] = FlagsFrom(End(start, s), t)[k]
         /\ End(start, s \o t) = End(End(start, s), t)
<1> DEFINE m == Len(s)
           n == Len(t)
           u == s \o t
           U == FlagsFrom(start, u)
           S == FlagsFrom(start, s)
           V == FlagsFrom(End(start, s), t)
           TS == {k \in 0..m : U[k] = S[k]}
           TV == {k \in 0..n : U[m + k] = V[k]}
<1>1. /\ m \in Nat /\ n \in Nat /\ Len(u) = m + n
      /\ \A i \in 1..m : u[i] = s[i]
      /\ \A i \in 1..n : u[m + i] = t[i]
  BY JoinedText
<1>2. /\ U[0] = start /\ \A k \in 1..(m + n) : U[k] = Flagged(U[k - 1], u[k])
      /\ S[0] = start /\ \A k \in 1..m : S[k] = Flagged(S[k - 1], s[k])
      /\ V[0] = S[m] /\ \A k \in 1..n : V[k] = Flagged(V[k - 1], t[k])
  <2>1. Len(u) \in Nat
    BY <1>1, SMT
  <2> HIDE DEF u, S
  <2>2. U[0] = start /\ \A k \in 1..Len(u) : U[k] = Flagged(U[k - 1], u[k])
    BY <2>1, FlagsAre
  <2>3. V[0] = End(start, s) /\ \A k \in 1..n : V[k] = Flagged(V[k - 1], t[k])
    BY <1>1, FlagsAre
  <2>4. S[0] = start /\ \A k \in 1..m : S[k] = Flagged(S[k - 1], s[k])
    BY <1>1, FlagsAre DEF S
  <2>5. End(start, s) = S[m]
    BY DEF End, S
  <2> HIDE DEF U, V
  <2> QED
    BY <1>1, <2>2, <2>3, <2>4, <2>5
<1> HIDE DEF u, U, S, V
<1>3. 0 \in TS
  <2>1. 0 \in 0..m
    BY <1>1, SMT
  <2> QED
    BY <1>2, <2>1
<1>4. ASSUME NEW i \in 1..m, \A j \in 0..(i - 1) : j \in TS PROVE i \in TS
  <2>1. i - 1 \in 0..(i - 1) /\ i \in 0..m /\ i \in 1..(m + n)
    BY <1>1, SMT
  <2>2. U[i - 1] = S[i - 1]
    BY <1>4, <2>1
  <2>3. U[i] = S[i]
    BY <1>1, <1>2, <2>1, <2>2
  <2> QED
    BY <2>1, <2>3
<1>5. \A k \in 0..m : k \in TS
  <2> HIDE DEF TS
  <2> QED
    BY <1>1, <1>3, <1>4, FromTheStart
<1>6. 0 \in TV
  <2>1. 0 \in 0..n /\ m \in 0..m /\ m + 0 = m
    BY <1>1, SMT
  <2>2. U[m + 0] = S[m]
    BY <1>5, <2>1
  <2> QED
    BY <1>2, <2>1, <2>2
<1>7. ASSUME NEW i \in 1..n, \A j \in 0..(i - 1) : j \in TV PROVE i \in TV
  <2>1. i - 1 \in 0..(i - 1) /\ i \in 0..n /\ m + i \in 1..(m + n) /\ (m + i) - 1 = m + (i - 1)
    BY <1>1, SMT
  <2>2. U[m + (i - 1)] = V[i - 1]
    BY <1>7, <2>1
  <2> DEFINE j == m + i
  <2>3. U[j] = Flagged(U[j - 1], u[j]) /\ u[j] = t[i] /\ j - 1 = m + (i - 1)
    <3>1. u[j] = t[i]
      BY <1>1
    <3> HIDE DEF j
    <3> QED
      BY <1>2, <2>1, <3>1 DEF j
  <2>4. U[m + i] = V[i]
    BY <1>2, <2>2, <2>3 DEF j
  <2> QED
    BY <2>1, <2>4
<1>8. \A k \in 0..n : k \in TV
  <2> HIDE DEF TV
  <2> QED
    BY <1>1, <1>6, <1>7, FromTheStart
<1>9. End(start, u) = V[n]
  <2>1. n \in 0..n
    BY <1>1, SMT
  <2> QED
    BY <1>1, <1>8, <2>1 DEF End, U
<1> QED
  BY <1>5, <1>8, <1>9 DEF End, U, S, V, u

-----------------------------------------------------------------------------
(* A text that leaves no quote open, without a separator that counts.      *)
Separators == {",", "}"}
Closed(t) == t \in Text /\ End(Unquoted, t) = Unquoted
Sealed(t)  == Closed(t) /\ \A c \in Separators : Outside(t, c) = {}

LEMMA JoinedOutside ==
  ASSUME NEW s, Closed(s), NEW t \in Text, NEW c
  PROVE  /\ \A i \in 1..Len(s) : i \in Outside(s \o t, c) <=> i \in Outside(s, c)
         /\ \A i \in 1..Len(t) : Len(s) + i \in Outside(s \o t, c) <=> i \in Outside(t, c)
         /\ Outside(s \o t, c) \subseteq 1..(Len(s) + Len(t))
         /\ Outside(s, c) \subseteq 1..Len(s) /\ Outside(t, c) \subseteq 1..Len(t)
         /\ End(Unquoted, s \o t) = End(Unquoted, t)
<1> DEFINE m == Len(s)
           n == Len(t)
           u == s \o t
           U == FlagsFrom(Unquoted, u)
           S == FlagsFrom(Unquoted, s)
           V == FlagsFrom(Unquoted, t)
<1>1. s \in Text /\ End(Unquoted, s) = Unquoted
  BY DEF Closed
<1>2. /\ m \in Nat /\ n \in Nat /\ DOMAIN s = 1..m /\ DOMAIN t = 1..n /\ DOMAIN u = 1..(m + n)
      /\ \A i \in 1..m : u[i] = s[i]
      /\ \A i \in 1..n : u[m + i] = t[i]
  BY <1>1, JoinedText
<1>3. /\ \A k \in 0..m : U[k] = S[k]
      /\ \A k \in 0..n : U[m + k] = V[k]
      /\ End(Unquoted, u) = End(Unquoted, t)
  BY <1>1, FlagsGoOn
<1>4. /\ Outside(u, c) = {i \in DOMAIN u : u[i] = c /\ U[i - 1] = Unquoted}
      /\ Outside(s, c) = {i \in DOMAIN s : s[i] = c /\ S[i - 1] = Unquoted}
      /\ Outside(t, c) = {i \in DOMAIN t : t[i] = c /\ V[i - 1] = Unquoted}
  BY DEF Outside
<1> HIDE DEF u, U, S, V
<1>5. ASSUME NEW i \in 1..m PROVE i \in Outside(u, c) <=> i \in Outside(s, c)
  <2>1. i - 1 \in 0..m /\ i \in 1..(m + n)
    BY <1>2, SMT
  <2>2. U[i - 1] = S[i - 1] /\ u[i] = s[i]
    BY <1>2, <1>3, <2>1
  <2> QED
    BY <1>2, <1>4, <2>1, <2>2
<1>6. ASSUME NEW i \in 1..n PROVE m + i \in Outside(u, c) <=> i \in Outside(t, c)
  <2> DEFINE j == m + i
  <2>1. i - 1 \in 0..n /\ j \in 1..(m + n) /\ j - 1 = m + (i - 1)
    BY <1>2, SMT
  <2>2. u[j] = t[i]
    BY <1>2
  <2> HIDE DEF j
  <2>3. U[j - 1] = V[i - 1]
    BY <1>3, <2>1
  <2>4. j \in Outside(u, c) <=> i \in Outside(t, c)
    BY <1>2, <1>4, <2>1, <2>2, <2>3
  <2> QED
    BY <2>4 DEF j
<1> QED
  BY <1>2, <1>3, <1>4, <1>5, <1>6 DEF u

LEMMA JoinedWithout ==
  ASSUME NEW s, Closed(s), NEW t \in Text
  PROVE  /\ Closed(t) => Closed(s \o t)
         /\ \A c : Outside(s, c) = {} /\ Outside(t, c) = {} => Outside(s \o t, c) = {}
<1>1. s \in Text /\ s \o t \in Text /\ Len(s) \in Nat /\ Len(t) \in Nat
  BY JoinedText DEF Closed
<1>2. Closed(t) => Closed(s \o t)
  BY <1>1, JoinedOutside DEF Closed
<1>3. ASSUME NEW c, Outside(s, c) = {}, Outside(t, c) = {} PROVE Outside(s \o t, c) = {}
  <2> SUFFICES ASSUME NEW j, j \in Outside(s \o t, c) PROVE FALSE
    OBVIOUS
  <2>1. /\ j \in 1..(Len(s) + Len(t))
        /\ \A i \in 1..Len(s) : i \notin Outside(s \o t, c)
        /\ \A i \in 1..Len(t) : Len(s) + i \notin Outside(s \o t, c)
    BY <1>1, <1>3, JoinedOutside
  <2>2. j \in 1..Len(s) \/ (j - Len(s) \in 1..Len(t) /\ Len(s) + (j - Len(s)) = j)
    BY <1>1, <2>1, SMT
  <2>3. CASE j \in 1..Len(s)
    BY <2>1, <2>3
  <2>4. CASE j - Len(s) \in 1..Len(t) /\ Len(s) + (j - Len(s)) = j
    <3> DEFINE i == j - Len(s)
    <3>1. i \in 1..Len(t) /\ Len(s) + i = j
      BY <2>4
    <3> HIDE DEF i
    <3>2. Len(s) + i \notin Outside(s \o t, c)
      BY <2>1, <3>1
    <3> QED
      BY <3>1, <3>2
  <2> QED
    BY <2>2, <2>3, <2>4
<1> QED
  BY <1>2, <1>3

LEMMA JoinedSealed == ASSUME NEW s, Sealed(s), NEW t, Sealed(t) PROVE Sealed(s \o t)
<1>1. t \in Text
  BY DEF Sealed, Closed
<1> QED
  BY <1>1, JoinedWithout DEF Sealed

(* Letters, and a character by itself.                                     *)
LEMMA LettersAreText ==
  ASSUME NEW t \in Seq(Letter)
  PROVE  /\ t \in Text /\ \A i \in 1..Len(t) : t[i] \in Letter /\ t[i] \notin Special
<1>1. \A i \in 1..Len(t) : t[i] \in Letter
  BY ElementOfSeq
<1>2. \A S : Letter \subseteq S => t \in Seq(S)
  OBVIOUS
<1>3. Letter \subseteq Symbol
  BY DEF Symbol
<1> QED
  BY <1>1, <1>2, <1>3, ExpositionAssumption DEF Text

LEMMA LettersAreSealed == ASSUME NEW t \in Seq(Letter) PROVE Sealed(t)
<1> DEFINE n == Len(t)
           V == FlagsFrom(Unquoted, t)
           T == {k \in 0..n : V[k] = Unquoted}
<1>1. n \in Nat /\ DOMAIN t = 1..n /\ t \in Text
  BY LettersAreText, JoinedText
<1>0. \A i \in 1..n : t[i] \notin {"quote", "backslash", ",", "}"}
  BY LettersAreText DEF Special
<1>2. V[0] = Unquoted /\ \A k \in 1..n : V[k] = Flagged(V[k - 1], t[k])
  BY <1>1, FlagsAre
<1> HIDE DEF V
<1>3. 0 \in T
  BY <1>1, <1>2, SMT
<1>4. ASSUME NEW i \in 1..n, \A j \in 0..(i - 1) : j \in T PROVE i \in T
  <2>1. i - 1 \in 0..(i - 1) /\ i \in 0..n
    BY <1>1, SMT
  <2>2. V[i] = Flagged(Unquoted, t[i]) /\ t[i] # "quote"
    BY <1>0, <1>2, <1>4, <2>1
  <2>3. Flagged(Unquoted, t[i]) = Unquoted
    BY <2>2 DEF Flagged, Unquoted
  <2> QED
    BY <2>1, <2>2, <2>3
<1>5. \A k \in 0..n : k \in T
  <2> HIDE DEF T
  <2> QED
    BY <1>1, <1>3, <1>4, FromTheStart
<1>6. End(Unquoted, t) = Unquoted
  <2>1. n \in 0..n
    BY <1>1, SMT
  <2> QED
    BY <1>5, <2>1 DEF End, V
<1>7. \A c \in Separators : Outside(t, c) = {}
  BY <1>0, <1>1 DEF Outside, Separators
<1> QED
  BY <1>1, <1>6, <1>7 DEF Sealed, Closed

LEMMA OneCharacter ==
  ASSUME NEW c \in Symbol
  PROVE  /\ <<c>> \in Text /\ Len(<<c>>) = 1 /\ <<c>>[1] = c
         /\ \A start : End(start, <<c>>) = Flagged(start, c) /\ FlagsFrom(start, <<c>>)[0] = start
         /\ c # "quote" => Closed(<<c>>)
         /\ c \notin Separators \cup {"quote"} => Sealed(<<c>>)
<1>1. <<c>> \in Text /\ Len(<<c>>) = 1 /\ <<c>>[1] = c /\ DOMAIN <<c>> = {1}
  <2>1. <<c>> \in Seq(Symbol)
    <3>1. \A S : \A x \in S : <<x>> \in Seq(S)
      OBVIOUS
    <3> QED
      BY <3>1, Zenon
  <2>2. Len(<<c>>) = 1 /\ <<c>>[1] = c
    OBVIOUS
  <2>3. DOMAIN <<c>> = 1..1 /\ 1..1 = {1}
    BY SMT
  <2> QED
    BY <2>1, <2>2, <2>3 DEF Text
<1>2. ASSUME NEW start PROVE End(start, <<c>>) = Flagged(start, c) /\ FlagsFrom(start, <<c>>)[0] = start
  <2> DEFINE s == <<c>>
             V == FlagsFrom(start, s)
  <2>1. Len(s) = 1 /\ s[1] = c /\ 1 \in Nat /\ 1 \in 1..1 /\ 1 - 1 = 0
    BY SMT
  <2> HIDE DEF s
  <2>2. V[0] = start /\ V[1] = Flagged(V[0], c)
    <3>1. Len(s) \in Nat
      BY <2>1
    <3>2. V[0] = start /\ \A k \in 1..Len(s) : V[k] = Flagged(V[k - 1], s[k])
      BY <3>1, FlagsAre
    <3> QED
      BY <2>1, <3>2
  <2> QED
    BY <2>1, <2>2 DEF End, s
<1>3. c # "quote" => Flagged(Unquoted, c) = Unquoted
  BY DEF Flagged, Unquoted
<1>4. c # "quote" => Closed(<<c>>)
  BY <1>1, <1>2, <1>3 DEF Closed
<1>5. \A d : c # d => Outside(<<c>>, d) = {}
  BY <1>1 DEF Outside
<1> QED
  BY <1>1, <1>2, <1>4, <1>5 DEF Sealed

-----------------------------------------------------------------------------
(* A text that stays inside the quotes it stands in.                       *)
Inside == [quoted |-> TRUE, escaped |-> FALSE]
Within(t) ==
  /\ t \in Text /\ End(Inside, t) = Inside
  /\ \A k \in 0..Len(t) : FlagsFrom(Inside, t)[k] # Unquoted

LEMMA InsideIsNot == Inside # Unquoted
BY DEF Inside, Unquoted

LEMMA JoinedWithin ==
  ASSUME NEW s, Within(s), NEW t, Within(t)
  PROVE  Within(s \o t)
<1> DEFINE m == Len(s)
           n == Len(t)
           U == FlagsFrom(Inside, s \o t)
           S == FlagsFrom(Inside, s)
           V == FlagsFrom(Inside, t)
<1>1. /\ s \in Text /\ t \in Text /\ End(Inside, s) = Inside /\ End(Inside, t) = Inside
      /\ \A k \in 0..m : S[k] # Unquoted
      /\ \A k \in 0..n : V[k] # Unquoted
  BY DEF Within
<1>2. /\ m \in Nat /\ n \in Nat /\ s \o t \in Text /\ Len(s \o t) = m + n
  BY <1>1, JoinedText
<1>3. /\ \A k \in 0..m : U[k] = S[k]
      /\ \A k \in 0..n : U[m + k] = V[k]
      /\ End(Inside, s \o t) = Inside
  BY <1>1, FlagsGoOn
<1> HIDE DEF U, S, V
<1>4. ASSUME NEW j \in 0..(m + n) PROVE U[j] # Unquoted
  <2>1. j \in 0..m \/ (j - m \in 0..n /\ j = m + (j - m))
    BY <1>2, SMT
  <2>2. CASE j \in 0..m
    BY <1>1, <1>3, <2>2
  <2>3. CASE j - m \in 0..n /\ j = m + (j - m)
    <3> DEFINE i == j - m
    <3>1. i \in 0..n /\ j = m + i
      BY <2>3
    <3> HIDE DEF i
    <3> QED
      BY <1>1, <1>3, <3>1
  <2> QED
    BY <2>1, <2>2, <2>3
<1> QED
  BY <1>2, <1>3, <1>4 DEF Within, U

LEMMA NoneWithin == Within(<<>>)
<1> DEFINE s == <<>>
<1>1. s \in Text /\ Len(s) = 0
  <2>1. \A S : <<>> \in Seq(S)
    OBVIOUS
  <2>2. s \in Seq(Symbol)
    BY <2>1, Zenon
  <2> QED
    BY <2>2 DEF Text
<1> HIDE DEF s
<1>2. FlagsFrom(Inside, s)[0] = Inside
  BY <1>1, FlagsAre
<1>3. \A k \in 0..0 : k = 0
  BY SMT
<1>4. Within(s)
  BY <1>1, <1>2, <1>3, InsideIsNot DEF Within, End
<1> QED
  BY <1>4 DEF s

(* A character that means nothing inside quotes, and one behind a          *)
(* backslash.                                                              *)
LEMMA OneWithin ==
  ASSUME NEW c \in Symbol, c \notin {"quote", "backslash"}
  PROVE  Within(<<c>>)
<1> DEFINE s == <<c>>
           V == FlagsFrom(Inside, s)
<1>1. s \in Text /\ Len(s) = 1 /\ End(Inside, s) = Flagged(Inside, c) /\ V[0] = Inside
  BY OneCharacter
<1>2. Flagged(Inside, c) = Inside
  BY DEF Flagged, Inside
<1>3. V[1] = Inside
  BY <1>1, <1>2 DEF End
<1> HIDE DEF s, V
<1>4. \A k \in 0..1 : k = 0 \/ k = 1
  BY SMT
<1>5. \A k \in 0..Len(s) : V[k] # Unquoted
  BY <1>1, <1>3, <1>4, InsideIsNot
<1>6. Within(s)
  BY <1>1, <1>2, <1>5 DEF Within, V
<1> QED
  BY <1>6 DEF s

LEMMA TwoCharacters ==
  ASSUME NEW c \in Symbol, NEW d \in Symbol
  PROVE  <<c, d>> \in Text /\ Len(<<c, d>>) = 2 /\ <<c, d>>[1] = c /\ <<c, d>>[2] = d
<1>1. \A S : \A x, y \in S : <<x, y>> \in Seq(S)
  OBVIOUS
<1>2. Len(<<c, d>>) = 2 /\ <<c, d>>[1] = c /\ <<c, d>>[2] = d
  OBVIOUS
<1> QED
  BY <1>1, <1>2, Zenon DEF Text

LEMMA PairWithin ==
  ASSUME NEW c \in Symbol
  PROVE  Within(<<"backslash", c>>)
<1> DEFINE s == <<"backslash", c>>
           V == FlagsFrom(Inside, s)
<1>1. s \in Text /\ Len(s) = 2 /\ s[1] = "backslash" /\ s[2] = c
  <2>1. "backslash" \in Symbol
    BY DEF Symbol, Special
  <2> QED
    BY <2>1, TwoCharacters
<1> HIDE DEF s
<1>2. V[0] = Inside /\ V[1] = Flagged(Inside, "backslash") /\ V[2] = Flagged(V[1], c)
  <2>0. Len(s) \in Nat
    BY <1>1
  <2>1. 2 \in Nat /\ 1 \in 1..2 /\ 2 \in 1..2 /\ 1 - 1 = 0 /\ 2 - 1 = 1
    BY SMT
  <2>2. V[0] = Inside /\ \A k \in 1..Len(s) : V[k] = Flagged(V[k - 1], s[k])
    BY <2>0, FlagsAre
  <2> HIDE DEF V
  <2> QED
    BY <1>1, <2>1, <2>2
<1>3. Flagged(Inside, "backslash") = [quoted |-> TRUE, escaped |-> TRUE]
  BY DEF Flagged, Inside
<1>4. Flagged([quoted |-> TRUE, escaped |-> TRUE], c) = Inside
  BY DEF Flagged, Inside
<1>5. [quoted |-> TRUE, escaped |-> TRUE] # Unquoted
  BY DEF Unquoted
<1>6. \A k \in 0..2 : k = 0 \/ k = 1 \/ k = 2
  BY SMT
<1>7. Within(s)
  BY <1>1, <1>2, <1>3, <1>4, <1>5, <1>6, InsideIsNot DEF Within, End
<1> QED
  BY <1>7 DEF s

LEMMA EscapedIsWithin == ASSUME NEW c \in Symbol PROVE Within(Escaped(c))
<1>1. CASE c \in {"backslash", "quote"}
  <2>1. Escaped(c) = <<"backslash", c>>
    BY <1>1 DEF Escaped
  <2> QED
    BY <2>1, PairWithin
<1>2. CASE c = "newline"
  <2>1. Escaped(c) = <<"backslash", "n">> /\ "n" \in Symbol
    BY <1>2, ExpositionAssumption DEF Escaped, Symbol
  <2> QED
    BY <2>1, PairWithin
<1>3. CASE c \notin {"backslash", "quote", "newline"}
  <2>1. Escaped(c) = <<c>>
    BY <1>3 DEF Escaped
  <2> QED
    BY <1>3, <2>1, OneWithin
<1> QED
  BY <1>1, <1>2, <1>3

(* What is written of a value from each of its characters on.              *)
EscapedFrom(v) ==
  Walk(Len(v), [i \in 1..Len(v) |-> Escaped(v[i])], [i \in 1..Len(v) |-> i + 1])

LEMMA EscapeIs ==
  ASSUME NEW v \in Text
  PROVE  /\ Len(v) \in Nat /\ EscapedFrom(v)[Len(v) + 1] = <<>>
         /\ \A i \in 1..(Len(v) + 1) : EscapedFrom(v)[i] \in Text
         /\ \A i \in 1..Len(v) :
              v[i] \in Symbol /\ EscapedFrom(v)[i] = Escaped(v[i]) \o EscapedFrom(v)[i + 1]
         /\ Escape(v) = EscapedFrom(v)[1]
<1> DEFINE n == Len(v)
           said == [i \in 1..n |-> Escaped(v[i])]
           next == [i \in 1..n |-> i + 1]
<1>1. n \in Nat /\ \A i \in 1..n : v[i] \in Symbol
  BY ElementOfSeq, LenProperties DEF Text
<1>2. \A i \in 1..n : Escaped(v[i]) \in Text
  BY <1>1, EscapedIsWithin DEF Within
<1>3. GoesForward(Symbol, n, said, next)
  <2>1. said \in [1..n -> Seq(Symbol)]
    BY <1>2 DEF Text
  <2>2. next \in [1..n -> Int] /\ \A i \in 1..n : i < next[i] /\ next[i] <= n + 1
    BY <1>1, SMT
  <2> QED
    BY <1>1, <2>1, <2>2 DEF GoesForward
<1>4. Walked(Symbol, n, said, next, EscapedFrom(v))
  BY <1>3, WalkIs DEF EscapedFrom
<1> QED
  BY <1>1, <1>4 DEF Walked, Text, Escape, EscapedFrom

LEMMA EscapeIsWithin == ASSUME NEW v \in Text PROVE Within(Escape(v))
<1> DEFINE n == Len(v)
           T == {i \in 1..(n + 1) : Within(EscapedFrom(v)[i])}
<1>1. n \in Nat
  BY EscapeIs
<1>2. n + 1 \in T
  <2>1. n + 1 \in 1..(n + 1)
    BY <1>1, SMT
  <2> QED
    BY <2>1, EscapeIs, NoneWithin
<1>3. ASSUME NEW i \in 1..n, \A j \in (i + 1)..(n + 1) : j \in T PROVE i \in T
  <2>1. i + 1 \in (i + 1)..(n + 1) /\ i \in 1..(n + 1)
    BY <1>1, SMT
  <2>2. Within(EscapedFrom(v)[i + 1])
    BY <1>3, <2>1
  <2>3. EscapedFrom(v)[i] = Escaped(v[i]) \o EscapedFrom(v)[i + 1] /\ Within(Escaped(v[i]))
    BY EscapeIs, EscapedIsWithin
  <2> QED
    BY <2>1, <2>2, <2>3, JoinedWithin
<1>4. 1 \in T
  <2> HIDE DEF T
  <2>1. \A i \in 1..(n + 1) : i \in T
    BY <1>1, <1>2, <1>3, FromTheEnd
  <2> QED
    BY <1>1, <2>1, SMT
<1> QED
  BY <1>4, EscapeIs

LEMMA QuotedIsSealed ==
  ASSUME NEW e, Within(e)
  PROVE  LET q == <<"quote">>
             u == q \o e \o q
         IN /\ u \in Text /\ Len(u) = Len(e) + 2 /\ Len(e) \in Nat
            /\ u[1] = "quote" /\ u[Len(e) + 2] = "quote"
            /\ \A k \in 1..Len(e) : u[k + 1] = e[k]
            /\ Sealed(u)
<1> DEFINE q == <<"quote">>
           n == Len(e)
           a == q \o e
           u == a \o q
           U == FlagsFrom(Unquoted, u)
           A == FlagsFrom(Unquoted, a)
           E == FlagsFrom(Inside, e)
<1>1. "quote" \in Symbol /\ e \in Text
  BY DEF Symbol, Special, Within
<1>2. /\ q \in Text /\ Len(q) = 1 /\ q[1] = "quote" /\ 1 \in 1..1
      /\ \A start : End(start, q) = Flagged(start, "quote") /\ FlagsFrom(start, q)[0] = start
  <2>1. 1 \in 1..1
    BY SMT
  <2> QED
    BY <1>1, <2>1, OneCharacter
<1>3. Flagged(Unquoted, "quote") = Inside /\ Flagged(Inside, "quote") = Unquoted
  BY DEF Flagged, Inside, Unquoted
<1> HIDE DEF q
<1>4. /\ n \in Nat /\ a \in Text /\ Len(a) = 1 + n /\ a[1] = "quote"
      /\ \A i \in 1..n : a[1 + i] = e[i]
  <2>1. /\ n \in Nat /\ a \in Text /\ Len(a) = Len(q) + n
        /\ \A i \in 1..Len(q) : a[i] = q[i]
        /\ \A i \in 1..n : a[Len(q) + i] = e[i]
    BY <1>1, <1>2, JoinedText
  <2> HIDE DEF a
  <2> QED
    BY <1>2, <2>1
<1>5. /\ \A k \in 0..n : A[1 + k] = E[k]
      /\ End(Unquoted, a) = Inside
  <2>1. /\ \A k \in 0..n : A[Len(q) + k] = FlagsFrom(End(Unquoted, q), e)[k]
        /\ End(Unquoted, a) = End(End(Unquoted, q), e)
    <3>1. q \in Text /\ e \in Text
      BY <1>1, <1>2
    <3> QED
      BY <3>1, FlagsGoOn
  <2>2. End(Unquoted, q) = Inside /\ End(Inside, e) = Inside /\ Len(q) = 1
    BY <1>2, <1>3 DEF Within
  <2> HIDE DEF A
  <2> QED
    BY <2>1, <2>2 DEF E
<1> HIDE DEF a
<1>6. /\ u \in Text /\ Len(u) = (1 + n) + 1 /\ DOMAIN u = 1..((1 + n) + 1)
      /\ \A i \in 1..(1 + n) : u[i] = a[i]
      /\ u[(1 + n) + 1] = "quote"
  <2>1. /\ u \in Text /\ Len(u) = Len(a) + Len(q) /\ DOMAIN u = 1..(Len(a) + Len(q))
        /\ \A i \in 1..Len(a) : u[i] = a[i]
        /\ \A i \in 1..Len(q) : u[Len(a) + i] = q[i]
    BY <1>2, <1>4, JoinedText
  <2> HIDE DEF u
  <2>2. u[Len(a) + 1] = "quote"
    BY <1>2, <2>1
  <2> QED
    BY <1>2, <1>4, <2>1, <2>2
<1>7. /\ \A k \in 0..(1 + n) : U[k] = A[k]
      /\ End(Unquoted, u) = Unquoted
  BY <1>2, <1>3, <1>4, <1>5, FlagsGoOn
<1>8. \A k \in 0..n : E[k] # Unquoted
  BY DEF Within
<1> HIDE DEF u, U, A, E
<1>9. /\ (1 + n) + 1 = n + 2 /\ 1 \in 1..(1 + n)
      /\ \A k \in 1..n : k + 1 = 1 + k /\ k + 1 \in 1..(1 + n)
  BY <1>4, SMT
<1>10. u[1] = "quote" /\ \A k \in 1..n : u[k + 1] = e[k]
  BY <1>4, <1>6, <1>9
<1>11. ASSUME NEW c \in Separators PROVE Outside(u, c) = {}
  <2> SUFFICES ASSUME NEW i \in 1..((1 + n) + 1), u[i] = c, U[i - 1] = Unquoted PROVE FALSE
    BY <1>6 DEF Outside, U
  <2>1. i # 1
    BY <1>10 DEF Separators
  <2> DEFINE k == i - 2
  <2>2. k \in 0..n /\ i - 1 = 1 + k /\ i - 1 \in 0..(1 + n)
    BY <1>4, <2>1, SMT
  <2> HIDE DEF k
  <2>3. U[i - 1] = E[k]
    BY <1>5, <1>7, <2>2
  <2> QED
    BY <1>8, <2>2, <2>3
<1>12. Sealed(u)
  BY <1>6, <1>7, <1>11 DEF Sealed, Closed
<1> QED
  BY <1>4, <1>6, <1>9, <1>10, <1>12 DEF u, a, q

-----------------------------------------------------------------------------
(* Resolving the escapes of what stands behind a text.                     *)
AfterEscape(s, i) == IF s[i] # "backslash" \/ i = Len(s) THEN i + 1 ELSE i + 2
UnescapedFrom(s) ==
  Walk(Len(s), [i \in 1..Len(s) |-> Unescaped(s, i)], [i \in 1..Len(s) |-> AfterEscape(s, i)])

LEMMA UnescapeIs ==
  ASSUME NEW s \in Text
  PROVE  /\ Len(s) \in Nat /\ UnescapedFrom(s)[Len(s) + 1] = <<>>
         /\ \A i \in 1..(Len(s) + 1) : UnescapedFrom(s)[i] \in Text
         /\ \A i \in 1..Len(s) :
              /\ AfterEscape(s, i) \in (i + 1)..(Len(s) + 1)
              /\ UnescapedFrom(s)[i] = Unescaped(s, i) \o UnescapedFrom(s)[AfterEscape(s, i)]
         /\ Unescape(s) = UnescapedFrom(s)[1]
<1> DEFINE n == Len(s)
           said == [i \in 1..n |-> Unescaped(s, i)]
           next == [i \in 1..n |-> AfterEscape(s, i)]
<1>1. n \in Nat /\ \A i \in 1..n : s[i] \in Symbol
  BY ElementOfSeq, LenProperties DEF Text
<1>2. ASSUME NEW i \in 1..n PROVE Unescaped(s, i) \in Text
  <2>1. CASE s[i] # "backslash" \/ i = n
    <3>1. Unescaped(s, i) = <<s[i]>>
      BY <2>1 DEF Unescaped
    <3> QED
      BY <1>1, <3>1, OneCharacter
  <2>2. CASE s[i] = "backslash" /\ i # n
    <3>1. i + 1 \in 1..n
      BY <1>1, <2>2, SMT
    <3>2. s[i + 1] \in Symbol /\ "newline" \in Symbol /\ "backslash" \in Symbol
      BY <1>1, <3>1 DEF Symbol, Special
    <3>3. Unescaped(s, i) \in {<<"newline">>, <<s[i + 1]>>, <<"backslash", s[i + 1]>>}
      BY <2>2 DEF Unescaped
    <3>4. /\ <<"newline">> \in Text /\ <<s[i + 1]>> \in Text
          /\ <<"backslash", s[i + 1]>> \in Text
      BY <3>2, OneCharacter, TwoCharacters
    <3> QED
      BY <3>3, <3>4
  <2> QED
    BY <2>1, <2>2
<1>3. ASSUME NEW i \in 1..n PROVE AfterEscape(s, i) \in (i + 1)..(n + 1)
  BY <1>1, SMT DEF AfterEscape
<1>4. GoesForward(Symbol, n, said, next)
  <2>1. said \in [1..n -> Seq(Symbol)]
    BY <1>2 DEF Text
  <2>2. ASSUME NEW i \in 1..n
        PROVE  AfterEscape(s, i) \in Int /\ i < AfterEscape(s, i) /\ AfterEscape(s, i) <= n + 1
    BY <1>1, <1>3, SMT
  <2>3. next \in [1..n -> Int] /\ \A i \in 1..n : i < next[i] /\ next[i] <= n + 1
    BY <2>2
  <2> QED
    BY <1>1, <2>1, <2>3 DEF GoesForward
<1>5. Walked(Symbol, n, said, next, UnescapedFrom(s))
  BY <1>4, WalkIs DEF UnescapedFrom
<1>6. Unescape(s) = UnescapedFrom(s)[1]
  BY DEF Unescape, UnescapedFrom, AfterEscape
<1> QED
  BY <1>1, <1>3, <1>5, <1>6 DEF Walked, Text

LEMMA UnescapeGoesOn ==
  ASSUME NEW a \in Text, NEW t \in Text
  PROVE  UnescapedFrom(a \o t)[Len(a) + 1] = Unescape(t)
<1> DEFINE m == Len(a)
           n == Len(t)
           s == a \o t
           S == UnescapedFrom(s)
           V == UnescapedFrom(t)
           T == {k \in 1..(n + 1) : S[m + k] = V[k]}
<1>1. /\ m \in Nat /\ n \in Nat /\ s \in Text /\ Len(s) = m + n
      /\ \A i \in 1..n : s[m + i] = t[i]
  BY JoinedText
<1> HIDE DEF s
<1>2. /\ S[(m + n) + 1] = <<>>
      /\ \A i \in 1..(m + n) : S[i] = Unescaped(s, i) \o S[AfterEscape(s, i)]
  BY <1>1, UnescapeIs
<1>3. /\ V[n + 1] = <<>> /\ Unescape(t) = V[1]
      /\ \A i \in 1..n : /\ AfterEscape(t, i) \in (i + 1)..(n + 1)
                         /\ V[i] = Unescaped(t, i) \o V[AfterEscape(t, i)]
  BY UnescapeIs
<1> HIDE DEF S, V
<1>4. n + 1 \in T
  <2>1. n + 1 \in 1..(n + 1) /\ m + (n + 1) = (m + n) + 1
    BY <1>1, SMT
  <2> QED
    BY <1>2, <1>3, <2>1
<1>5. ASSUME NEW i \in 1..n, \A j \in (i + 1)..(n + 1) : j \in T PROVE i \in T
  <2> DEFINE p == m + i
  <2>1. /\ i \in 1..(n + 1) /\ p \in 1..(m + n) /\ (p = m + n <=> i = n)
        /\ p + 1 = m + (i + 1) /\ p + 2 = m + (i + 2) /\ (i # n => i + 1 \in 1..n)
    BY <1>1, SMT
  <2>2. s[p] = t[i]
    BY <1>1
  <2>3. i # n => s[p + 1] = t[i + 1]
    BY <1>1, <2>1
  <2> HIDE DEF p
  <2>4. Unescaped(s, p) = Unescaped(t, i)
    BY <1>1, <2>1, <2>2, <2>3 DEF Unescaped
  <2>5. AfterEscape(s, p) = m + AfterEscape(t, i)
    BY <1>1, <2>1, <2>2 DEF AfterEscape
  <2>6. S[m + AfterEscape(t, i)] = V[AfterEscape(t, i)]
    BY <1>3, <1>5
  <2>7. S[p] = V[i]
    BY <1>2, <1>3, <2>1, <2>4, <2>5, <2>6
  <2> QED
    BY <2>1, <2>7 DEF p
<1>6. 1 \in T
  <2> HIDE DEF T
  <2>1. \A i \in 1..(n + 1) : i \in T
    BY <1>1, <1>4, <1>5, FromTheEnd
  <2> QED
    BY <1>1, <2>1, SMT
<1> QED
  BY <1>3, <1>6 DEF S, s

LEMMA UnescapeOne ==
  ASSUME NEW c \in Symbol, NEW t \in Text
  PROVE  Unescape(Escaped(c) \o t) = <<c>> \o Unescape(t)
<1> DEFINE a == Escaped(c)
           s == a \o t
<1>1. a \in Text
  BY EscapedIsWithin DEF Within
<1>2. /\ s \in Text /\ Len(s) = Len(a) + Len(t) /\ Len(a) \in Nat /\ Len(t) \in Nat
      /\ \A i \in 1..Len(a) : s[i] = a[i]
  BY <1>1, JoinedText
<1>3. UnescapedFrom(s)[Len(a) + 1] = Unescape(t)
  BY <1>1, UnescapeGoesOn
<1>4. 1 <= Len(s) => Unescape(s) = Unescaped(s, 1) \o UnescapedFrom(s)[AfterEscape(s, 1)]
  <2>1. 1 <= Len(s) => 1 \in 1..Len(s)
    BY <1>2, SMT
  <2> QED
    BY <1>2, <2>1, UnescapeIs
<1> HIDE DEF s
<1>5. CASE c \in {"backslash", "quote", "newline"}
  <2> DEFINE d == IF c = "newline" THEN "n" ELSE c
  <2>1. a = <<"backslash", d>> /\ Len(a) = 2 /\ a[1] = "backslash" /\ a[2] = d
    BY <1>5 DEF Escaped
  <2> HIDE DEF a
  <2>2. /\ 1 \in 1..2 /\ 2 \in 1..2 /\ 1 <= Len(s) /\ 1 # Len(s) /\ 1 + 1 = 2 /\ 1 + 2 = 2 + 1
    BY <1>2, <2>1, SMT
  <2>3. s[1] = "backslash" /\ s[2] = d
    BY <1>2, <2>1, <2>2
  <2>4. AfterEscape(s, 1) = Len(a) + 1
    BY <2>1, <2>2, <2>3 DEF AfterEscape
  <2>5. Unescaped(s, 1) = <<c>>
    BY <1>5, <2>2, <2>3 DEF Unescaped
  <2> QED
    BY <1>3, <1>4, <2>2, <2>4, <2>5 DEF s, a
<1>6. CASE c \notin {"backslash", "quote", "newline"}
  <2>1. a = <<c>> /\ Len(a) = 1 /\ a[1] = c
    BY <1>6 DEF Escaped
  <2> HIDE DEF a
  <2>2. 1 \in 1..1 /\ 1 <= Len(s)
    BY <1>2, <2>1, SMT
  <2>3. s[1] = c /\ c # "backslash"
    BY <1>2, <1>6, <2>1, <2>2
  <2>4. AfterEscape(s, 1) = Len(a) + 1 /\ Unescaped(s, 1) = <<c>>
    BY <2>1, <2>3 DEF AfterEscape, Unescaped
  <2> QED
    BY <1>3, <1>4, <2>2, <2>4 DEF s, a
<1> QED
  BY <1>5, <1>6

(* What was escaped comes back.                                            *)
LEMMA UnescapeInverts == ASSUME NEW v \in Text PROVE Unescape(Escape(v)) = v
<1> DEFINE n == Len(v)
           W == EscapedFrom(v)
           T == {i \in 1..(n + 1) : Unescape(W[i]) = SubSeq(v, i, n)}
<1>1. /\ n \in Nat /\ W[n + 1] = <<>> /\ Escape(v) = W[1]
      /\ \A i \in 1..(n + 1) : W[i] \in Text
      /\ \A i \in 1..n : v[i] \in Symbol /\ W[i] = Escaped(v[i]) \o W[i + 1]
  BY EscapeIs
<1> HIDE DEF W
<1>2. n + 1 \in T
  <2>1. n + 1 \in 1..(n + 1) /\ n + 1 \in Int /\ n \in Int /\ n < n + 1 /\ 0 + 1 = 1
    BY <1>1, SMT
  <2>2. SubSeq(v, n + 1, n) = <<>>
    BY <2>1, SubSeqEmpty
  <2>3. Unescape(W[n + 1]) = <<>>
    <3> DEFINE t == W[n + 1]
    <3>1. t \in Text /\ Len(t) = 0
      BY <1>1, <2>1
    <3> HIDE DEF t
    <3>2. Unescape(t) = <<>>
      BY <2>1, <3>1, UnescapeIs
    <3> QED
      BY <3>2 DEF t
  <2> QED
    BY <2>1, <2>2, <2>3
<1>3. ASSUME NEW i \in 1..n, \A j \in (i + 1)..(n + 1) : j \in T PROVE i \in T
  <2>1. /\ i + 1 \in (i + 1)..(n + 1) /\ i \in 1..(n + 1) /\ i + 1 \in 1..(n + 1)
        /\ i \in 1..n /\ n \in i..n
    BY <1>1, SMT
  <2>2. Unescape(W[i + 1]) = SubSeq(v, i + 1, n)
    BY <1>3, <2>1
  <2>3. Unescape(W[i]) = <<v[i]>> \o SubSeq(v, i + 1, n)
    BY <1>1, <2>1, <2>2, UnescapeOne
  <2>4. SubSeq(v, i, n) = <<v[i]>> \o SubSeq(v, i + 1, n)
    BY <2>1, SubSeqRecursiveFirst DEF Text
  <2> QED
    BY <2>1, <2>3, <2>4
<1>4. 1 \in T
  <2> HIDE DEF T
  <2>1. \A i \in 1..(n + 1) : i \in T
    BY <1>1, <1>2, <1>3, FromTheEnd
  <2> QED
    BY <1>1, <2>1, SMT
<1>5. SubSeq(v, 1, n) = v
  BY SubSeqFull DEF Text
<1> QED
  BY <1>1, <1>4, <1>5

-----------------------------------------------------------------------------
(* Cutting a text out of another, and trimming it.                         *)
LEMMA CutOut ==
  ASSUME NEW s, NEW t \in Text, NEW i \in Nat, \A k \in 1..Len(t) : s[i + k] = t[k]
  PROVE  SubSeq(s, i + 1, i + Len(t)) = t
<1> DEFINE n == Len(t)
           u == SubSeq(s, i + 1, i + n)
<1>1. n \in Nat /\ \A k \in 1..n : t[k] \in Symbol
  BY ElementOfSeq, LenProperties DEF Text
<1>2. /\ i + 1 \in Int /\ i + n \in Int /\ (i + n) - (i + 1) + 1 = n
      /\ (IF i + 1 <= i + n THEN (i + n) - (i + 1) + 1 ELSE 0) = n
      /\ \A k \in 1..n : (i + 1) + k - 1 = i + k
  BY <1>1, SMT
<1>3. \A j \in (i + 1)..(i + n) : s[j] \in Symbol
  <2> SUFFICES ASSUME NEW j \in (i + 1)..(i + n) PROVE s[j] \in Symbol
    OBVIOUS
  <2> DEFINE k == j - i
  <2>1. k \in 1..n /\ j = i + k
    BY <1>1, SMT
  <2> HIDE DEF k
  <2> QED
    BY <1>1, <2>1
<1>4. /\ u \in Seq(Symbol)
      /\ Len(u) = IF i + 1 <= i + n THEN (i + n) - (i + 1) + 1 ELSE 0
      /\ \A k \in 1..((i + n) - (i + 1) + 1) : u[k] = s[(i + 1) + k - 1]
  BY <1>2, <1>3, SubSeqProperties
<1> HIDE DEF u
<1>5. Len(u) = n /\ \A k \in 1..n : u[k] = t[k]
  BY <1>2, <1>4
<1>6. u = t
  BY <1>4, <1>5, SeqEqual DEF Text
<1> QED
  BY <1>6 DEF u

LEMMA LeastIs ==
  ASSUME NEW T \in SUBSET Int, NEW x \in T, \A y \in T : x <= y
  PROVE  Min(T) = x
<1>1. \A z \in T : (\A y \in T : z <= y) => z = x
  BY SMT
<1> QED
  BY <1>1 DEF Min

LEMMA GreatestIs ==
  ASSUME NEW T \in SUBSET Int, NEW x \in T, \A y \in T : x >= y
  PROVE  Max(T) = x
<1>1. \A z \in T : (\A y \in T : z >= y) => z = x
  BY SMT
<1> QED
  BY <1>1 DEF Max

Trimmed(t) == t \in Text /\ (t # <<>> => t[1] # "space" /\ t[Len(t)] # "space")

LEMMA TrimIs ==
  ASSUME NEW s \in Text, NEW t, Trimmed(t), NEW i \in Nat,
         Len(s) = i + Len(t),
         \A k \in 1..i : s[k] = "space",
         \A k \in 1..Len(t) : s[i + k] = t[k]
  PROVE  Trim(s) = t
<1> DEFINE n == Len(t)
           kept == {k \in DOMAIN s : s[k] # "space"}
<1>1. t \in Text /\ n \in Nat /\ DOMAIN s = 1..(i + n) /\ Len(s) \in Nat
  BY JoinedText DEF Trimmed
<1>2. CASE t = <<>>
  <2>1. n = 0 /\ i + 0 = i
    BY <1>1, <1>2, SMT
  <2>2. kept = {}
    BY <1>1, <2>1
  <2> QED
    BY <1>2, <2>2 DEF Trim
<1>3. CASE t # <<>>
  <2>1. n # 0 /\ t[1] # "space" /\ t[n] # "space"
    <3>1. n = 0 => t = <<>>
      BY <1>1, EmptySeq DEF Text
    <3> QED
      BY <1>3, <3>1 DEF Trimmed
  <2>2. /\ 1 \in 1..n /\ n \in 1..n /\ i + 1 \in 1..(i + n) /\ i + n \in 1..(i + n)
        /\ \A k \in 1..(i + n) : k \notin 1..i => k >= i + 1
        /\ \A k \in 1..(i + n) : i + n >= k
    BY <1>1, <2>1, SMT
  <2>3. s[i + 1] = t[1] /\ s[i + n] = t[n]
    BY <2>2
  <2>4. i + 1 \in kept /\ i + n \in kept /\ kept \in SUBSET Int
    <3>1. 1..(i + n) \subseteq Int
      BY SMT
    <3> QED
      BY <1>1, <2>1, <2>2, <2>3, <3>1
  <2>5. \A k \in kept : i + 1 <= k /\ i + n >= k
    <3> SUFFICES ASSUME NEW k \in kept PROVE i + 1 <= k /\ i + n >= k
      OBVIOUS
    <3>1. k \in 1..(i + n) /\ k \notin 1..i
      BY <1>1
    <3> QED
      BY <1>1, <3>1, SMT
  <2> HIDE DEF kept
  <2>6. Min(kept) = i + 1 /\ Max(kept) = i + n
    BY <2>4, <2>5, LeastIs, GreatestIs
  <2>7. Trim(s) = SubSeq(s, i + 1, i + n)
    <3>1. Trim(s) = IF kept = {} THEN <<>> ELSE SubSeq(s, Min(kept), Max(kept))
      BY DEF Trim, kept
    <3> QED
      BY <2>4, <2>6, <3>1
  <2> QED
    BY <1>1, <2>7, CutOut
<1> QED
  BY <1>2, <1>3

LEMMA TrimAlone == ASSUME NEW t, Trimmed(t) PROVE Trim(t) = t
<1>1. t \in Text /\ Len(t) \in Nat
  BY JoinedText DEF Trimmed
<1>2. /\ 0 \in Nat /\ Len(t) = 0 + Len(t) /\ \A k \in 1..0 : FALSE
      /\ \A k \in 1..Len(t) : 0 + k = k
  BY <1>1, SMT
<1> QED
  BY <1>1, <1>2, TrimIs

LEMMA TrimBehindSpace ==
  ASSUME NEW t, Trimmed(t)
  PROVE  <<"space">> \o t \in Text /\ Trim(<<"space">> \o t) = t
<1> DEFINE b == <<"space">>
           s == b \o t
<1>1. b \in Text /\ Len(b) = 1 /\ b[1] = "space"
  <2>1. "space" \in Symbol
    BY DEF Symbol, Special
  <2> QED
    BY <2>1, OneCharacter
<1> HIDE DEF b
<1>2. t \in Text /\ s \in Text /\ Len(s) = 1 + Len(t)
      /\ \A k \in 1..1 : s[k] = b[k]
  <2>1. t \in Text
    BY DEF Trimmed
  <2>2. s \in Text /\ Len(s) = Len(b) + Len(t) /\ \A k \in 1..Len(b) : s[k] = b[k]
    BY <1>1, <2>1, JoinedText
  <2> HIDE DEF s
  <2> QED
    BY <1>1, <2>1, <2>2
<1>3. \A k \in 1..Len(t) : s[1 + k] = t[k]
  <2>1. \A k \in 1..Len(t) : s[Len(b) + k] = t[k]
    BY <1>1, <1>2, JoinedText
  <2> HIDE DEF s
  <2> QED
    BY <1>1, <2>1
<1>4. 1 \in Nat /\ \A k \in 1..1 : k = 1
  BY SMT
<1> HIDE DEF s
<1>5. Trim(s) = t
  BY <1>1, <1>2, <1>3, <1>4, TrimIs
<1> QED
  BY <1>2, <1>5 DEF s, b

-----------------------------------------------------------------------------
(* A label, as it is written, is read back.                                *)
LEMMA LabelIs ==
  ASSUME NEW key \in Seq(Letter), NEW v \in Text
  PROVE  LET t == Label(<<key, v>>)
         IN /\ t \in Text /\ Sealed(t) /\ Trimmed(t) /\ Equals(t) # {}
            /\ Pair(t) = <<key, v>>
<1> DEFINE q == <<"quote">>
           e == Escape(v)
           w == q \o e \o q
           h == key \o <<"=">>
           t == h \o w
           m == Len(key)
           n == Len(e)
<1>1. Label(<<key, v>>) = t
  BY DEF Label
<1>2. /\ w \in Text /\ Len(w) = n + 2 /\ n \in Nat /\ w[1] = "quote" /\ w[n + 2] = "quote"
      /\ \A k \in 1..n : w[k + 1] = e[k]
      /\ Sealed(w) /\ e \in Text
  BY EscapeIsWithin, QuotedIsSealed DEF Within
<1>3. /\ "=" \in Symbol /\ <<"=">> \in Text /\ Len(<<"=">>) = 1 /\ <<"=">>[1] = "="
      /\ Sealed(<<"=">>)
  <2>1. "=" \in Symbol /\ "=" \notin Separators \cup {"quote"}
    BY DEF Symbol, Special, Separators
  <2> QED
    BY <2>1, OneCharacter
<1>4. /\ key \in Text /\ Sealed(key) /\ m \in Nat
      /\ \A i \in 1..m : key[i] # "=" /\ key[i] # "space"
  <2>1. key \in Text /\ Sealed(key)
    BY LettersAreText, LettersAreSealed
  <2>2. m \in Nat
    BY <2>1, JoinedText
  <2> QED
    BY <2>1, <2>2, LettersAreText DEF Special
<1> HIDE DEF w, e
<1>5. /\ h \in Text /\ Len(h) = m + 1 /\ Sealed(h) /\ h[m + 1] = "="
      /\ \A i \in 1..m : h[i] = key[i]
  <2> DEFINE x == <<"=">>
  <2>1. x \in Text /\ Len(x) = 1 /\ x[1] = "=" /\ Sealed(x) /\ 1 \in 1..1
    BY <1>3, SMT
  <2> HIDE DEF x
  <2>2. /\ key \o x \in Text /\ Len(key \o x) = m + Len(x) /\ Sealed(key \o x)
        /\ \A i \in 1..m : (key \o x)[i] = key[i]
        /\ \A i \in 1..Len(x) : (key \o x)[m + i] = x[i]
    BY <1>4, <2>1, JoinedText, JoinedSealed
  <2>3. (key \o x)[m + 1] = x[1]
    BY <2>1, <2>2
  <2> QED
    BY <2>1, <2>2, <2>3 DEF x
<1> HIDE DEF h
<1>6. /\ t \in Text /\ Sealed(t) /\ Len(t) = (m + 1) + (n + 2) /\ DOMAIN t = 1..((m + 1) + (n + 2))
      /\ \A i \in 1..(m + 1) : t[i] = h[i]
      /\ \A i \in 1..(n + 2) : t[(m + 1) + i] = w[i]
  <2>1. /\ t \in Text /\ Len(t) = Len(h) + Len(w) /\ DOMAIN t = 1..(Len(h) + Len(w))
        /\ \A i \in 1..Len(h) : t[i] = h[i]
        /\ \A i \in 1..Len(w) : t[Len(h) + i] = w[i]
    BY <1>2, <1>5, JoinedText
  <2>2. Sealed(t)
    BY <1>2, <1>5, JoinedSealed
  <2> HIDE DEF t
  <2> QED
    BY <1>2, <1>5, <2>1, <2>2
<1> HIDE DEF t
<1>7. /\ m + 1 \in 1..(m + 1) /\ 1 \in 1..(n + 2) /\ n + 2 \in 1..(n + 2) /\ 1 \in 1..(m + 1)
      /\ m + 1 \in 1..((m + 1) + (n + 2)) /\ \A i \in 1..m : i \in 1..(m + 1)
      /\ m = 0 \/ 1 \in 1..m
      /\ m + 0 = m /\ (m + 1) + (n + 2) # 0
  BY <1>2, <1>4, SMT
<1>8. t[m + 1] = "=" /\ \A i \in 1..m : t[i] = key[i]
  BY <1>5, <1>6, <1>7
<1>9. Trimmed(t)
  <2>1. t[1] # "space"
    <3>1. CASE m = 0
      <4>1. m + 1 = 1
        BY <3>1, SMT
      <4> QED
        BY <1>8, <4>1
    <3>2. CASE 1 \in 1..m
      BY <1>4, <1>8, <3>2
    <3> QED
      BY <1>7, <3>1, <3>2
  <2>2. t[Len(t)] # "space"
    BY <1>2, <1>6, <1>7
  <2> QED
    BY <1>6, <2>1, <2>2 DEF Trimmed
<1>10. Equals(t) # {} /\ Min(Equals(t)) = m + 1
  <2>1. m + 1 \in Equals(t)
    BY <1>6, <1>7, <1>8 DEF Equals
  <2>2. \A i \in Equals(t) : i \in Int /\ m + 1 <= i
    <3> SUFFICES ASSUME NEW i \in 1..((m + 1) + (n + 2)), t[i] = "=" PROVE i \in Int /\ m + 1 <= i
      BY <1>6 DEF Equals
    <3>1. i \notin 1..m
      BY <1>4, <1>8
    <3> QED
      BY <1>4, <3>1, SMT
  <2>3. Min(Equals(t)) = m + 1
    <3>1. Equals(t) \in SUBSET Int
      BY <2>2
    <3> QED
      BY <2>1, <2>2, <3>1, LeastIs
  <2> QED
    BY <2>1, <2>3
<1>11. SubSeq(t, 1, (m + 1) - 1) = key
  <2>1. 0 \in Nat /\ 0 + 1 = 1 /\ 0 + m = (m + 1) - 1 /\ \A k \in 1..m : 0 + k = k
    BY <1>4, SMT
  <2>2. SubSeq(t, 0 + 1, 0 + m) = key
    BY <1>4, <1>8, <2>1, CutOut
  <2> QED
    BY <2>1, <2>2
<1>12. SubSeq(t, (m + 1) + 1, Len(t)) = w
  <2> DEFINE i == m + 1
  <2>1. i \in Nat
    BY <1>4, SMT
  <2>2. Len(t) = i + Len(w) /\ \A k \in 1..Len(w) : t[i + k] = w[k]
    BY <1>2, <1>6
  <2> HIDE DEF i
  <2>3. SubSeq(t, i + 1, i + Len(w)) = w
    BY <1>2, <2>1, <2>2, CutOut
  <2> QED
    BY <2>2, <2>3 DEF i
<1>13. Trim(key) = key
  <2>1. Trimmed(key)
    <3>1. key # <<>> => 1 \in 1..m /\ m \in 1..m
      <4>1. m = 0 => key = <<>>
        BY <1>4, EmptySeq DEF Text
      <4> QED
        BY <1>4, <4>1, SMT
    <3> QED
      BY <1>4, <3>1 DEF Trimmed
  <2> QED
    BY <2>1, TrimAlone
<1>14. Unquote(Trim(w)) = v
  <2>1. Trimmed(w)
    BY <1>2 DEF Trimmed
  <2>2. Trim(w) = w
    BY <2>1, TrimAlone
  <2>3. /\ Len(w) >= 2 /\ 1 \in Nat /\ 1 + 1 = 2 /\ 1 + n = Len(w) - 1
        /\ \A k \in 1..n : 1 + k = k + 1
    BY <1>2, SMT
  <2>4. SubSeq(w, 1 + 1, 1 + n) = e
    <3>1. \A k \in 1..n : w[1 + k] = e[k]
      BY <1>2, <2>3
    <3> QED
      BY <1>2, <2>3, <3>1, CutOut
  <2>5. Unquote(w) = Unescape(e)
    BY <1>2, <2>3, <2>4 DEF Unquote
  <2> QED
    BY <2>2, <2>5, UnescapeInverts DEF e
<1>15. Pair(t) = <<key, v>>
  BY <1>10, <1>11, <1>12, <1>13, <1>14 DEF Pair
<1> QED
  BY <1>1, <1>6, <1>9, <1>10, <1>15

-----------------------------------------------------------------------------
(* A text is cut where a comma stands outside quotes.                      *)
LEMMA NextCutIs ==
  ASSUME NEW s, Len(s) \in Nat, NEW cuts \in SUBSET Int, NEW from \in Int,
         NEW x \in cuts \cup {Len(s) + 1}, x > from,
         \A y \in cuts \cup {Len(s) + 1} : y > from => x <= y
  PROVE  NextCut(s, cuts, from) = x
<1> DEFINE U == cuts \cup {Len(s) + 1}
           T == {i \in U : i > from}
<1>0. U \in SUBSET Int
  <2>1. Len(s) + 1 \in Int
    BY SMT
  <2> QED
    BY <2>1
<1>1. T \in SUBSET Int /\ x \in T /\ \A y \in T : x <= y
  BY <1>0
<1>3. NextCut(s, cuts, from) = Min(T)
  BY DEF NextCut
<1> HIDE DEF T
<1>2. Min(T) = x
  BY <1>1, LeastIs
<1> QED
  BY <1>2, <1>3

LEMMA SplitNone == ASSUME NEW a \in Text PROVE SplitAt(a, {}) = {a}
<1>1. Len(a) \in Nat
  BY JoinedText
<1>2. /\ 0 \in Int /\ 0 \in Nat /\ Len(a) + 1 > 0 /\ Len(a) + 1 <= Len(a) + 1
      /\ (Len(a) + 1) - 1 = 0 + Len(a) /\ \A k \in 1..Len(a) : 0 + k = k
  BY <1>1, SMT
<1>3. NextCut(a, {}, 0) = Len(a) + 1
  <2>1. \A cuts : cuts = {} => NextCut(a, cuts, 0) = Len(a) + 1
    <3> SUFFICES ASSUME NEW cuts, cuts = {} PROVE NextCut(a, cuts, 0) = Len(a) + 1
      OBVIOUS
    <3>1. cuts \in SUBSET Int /\ Len(a) + 1 \in cuts \cup {Len(a) + 1}
          /\ \A y \in cuts \cup {Len(a) + 1} : y = Len(a) + 1
      OBVIOUS
    <3>2. \A y \in cuts \cup {Len(a) + 1} : y > 0 => Len(a) + 1 <= y
      BY <1>2, <3>1
    <3> QED
      BY <1>1, <1>2, <3>1, <3>2, NextCutIs
  <2> QED
    BY <2>1
<1>4. SubSeq(a, 0 + 1, 0 + Len(a)) = a
  BY <1>2, CutOut
<1>5. SubSeq(a, 0 + 1, NextCut(a, {}, 0) - 1) = a
  <2> DEFINE x == NextCut(a, {}, 0)
  <2>1. x = Len(a) + 1
    BY <1>3
  <2> HIDE DEF x
  <2>2. x - 1 = 0 + Len(a)
    BY <1>2, <2>1
  <2>3. SubSeq(a, 0 + 1, x - 1) = a
    BY <1>4, <2>2
  <2> QED
    BY <2>3 DEF x
<1> DEFINE f(i) == SubSeq(a, i + 1, NextCut(a, {}, i) - 1)
<1>6. SplitAt(a, {}) = {f(i) : i \in {} \cup {0}}
  BY DEF SplitAt
<1>7. f(0) = a
  BY <1>5
<1> HIDE DEF f
<1>8. {f(i) : i \in {} \cup {0}} = {f(0)}
  OBVIOUS
<1> QED
  BY <1>6, <1>7, <1>8

Comma == ","
Brace == "}"

LEMMA CommaIs ==
  /\ <<Comma>> \in Text /\ Closed(<<Comma>>) /\ Len(<<Comma>>) = 1 /\ <<Comma>>[1] = Comma
  /\ 1 \in Outside(<<Comma>>, Comma) /\ Outside(<<Comma>>, Brace) = {}
<1>0. Comma \in Symbol /\ Comma # "quote" /\ Comma # Brace
  BY DEF Symbol, Special, Comma, Brace
<1>2. /\ <<Comma>> \in Text /\ Closed(<<Comma>>) /\ Len(<<Comma>>) = 1 /\ <<Comma>>[1] = Comma
      /\ FlagsFrom(Unquoted, <<Comma>>)[0] = Unquoted
  BY <1>0, OneCharacter
<1>3. DOMAIN <<Comma>> = 1..1 /\ 1 \in 1..1 /\ 1 - 1 = 0 /\ \A i \in 1..1 : i = 1
  BY SMT
<1> QED
  BY <1>0, <1>2, <1>3 DEF Outside

LEMMA SplitOne ==
  ASSUME NEW a, Sealed(a), NEW r \in Text
  PROVE  LET s == a \o (<<Comma>> \o r)
         IN SplitAt(s, Outside(s, Comma)) = {a} \cup SplitAt(r, Outside(r, Comma))
<1> DEFINE b == <<Comma>>
           u == b \o r
           s == a \o u
           M == Len(a) + 1
           C == Outside(s, Comma)
           R == Outside(r, Comma)
<1>1. /\ a \in Text /\ Closed(a) /\ Outside(a, Comma) = {}
      /\ b \in Text /\ Closed(b) /\ Len(b) = 1 /\ b[1] = Comma /\ 1 \in Outside(b, Comma)
  <2>1. Comma \in Separators
    BY DEF Comma, Separators
  <2> QED
    BY <2>1, CommaIs DEF Sealed, Closed
<1> HIDE DEF b
<1>2. /\ u \in Text /\ Len(u) = 1 + Len(r) /\ Len(r) \in Nat /\ 1 \in 1..1
      /\ \A i \in 1..Len(r) : u[1 + i] = r[i]
      /\ 1 \in Outside(u, Comma)
      /\ \A i \in 1..Len(r) : 1 + i \in Outside(u, Comma) <=> i \in R
      /\ R \subseteq 1..Len(r)
  <2>1. /\ u \in Text /\ Len(u) = Len(b) + Len(r) /\ Len(r) \in Nat
        /\ \A i \in 1..Len(r) : u[Len(b) + i] = r[i]
    BY <1>1, JoinedText
  <2>2. /\ \A i \in 1..Len(b) : i \in Outside(u, Comma) <=> i \in Outside(b, Comma)
        /\ \A i \in 1..Len(r) : Len(b) + i \in Outside(u, Comma) <=> i \in R
        /\ R \subseteq 1..Len(r)
    BY <1>1, JoinedOutside
  <2>3. 1 \in 1..1
    BY SMT
  <2> HIDE DEF u, R
  <2> QED
    BY <1>1, <2>1, <2>2, <2>3
<1> HIDE DEF u
<1>3. /\ s \in Text /\ Len(s) = Len(a) + Len(u) /\ Len(a) \in Nat
      /\ \A i \in 1..Len(a) : s[i] = a[i] /\ i \notin C
      /\ \A i \in 1..Len(u) : s[Len(a) + i] = u[i]
      /\ \A i \in 1..Len(u) : Len(a) + i \in C <=> i \in Outside(u, Comma)
      /\ C \subseteq 1..Len(s)
  <2>2. /\ s \in Text /\ Len(s) = Len(a) + Len(u) /\ Len(a) \in Nat
        /\ \A i \in 1..Len(a) : s[i] = a[i]
        /\ \A i \in 1..Len(u) : s[Len(a) + i] = u[i]
    BY <1>1, <1>2, JoinedText
  <2>3. /\ \A i \in 1..Len(a) : i \in C <=> i \in Outside(a, Comma)
        /\ \A i \in 1..Len(u) : Len(a) + i \in C <=> i \in Outside(u, Comma)
        /\ C \subseteq 1..(Len(a) + Len(u))
    BY <1>1, <1>2, JoinedOutside
  <2> HIDE DEF C, s
  <2> QED
    BY <1>1, <2>2, <2>3
<1>0. SplitAt(s, C) = SplitAt(a \o (<<Comma>> \o r), Outside(a \o (<<Comma>> \o r), Comma))
  BY DEF u, b
<1> HIDE DEF C, R, s
<1>4. /\ M \in Nat /\ Len(s) = M + Len(r) /\ Len(a) = M - 1
      /\ 1 \in 1..Len(u) /\ \A i \in 1..Len(r) : 1 + i \in 1..Len(u) /\ Len(a) + (1 + i) = M + i
  BY <1>2, <1>3, SMT
<1>5. M \in C /\ \A i \in 1..Len(r) : s[M + i] = r[i] /\ (M + i \in C <=> i \in R)
  <2>1. M \in C
    BY <1>2, <1>3, <1>4
  <2>2. ASSUME NEW i \in 1..Len(r) PROVE s[M + i] = r[i] /\ (M + i \in C <=> i \in R)
    <3>1. 1 + i \in 1..Len(u) /\ Len(a) + (1 + i) = M + i
      BY <1>4
    <3>2. s[Len(a) + (1 + i)] = u[1 + i] /\ u[1 + i] = r[i]
      BY <1>2, <1>3, <3>1
    <3>3. Len(a) + (1 + i) \in C <=> i \in R
      BY <1>2, <1>3, <3>1
    <3> HIDE DEF M
    <3> QED
      BY <3>1, <3>2, <3>3
  <2> QED
    BY <2>1, <2>2
<1>6. C \in SUBSET Int /\ R \in SUBSET Int /\ Len(s) \in Nat
  <2>1. Len(s) \in Nat /\ 1..Len(s) \subseteq Int /\ 1..Len(r) \subseteq Int
    BY <1>2, <1>4, SMT
  <2> QED
    BY <1>2, <1>3, <2>1
<1>7. \A c \in C : c = M \/ (c - M \in R /\ c = M + (c - M))
  <2> SUFFICES ASSUME NEW c \in C, c # M PROVE c - M \in R /\ c = M + (c - M)
    OBVIOUS
  <2>1. c \in 1..Len(s) /\ c \notin 1..Len(a)
    BY <1>3
  <2> DEFINE i == c - M
  <2>2. i \in 1..Len(r) /\ c = M + i
    BY <1>2, <1>3, <1>4, <2>1, SMT
  <2> HIDE DEF i
  <2>3. i \in R
    BY <1>5, <2>2
  <2> QED
    BY <2>2, <2>3 DEF i
<1> HIDE DEF M
<1> DEFINE f(i) == SubSeq(s, i + 1, NextCut(s, C, i) - 1)
           g(j) == SubSeq(r, j + 1, NextCut(r, R, j) - 1)
<1>8. f(0) = a
  <2>1. /\ 0 \in Int /\ M > 0 /\ 0 \in Nat /\ M - 1 = 0 + Len(a) /\ \A k \in 1..Len(a) : 0 + k = k
        /\ M <= Len(s) + 1 /\ \A c \in R : M <= M + c
    BY <1>2, <1>3, <1>4, <1>6, SMT
  <2>2. \A y \in C \cup {Len(s) + 1} : M <= y
    BY <1>4, <1>7, <2>1, SMT
  <2>3. NextCut(s, C, 0) = M
    BY <1>5, <1>6, <2>1, <2>2, NextCutIs
  <2>4. SubSeq(s, 0 + 1, 0 + Len(a)) = a
    <3>1. \A k \in 1..Len(a) : s[0 + k] = a[k]
      BY <1>3, <2>1
    <3> QED
      BY <1>1, <2>1, <3>1, CutOut
  <2> QED
    BY <2>1, <2>3, <2>4
<1>9. ASSUME NEW j \in R \cup {0} PROVE f(M + j) = g(j) /\ M + j \in C
  <2>1. j \in 0..Len(r) /\ M + j \in C
    <3>1. j \in 0..Len(r)
      BY <1>2, SMT
    <3>2. CASE j = 0
      BY <1>4, <1>5, <3>2, SMT
    <3>3. CASE j \in R
      BY <1>2, <1>5, <3>3
    <3> QED
      BY <3>1, <3>2, <3>3
  <2> DEFINE T == {i \in R \cup {Len(r) + 1} : i > j}
             c == NextCut(r, R, j)
  <2>2. c \in T /\ \A y \in T : c <= y
    <3>1. Len(r) + 1 \in T /\ T \in SUBSET Nat
      <4>1. Len(r) + 1 \in Nat /\ Len(r) + 1 > j /\ 1..Len(r) \subseteq Nat
        BY <1>2, <2>1, SMT
      <4> QED
        BY <1>2, <4>1
    <3>2. Min(T) \in T /\ \A y \in T : Min(T) <= y
      BY <3>1, LeastNumber
    <3> QED
      BY <3>2 DEF NextCut
  <2> HIDE DEF c
  <2>3. c \in R \cup {Len(r) + 1} /\ c \in Int /\ c > j /\ c <= Len(r) + 1
    BY <1>2, <1>6, <2>1, <2>2, SMT
  <2>4. NextCut(s, C, M + j) = M + c
    <3>1. M + c \in C \cup {Len(s) + 1}
      <4>1. CASE c \in R
        BY <1>2, <1>5, <4>1
      <4>2. CASE c = Len(r) + 1
        BY <1>2, <1>4, <4>2, SMT
      <4> QED
        BY <2>3, <4>1, <4>2
    <3>2. M + j \in Int /\ M + c > M + j
      BY <1>4, <2>1, <2>3, SMT
    <3>3. ASSUME NEW y \in C \cup {Len(s) + 1}, y > M + j PROVE M + c <= y
      <4> DEFINE z == y - M
      <4>1. y = M + z /\ z \in R \cup {Len(r) + 1}
        <5>1. CASE y = Len(s) + 1
          BY <1>2, <1>4, <5>1, SMT
        <5>2. CASE y = M
          BY <1>2, <1>4, <2>1, <3>3, <5>2, SMT
        <5>3. CASE y \in C /\ y # M
          BY <1>7, <5>3
        <5> QED
          BY <5>1, <5>2, <5>3
      <4>2. R \cup {Len(r) + 1} \subseteq Int
        <5>1. Len(r) + 1 \in Int
          BY <1>2, SMT
        <5> QED
          BY <1>6, <5>1
      <4> HIDE DEF z
      <4>5. z \in Int
        BY <4>1, <4>2
      <4>3. z > j
        BY <1>4, <2>1, <3>3, <4>1, <4>5, SMT
      <4>4. c <= z
        BY <2>2, <4>1, <4>3
      <4> QED
        BY <1>4, <2>3, <4>1, <4>5, <4>4, SMT
    <3> QED
      BY <1>6, <3>1, <3>2, <3>3, NextCutIs
  <2> DEFINE t == g(j)
             n == c - (j + 1)
  <2>5. t = SubSeq(r, j + 1, c - 1)
    BY DEF c
  <2>6. /\ j + 1 \in Int /\ c - 1 \in Int /\ (c - 1) - (j + 1) + 1 = n /\ n \in Nat
        /\ (IF j + 1 <= c - 1 THEN (c - 1) - (j + 1) + 1 ELSE 0) = n
        /\ \A i \in (j + 1)..(c - 1) : i \in 1..Len(r)
        /\ \A k \in 1..n : (j + 1) + k - 1 \in 1..Len(r) /\ (M + j) + k = M + ((j + 1) + k - 1)
        /\ M + j \in Nat /\ (M + j) + n = (M + c) - 1
    BY <1>2, <1>4, <2>1, <2>3, SMT
  <2>7. \A i \in (j + 1)..(c - 1) : r[i] \in Symbol
    BY <2>6, ElementOfSeq DEF Text
  <2>8. /\ SubSeq(r, j + 1, c - 1) \in Text
        /\ Len(SubSeq(r, j + 1, c - 1)) = n
        /\ \A k \in 1..n : SubSeq(r, j + 1, c - 1)[k] = r[(j + 1) + k - 1]
    <3> DEFINE lo == j + 1
               hi == c - 1
    <3>1. lo \in Int /\ hi \in Int /\ (\A i \in lo..hi : r[i] \in Symbol)
      BY <2>6, <2>7
    <3>2. hi - lo + 1 = n /\ (IF lo <= hi THEN hi - lo + 1 ELSE 0) = n
      BY <2>6
    <3> HIDE DEF lo, hi, n
    <3>3. /\ SubSeq(r, lo, hi) \in Seq(Symbol)
          /\ Len(SubSeq(r, lo, hi)) = n
          /\ \A k \in 1..n : SubSeq(r, lo, hi)[k] = r[lo + k - 1]
      BY <3>1, <3>2, SubSeqProperties
    <3> USE DEF lo, hi
    <3> QED
      BY <3>3 DEF Text
  <2> HIDE DEF t, n
  <2>9. /\ t \in Text /\ Len(t) = n /\ \A k \in 1..n : t[k] = r[(j + 1) + k - 1]
    BY <2>5, <2>8
  <2>10. \A k \in 1..Len(t) : s[(M + j) + k] = t[k]
    <3> SUFFICES ASSUME NEW k \in 1..n PROVE s[(M + j) + k] = t[k]
      BY <2>9
    <3> DEFINE i == (j + 1) + k - 1
    <3>1. i \in 1..Len(r) /\ (M + j) + k = M + i /\ t[k] = r[i]
      BY <2>6, <2>9
    <3> HIDE DEF i
    <3> QED
      BY <1>5, <3>1
  <2>11. SubSeq(s, (M + j) + 1, (M + j) + n) = t
    <3> DEFINE i == M + j
    <3>1. i \in Nat /\ \A k \in 1..Len(t) : s[i + k] = t[k]
      BY <2>6, <2>10
    <3> HIDE DEF i
    <3>2. SubSeq(s, i + 1, i + Len(t)) = t
      BY <2>9, <3>1, CutOut
    <3> QED
      BY <2>9, <3>2 DEF i
  <2>12. f(M + j) = t
    BY <2>4, <2>6, <2>11
  <2> QED
    BY <2>1, <2>12 DEF t
<1>10. SplitAt(s, C) = {f(i) : i \in C \cup {0}} /\ SplitAt(r, R) = {g(j) : j \in R \cup {0}}
  BY DEF SplitAt
<1>11. \A i \in C : \E j \in R \cup {0} : i = M + j
  <2> SUFFICES ASSUME NEW i \in C PROVE \E j \in R \cup {0} : i = M + j
    OBVIOUS
  <2>1. CASE i = M
    <3>1. M = M + 0
      BY <1>4, SMT
    <3> QED
      BY <2>1, <3>1
  <2>2. CASE i # M
    BY <1>7, <2>2
  <2> QED
    BY <2>1, <2>2
<1> HIDE DEF f, g
<1>12. \A x \in SplitAt(s, C) : x = a \/ x \in SplitAt(r, R)
  <2> SUFFICES ASSUME NEW i \in C \cup {0} PROVE f(i) = a \/ f(i) \in SplitAt(r, R)
    BY <1>10
  <2>1. CASE i = 0
    BY <1>8, <2>1
  <2>2. CASE i \in C
    <3>1. PICK j \in R \cup {0} : i = M + j
      BY <1>11, <2>2
    <3>2. f(i) = g(j)
      BY <1>9, <3>1
    <3> QED
      BY <1>10, <3>2
  <2> QED
    BY <2>1, <2>2
<1>13. a \in SplitAt(s, C)
  BY <1>8, <1>10
<1>14. \A x \in SplitAt(r, R) : x \in SplitAt(s, C)
  <2> SUFFICES ASSUME NEW j \in R \cup {0} PROVE g(j) \in SplitAt(s, C)
    BY <1>10
  <2>1. f(M + j) = g(j) /\ M + j \in C
    BY <1>9
  <2> QED
    BY <1>10, <2>1
<1>15. SplitAt(s, C) = {a} \cup SplitAt(r, R)
  BY <1>12, <1>13, <1>14
<1> QED
  BY <1>0, <1>15 DEF R

-----------------------------------------------------------------------------
(* The labels of a sample, one behind the other.                           *)
LabelPair == Seq(Letter) \X Text
Spaced(l) == <<"space">> \o Label(l)

LEMMA SpacedIs ==
  ASSUME NEW l \in LabelPair
  PROVE  /\ Sealed(Label(l)) /\ Sealed(Spaced(l))
         /\ Trim(Label(l)) = Label(l) /\ Trim(Spaced(l)) = Label(l)
         /\ Equals(Label(l)) # {} /\ Equals(Spaced(l)) # {}
         /\ Pair(Label(l)) = l
<1>1. l = <<l[1], l[2]>> /\ l[1] \in Seq(Letter) /\ l[2] \in Text
  BY DEF LabelPair
<1> DEFINE t == Label(l)
           b == <<"space">>
           u == b \o t
<1>2. t \in Text /\ Sealed(t) /\ Trimmed(t) /\ Equals(t) # {} /\ Pair(t) = l
  <2> DEFINE k == l[1]
             v == l[2]
  <2>1. k \in Seq(Letter) /\ v \in Text /\ l = <<k, v>>
    BY <1>1
  <2> HIDE DEF k, v
  <2> QED
    BY <2>1, LabelIs
<1> HIDE DEF t
<1>3. Trim(t) = t /\ u \in Text /\ Trim(u) = t
  BY <1>2, TrimAlone, TrimBehindSpace
<1>4. b \in Text /\ Sealed(b)
  <2>1. "space" \in Symbol /\ "space" \notin Separators \cup {"quote"}
    BY DEF Symbol, Special, Separators
  <2> QED
    BY <2>1, OneCharacter
<1> HIDE DEF b
<1>5. Sealed(u)
  BY <1>2, <1>4, JoinedSealed
<1>6. Equals(u) # {}
  <2>1. PICK i \in DOMAIN t : t[i] = "="
    BY <1>2 DEF Equals
  <2>2. /\ DOMAIN t = 1..Len(t) /\ Len(b) \in Nat /\ Len(t) \in Nat
        /\ DOMAIN u = 1..(Len(b) + Len(t))
        /\ \A k \in 1..Len(t) : u[Len(b) + k] = t[k]
    BY <1>2, <1>4, JoinedText
  <2>3. Len(b) + i \in 1..(Len(b) + Len(t))
    BY <2>1, <2>2, SMT
  <2>4. u[Len(b) + i] = "="
    BY <2>1, <2>2
  <2>5. Len(b) + i \in Equals(u)
    BY <2>2, <2>3, <2>4 DEF Equals
  <2> QED
    BY <2>5
<1> QED
  BY <1>2, <1>3, <1>5, <1>6 DEF t, u, b, Spaced

Listed(labels, k) ==
  IF k = 1 THEN Label(labels[k]) ELSE <<Comma>> \o Spaced(labels[k])
ListedFrom(labels) ==
  LET n == Len(labels)
  IN Walk(n, [k \in 1..n |-> Listed(labels, k)], [k \in 1..n |-> k + 1])

LEMMA ListedIs ==
  ASSUME NEW labels \in Seq(LabelPair), NEW k \in 1..Len(labels)
  PROVE  Closed(Listed(labels, k)) /\ Outside(Listed(labels, k), Brace) = {}
<1>1. labels[k] \in LabelPair
  BY ElementOfSeq
<1>0. Brace \in Separators
  BY DEF Brace, Separators
<1>2. CASE k = 1
  <2>1. Listed(labels, k) = Label(labels[k])
    BY <1>2 DEF Listed
  <2> QED
    BY <1>0, <1>1, <2>1, SpacedIs DEF Sealed
<1>3. CASE k # 1
  <2> DEFINE t == Spaced(labels[k])
             b == <<Comma>>
  <2>1. Listed(labels, k) = b \o t
    BY <1>3 DEF Listed
  <2>2. Closed(b) /\ Outside(b, Brace) = {}
    BY CommaIs
  <2>3. Closed(t) /\ Outside(t, Brace) = {}
    BY <1>0, <1>1, SpacedIs DEF Sealed
  <2> HIDE DEF t, b
  <2>4. t \in Text
    BY <2>3 DEF Closed
  <2> QED
    BY <2>1, <2>2, <2>3, <2>4, JoinedWithout
<1> QED
  BY <1>2, <1>3

LEMMA ListedFromIs ==
  ASSUME NEW labels \in Seq(LabelPair)
  PROVE  /\ Len(labels) \in Nat /\ ListedFrom(labels)[Len(labels) + 1] = <<>>
         /\ \A k \in 1..(Len(labels) + 1) :
              /\ Closed(ListedFrom(labels)[k])
              /\ Outside(ListedFrom(labels)[k], Brace) = {}
         /\ \A k \in 1..Len(labels) :
              ListedFrom(labels)[k] = Listed(labels, k) \o ListedFrom(labels)[k + 1]
<1> DEFINE n == Len(labels)
           W == ListedFrom(labels)
           said == [k \in 1..n |-> Listed(labels, k)]
           next == [k \in 1..n |-> k + 1]
           T == {k \in 1..(n + 1) : Closed(W[k]) /\ Outside(W[k], Brace) = {}}
<1>1. n \in Nat
  BY LenProperties
<1>2. GoesForward(Symbol, n, said, next)
  <2>1. \A k \in 1..n : Listed(labels, k) \in Seq(Symbol)
    BY ListedIs DEF Closed, Text
  <2>2. said \in [1..n -> Seq(Symbol)]
    BY <2>1
  <2>3. next \in [1..n -> Int] /\ \A i \in 1..n : i < next[i] /\ next[i] <= n + 1
    BY <1>1, SMT
  <2> QED
    BY <1>1, <2>2, <2>3 DEF GoesForward
<1>3. Walked(Symbol, n, said, next, W)
  BY <1>2, WalkIs DEF ListedFrom
<1>4. /\ W[n + 1] = <<>>
      /\ \A k \in 1..(n + 1) : W[k] \in Text
      /\ \A k \in 1..n : W[k] = Listed(labels, k) \o W[k + 1]
  BY <1>3 DEF Walked, Text
<1> HIDE DEF W
<1>5. n + 1 \in T
  <2>1. n + 1 \in 1..(n + 1) /\ 0 \in Nat /\ 0 \in 0..0 /\ \A i \in 1..0 : FALSE
    BY <1>1, SMT
  <2> DEFINE e == W[n + 1]
  <2>2. e \in Text /\ Len(e) = 0 /\ DOMAIN e = 1..0
    <3>1. e = <<>> /\ e \in Text
      BY <1>4, <2>1
    <3>2. Len(e) = 0
      BY <3>1
    <3> HIDE DEF e
    <3> QED
      BY <3>1, <3>2, JoinedText
  <2> HIDE DEF e
  <2>3. FlagsFrom(Unquoted, e)[0] = Unquoted
    BY <2>1, <2>2, FlagsAre
  <2>4. Closed(e)
    BY <2>2, <2>3 DEF Closed, End
  <2>5. Outside(e, Brace) = {}
    BY <2>1, <2>2 DEF Outside
  <2> QED
    BY <2>1, <2>4, <2>5 DEF e
<1>6. ASSUME NEW i \in 1..n, \A j \in (i + 1)..(n + 1) : j \in T PROVE i \in T
  <2>1. i + 1 \in (i + 1)..(n + 1) /\ i \in 1..(n + 1)
    BY <1>1, SMT
  <2>2. Closed(W[i + 1]) /\ Outside(W[i + 1], Brace) = {} /\ W[i + 1] \in Text
    BY <1>6, <2>1 DEF Closed
  <2>3. W[i] = Listed(labels, i) \o W[i + 1]
    BY <1>4
  <2>4. Closed(Listed(labels, i)) /\ Outside(Listed(labels, i), Brace) = {}
    BY ListedIs
  <2> DEFINE p == Listed(labels, i)
             r == W[i + 1]
  <2> HIDE DEF p, r
  <2>5. Closed(p \o r) /\ Outside(p \o r, Brace) = {}
    BY <2>2, <2>4, JoinedWithout DEF p, r
  <2> QED
    BY <2>1, <2>3, <2>5 DEF p, r
<1>7. \A k \in 1..(n + 1) : k \in T
  <2> HIDE DEF T
  <2> QED
    BY <1>1, <1>5, <1>6, FromTheEnd
<1> QED
  BY <1>1, <1>4, <1>7 DEF W

(* Behind a text that is no list, the labels from the k-th on are cut at   *)
(* the commas between them.                                                *)
SpacedFrom(labels, k) == {Spaced(labels[j]) : j \in k..Len(labels)}

LEMMA SplitFrom ==
  ASSUME NEW labels \in Seq(LabelPair)
  PROVE  \A k \in 1..(Len(labels) + 1) : k # 1 =>
           \A a : Sealed(a) =>
             LET s == a \o ListedFrom(labels)[k]
             IN SplitAt(s, Outside(s, Comma)) = {a} \cup SpacedFrom(labels, k)
<1> DEFINE n == Len(labels)
           W == ListedFrom(labels)
           Split(s) == SplitAt(s, Outside(s, Comma))
           Good(k) == \A a : Sealed(a) => Split(a \o W[k]) = {a} \cup SpacedFrom(labels, k)
           T == {k \in 1..(n + 1) : k # 1 => Good(k)}
<1>1. /\ n \in Nat /\ W[n + 1] = <<>>
      /\ \A k \in 1..(n + 1) : W[k] \in Text
      /\ \A k \in 1..n : W[k] = Listed(labels, k) \o W[k + 1]
  BY ListedFromIs DEF Closed
<1> HIDE DEF W
<1>0. \A a : Sealed(a) => a \in Text /\ Outside(a, Comma) = {}
  <2>1. Comma \in Separators
    BY DEF Comma, Separators
  <2> QED
    BY <2>1 DEF Sealed, Closed
<1>2. n + 1 \in T
  <2>1. n + 1 \in 1..(n + 1) /\ \A j \in (n + 1)..n : FALSE
    BY <1>1, SMT
  <2>2. SpacedFrom(labels, n + 1) = {}
    BY <2>1 DEF SpacedFrom
  <2>3. ASSUME NEW a, Sealed(a) PROVE Split(a \o W[n + 1]) = {a}
    <3>1. a \in Text /\ Outside(a, Comma) = {}
      BY <1>0, <2>3
    <3>2. a \o W[n + 1] = a
      BY <1>1, <3>1, ConcatEmptySeq DEF Text
    <3>3. SplitAt(a, Outside(a, Comma)) = {a}
      BY <3>1, SplitNone
    <3> QED
      BY <3>2, <3>3
  <2> HIDE DEF Split
  <2>4. Good(n + 1)
    BY <2>2, <2>3
  <2> QED
    BY <2>1, <2>4
<1>3. ASSUME NEW k \in 1..n, \A j \in (k + 1)..(n + 1) : j \in T PROVE k \in T
  <2> SUFFICES ASSUME k # 1, NEW a, Sealed(a)
               PROVE  Split(a \o W[k]) = {a} \cup SpacedFrom(labels, k)
    <3>1. k \in 1..(n + 1)
      BY <1>1, SMT
    <3> QED
      BY <3>1
  <2>1. /\ k + 1 \in (k + 1)..(n + 1) /\ k + 1 # 1 /\ k + 1 \in 1..(n + 1)
        /\ \A j : j \in k..n <=> (j = k \/ j \in (k + 1)..n)
    BY <1>1, SMT
  <2> DEFINE b == <<Comma>>
             t == Spaced(labels[k])
             r == W[k + 1]
  <2>2. Good(k + 1) /\ r \in Text
    BY <1>1, <1>3, <2>1
  <2>3. Sealed(t) /\ t \in Text
    <3>1. labels[k] \in LabelPair
      BY ElementOfSeq
    <3>2. Sealed(t)
      BY <3>1, SpacedIs
    <3> QED
      BY <3>2 DEF Sealed, Closed
  <2>4. W[k] = (b \o t) \o r
    BY <1>1 DEF Listed
  <2>5. b \in Text
    BY CommaIs
  <2>6. SpacedFrom(labels, k) = {t} \cup SpacedFrom(labels, k + 1)
    <3> DEFINE F(j) == Spaced(labels[j])
    <3>1. SpacedFrom(labels, k) = {F(j) : j \in k..n}
      BY DEF SpacedFrom
    <3>2. SpacedFrom(labels, k + 1) = {F(j) : j \in (k + 1)..n}
      BY DEF SpacedFrom
    <3>3. t = F(k)
      OBVIOUS
    <3> HIDE DEF F, t
    <3> QED
      BY <2>1, <3>1, <3>2, <3>3
  <2>7. Split(t \o r) = {t} \cup SpacedFrom(labels, k + 1)
    BY <2>2, <2>3
  <2> HIDE DEF b, t, r
  <2>8. W[k] = b \o (t \o r)
    BY <2>2, <2>3, <2>4, <2>5, ConcatAssociative DEF Text
  <2> DEFINE u == t \o r
  <2>9. u \in Text
    BY <2>2, <2>3, JoinedText
  <2>10. Split(a \o (b \o u)) = {a} \cup Split(u)
    <3> HIDE DEF u
    <3> QED
      BY <2>9, SplitOne DEF b
  <2> HIDE DEF Split
  <2> QED
    BY <2>6, <2>7, <2>8, <2>10
<1>4. \A k \in 1..(n + 1) : k \in T
  <2> HIDE DEF T
  <2> QED
    BY <1>1, <1>2, <1>3, FromTheEnd
<1> QED
  BY <1>4 DEF W

(* The labels come back as a set, in whatever order.                       *)
LEMMA LabelsComeBack ==
  ASSUME NEW labels \in Seq(LabelPair)
  PROVE  ParseLabels(ListedFrom(labels)[1]) = {labels[j] : j \in 1..Len(labels)}
<1> DEFINE n == Len(labels)
           W == ListedFrom(labels)
           s == W[1]
           cut == SplitAt(s, Outside(s, Comma))
           Says(p) == Pair(Trim(p))
<1>1. /\ n \in Nat /\ W[n + 1] = <<>>
      /\ \A k \in 1..n : W[k] = Listed(labels, k) \o W[k + 1]
  BY ListedFromIs
<1>2. ParseLabels(s) = {Says(p) : p \in {q \in cut : Equals(q) # {}}}
  BY DEF ParseLabels, Comma
<1>3. \A j \in 1..n :
        LET l == labels[j]
        IN /\ l \in LabelPair /\ Sealed(Label(l)) /\ Trim(Label(l)) = Label(l) /\ Trim(Spaced(l)) = Label(l)
           /\ Equals(Label(l)) # {} /\ Equals(Spaced(l)) # {}
           /\ Pair(Label(l)) = l
  <2> SUFFICES ASSUME NEW j \in 1..n
               PROVE  LET l == labels[j]
                      IN /\ l \in LabelPair /\ Sealed(Label(l)) /\ Trim(Label(l)) = Label(l) /\ Trim(Spaced(l)) = Label(l)
                         /\ Equals(Label(l)) # {} /\ Equals(Spaced(l)) # {}
                         /\ Pair(Label(l)) = l
    OBVIOUS
  <2> DEFINE l == labels[j]
  <2>1. l \in LabelPair
    BY ElementOfSeq
  <2> HIDE DEF l
  <2>2. /\ l \in LabelPair /\ Sealed(Label(l)) /\ Trim(Label(l)) = Label(l) /\ Trim(Spaced(l)) = Label(l)
        /\ Equals(Label(l)) # {} /\ Equals(Spaced(l)) # {}
        /\ Pair(Label(l)) = l
    BY <2>1, SpacedIs
  <2> QED
    BY <2>2 DEF l
<1> HIDE DEF W
<1>4. CASE n = 0
  <2>1. s = <<>> /\ \A j \in 1..n : FALSE
    <3>1. n + 1 = 1 /\ \A j \in 1..n : FALSE
      BY <1>4, SMT
    <3> QED
      BY <1>1, <3>1
  <2> DEFINE e == <<>>
  <2>2. e \in Text /\ DOMAIN e = {}
    <3>1. e \in Text /\ Len(e) = 0
      BY NoneWithin DEF Within
    <3>2. DOMAIN e = 1..Len(e)
      BY <3>1, JoinedText
    <3>3. 1..0 = {}
      BY SMT
    <3> HIDE DEF e
    <3> QED
      BY <3>1, <3>2, <3>3
  <2> HIDE DEF e
  <2>3. Outside(e, Comma) = {} /\ Equals(e) = {}
    BY <2>2 DEF Outside, Equals
  <2>4. SplitAt(e, {}) = {e}
    BY <2>2, SplitNone
  <2>5. s = e
    BY <2>1 DEF e
  <2>6. cut = {e}
    BY <2>3, <2>4, <2>5
  <2>7. {q \in cut : Equals(q) # {}} = {}
    BY <2>3, <2>6
  <2> HIDE DEF cut
  <2> QED
    BY <1>2, <2>1, <2>7 DEF W
<1>5. CASE n # 0
  <2>1. /\ 1 \in 1..n /\ 2 \in 1..(n + 1) /\ 2 # 1 /\ 1 + 1 = 2
        /\ \A j : j \in 1..n <=> (j = 1 \/ j \in 2..n)
    BY <1>1, <1>5, SMT
  <2> DEFINE a == Label(labels[1])
             F(j) == Spaced(labels[j])
  <2>2. s = a \o W[2]
    <3>1. W[1] = Listed(labels, 1) \o W[2]
      BY <1>1, <2>1
    <3> QED
      BY <3>1 DEF Listed
  <2>3. cut = {a} \cup {F(j) : j \in 2..n}
    <3>1. Sealed(a)
      BY <1>3, <2>1
    <3>2. SpacedFrom(labels, 2) = {F(j) : j \in 2..n}
      BY DEF SpacedFrom
    <3> HIDE DEF a, F
    <3>3. SplitAt(a \o W[2], Outside(a \o W[2], Comma)) = {a} \cup SpacedFrom(labels, 2)
      BY <2>1, <3>1, SplitFrom DEF W
    <3> QED
      BY <2>2, <3>2, <3>3
  <2>4. Equals(a) # {} /\ Says(a) = labels[1]
    BY <1>3, <2>1
  <2>5. \A j \in 2..n : Equals(F(j)) # {} /\ Says(F(j)) = labels[j]
    <3>1. \A j \in 2..n : j \in 1..n
      BY <2>1
    <3> QED
      BY <1>3, <3>1
  <2> HIDE DEF a, F, Says, cut
  <2>6. {q \in cut : Equals(q) # {}} = cut
    BY <2>3, <2>4, <2>5
  <2>7. {Says(p) : p \in cut} = {labels[j] : j \in 1..n}
    <3>1. \A p \in cut : \E j \in 1..n : Says(p) = labels[j]
      BY <2>1, <2>3, <2>4, <2>5
    <3>2. \A j \in 1..n : \E p \in cut : labels[j] = Says(p)
      <4> SUFFICES ASSUME NEW j \in 1..n PROVE \E p \in cut : labels[j] = Says(p)
        OBVIOUS
      <4>1. CASE j = 1
        BY <2>3, <2>4, <4>1
      <4>2. CASE j \in 2..n
        <5>1. F(j) \in cut
          BY <2>3, <4>2
        <5> QED
          BY <2>5, <4>2, <5>1
      <4> QED
        BY <2>1, <4>1, <4>2
    <3> QED
      BY <3>1, <3>2
  <2> QED
    BY <1>2, <2>6, <2>7 DEF W
<1> QED
  BY <1>4, <1>5

-----------------------------------------------------------------------------
(* A line of the page, from its first character on.                        *)
Bracket == "{"
Hash    == "#"

LEMMA MarksAre ==
  /\ {Bracket, Brace, Hash} \subseteq Special
  /\ <<Bracket>> \in Text /\ Sealed(<<Bracket>>) /\ Len(<<Bracket>>) = 1 /\ <<Bracket>>[1] = Bracket
  /\ <<Brace>> \in Text /\ Len(<<Brace>>) = 1 /\ <<Brace>>[1] = Brace
  /\ Outside(<<Brace>>, Brace) = {1}
<1>1. /\ Bracket \in Symbol /\ Brace \in Symbol /\ {Bracket, Brace, Hash} \subseteq Special
      /\ Bracket \notin Separators \cup {"quote"}
  BY DEF Symbol, Special, Bracket, Brace, Hash, Separators
<1>2. /\ <<Bracket>> \in Text /\ Sealed(<<Bracket>>) /\ Len(<<Bracket>>) = 1 /\ <<Bracket>>[1] = Bracket
      /\ <<Brace>> \in Text /\ Len(<<Brace>>) = 1 /\ <<Brace>>[1] = Brace
      /\ FlagsFrom(Unquoted, <<Brace>>)[0] = Unquoted
  BY <1>1, OneCharacter
<1>3. DOMAIN <<Brace>> = 1..1 /\ 1 \in 1..1 /\ 1 - 1 = 0 /\ \A i \in 1..1 : i = 1
  BY SMT
<1>4. Outside(<<Brace>>, Brace) = {1}
  BY <1>2, <1>3 DEF Outside
<1> QED
  BY <1>1, <1>2, <1>4

LEMMA ExposedIs ==
  ASSUME NEW name \in Text, NEW labels \in Seq(LabelPair)
  PROVE  /\ ListedFrom(labels)[1] \in Text
         /\ Exposed(name, labels) = name \o ((<<Bracket>> \o ListedFrom(labels)[1]) \o <<Brace>>)
<1> DEFINE w == ListedFrom(labels)[1]
           o == <<Bracket>>
           c == <<Brace>>
<1>1. Exposed(name, labels) = ((name \o o) \o w) \o c
  BY DEF Exposed, ListedFrom, Listed, Spaced, Comma, Bracket, Brace
<1>2. w \in Text
  <2>1. Len(labels) \in Nat
    BY LenProperties
  <2>2. 1 \in 1..(Len(labels) + 1)
    BY <2>1, SMT
  <2> QED
    BY <2>2, ListedFromIs DEF Closed
<1>3. o \in Text /\ c \in Text
  BY MarksAre
<1> HIDE DEF o, w, c
<1>4. o \o w \in Text /\ (name \o o) \o w = name \o (o \o w)
  <2>1. o \o w \in Text
    BY <1>2, <1>3, JoinedText
  <2>2. (name \o o) \o w = name \o (o \o w)
    BY <1>2, <1>3, ConcatAssociative DEF Text
  <2> QED
    BY <2>1, <2>2
<1>5. (name \o (o \o w)) \o c = name \o ((o \o w) \o c)
  <2> DEFINE p == o \o w
  <2>1. p \in Text
    BY <1>4
  <2> HIDE DEF p
  <2>2. (name \o p) \o c = name \o (p \o c)
    BY <1>3, <2>1, ConcatAssociative DEF Text
  <2> QED
    BY <2>2 DEF p
<1> QED
  BY <1>1, <1>2, <1>4, <1>5 DEF w, o, c

(* The closing brace is the one behind the labels.                         *)
LEMMA BraceIsFound ==
  ASSUME NEW w, Closed(w), Outside(w, Brace) = {}
  PROVE  LET rest == (<<Bracket>> \o w) \o <<Brace>>
         IN /\ rest \in Text /\ Len(w) \in Nat /\ Len(rest) = Len(w) + 2
            /\ rest[1] = Bracket
            /\ FindClosingBrace(rest) = Len(w) + 2
            /\ SubSeq(rest, 2, Len(w) + 1) = w
<1> DEFINE o == <<Bracket>>
           c == <<Brace>>
           p == o \o w
           rest == p \o c
           n == Len(w)
<1>1. /\ o \in Text /\ Closed(o) /\ Len(o) = 1 /\ o[1] = Bracket /\ Outside(o, Brace) = {}
      /\ c \in Text /\ Len(c) = 1 /\ Outside(c, Brace) = {1}
  <2>1. Brace \in Separators
    BY DEF Brace, Separators
  <2> QED
    BY <2>1, MarksAre DEF Sealed
<1>2. w \in Text
  BY DEF Closed
<1> HIDE DEF o, c
<1>3. /\ p \in Text /\ Len(p) = 1 + n /\ n \in Nat /\ p[1] = Bracket
      /\ \A k \in 1..n : p[1 + k] = w[k]
      /\ Closed(p) /\ Outside(p, Brace) = {}
  <2>1. /\ p \in Text /\ Len(p) = Len(o) + n /\ n \in Nat
        /\ \A k \in 1..Len(o) : p[k] = o[k]
        /\ \A k \in 1..n : p[Len(o) + k] = w[k]
        /\ Closed(p) /\ Outside(p, Brace) = {}
    BY <1>1, <1>2, JoinedText, JoinedWithout
  <2>2. 1 \in 1..1
    BY SMT
  <2> HIDE DEF p
  <2> QED
    BY <1>1, <2>1, <2>2
<1> HIDE DEF p
<1>4. /\ rest \in Text /\ Len(rest) = (1 + n) + 1 /\ DOMAIN rest = 1..((1 + n) + 1)
      /\ \A k \in 1..(1 + n) : rest[k] = p[k]
      /\ \A i \in 1..(1 + n) : i \notin Outside(rest, Brace)
      /\ (1 + n) + 1 \in Outside(rest, Brace)
      /\ Outside(rest, Brace) \subseteq 1..((1 + n) + 1)
  <2>1. /\ rest \in Text /\ Len(rest) = Len(p) + Len(c) /\ DOMAIN rest = 1..(Len(p) + Len(c))
        /\ \A k \in 1..Len(p) : rest[k] = p[k]
    BY <1>1, <1>3, JoinedText
  <2>2. /\ \A i \in 1..Len(p) : i \in Outside(rest, Brace) <=> i \in Outside(p, Brace)
        /\ \A i \in 1..Len(c) : Len(p) + i \in Outside(rest, Brace) <=> i \in Outside(c, Brace)
        /\ Outside(rest, Brace) \subseteq 1..(Len(p) + Len(c))
    BY <1>1, <1>3, JoinedOutside
  <2>3. 1 \in 1..1
    BY SMT
  <2> HIDE DEF rest
  <2>4. Len(p) + 1 \in Outside(rest, Brace)
    BY <1>1, <2>2, <2>3
  <2> QED
    BY <1>1, <1>3, <2>1, <2>2, <2>4
<1> HIDE DEF rest
<1>5. /\ (1 + n) + 1 = n + 2 /\ 1 \in 1..(1 + n)
      /\ 1 \in Nat /\ 1 + 1 = 2 /\ 1 + n = n + 1
      /\ \A k \in 1..n : 1 + k \in 1..(1 + n)
      /\ 1..((1 + n) + 1) \in SUBSET Int
      /\ \A i \in 1..((1 + n) + 1) : i \notin 1..(1 + n) => (1 + n) + 1 <= i
  BY <1>3, SMT
<1>6. FindClosingBrace(rest) = n + 2
  <2> DEFINE out == Outside(rest, Brace)
  <2>1. out \in SUBSET Int /\ (1 + n) + 1 \in out /\ \A i \in out : (1 + n) + 1 <= i
    BY <1>4, <1>5
  <2>2. FindClosingBrace(rest) = IF out = {} THEN 0 ELSE Min(out)
    BY DEF FindClosingBrace, Brace
  <2> HIDE DEF out
  <2>3. Min(out) = (1 + n) + 1
    BY <2>1, LeastIs
  <2> QED
    BY <1>5, <2>1, <2>2, <2>3
<1>7. SubSeq(rest, 2, n + 1) = w
  <2>1. \A k \in 1..n : rest[1 + k] = w[k]
    BY <1>3, <1>4, <1>5
  <2>2. SubSeq(rest, 1 + 1, 1 + n) = w
    BY <1>2, <1>5, <2>1, CutOut
  <2> QED
    BY <1>5, <2>2
<1>8. rest[1] = Bracket
  BY <1>3, <1>4, <1>5
<1> QED
  BY <1>3, <1>4, <1>5, <1>6, <1>7, <1>8 DEF rest, p, o, c

LEMMA ReportedIsRead ==
  ASSUME NEW x, IsReported(x)
  PROVE  ParseLine(Reported(x)) =
           IF x.value = NaN THEN NoSample
           ELSE [name   |-> x.name,
                 labels |-> {x.labels[j] : j \in 1..Len(x.labels)},
                 value  |-> x.value]
<1> DEFINE name == x.name
           labels == x.labels
           w == ListedFrom(labels)[1]
           rest == (<<Bracket>> \o w) \o <<Brace>>
           s == name \o rest
           m == Len(name)
           line == Reported(x)
<1>1. name \in Seq(Letter) /\ name # <<>> /\ labels \in Seq(LabelPair)
  BY DEF IsReported, LabelPair, Text
<1> HIDE DEF name, labels
<1>2. /\ name \in Text /\ m \in Nat /\ m # 0
      /\ \A i \in 1..m : name[i] \notin {Bracket, Hash}
  <2>1. name \in Text /\ \A i \in 1..m : name[i] \notin Special
    BY <1>1, LettersAreText
  <2>2. m \in Nat /\ (m = 0 => name = <<>>)
    BY <2>1, EmptySeq, JoinedText DEF Text
  <2> QED
    BY <1>1, <2>1, <2>2, MarksAre
<1>3. line = [text |-> s, value |-> x.value]
  BY <1>1, <1>2, ExposedIs DEF Reported, name, labels
<1>4. Closed(w) /\ Outside(w, Brace) = {}
  <2>1. Len(labels) \in Nat
    BY <1>1, LenProperties
  <2>2. 1 \in 1..(Len(labels) + 1)
    BY <2>1, SMT
  <2> QED
    BY <1>1, <2>2, ListedFromIs
<1>5. /\ rest \in Text /\ Len(w) \in Nat /\ Len(rest) = Len(w) + 2
      /\ rest[1] = Bracket
      /\ FindClosingBrace(rest) = Len(w) + 2
      /\ SubSeq(rest, 2, Len(w) + 1) = w
  <2> HIDE DEF w
  <2> QED
    BY <1>4, BraceIsFound
<1>6. ParseLabels(w) = {labels[j] : j \in 1..Len(labels)}
  BY <1>1, LabelsComeBack
<1> HIDE DEF rest, w, line
<1>7. /\ s \in Text /\ Len(s) = m + (Len(w) + 2) /\ DOMAIN s = 1..(m + (Len(w) + 2))
      /\ \A i \in 1..m : s[i] = name[i]
      /\ \A i \in 1..(Len(w) + 2) : s[m + i] = rest[i]
  <2>1. /\ s \in Text /\ Len(s) = m + Len(rest) /\ DOMAIN s = 1..(m + Len(rest))
        /\ \A i \in 1..m : s[i] = name[i]
        /\ \A i \in 1..Len(rest) : s[m + i] = rest[i]
    BY <1>2, <1>5, JoinedText
  <2> HIDE DEF s
  <2> QED
    BY <1>5, <2>1
<1> HIDE DEF s
<1>8. /\ 1 \in 1..m /\ 1 \in 1..(Len(w) + 2) /\ m + 1 \in 1..(m + (Len(w) + 2))
      /\ 1..(m + (Len(w) + 2)) \in SUBSET Int
      /\ \A i \in 1..(m + (Len(w) + 2)) : i \notin 1..m => m + 1 <= i
      /\ (m + 1) - 1 = m /\ 0 \in Nat /\ 0 + 1 = 1 /\ 0 + m = m /\ \A k \in 1..m : 0 + k = k
      /\ Len(w) + 2 # 0 /\ (Len(w) + 2) - 1 = Len(w) + 1
      /\ m + (Len(w) + 2) # 0
  BY <1>2, <1>5, SMT
<1>9. s # <<>> /\ s[1] # Hash
  <2>1. s[1] = name[1]
    BY <1>7, <1>8
  <2>2. s = <<>> => Len(s) = 0
    OBVIOUS
  <2> QED
    BY <1>2, <1>7, <1>8, <2>1, <2>2
<1> DEFINE opens == {i \in DOMAIN s : s[i] = Bracket}
<1>10. opens # {} /\ Min(opens) = m + 1
  <2>1. s[m + 1] = Bracket
    BY <1>5, <1>7, <1>8
  <2>2. m + 1 \in opens /\ opens \in SUBSET Int
    BY <1>7, <1>8, <2>1
  <2>3. \A i \in opens : m + 1 <= i
    BY <1>2, <1>7, <1>8
  <2> HIDE DEF opens
  <2>4. Min(opens) = m + 1
    BY <2>2, <2>3, LeastIs
  <2> QED
    BY <2>2, <2>4
<1>11. SubSeq(s, 1, (m + 1) - 1) = name
  <2>1. \A k \in 1..m : s[0 + k] = name[k]
    BY <1>7, <1>8
  <2>2. SubSeq(s, 0 + 1, 0 + m) = name
    BY <1>2, <1>8, <2>1, CutOut
  <2> QED
    BY <1>8, <2>2
<1>12. SubSeq(s, m + 1, Len(s)) = rest
  <2>1. \A k \in 1..Len(rest) : s[m + k] = rest[k]
    BY <1>5, <1>7
  <2>2. SubSeq(s, m + 1, m + Len(rest)) = rest
    BY <1>2, <1>5, <2>1, CutOut
  <2> QED
    BY <1>5, <1>7, <2>2
<1> DEFINE open == Min(opens)
           body == SubSeq(s, open, Len(s))
           close == FindClosingBrace(body)
           value == x.value
           plain == [name |-> s, labels |-> {}, value |-> value]
<1>13. line.text = s /\ line.value = value
  BY <1>3
<1>14. ParseLine(line) =
         IF s = <<>> \/ s[1] = Hash \/ ~Finite(value) THEN NoSample
         ELSE IF opens = {} THEN plain
         ELSE IF close = 0 THEN NoSample
         ELSE [plain EXCEPT !.name = SubSeq(s, 1, open - 1),
                            !.labels = ParseLabels(SubSeq(body, 2, close - 1))]
  BY <1>13 DEF ParseLine, Hash, Bracket
<1>15. open = m + 1 /\ body = rest /\ close = Len(w) + 2
  BY <1>5, <1>10, <1>12
<1>16. ParseLabels(SubSeq(body, 2, close - 1)) = {labels[j] : j \in 1..Len(labels)}
  <2> HIDE DEF body, close
  <2>1. close - 1 = Len(w) + 1
    BY <1>8, <1>15
  <2> QED
    BY <1>5, <1>6, <1>15, <2>1
<1>17. SubSeq(s, 1, open - 1) = name
  <2> HIDE DEF open
  <2> QED
    BY <1>11, <1>15
<1> HIDE DEF opens, open, body, close
<1>18. CASE value = NaN
  BY <1>14, <1>18 DEF Finite, line
<1>19. CASE value # NaN
  <2>1. ParseLine(line) = [plain EXCEPT !.name = SubSeq(s, 1, open - 1),
                            !.labels = ParseLabels(SubSeq(body, 2, close - 1))]
    BY <1>8, <1>9, <1>10, <1>14, <1>15, <1>19 DEF Finite
  <2>2. ParseLine(line) = [name |-> name, labels |-> {labels[j] : j \in 1..Len(labels)}, value |-> value]
    BY <1>16, <1>17, <2>1
  <2> QED
    BY <1>19, <2>2 DEF line, name, labels
<1> QED
  BY <1>18, <1>19

-----------------------------------------------------------------------------
(* A page of reported samples is one whose sums add up.                    *)
LEMMA ReportedIsCounted ==
  ASSUME NEW x, IsReported(x)
  PROVE  LET y == ParseLine(Reported(x))
         IN /\ y.value \in Int
            /\ \A v, w, l : <<l, v>> \in y.labels /\ <<l, w>> \in y.labels => v = w
            /\ \A m \in y.labels : m = <<m[1], m[2]>>
<1> DEFINE y == ParseLine(Reported(x))
           labels == x.labels
<1>1. y = IF x.value = NaN THEN NoSample
          ELSE [name   |-> x.name,
                labels |-> {labels[j] : j \in 1..Len(labels)},
                value  |-> x.value]
  BY ReportedIsRead
<1>2. /\ x.value \in Int \cup {NaN} /\ labels \in Seq(LabelPair)
      /\ \A j, k \in DOMAIN labels : labels[j][1] = labels[k][1] => j = k
  BY DEF IsReported, LabelPair, Text
<1> HIDE DEF y, labels
<1>3. CASE x.value = NaN
  <2>1. y.value = 0 /\ y.labels = {}
    BY <1>1, <1>3 DEF NoSample
  <2> QED
    BY <2>1 DEF y
<1>4. CASE x.value # NaN
  <2>1. y.value \in Int /\ y.labels = {labels[j] : j \in 1..Len(labels)}
    BY <1>1, <1>2, <1>4
  <2>2. DOMAIN labels = 1..Len(labels)
    BY <1>2, LenProperties
  <2>3. \A j \in 1..Len(labels) : labels[j] = <<labels[j][1], labels[j][2]>>
    <3>1. \A j \in 1..Len(labels) : labels[j] \in LabelPair
      BY <1>2, ElementOfSeq
    <3>2. \A l \in LabelPair : l = <<l[1], l[2]>>
      BY DEF LabelPair
    <3> QED
      BY <3>1, <3>2
  <2>4. ASSUME NEW v, NEW w, NEW l, <<l, v>> \in y.labels, <<l, w>> \in y.labels PROVE v = w
    <3>1. PICK j \in 1..Len(labels), k \in 1..Len(labels) : labels[j] = <<l, v>> /\ labels[k] = <<l, w>>
      BY <2>1, <2>4
    <3>2. labels[j][1] = l /\ labels[k][1] = l /\ labels[j][2] = v /\ labels[k][2] = w
      BY <3>1
    <3>3. j = k
      BY <1>2, <2>2, <3>2
    <3> QED
      BY <3>2, <3>3
  <2>5. \A m \in y.labels : m = <<m[1], m[2]>>
    BY <2>1, <2>3
  <2> QED
    BY <2>1, <2>4, <2>5 DEF y
<1> QED
  BY <1>3, <1>4

LEMMA PageIsCounted ==
  ASSUME NEW p, p \in Seq({p[k] : k \in DOMAIN p}), \A k \in DOMAIN p : IsReported(p[k])
  PROVE  PageOK(ParseExposition([k \in DOMAIN p |-> Reported(p[k])]))
<1> DEFINE n == Len(p)
           page == [k \in DOMAIN p |-> Reported(p[k])]
           s == ParseExposition(page)
<1>1. n \in Nat /\ DOMAIN p = 1..n
  BY LenProperties
<1>2. s = [k \in 1..n |-> ParseLine(Reported(p[k]))]
  BY <1>1 DEF ParseExposition
<1> HIDE DEF s
<1>3. Len(s) = n /\ DOMAIN s = 1..n
  <2> DEFINE S == {s[k] : k \in 1..n}
  <2>1. s \in [1..n -> S]
    BY <1>2
  <2> HIDE DEF S
  <2>2. s \in Seq(S)
    BY <1>1, <2>1
  <2>3. DOMAIN s = 1..n
    BY <1>2
  <2>4. DOMAIN s = 1..Len(s) /\ Len(s) \in Nat
    BY <2>2, LenProperties
  <2> QED
    BY <1>1, <2>3, <2>4, SMT
<1>4. ASSUME NEW k \in 1..n
      PROVE  /\ s[k].value \in Int
             /\ \A v, w, l : <<l, v>> \in s[k].labels /\ <<l, w>> \in s[k].labels => v = w
             /\ \A m \in s[k].labels : m = <<m[1], m[2]>>
  <2> DEFINE x == p[k]
             y == s[k]
  <2>1. IsReported(x) /\ y = ParseLine(Reported(x))
    BY <1>1, <1>2
  <2> HIDE DEF x, y
  <2>2. /\ y.value \in Int
        /\ \A v, w, l : <<l, v>> \in y.labels /\ <<l, w>> \in y.labels => v = w
        /\ \A m \in y.labels : m = <<m[1], m[2]>>
    BY <2>1, ReportedIsCounted
  <2> QED
    BY <2>2 DEF y
<1>5. PageOK(s)
  BY <1>1, <1>3, <1>4 DEF PageOK
<1> QED
  BY <1>5 DEF s

(* What a process reports comes back from its metrics page, whatever a     *)
(* label says, and no sum over a page of such samples loses or counts one  *)
(* twice.                                                                  *)
THEOREM MetricsAreAlwaysRead == TextsSpec => []MetricsAreRead
<1>1. MadeInv => ReadsWhatWasWritten
  <2> SUFFICES ASSUME MadeInv, made.of = "sample" PROVE ReadsWhatWasWritten
    BY DEF ReadsWhatWasWritten
  <2>0. \A of, f, t : made = [of |-> of, from |-> f, into |-> t] => of = "sample"
    OBVIOUS
  <2>1. PICK x \in Samples : made = [of |-> "sample", from |-> x, into |-> ParseLine(Reported(x))]
    BY <2>0, Zenon DEF MadeInv, Nothing
  <2>2. IsReported(x) /\ made.from = x /\ made.into = ParseLine(Reported(x))
    BY <2>1, TextsAssumption
  <2> DEFINE labels == x.labels
             back == [name |-> x.name, labels |-> {labels[j] : j \in 1..Len(labels)}, value |-> x.value]
  <2>3. ParseLine(Reported(x)) = IF x.value = NaN THEN NoSample ELSE back
    BY <2>2, ReportedIsRead
  <2>4. back = [x EXCEPT !.labels = ToSet(@)]
    <3>1. /\ x = [name |-> x.name, labels |-> labels, value |-> x.value]
          /\ labels \in Seq(LabelPair)
      BY <2>2 DEF IsReported, LabelPair, Text
    <3>2. DOMAIN labels = 1..Len(labels)
      BY <3>1, LenProperties
    <3>3. ToSet(labels) = {labels[j] : j \in 1..Len(labels)}
      BY <3>2 DEF ToSet
    <3>4. \A a, b, c, d :
            [[name |-> a, labels |-> b, value |-> c] EXCEPT !.labels = d]
              = [name |-> a, labels |-> d, value |-> c]
      OBVIOUS
    <3>5. [x EXCEPT !.labels = ToSet(@)]
            = [[name |-> x.name, labels |-> labels, value |-> x.value] EXCEPT !.labels = ToSet(labels)]
      BY <3>1
    <3> DEFINE found == {labels[j] : j \in 1..Len(labels)}
               d == ToSet(labels)
    <3>6. [[name |-> x.name, labels |-> labels, value |-> x.value] EXCEPT !.labels = d]
            = [name |-> x.name, labels |-> d, value |-> x.value]
      BY <3>4
    <3>7. d = found
      BY <3>3
    <3>8. back = [name |-> x.name, labels |-> found, value |-> x.value]
      OBVIOUS
    <3> HIDE DEF back, found
    <3> QED
      BY <3>5, <3>6, <3>7, <3>8
  <2> HIDE DEF back
  <2> QED
    BY <2>2, <2>3, <2>4 DEF ReadsWhatWasWritten
<1>2. MadeInv => TotalsAddUp
  <2> SUFFICES ASSUME MadeInv, made.of = "page", NEW name, NEW label
               PROVE  AddsUp(made.into, name, label)
    BY DEF TotalsAddUp
  <2>1. PICK p \in Pages :
          made = [of   |-> "page", from |-> p,
                  into |-> ParseExposition([k \in DOMAIN p |-> Reported(p[k])])]
    BY DEF MadeInv, Nothing
  <2>2. p \in Seq({p[k] : k \in DOMAIN p}) /\ \A k \in DOMAIN p : IsReported(p[k])
    BY TextsAssumption
  <2> DEFINE s == ParseExposition([k \in DOMAIN p |-> Reported(p[k])])
  <2>3. PageOK(s) /\ made.into = s
    BY <2>1, <2>2, PageIsCounted
  <2> HIDE DEF s
  <2> QED
    BY <2>3, PageAddsUp
<1> QED
  BY <1>1, <1>2, MadeInvariant, PTL DEF MetricsAreRead

=============================================================================
