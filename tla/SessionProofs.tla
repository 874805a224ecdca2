---------------------------- MODULE SessionProofs ----------------------------
(***************************************************************************)
(* Theorems about Session, for any number of sources, pipe, cap and line   *)
(* count, and whatever fails or panics.                                    *)
(***************************************************************************)
EXTENDS Session, WellFoundedInduction, TLAPS

BeforeLaunch == {"starting", "sink", "pager", "reopen", "launch"}
AfterLaunch  == {"waiting", "killing", "reaping", "joining"}

Failed == {"err", "panicked"}

(* How far the main thread's loops have come says what state the processes *)
(* and the workers are in.                                                 *)
LoopInv ==
  /\ main \in Main /\ turn \in Nat \ {0}
  /\ producer \in [Source -> Producer]
  /\ reader \in [Source -> Reader]
  /\ emitter \in Emitter
  /\ main \in BeforeLaunch \cup {"aborting"} => emitter = "none"
  /\ main \in AfterLaunch => emitter # "none"
  /\ main \in {"killing", "aborting"} =>
       \A s \in Source : s < turn => producer[s] # "running"
  /\ main \in {"reaping", "joining"} => \A s \in Source : producer[s] # "running"
  /\ main = "reaping" =>
       \A s \in Source : s < turn => producer[s] \in {"none", "reaped"}
  /\ main = "joining" =>
       /\ \A s \in Source : /\ producer[s] \in {"none", "reaped"}
                            /\ s < turn => reader[s] \in {"none"} \cup Ended
       /\ turn > N + 1 => emitter \in Ended
  /\ emitter # "none" =>
       \A s \in Source : reader[s] = "none" <=> producer[s] = "none"

(* What the session will return, as far as it is decided. *)
ResultInv ==
  /\ result \in {"ok", "err"}
  /\ main \in BeforeLaunch \cup (AfterLaunch \ {"joining"}) => result = "ok"
  /\ main = "aborting" => result = "err"
  /\ main = "joining" =>
       (result = "ok" <=>
          /\ \A s \in Source : s < turn => reader[s] \notin Failed
          /\ turn > N + 1 => emitter \notin Failed)

EndInv == NothingOutlivesTheSession /\ ResultIsThatOfTheWorkers

SessionInv == LoopInv /\ ResultInv /\ EndInv

LEMMA SourcesInOrder ==
  /\ N \in Nat
  /\ \A s \in Source : s \in Nat /\ s < N + 1
  /\ \A t \in Nat \ {0} : t \notin Source => t > N
BY SourcesAssumption DEF Source

LEMMA SessionInit == Init => SessionInv
<1> SUFFICES ASSUME Init PROVE SessionInv
  OBVIOUS
<1>1. LoopInv
  BY DEF Init, LoopInv, Main, Producer, Reader, Emitter, BeforeLaunch, AfterLaunch
<1>2. ResultInv /\ EndInv
  BY DEF Init, ResultInv, EndInv, NothingOutlivesTheSession, ResultIsThatOfTheWorkers,
         BeforeLaunch, AfterLaunch
<1>3. QED
  BY <1>1, <1>2 DEF SessionInv

LEMMA NoneBeforeFirst == \A s \in Source : ~(s < 1)
BY DEF Source

(* Before the workers run: nothing but the place of the main thread moves. *)
LEMMA SessionStart ==
  ASSUME SessionInv, main \in BeforeLaunch, UNCHANGED <<producer, reader, emitter>>,
         turn' = 1,
         \/ main' \in BeforeLaunch /\ result' = result
         \/ main' = "aborting" /\ result' = "err"
  PROVE  SessionInv'
<1> USE DEF BeforeLaunch, AfterLaunch
<1>1. emitter = "none"
  BY DEF SessionInv, LoopInv
<1>2. LoopInv'
  BY <1>1, NoneBeforeFirst DEF SessionInv, LoopInv, Main
<1>3. ResultInv'
  BY DEF SessionInv, ResultInv
<1>4. EndInv'
  BY DEF EndInv, NothingOutlivesTheSession, ResultIsThatOfTheWorkers
<1>5. QED
  BY <1>2, <1>3, <1>4 DEF SessionInv

(* The main thread. *)
LEMMA SessionMain ==
  ASSUME SessionInv, MainStep
  PROVE  SessionInv'
<1> USE SourcesInOrder DEF BeforeLaunch, AfterLaunch
<1>1. CASE StartSource
  <2>1. /\ main = "starting" /\ main' = main /\ turn \in Source /\ turn' = turn + 1
        /\ UNCHANGED <<result, reader, emitter>>
    BY <1>1 DEF StartSource, emitVars
  <2>2. LoopInv'
    BY <1>1, <2>1 DEF StartSource, SessionInv, LoopInv, Main, Producer
  <2>3. ResultInv' /\ EndInv'
    BY <2>1 DEF SessionInv, ResultInv, EndInv, NothingOutlivesTheSession,
                ResultIsThatOfTheWorkers
  <2>4. QED
    BY <2>2, <2>3 DEF SessionInv
<1>2. CASE SourcesTried
  BY <1>2, SessionStart DEF SourcesTried, Goto, Abort, emitVars, processVars
<1>3. CASE MakeSink
  BY <1>3, SessionStart DEF MakeSink, Goto, Abort, emitVars, processVars
<1>4. CASE SpawnPager
  BY <1>4, SessionStart DEF SpawnPager, Goto, Abort, emitVars
<1>5. CASE ReopenSink
  BY <1>5, SessionStart DEF ReopenSink, Goto, Abort, emitVars
<1>6. CASE Launch
  <2>1. /\ main = "launch" /\ main' = "waiting" /\ turn' = 1
        /\ result' = result /\ producer' = producer /\ emitter' = "polling"
        /\ reader' = [s \in Source |-> IF s \in Started THEN "reading" ELSE "none"]
    BY <1>6 DEF Launch, Goto, processVars
  <2>2. LoopInv'
    BY <2>1 DEF SessionInv, LoopInv, Started, Main, Reader, Emitter
  <2>3. ResultInv' /\ EndInv'
    BY <2>1 DEF SessionInv, ResultInv, EndInv, NothingOutlivesTheSession,
                ResultIsThatOfTheWorkers
  <2>4. QED
    BY <2>2, <2>3 DEF SessionInv
<1>7. CASE PagerReturns
  <2>1. /\ main = "waiting" /\ main' = "killing" /\ turn' = 1
        /\ UNCHANGED <<result, producer, reader, emitter>>
    BY <1>7 DEF PagerReturns, Goto, processVars, emitVars
  <2>2. LoopInv'
    BY <2>1, NoneBeforeFirst DEF SessionInv, LoopInv, Main
  <2>3. ResultInv' /\ EndInv'
    BY <2>1 DEF SessionInv, ResultInv, EndInv, NothingOutlivesTheSession,
                ResultIsThatOfTheWorkers
  <2>4. QED
    BY <2>2, <2>3 DEF SessionInv
<1>8. CASE Kill
  <2>1. /\ main \in {"killing", "aborting"} /\ main' = main
        /\ turn \in Source /\ turn' = turn + 1
        /\ producer' = [producer EXCEPT ![turn] = IF @ = "running" THEN "killed" ELSE @]
        /\ UNCHANGED <<result, reader, emitter>>
    BY <1>8 DEF Kill, emitVars
  <2>2. LoopInv'
    BY <2>1 DEF SessionInv, LoopInv, Main, Producer
  <2>3. ResultInv' /\ EndInv'
    BY <2>1 DEF SessionInv, ResultInv, EndInv, NothingOutlivesTheSession,
                ResultIsThatOfTheWorkers
  <2>4. QED
    BY <2>2, <2>3 DEF SessionInv
<1>9. CASE AllKilled
  <2>1. /\ main \in {"killing", "aborting"} /\ turn \notin Source /\ turn' = 1
        /\ main' = IF main = "killing" THEN "reaping" ELSE "exited"
        /\ UNCHANGED <<result, producer, reader, emitter>>
    BY <1>9 DEF AllKilled, Goto, processVars, emitVars
  <2>2. \A s \in Source : s < turn
    BY <2>1 DEF SessionInv, LoopInv
  <2>3. LoopInv'
    BY <2>1, <2>2, NoneBeforeFirst DEF SessionInv, LoopInv, Main
  <2>4. ResultInv'
    BY <2>1 DEF SessionInv, ResultInv
  <2>5. EndInv'
    BY <2>1, <2>2 DEF SessionInv, LoopInv, ResultInv, EndInv,
                      NothingOutlivesTheSession, ResultIsThatOfTheWorkers
  <2>6. QED
    BY <2>3, <2>4, <2>5 DEF SessionInv
<1>10. CASE Reap
  <2>1. /\ main = "reaping" /\ main' = main /\ turn \in Source /\ turn' = turn + 1
        /\ producer' = [producer EXCEPT ![turn] = IF @ = "none" THEN @ ELSE "reaped"]
        /\ UNCHANGED <<result, reader, emitter>>
    BY <1>10 DEF Reap, emitVars
  <2>2. LoopInv'
    BY <2>1 DEF SessionInv, LoopInv, Main, Producer
  <2>3. ResultInv' /\ EndInv'
    BY <2>1 DEF SessionInv, ResultInv, EndInv, NothingOutlivesTheSession,
                ResultIsThatOfTheWorkers
  <2>4. QED
    BY <2>2, <2>3 DEF SessionInv
<1>11. CASE SetStop
  <2>1. /\ main = "reaping" /\ main' = "joining" /\ turn \notin Source /\ turn' = 1
        /\ UNCHANGED <<result, producer, reader, emitter>>
    BY <1>11 DEF SetStop, processVars, emitVars
  <2>2. \A s \in Source : s < turn
    BY <2>1 DEF SessionInv, LoopInv
  <2>3. LoopInv'
    BY <2>1, <2>2, NoneBeforeFirst DEF SessionInv, LoopInv, Main
  <2>4. ResultInv' /\ EndInv'
    BY <2>1, NoneBeforeFirst DEF SessionInv, ResultInv, EndInv,
                NothingOutlivesTheSession, ResultIsThatOfTheWorkers
  <2>5. QED
    BY <2>3, <2>4 DEF SessionInv
<1>12. CASE Join
  <2>1. /\ main = "joining" /\ main' = main /\ turn <= N + 1 /\ turn' = turn + 1
        /\ Worker(turn) \in Ended \cup {"none"}
        /\ result' = IF result = "ok" /\ Worker(turn) \in Failed THEN "err" ELSE result
        /\ UNCHANGED <<producer, reader, emitter>>
    BY <1>12 DEF Join, processVars, emitVars, Failed
  <2>2. CASE turn \in Source
    <3>1. Worker(turn) = reader[turn] /\ ~(turn' > N + 1)
      BY <2>1, <2>2 DEF Worker
    <3>2. \A s \in Source : s < turn' <=> s < turn \/ s = turn
      BY <2>1, <2>2
    <3>3. LoopInv'
      BY <2>1, <2>2, <3>1, <3>2 DEF SessionInv, LoopInv, Main
    <3>4. ResultInv' /\ EndInv'
      BY <2>1, <2>2, <3>1, <3>2 DEF SessionInv, ResultInv, EndInv,
                  NothingOutlivesTheSession, ResultIsThatOfTheWorkers
    <3>5. QED
      BY <3>3, <3>4 DEF SessionInv
  <2>3. CASE turn \notin Source
    <3>1. turn = N + 1 /\ turn' > N + 1 /\ turn' \in Nat \ {0}
      BY <2>1, <2>3 DEF SessionInv, LoopInv
    <3>2. Worker(turn) = emitter /\ \A s \in Source : s < turn /\ s < turn'
      BY <2>1, <2>3, <3>1 DEF Worker
    <3>3. emitter \in Ended
      BY <2>1, <3>2 DEF SessionInv, LoopInv
    <3>4. LoopInv'
      BY <2>1, <3>1, <3>2, <3>3 DEF SessionInv, LoopInv, Main
    <3>5. ~(turn > N + 1)
      BY <3>1
    <3>6. ResultInv' /\ EndInv'
      BY <2>1, <3>1, <3>2, <3>5 DEF SessionInv, ResultInv, EndInv,
                  NothingOutlivesTheSession, ResultIsThatOfTheWorkers
    <3>7. QED
      BY <3>4, <3>6 DEF SessionInv
  <2>4. QED
    BY <2>2, <2>3
<1>13. CASE Return
  <2>1. /\ main = "joining" /\ turn > N + 1 /\ main' = "exited" /\ turn' = 1
        /\ UNCHANGED <<result, producer, reader, emitter>>
    BY <1>13 DEF Return, Goto, processVars, emitVars
  <2>2. \A s \in Source : s < turn
    BY <2>1 DEF SessionInv, LoopInv
  <2>3. LoopInv' /\ ResultInv'
    BY <2>1 DEF SessionInv, LoopInv, ResultInv, Main
  <2>4. NothingOutlivesTheSession'
    BY <2>1, <2>2 DEF SessionInv, LoopInv, NothingOutlivesTheSession
  <2>5. \A s \in Source : s \in Started => reader[s] \in Ended
    BY <2>1, <2>2 DEF SessionInv, LoopInv, Started
  <2>6. \A s \in Source : s \notin Started => reader[s] = "none"
    BY <2>1 DEF SessionInv, LoopInv, Started
  <2>7. ResultIsThatOfTheWorkers'
    <3>1. result = "ok" <=> (emitter = "ok" /\ \A s \in Started : reader[s] = "ok")
      BY <2>1, <2>2, <2>5, <2>6
         DEF SessionInv, LoopInv, ResultInv, Ended, Failed, Started
    <3>2. QED
      BY <2>1, <3>1 DEF ResultIsThatOfTheWorkers, Started
  <2>8. QED
    BY <2>3, <2>4, <2>7 DEF SessionInv, EndInv
<1>14. QED
  BY <1>1, <1>2, <1>3, <1>4, <1>5, <1>6, <1>7, <1>8, <1>9, <1>10, <1>11, <1>12, <1>13
     DEF MainStep

(* A worker that has not ended moves on: the joins passed only those that  *)
(* had.                                                                    *)
LEMMA SessionReader ==
  ASSUME SessionInv, main # "exited", UNCHANGED <<main, turn, result, producer, emitter>>,
         NEW s \in Source, NEW next \in Reader \ {"none"},
         reader[s] \notin {"none"} \cup Ended,
         reader' = [reader EXCEPT ![s] = next]
  PROVE  SessionInv'
<1>1. LoopInv'
  BY DEF SessionInv, LoopInv
<1>2. ResultInv'
  BY DEF SessionInv, LoopInv, ResultInv
<1>3. EndInv'
  BY DEF EndInv, NothingOutlivesTheSession, ResultIsThatOfTheWorkers
<1>4. QED
  BY <1>1, <1>2, <1>3 DEF SessionInv

LEMMA SessionEmitter ==
  ASSUME SessionInv, main # "exited", UNCHANGED <<main, turn, result, producer, reader>>,
         emitter \notin {"none"} \cup Ended, emitter' \in Emitter \ {"none"}
  PROVE  SessionInv'
<1>1. LoopInv'
  BY DEF SessionInv, LoopInv, BeforeLaunch, AfterLaunch
<1>2. ResultInv'
  BY DEF SessionInv, LoopInv, ResultInv
<1>3. EndInv'
  BY DEF EndInv, NothingOutlivesTheSession, ResultIsThatOfTheWorkers
<1>4. QED
  BY <1>1, <1>2, <1>3 DEF SessionInv

(* A process that runs, or was killed, may be gone the next moment. *)
LEMMA SessionProducer ==
  ASSUME SessionInv, UNCHANGED <<main, turn, result, reader, emitter>>,
         NEW s \in Source, producer[s] \in {"running", "killed"},
         producer' = [producer EXCEPT ![s] = "exited"]
  PROVE  SessionInv'
<1>1. LoopInv'
  BY DEF SessionInv, LoopInv, Producer
<1>2. ResultInv'
  BY DEF SessionInv, ResultInv
<1>3. EndInv'
  BY DEF SessionInv, LoopInv, EndInv, NothingOutlivesTheSession,
         ResultIsThatOfTheWorkers, Started
<1>4. QED
  BY <1>1, <1>2, <1>3 DEF SessionInv

LEMMA SessionSame ==
  ASSUME SessionInv, UNCHANGED <<main, turn, result, producer, reader, emitter>>
  PROVE  SessionInv'
BY DEF SessionInv, LoopInv, ResultInv, EndInv, NothingOutlivesTheSession,
       ResultIsThatOfTheWorkers, Started

LEMMA SessionStep ==
  ASSUME SessionInv, [Next]_vars
  PROVE  SessionInv'
<1> USE DEF mainVars, emitVars, processVars
<1>1. CASE MainStep
  BY <1>1, SessionMain
<1>2. CASE EmitterStep \/ EmitterPanics
  <2>1. CASE WriteLine /\ emitter' = emitter
    BY <2>1, SessionSame DEF WriteLine
  <2>2. CASE ~(WriteLine /\ emitter' = emitter)
    BY <1>2, <2>2, SessionEmitter
       DEF EmitterStep, Poll, TakeBatch, PoisonedEmitter, WriteLine, WriteFails,
           BatchWritten, EmitterPanics, Alive, Ended, Emitter
  <2>3. QED
    BY <2>1, <2>2
<1>3. ASSUME NEW s \in Source, ReaderStep(s) \/ ReaderPanics(s)
      PROVE  SessionInv'
  <2>1. /\ main # "exited" /\ reader[s] \notin {"none"} \cup Ended
        /\ UNCHANGED <<main, turn, result, producer, emitter>>
    BY <1>3 DEF ReaderStep, ReadLine, PoisonedReader, PushLine, RecordEof, ReaderPanics,
                Locked, Alive, Ended
  <2>2. \E next \in Reader \ {"none"} : reader' = [reader EXCEPT ![s] = next]
    BY <1>3 DEF ReaderStep, ReadLine, PoisonedReader, PushLine, RecordEof, ReaderPanics,
                Reader, Ended
  <2>3. QED
    BY <2>1, <2>2, SessionReader
<1>4. ASSUME NEW s \in Source, ProducerWrites(s) \/ ProducerExits(s)
      PROVE  SessionInv'
  BY <1>4, SessionProducer, SessionSame DEF ProducerWrites, ProducerExits
<1>5. CASE PagerExits \/ UNCHANGED vars
  BY <1>5, SessionSame DEF PagerExits, vars
<1>6. QED
  BY <1>1, <1>2, <1>3, <1>4, <1>5 DEF Next

LEMMA SessionInvariant == Spec => []SessionInv
<1>1. Init => SessionInv
  BY SessionInit
<1>2. ASSUME SessionInv, [Next]_vars PROVE SessionInv'
  BY <1>2, SessionStep
<1>3. QED
  BY <1>1, <1>2, PTL DEF Spec

(* However a session starts, fails or is quit, no producer is left running *)
(* behind it, and every worker that was started has ended.                 *)
THEOREM NothingIsLeftBehind == Spec => []NothingOutlivesTheSession
<1>1. SessionInv => NothingOutlivesTheSession
  BY DEF SessionInv, EndInv
<1>2. QED
  BY <1>1, SessionInvariant, PTL

(* run_logs reports success exactly when every worker it joined succeeded. *)
THEOREM ResultIsRight == Spec => []ResultIsThatOfTheWorkers
<1>1. SessionInv => ResultIsThatOfTheWorkers
  BY DEF SessionInv, EndInv
<1>2. QED
  BY <1>1, SessionInvariant, PTL

-----------------------------------------------------------------------------
(* Sums over the sources.  Total is recursive, so that it has a value at   *)
(* all takes an induction: over the numbers, as the absence of a least     *)
(* counterexample.                                                         *)
LEMMA LeastNumber ==
  ASSUME NEW T \in SUBSET Nat, T # {}
  PROVE  \E x \in T : \A y \in T : ~(y < x)
<1>1. \E x \in T : \A y \in T : <<y, x>> \notin OpToRel(<, Nat)
  BY NatLessThanWellFounded, WFMin
<1>2. \A x, y \in T : y < x => <<y, x>> \in OpToRel(<, Nat)
  BY DEF OpToRel
<1>3. QED
  BY <1>1, <1>2

LEMMA InductionOverNat ==
  ASSUME NEW T, 0 \in T, \A n \in Nat : n \in T => n + 1 \in T
  PROVE  Nat \subseteq T
<1>1. SUFFICES ASSUME Nat \ T # {} PROVE FALSE
  OBVIOUS
<1>2. PICK x \in Nat \ T : \A y \in Nat \ T : ~(y < x)
  BY <1>1, LeastNumber
<1>3. x - 1 \in Nat /\ x - 1 \in T
  BY <1>2
<1>4. QED
  BY <1>2, <1>3

(* g has the sums of f up to n. *)
Sums(f, n, g) == g = [k \in 0..n |-> IF k = 0 THEN 0 ELSE g[k - 1] + f[k]]

LEMMA SumsExist ==
  ASSUME NEW f
  PROVE  \E g : Sums(f, N, g)
<1> DEFINE T == {n \in Nat : \E g : Sums(f, n, g)}
<1>1. 0 \in T
  <2>1. Sums(f, 0, [k \in 0..0 |-> 0])
    BY DEF Sums
  <2>2. QED
    BY <2>1
<1>2. ASSUME NEW n \in Nat, n \in T PROVE n + 1 \in T
  <2>1. PICK g : Sums(f, n, g)
    BY <1>2
  <2> DEFINE h == [k \in 0..(n + 1) |-> IF k = n + 1 THEN g[n] + f[n + 1] ELSE g[k]]
  <2>2. \A k \in 0..n : g[k] = IF k = 0 THEN 0 ELSE g[k - 1] + f[k]
    BY <2>1 DEF Sums
  <2>3. \A k \in 0..(n + 1) : h[k] = IF k = 0 THEN 0 ELSE h[k - 1] + f[k]
    BY <2>2
  <2>4. Sums(f, n + 1, h)
    BY <2>3 DEF Sums
  <2>5. QED
    BY <2>4
<1> HIDE DEF T
<1>3. N \in T
  BY <1>1, <1>2, InductionOverNat, SourcesAssumption
<1>4. QED
  BY <1>3 DEF T

LEMMA TotalIsTheSum ==
  ASSUME NEW f
  PROVE  \E g : Sums(f, N, g) /\ Total(f) = g[N]
<1> DEFINE G == CHOOSE g : g = [k \in 0..N |-> IF k = 0 THEN 0 ELSE g[k - 1] + f[k]]
<1>1. \E g : g = [k \in 0..N |-> IF k = 0 THEN 0 ELSE g[k - 1] + f[k]]
  BY SumsExist DEF Sums
<1>2. G = [k \in 0..N |-> IF k = 0 THEN 0 ELSE G[k - 1] + f[k]]
  BY <1>1
<1>3. Total(f) = G[N]
  BY DEF Total
<1>4. QED
  BY <1>2, <1>3 DEF Sums

(* The sum of numbers is one; it grows with them, and nothing sums to 0.   *)
LEMMA TotalGrows ==
  ASSUME NEW f \in [Source -> Nat], NEW g \in [Source -> Nat],
         \A s \in Source : f[s] <= g[s]
  PROVE  Total(f) \in Nat /\ Total(g) \in Nat /\ Total(f) <= Total(g)
<1>1. PICK F : Sums(f, N, F) /\ Total(f) = F[N]
  BY TotalIsTheSum
<1>2. PICK G : Sums(g, N, G) /\ Total(g) = G[N]
  BY TotalIsTheSum
<1> DEFINE T == {n \in Nat : n <= N => F[n] \in Nat /\ G[n] \in Nat /\ F[n] <= G[n]}
<1>3. /\ \A k \in 0..N : F[k] = IF k = 0 THEN 0 ELSE F[k - 1] + f[k]
      /\ \A k \in 0..N : G[k] = IF k = 0 THEN 0 ELSE G[k - 1] + g[k]
  BY <1>1, <1>2 DEF Sums
<1>4. 0 \in T
  BY <1>3, SourcesAssumption
<1>5. ASSUME NEW n \in Nat, n \in T PROVE n + 1 \in T
  <2>1. SUFFICES ASSUME n + 1 <= N
                 PROVE  F[n + 1] \in Nat /\ G[n + 1] \in Nat /\ F[n + 1] <= G[n + 1]
    OBVIOUS
  <2>2. n + 1 \in Source /\ n + 1 \in 0..N /\ (n + 1) - 1 = n /\ n + 1 # 0 /\ n <= N
    BY <2>1, SourcesAssumption DEF Source
  <2>3. F[n + 1] = F[n] + f[n + 1] /\ G[n + 1] = G[n] + g[n + 1]
    BY <1>3, <2>2
  <2>4. F[n] \in Nat /\ G[n] \in Nat /\ F[n] <= G[n]
    BY <1>5, <2>2
  <2>5. f[n + 1] \in Nat /\ g[n + 1] \in Nat /\ f[n + 1] <= g[n + 1]
    BY <2>2
  <2>6. QED
    BY <2>3, <2>4, <2>5
<1> HIDE DEF T
<1>6. N \in T
  BY <1>4, <1>5, InductionOverNat, SourcesAssumption
<1>7. QED
  BY <1>1, <1>2, <1>6, SourcesAssumption DEF T

LEMMA TotalOfNothing == Total([s \in Source |-> 0]) = 0
<1> DEFINE zero == [s \in Source |-> 0]
<1>1. PICK F : Sums(zero, N, F) /\ Total(zero) = F[N]
  BY TotalIsTheSum
<1> DEFINE T == {n \in Nat : n <= N => F[n] = 0}
<1>2. \A k \in 0..N : F[k] = IF k = 0 THEN 0 ELSE F[k - 1] + zero[k]
  BY <1>1 DEF Sums
<1>3. 0 \in T
  BY <1>2, SourcesAssumption
<1>4. ASSUME NEW n \in Nat, n \in T PROVE n + 1 \in T
  <2>1. SUFFICES ASSUME n + 1 <= N
                 PROVE  F[n + 1] = 0
    OBVIOUS
  <2>2. n + 1 \in Source /\ n + 1 \in 0..N /\ n <= N
    BY <2>1, SourcesAssumption DEF Source
  <2>3. QED
    BY <1>2, <1>4, <2>2
<1> HIDE DEF T
<1>5. N \in T
  BY <1>3, <1>4, InductionOverNat, SourcesAssumption
<1>6. QED
  BY <1>1, <1>5, SourcesAssumption DEF T

-----------------------------------------------------------------------------
(* Where each line of a producer is, and each line the merger gave up.     *)
AccountInv ==
  /\ emitter = "none" => \A s \in Source : reader[s] = "none"
  /\ \A s \in Source :
       /\ reader[s] # "none" => producer[s] # "none"
       /\ reader[s] \in {"at_end", "ok"} => Closed(s) /\ pipe[s] = 0
       /\ reader[s] \notin {"failing", "err", "panicked"} =>
            produced[s] = fed[s] + pipe[s] + (IF reader[s] = "pushing" THEN 1 ELSE 0)

(* last is TRUE without the stop flag only if nothing can come any more.   *)
EmitInv ==
  /\ TakenIsWritten
  /\ \A s \in Source : handed[s] <= fed[s]
  /\ emitter \in {"none", "polling", "locking"} => batch = 0
  /\ emitter = "ok" /\ ~capped => last /\ batch = 0
  /\ last /\ ~stop => AllFinished /\ handed = fed /\ emitter # "none"

WrittenInv == TypeOK /\ AccountInv /\ EmitInv

LEMMA WrittenInit == Init => WrittenInv
<1> SUFFICES ASSUME Init PROVE WrittenInv
  OBVIOUS
<1>1. TypeOK
  <2>1. N + 2 \in Nat /\ 1 \in 1..(N + 2) /\ MAX_BUFFER \in Nat /\ PIPE \in Nat /\ MAX_LINES \in Nat
    BY SourcesAssumption, SessionAssumption
  <2>2. StreamTypeOK
    BY DEF Init, StreamInit, StreamTypeOK
  <2>3. /\ produced \in [Source -> 0..MAX_LINES] /\ pipe \in [Source -> 0..PIPE]
        /\ written \in 0..MAX_BUFFER /\ batch \in Nat
    BY <2>1 DEF Init
  <2>4. /\ producer \in [Source -> Producer] /\ reader \in [Source -> Reader]
        /\ emitter \in Emitter /\ main \in Main
    BY DEF Init, Producer, Reader, Emitter, Main
  <2>5. /\ stop \in BOOLEAN /\ last \in BOOLEAN /\ capped \in BOOLEAN /\ poisoned \in BOOLEAN
        /\ result \in {"ok", "err"} /\ pager \in {"none", "running", "exited"}
    BY DEF Init
  <2>6. QED
    BY <2>1, <2>2, <2>3, <2>4, <2>5 DEF Init, TypeOK
<1>2. AccountInv
  BY DEF Init, StreamInit, AccountInv
<1>3. EmitInv
  BY TotalOfNothing DEF Init, StreamInit, EmitInv, TakenIsWritten
<1>4. QED
  BY <1>1, <1>2, <1>3 DEF WrittenInv

(* The main thread moves no line.                                          *)
LEMMA MainMovesNoLine ==
  ASSUME SessionInv, WrittenInv, MainStep
  PROVE  WrittenInv'
<1> USE SourcesInOrder DEF Goto, Abort, processVars, emitVars, streamVars
<1>1. /\ UNCHANGED <<produced, pipe, last, batch, written, capped, poisoned, streamVars>>
      /\ stop' = stop \/ stop' = TRUE
      /\ pager' = pager \/ pager' \in {"running", "exited"}
  BY DEF MainStep, StartSource, SourcesTried, MakeSink, SpawnPager, ReopenSink, Launch,
         PagerReturns, Kill, AllKilled, Reap, SetStop, Join, Return
<1>2. turn' \in 1..(N + 2)
  <2>1. turn' = 1 \/ (turn' = turn + 1 /\ turn <= N + 1)
    BY DEF MainStep, StartSource, SourcesTried, MakeSink, SpawnPager, ReopenSink, Launch,
           PagerReturns, Kill, AllKilled, Reap, SetStop, Join, Return
  <2>2. QED
    BY <2>1 DEF WrittenInv, TypeOK
<1>3. TypeOK'
  <2>1. SessionInv'
    BY SessionMain
  <2>2. QED
    BY <1>1, <1>2, <2>1
    DEF WrittenInv, TypeOK, StreamTypeOK, SessionInv, LoopInv, ResultInv
<1>4. CASE Launch
  <2>1. /\ emitter = "none" /\ emitter' = "polling" /\ UNCHANGED <<producer, stop>>
        /\ reader' = [s \in Source |-> IF s \in Started THEN "reading" ELSE "none"]
    BY <1>4 DEF Launch, SessionInv, LoopInv, BeforeLaunch
  <2>2. AccountInv'
    BY <1>1, <2>1 DEF WrittenInv, AccountInv, Started
  <2>3. EmitInv'
    BY <1>1, <2>1 DEF WrittenInv, EmitInv, TakenIsWritten
  <2>4. QED
    BY <1>3, <2>2, <2>3 DEF WrittenInv
<1>5. CASE ~Launch
  <2>1. UNCHANGED <<reader, emitter>>
    BY <1>5 DEF MainStep, StartSource, SourcesTried, MakeSink, SpawnPager, ReopenSink,
                PagerReturns, Kill, AllKilled, Reap, SetStop, Join, Return
  <2>2. \/ UNCHANGED producer
        \/ emitter = "none" /\ \E s \in Source : producer' = [producer EXCEPT ![s] = "running"]
        \/ \E s \in Source : producer' = [producer EXCEPT ![s] = IF @ = "running" THEN "killed" ELSE @]
        \/ \E s \in Source : producer[s] \in {"none", "exited"} /\
             producer' = [producer EXCEPT ![s] = IF @ = "none" THEN @ ELSE "reaped"]
    BY <1>5 DEF MainStep, StartSource, SourcesTried, MakeSink, SpawnPager, ReopenSink,
                PagerReturns, Kill, AllKilled, Reap, SetStop, Join, Return,
                SessionInv, LoopInv, BeforeLaunch
  <2>3. AccountInv'
    BY <1>1, <2>1, <2>2 DEF WrittenInv, AccountInv, Closed, TypeOK
  <2>4. EmitInv'
    <3>1. CASE emitter = "none"
      BY <1>1, <2>1, <3>1 DEF WrittenInv, EmitInv, TakenIsWritten
    <3>2. CASE emitter # "none"
      <4>1. Started' = Started
        BY <2>2, <3>2 DEF Started, WrittenInv, TypeOK
      <4>2. AllFinished => AllFinished'
        BY <1>1, <4>1 DEF AllFinished
      <4>3. QED
        BY <1>1, <2>1, <4>2 DEF WrittenInv, EmitInv, TakenIsWritten
    <3>3. QED
      BY <3>1, <3>2
  <2>5. QED
    BY <1>3, <2>3, <2>4 DEF WrittenInv
<1>6. QED
  BY <1>4, <1>5

(* A reader takes a line out of the pipe and into the merger, or loses it  *)
(* and ends (logs.rs, spawn_reader).                                       *)
LEMMA ReaderMovesOneLine ==
  ASSUME SessionInv, WrittenInv, NEW s \in Source, ReaderStep(s) \/ ReaderPanics(s)
  PROVE  WrittenInv'
<1> USE SourcesInOrder DEF mainVars, processVars, emitVars, streamVars
<1>1. /\ UNCHANGED <<mainVars, producer, produced, pager, emitVars, handed>>
      /\ emitter # "none"
      /\ reader[s] \in {"reading", "pushing", "at_end", "failing"}
      /\ \E next \in Reader \ {"none"} : reader' = [reader EXCEPT ![s] = next]
  <2>1. reader[s] \in {"reading", "pushing", "at_end", "failing"}
    BY DEF ReaderStep, ReadLine, PoisonedReader, PushLine, RecordEof, ReaderPanics, Locked
  <2>2. UNCHANGED <<mainVars, producer, produced, pager, emitVars, handed>>
    BY DEF ReaderStep, ReadLine, PoisonedReader, PushLine, RecordEof, ReaderPanics,
           Deliver, FinishSource
  <2>3. \E next \in Reader \ {"none"} : reader' = [reader EXCEPT ![s] = next]
    BY DEF ReaderStep, ReadLine, PoisonedReader, PushLine, RecordEof, ReaderPanics,
           Reader, Ended
  <2>4. QED
    BY <2>1, <2>2, <2>3 DEF WrittenInv, AccountInv
<1>2. /\ fed \in [Source -> Nat] /\ handed \in [Source -> Nat]
      /\ finished \in [Source -> BOOLEAN] /\ pipe \in [Source -> 0..PIPE] /\ PIPE \in Nat
      /\ produced \in [Source -> 0..MAX_LINES] /\ reader \in [Source -> Reader]
      /\ producer[s] # "none"
  BY <1>1, SessionAssumption DEF WrittenInv, TypeOK, StreamTypeOK, AccountInv
<1>3. poisoned' \in BOOLEAN
  BY DEF ReaderStep, ReadLine, PoisonedReader, PushLine, RecordEof, ReaderPanics,
         WrittenInv, TypeOK
<1>4. CASE ReadLine(s)
  <2>1. \/ /\ pipe[s] > 0 /\ pipe' = [pipe EXCEPT ![s] = @ - 1]
           /\ reader[s] = "reading" /\ reader'[s] \in {"pushing", "failing"}
        \/ /\ pipe[s] = 0 /\ Closed(s) /\ reader[s] = "reading"
           /\ reader'[s] = "at_end" /\ pipe' = pipe
    BY <1>2, <1>4 DEF ReadLine
  <2>2. UNCHANGED <<fed, finished>>
    BY <1>4 DEF ReadLine
  <2>3. pipe' \in [Source -> 0..PIPE] /\ \A t \in Source : t # s => pipe'[t] = pipe[t]
    BY <1>2, <2>1
  <2>4. \/ pipe[s] > 0 /\ pipe'[s] = pipe[s] - 1
        \/ pipe[s] = 0 /\ pipe'[s] = 0 /\ Closed(s) /\ reader'[s] = "at_end"
    BY <1>2, <2>1
  <2>5. reader[s] = "reading" /\ reader'[s] \in {"pushing", "failing", "at_end"}
    BY <2>1
  <2>6. reader' \in [Source -> Reader] /\ \A t \in Source : t # s => reader'[t] = reader[t]
    BY <1>1, <1>2
  <2>7. TypeOK'
    BY <1>1, <1>3, <2>2, <2>3, <2>6 DEF WrittenInv, TypeOK, StreamTypeOK
  <2>8. AccountInv'
    <3>1. pipe[s] \in Nat /\ fed[s] \in Nat /\ produced[s] = fed[s] + pipe[s]
      BY <1>2, <2>5 DEF WrittenInv, AccountInv
    <3>2. /\ reader'[s] \in {"at_end", "ok"} => Closed(s) /\ pipe'[s] = 0
          /\ reader'[s] \notin {"failing", "err", "panicked"} =>
               produced[s] = fed[s] + pipe'[s] + (IF reader'[s] = "pushing" THEN 1 ELSE 0)
      <4>1. CASE pipe[s] > 0 /\ pipe'[s] = pipe[s] - 1 /\ reader'[s] \in {"pushing", "failing"}
        BY <3>1, <4>1
      <4>2. CASE pipe[s] = 0 /\ pipe'[s] = 0 /\ Closed(s) /\ reader'[s] = "at_end"
        BY <3>1, <4>2
      <4>3. QED
        BY <1>2, <2>1, <4>1, <4>2
    <3>3. QED
      BY <1>1, <1>2, <2>2, <2>3, <2>6, <3>2 DEF WrittenInv, AccountInv, Closed
  <2>9. EmitInv'
    BY <1>1, <2>2 DEF WrittenInv, EmitInv, TakenIsWritten, AllFinished, Started
  <2>10. QED
    BY <2>7, <2>8, <2>9 DEF WrittenInv
<1>5. CASE PoisonedReader(s) \/ ReaderPanics(s)
  <2>1. reader' = [reader EXCEPT ![s] = "panicked"] /\ UNCHANGED <<pipe, fed, finished>>
    BY <1>5 DEF PoisonedReader, ReaderPanics
  <2>2. TypeOK'
    BY <1>1, <1>2, <1>3, <2>1 DEF WrittenInv, TypeOK, StreamTypeOK, Reader, Ended
  <2>3. AccountInv'
    BY <1>1, <1>2, <2>1 DEF WrittenInv, AccountInv, Closed
  <2>4. EmitInv'
    BY <1>1, <2>1 DEF WrittenInv, EmitInv, TakenIsWritten, AllFinished, Started
  <2>5. QED
    BY <2>2, <2>3, <2>4 DEF WrittenInv
<1>6. CASE PushLine(s)
  <2>1. /\ reader[s] = "pushing" /\ reader' = [reader EXCEPT ![s] = "reading"]
        /\ fed' = [fed EXCEPT ![s] = @ + 1]
    BY <1>6 DEF PushLine, Deliver
  <2>2. UNCHANGED <<pipe, finished>> /\ ~finished[s]
    BY <1>6 DEF PushLine, Deliver
  <2>3. TypeOK'
    BY <1>1, <1>2, <1>3, <2>1, <2>2 DEF WrittenInv, TypeOK, StreamTypeOK, Reader
  <2>4. AccountInv'
    BY <1>1, <1>2, <2>1, <2>2 DEF WrittenInv, AccountInv, Closed
  <2>5. ~AllFinished /\ ~AllFinished'
    BY <1>1, <1>2, <2>2 DEF AllFinished, Started
  <2>6. \A t \in Source : handed'[t] <= fed'[t]
    <3>1. \A t \in Source : handed[t] <= fed[t]
      BY DEF WrittenInv, EmitInv
    <3>2. QED
      BY <1>1, <1>2, <2>1, <3>1
  <2>7. EmitInv'
    BY <1>1, <2>5, <2>6 DEF WrittenInv, EmitInv, TakenIsWritten
  <2>8. QED
    BY <2>3, <2>4, <2>7 DEF WrittenInv
<1>7. CASE RecordEof(s)
  <2>1. /\ UNCHANGED <<pipe, fed>> /\ finished' = [finished EXCEPT ![s] = TRUE]
        /\ \/ reader[s] = "at_end" /\ reader'[s] = "ok"
           \/ reader'[s] = "err"
    BY <1>2, <1>7 DEF RecordEof, FinishSource
  <2>2. TypeOK'
    BY <1>1, <1>2, <1>3, <2>1 DEF WrittenInv, TypeOK, StreamTypeOK
  <2>3. AccountInv'
    BY <1>1, <1>2, <2>1 DEF WrittenInv, AccountInv, Closed
  <2>4. AllFinished => AllFinished'
    BY <1>1, <1>2, <2>1 DEF AllFinished, Started
  <2>5. EmitInv'
    BY <1>1, <2>1, <2>4 DEF WrittenInv, EmitInv, TakenIsWritten
  <2>6. QED
    BY <2>2, <2>3, <2>5 DEF WrittenInv
<1>8. QED
  BY <1>4, <1>5, <1>6, <1>7 DEF ReaderStep

(* The emitter takes what the merger gives up and writes it (logs.rs,      *)
(* emit_loop and emit_records).                                            *)
LEMMA EmitterMovesBatches ==
  ASSUME SessionInv, WrittenInv, EmitterStep \/ EmitterPanics
  PROVE  WrittenInv'
<1> USE DEF mainVars, processVars, emitVars, streamVars
<1>1. /\ UNCHANGED <<mainVars, processVars, reader, fed, finished>>
      /\ emitter \in {"polling", "locking", "writing"}
      /\ emitter' \in Emitter \ {"none"}
  BY DEF EmitterStep, Poll, TakeBatch, PoisonedEmitter, WriteLine, WriteFails, BatchWritten,
         EmitterPanics, HandOut, Emitter, Ended
<1>2. /\ fed \in [Source -> Nat] /\ handed \in [Source -> Nat] /\ batch \in Nat
      /\ written \in 0..MAX_BUFFER /\ MAX_BUFFER \in Nat
      /\ \A s \in Source : handed[s] <= fed[s]
      /\ last \in BOOLEAN /\ stop \in BOOLEAN /\ capped \in BOOLEAN /\ poisoned \in BOOLEAN
  BY SessionAssumption DEF WrittenInv, TypeOK, StreamTypeOK, EmitInv
<1>3. AccountInv'
  BY <1>1 DEF WrittenInv, AccountInv, Closed
<1>4. Started' = Started /\ (AllFinished <=> AllFinished')
  BY <1>1 DEF Started, AllFinished
<1>5. SUFFICES TypeOK' /\ EmitInv'
  BY <1>3 DEF WrittenInv
<1>6. CASE TakeBatch
  <2>1. /\ emitter = "locking" /\ emitter' = "writing" /\ UNCHANGED <<written, capped, poisoned>>
        /\ last \/ AllFinished => handed' = fed
        /\ batch' = Total(handed') - Total(handed)
        /\ last' = (last \/ (AllFinished /\ handed' = fed))
        /\ \A s \in Source : handed[s] <= handed'[s] /\ handed'[s] <= fed[s]
    BY <1>6 DEF TakeBatch, HandOut
  <2>2. handed' \in [Source -> Nat]
    <3>1. handed' \in [Source -> UNION {0..fed[s] : s \in Source}]
      BY <1>6 DEF TakeBatch, HandOut
    <3>2. UNION {0..fed[s] : s \in Source} \subseteq Nat
      BY <1>2
    <3>3. QED
      BY <3>1, <3>2
  <2>3. Total(handed) \in Nat /\ Total(handed') \in Nat /\ Total(handed) <= Total(handed')
    BY <1>2, <2>1, <2>2, TotalGrows
  <2>4. batch' \in Nat /\ batch' = Total(handed') - Total(handed)
    BY <2>1, <2>3
  <2>5. batch = 0 /\ (~capped => written = Total(handed))
    BY <1>2, <2>1, <2>3 DEF WrittenInv, EmitInv, TakenIsWritten
  <2>6. TakenIsWritten'
    BY <1>2, <2>1, <2>3, <2>4, <2>5 DEF TakenIsWritten
  <2>7. last' /\ ~stop => AllFinished /\ handed' = fed
    BY <1>2, <2>1 DEF WrittenInv, EmitInv
  <2>8. TypeOK'
    BY <1>1, <1>2, <2>1, <2>2, <2>4 DEF WrittenInv, TypeOK, StreamTypeOK
  <2>9. EmitInv'
    BY <1>1, <1>4, <2>1, <2>6, <2>7 DEF EmitInv
  <2>10. QED
    BY <2>8, <2>9
<1>7. CASE Poll
  <2>1. /\ emitter = "polling" /\ emitter' = "locking" /\ last' = stop
        /\ UNCHANGED <<handed, batch, written, capped, poisoned>>
    BY <1>7 DEF Poll
  <2>2. TypeOK'
    BY <1>1, <1>2, <2>1 DEF WrittenInv, TypeOK, StreamTypeOK
  <2>3. EmitInv'
    BY <1>1, <1>2, <2>1 DEF WrittenInv, EmitInv, TakenIsWritten
  <2>4. QED
    BY <2>2, <2>3
<1>8. CASE WriteLine
  <2>1. /\ emitter = "writing" /\ batch > 0 /\ UNCHANGED <<last, handed, poisoned>>
        /\ \/ emitter' = "ok" /\ capped' = TRUE /\ UNCHANGED <<written, batch>>
           \/ /\ ~(written + 1 > MAX_BUFFER) /\ written' = written + 1 /\ batch' = batch - 1
              /\ UNCHANGED <<emitter, capped>>
    BY <1>8 DEF WriteLine
  <2>2. written' \in 0..MAX_BUFFER /\ batch' \in Nat /\ capped' \in BOOLEAN
    <3>1. capped' \in BOOLEAN
      BY <1>2, <2>1
    <3>2. \/ written' = written /\ batch' = batch
          \/ written + 1 <= MAX_BUFFER /\ written' = written + 1 /\ batch' = batch - 1
      BY <1>2, <1>8 DEF WriteLine
    <3>3. written' \in 0..MAX_BUFFER /\ batch' \in Nat
      BY <1>2, <1>8, <3>2 DEF WriteLine
    <3>4. QED
      BY <3>1, <3>3
  <2>3. TypeOK'
    BY <1>1, <2>1, <2>2 DEF WrittenInv, TypeOK, StreamTypeOK
  <2>4. EmitInv'
    BY <1>1, <1>2, <1>4, <2>1 DEF WrittenInv, EmitInv, TakenIsWritten
  <2>5. QED
    BY <2>3, <2>4
<1>9. CASE PoisonedEmitter \/ WriteFails \/ BatchWritten \/ EmitterPanics
  <2>1. /\ UNCHANGED <<last, handed, batch, written, capped>>
        /\ poisoned' \in BOOLEAN
        /\ \/ emitter' \in {"panicked", "err"}
           \/ emitter = "writing" /\ batch = 0 /\ emitter' = IF last THEN "ok" ELSE "polling"
    BY <1>2, <1>9 DEF PoisonedEmitter, WriteFails, BatchWritten, EmitterPanics
  <2>2. TypeOK'
    BY <1>1, <1>2, <2>1 DEF WrittenInv, TypeOK, StreamTypeOK
  <2>3. EmitInv'
    BY <1>1, <1>2, <1>4, <2>1 DEF WrittenInv, EmitInv, TakenIsWritten
  <2>4. QED
    BY <2>2, <2>3
<1>10. QED
  BY <1>6, <1>7, <1>8, <1>9 DEF EmitterStep

(* A producer puts a line into its pipe, or is gone.                       *)
LEMMA ProducerAddsOneLine ==
  ASSUME WrittenInv, NEW s \in Source, ProducerWrites(s) \/ ProducerExits(s)
  PROVE  WrittenInv'
<1> USE DEF mainVars, emitVars, streamVars
<1>1. /\ UNCHANGED <<mainVars, pager, reader, emitVars, poisoned, streamVars>>
      /\ producer[s] \in {"running", "killed"}
      /\ \/ producer' = [producer EXCEPT ![s] = "exited"] /\ UNCHANGED <<produced, pipe>>
         \/ /\ producer[s] = "running" /\ reader[s] \notin Ended
            /\ produced[s] < MAX_LINES /\ pipe[s] < PIPE
            /\ pipe' = [pipe EXCEPT ![s] = @ + 1]
            /\ produced' = [produced EXCEPT ![s] = @ + 1]
            /\ UNCHANGED producer
  BY DEF ProducerWrites, ProducerExits
<1>2. /\ fed \in [Source -> Nat] /\ pipe \in [Source -> 0..PIPE]
      /\ produced \in [Source -> 0..MAX_LINES] /\ producer \in [Source -> Producer]
      /\ PIPE \in Nat /\ MAX_LINES \in Nat
  BY SessionAssumption DEF WrittenInv, TypeOK, StreamTypeOK
<1>3. /\ produced' \in [Source -> 0..MAX_LINES] /\ pipe' \in [Source -> 0..PIPE]
      /\ producer' \in [Source -> Producer]
  BY <1>1, <1>2 DEF Producer
<1>4. TypeOK'
  BY <1>1, <1>3 DEF WrittenInv, TypeOK, StreamTypeOK
<1>5. AccountInv'
  BY <1>1, <1>2 DEF WrittenInv, AccountInv, Closed
<1>6. EmitInv'
  <2>1. Started' = Started
    BY <1>1, <1>2 DEF Started
  <2>2. AllFinished' <=> AllFinished
    BY <1>1, <2>1 DEF AllFinished
  <2>3. QED
    BY <1>1, <2>2 DEF WrittenInv, EmitInv, TakenIsWritten
<1>7. QED
  BY <1>4, <1>5, <1>6 DEF WrittenInv

(* What the merger gave up is written or about to be, up to the cap, and a *)
(* session whose sources ended by themselves is shown to its end.          *)
THEOREM NothingIsLostOnTheWay == Spec => []EverythingIsWritten
<1>1. Init => WrittenInv
  BY WrittenInit
<1>2. ASSUME SessionInv, WrittenInv, [Next]_vars PROVE WrittenInv'
  <2>1. ASSUME NEW s \in Source, ReaderStep(s) \/ ReaderPanics(s)
        PROVE  WrittenInv'
    BY <1>2, <2>1, ReaderMovesOneLine
  <2>2. ASSUME NEW s \in Source, ProducerWrites(s) \/ ProducerExits(s)
        PROVE  WrittenInv'
    BY <1>2, <2>2, ProducerAddsOneLine
  <2>3. CASE PagerExits \/ UNCHANGED vars
    <3>1. /\ UNCHANGED <<main, turn, result, stop, producer, produced, pipe, reader, emitter, last,
                         batch, written, capped, poisoned, fed, handed, finished>>
          /\ pager' \in {pager, "exited"}
      BY <2>3 DEF PagerExits, vars, mainVars, processVars, emitVars, streamVars
    <3>2. TypeOK'
      BY <1>2, <3>1 DEF WrittenInv, TypeOK, StreamTypeOK
    <3>3. AccountInv' /\ EmitInv'
      BY <1>2, <3>1 DEF WrittenInv, AccountInv, Closed, EmitInv, TakenIsWritten, AllFinished, Started
    <3>4. QED
      BY <3>2, <3>3 DEF WrittenInv
  <2>4. QED
    BY <1>2, <2>1, <2>2, <2>3, MainMovesNoLine, EmitterMovesBatches DEF Next
<1>3. ASSUME WrittenInv PROVE EverythingIsWritten
  <2>1. NaturalEndIsComplete
    <3>1. SUFFICES ASSUME emitter = "ok", ~capped, ~stop
                   PROVE  /\ written = Total(fed)
                          /\ \A s \in Started : reader[s] = "ok" => fed[s] = produced[s]
      BY DEF NaturalEndIsComplete
    <3>2. handed = fed /\ batch = 0 /\ written \in Nat /\ written + batch = Total(handed)
      BY <1>3, <3>1, SessionAssumption DEF WrittenInv, EmitInv, TakenIsWritten, TypeOK
    <3>3. \A s \in Source : reader[s] = "ok" => fed[s] = produced[s]
      BY <1>3 DEF WrittenInv, AccountInv, TypeOK, StreamTypeOK
    <3>4. QED
      BY <3>2, <3>3 DEF Started
  <2>2. QED
    BY <1>3, <2>1 DEF WrittenInv, EmitInv, EverythingIsWritten
<1>4. QED
  BY <1>1, <1>2, <1>3, SessionInvariant, PTL DEF Spec

=============================================================================
