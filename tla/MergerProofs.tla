---------------------------- MODULE MergerProofs ----------------------------
(***************************************************************************)
(* Theorems about Merger, for every number of sources, window, session     *)
(* start and set of stamps, and about the skew watch in it and in          *)
(* SkewClocks, for every zone step, tolerance, clock and delay.            *)
(***************************************************************************)
EXTENDS Merger, SkewClocks, SequenceTheorems, WellFoundedInduction, TLAPS

(* The types the invariants rest on; a builder holds open at most one      *)
(* record, and none before its source's first stamp.                       *)
CoreTypeOK ==
  /\ MergeTypeOK
  /\ HistoryTypeOK
  /\ \A s \in Source :
       /\ Len(builders[s].pending) <= 1
       /\ builders[s].last = None => builders[s].pending = <<>>

-----------------------------------------------------------------------------
(* RecordBuilder *)

(* resolve returns a time, and never one before the last time seen. *)
LEMMA ResolveIsTime ==
  ASSUME NEW last \in Int \cup {None}, NEW stamp \in Stamp
  PROVE  /\ Resolve(last, stamp) \in Int
         /\ last # None => last <= Resolve(last, stamp)
<1>1. CASE stamp.kind = "absolute"
  <2>1. stamp.at \in Int
    BY BuilderAssumption DEF Stamp
  <2>2. QED
    BY <1>1, <2>1 DEF Resolve
<1>2. CASE stamp.kind # "absolute"
  <2>1. stamp.at \in 0..(DAY - 1)
    BY <1>2 DEF Stamp
  <2>2. Dated(last, stamp.at) \in Int
    BY <2>1, BuilderAssumption DEF Dated, UndatedTime
  <2>3. QED
    BY <1>2, <2>2 DEF Resolve
<1>3. QED
  BY <1>1, <1>2

(* A source's first stamp is dated no earlier than the session's start,    *)
(* when no absolute stamp is.                                              *)
LEMMA FirstTimeAfterStart ==
  ASSUME NEW stamp \in Stamps, StartsBeforeStamps
  PROVE  SESSION_START <= Resolve(None, stamp)
<1>1. stamp \in Stamp
  BY MergerAssumption
<1>2. CASE stamp.kind = "absolute"
  BY <1>2 DEF StartsBeforeStamps, Resolve
<1>3. CASE stamp.kind # "absolute"
  <2>1. stamp.at \in 0..(DAY - 1)
    BY <1>1, <1>3 DEF Stamp
  <2> DEFINE day == SESSION_START \div DAY
  <2>2. day \in Int /\ SESSION_START < day * DAY + DAY
    BY BuilderAssumption, Z3
  <2>3. day * DAY \in Int
    BY <2>2, BuilderAssumption
  <2>4. SESSION_START <= Dated(None, stamp.at)
    BY <2>1, <2>2, <2>3, BuilderAssumption DEF Dated, UndatedTime
  <2>5. QED
    BY <1>3, <2>4 DEF Resolve
<1>4. QED
  BY <1>2, <1>3

(* push_line, by the four things it can do to a builder. *)
LEMMA PushedCases ==
  ASSUME NEW b \in Builder, NEW n \in Nat, NEW line \in Line,
         Len(b.pending) <= 1, b.last = None => b.pending = <<>>
  PROVE  LET p == Pushed(b, n, line)
         IN \/ /\ line \in Stamps
               /\ p.stampedAt = Resolve(b.last, line)
               /\ p.builder = [last    |-> Resolve(b.last, line),
                               pending |-> <<OneLine(Resolve(b.last, line), n)>>]
               /\ p.completed = b.pending
            \/ /\ p.stampedAt = None
               /\ b.last # None
               /\ b.pending # <<>>
               /\ p.builder = [last    |-> b.last,
                               pending |-> <<[b.pending[1] EXCEPT !.last = n]>>]
               /\ p.completed = <<>>
            \/ /\ p.stampedAt = None
               /\ b.last = None
               /\ b.pending = <<>>
               /\ p.builder = b
               /\ p.completed = <<OneLine(SESSION_START, n)>>
            \/ /\ p.stampedAt = None
               /\ b.last # None
               /\ b.pending = <<>>
               /\ p.builder = [last    |-> b.last,
                               pending |-> <<OneLine(b.last, n)>>]
               /\ p.completed = <<>>
<1>1. b = [last |-> b.last, pending |-> b.pending]
  BY DEF Builder
<1>2. CASE line # None
  BY <1>2 DEF Pushed, Line
<1>3. CASE line = None /\ b.pending # <<>>
  BY <1>1, <1>3 DEF Pushed
<1>4. CASE line = None /\ b.pending = <<>> /\ b.last = None
  BY <1>1, <1>4 DEF Pushed, UndatedTime
<1>5. CASE line = None /\ b.pending = <<>> /\ b.last # None
  BY <1>1, <1>5 DEF Pushed, UndatedTime
<1>6. QED
  BY <1>2, <1>3, <1>4, <1>5

LEMMA PushedTypes ==
  ASSUME NEW b \in Builder, NEW n \in Nat, NEW line \in Line,
         Len(b.pending) <= 1, b.last = None => b.pending = <<>>
  PROVE  LET p == Pushed(b, n, line)
         IN /\ p.builder \in Builder
            /\ p.completed \in Seq(Record)
            /\ Len(p.builder.pending) <= 1
            /\ p.builder.last = None <=> p.builder.pending = <<>>
<1> DEFINE p == Pushed(b, n, line)
<1>1. b.pending \in Seq(Record) /\ b.last \in Int \cup {None}
  BY DEF Builder
<1>2. \A time \in Int : OneLine(time, n) \in Record
  BY DEF OneLine, Record
<1>3. \A r \in Record : <<r>> \in Seq(Record) /\ Len(<<r>>) = 1 /\ <<r>> # <<>>
  OBVIOUS
<1>4. CASE /\ line \in Stamps
           /\ p.builder = [last    |-> Resolve(b.last, line),
                           pending |-> <<OneLine(Resolve(b.last, line), n)>>]
           /\ p.completed = b.pending
  <2>1. Resolve(b.last, line) \in Int
    BY <1>1, <1>4, ResolveIsTime, MergerAssumption
  <2>2. QED
    BY <1>1, <1>2, <1>3, <1>4, <2>1, SourcesAssumption DEF Builder
<1>5. CASE /\ b.last # None
           /\ b.pending # <<>>
           /\ p.builder = [last    |-> b.last,
                           pending |-> <<[b.pending[1] EXCEPT !.last = n]>>]
           /\ p.completed = <<>>
  <2>1. b.pending[1] \in Record
    BY <1>1, <1>5
  <2>2. [b.pending[1] EXCEPT !.last = n] \in Record
    BY <2>1 DEF Record
  <2>3. QED
    BY <1>1, <1>3, <1>5, <2>2 DEF Builder
<1>6. CASE /\ b.last = None
           /\ p.builder = b
           /\ p.completed = <<OneLine(SESSION_START, n)>>
  BY <1>2, <1>3, <1>6, BuilderAssumption
<1>7. CASE /\ b.last # None
           /\ p.builder = [last |-> b.last, pending |-> <<OneLine(b.last, n)>>]
           /\ p.completed = <<>>
  BY <1>1, <1>2, <1>3, <1>7 DEF Builder
<1>8. QED
  BY <1>4, <1>5, <1>6, <1>7, PushedCases

-----------------------------------------------------------------------------
(* What the steps do to the records a source holds. *)

(* One record is added at the end. *)
Appended(H, G, r) ==
  /\ Len(G) = Len(H) + 1
  /\ \A k \in 1..Len(H) : G[k] = H[k]
  /\ G[Len(H) + 1] = r

(* The last record is given one more line. *)
Extended(H, G, n) ==
  /\ Len(H) > 0
  /\ Len(G) = Len(H)
  /\ \A k \in 1..(Len(H) - 1) : G[k] = H[k]
  /\ G[Len(H)] = [H[Len(H)] EXCEPT !.last = n]

(* The first record is taken. *)
Removed(H, G) ==
  /\ Len(H) > 0
  /\ Len(G) = Len(H) - 1
  /\ \A k \in 1..Len(G) : G[k] = H[k + 1]

LEMMA HeldIsSeq ==
  ASSUME CoreTypeOK, NEW s \in Source
  PROVE  /\ Held(s) \in Seq(Record)
         /\ queues[s] \in Seq(Record)
         /\ builders[s] \in Builder
         /\ builders[s].pending \in Seq(Record)
         /\ builders[s].last \in Int \cup {None}
BY DEF CoreTypeOK, MergeTypeOK, Held, Builder

(* Queueing an open record changes what is queued, not what is held. *)
LEMMA FinishKeepsHeld ==
  ASSUME CoreTypeOK, NEW S, Finish(S)
  PROVE  /\ builders' \in [Source -> Builder]
         /\ queues' \in [Source -> Seq(Record)]
         /\ \A s \in Source :
              /\ Held(s)' = Held(s)
              /\ builders'[s].last = builders[s].last
              /\ Len(builders'[s].pending) <= 1
              /\ builders'[s].last = None => builders'[s].pending = <<>>
<1>1. ASSUME NEW s \in Source
      PROVE  /\ Finished(builders[s]) = [last |-> builders[s].last, pending |-> <<>>]
             /\ Finished(builders[s]) \in Builder
  <2> DEFINE b == builders[s]
  <2>1. b \in Builder
    BY HeldIsSeq
  <2>2. b.last \in Int \cup {None} /\ <<>> \in Seq(Record)
    BY <2>1 DEF Builder
  <2>3. b = [last |-> b.last, pending |-> b.pending]
    BY <2>1 DEF Builder
  <2> HIDE DEF b
  <2>4. [b EXCEPT !.pending = <<>>] = [last |-> b.last, pending |-> <<>>]
    BY <2>3
  <2>5. QED
    BY <2>2, <2>4 DEF Finished, Builder, b
<1>2. builders' \in [Source -> Builder] /\ queues' \in [Source -> Seq(Record)]
  BY <1>1, HeldIsSeq DEF Finish
<1>3. ASSUME NEW s \in Source
      PROVE  /\ Held(s)' = Held(s)
             /\ builders'[s].last = builders[s].last
             /\ Len(builders'[s].pending) <= 1
             /\ builders'[s].last = None => builders'[s].pending = <<>>
  <2>1. CASE s \in S
    <3>1. builders'[s] = Finished(builders[s]) /\ queues'[s] = Held(s)
      BY <2>1 DEF Finish
    <3>2. builders'[s] = [last |-> builders[s].last, pending |-> <<>>]
      BY <1>1, <3>1
    <3>3a. builders'[s].pending = <<>> /\ builders'[s].last = builders[s].last
      BY <3>2
    <3>3. Held(s)' = queues'[s] \o builders'[s].pending
      BY DEF Held
    <3>4. Held(s) \o <<>> = Held(s)
      BY HeldIsSeq, ConcatEmptySeq
    <3>5. Held(s)' = Held(s)
      BY <3>1, <3>3a, <3>3, <3>4
    <3>6. Len(<<>>) <= 1
      OBVIOUS
    <3>7. QED
      BY <3>3a, <3>5, <3>6
  <2>2. CASE s \notin S
    <3>1. builders'[s] = builders[s] /\ queues'[s] = queues[s]
      BY <2>2 DEF Finish
    <3>2. Held(s)' = Held(s)
      BY <3>1 DEF Held
    <3>3. /\ Len(builders[s].pending) <= 1
          /\ builders[s].last = None => builders[s].pending = <<>>
      BY DEF CoreTypeOK
    <3>4. QED
      BY <3>1, <3>2, <3>3
  <2>3. QED
    BY <2>1, <2>2
<1>4. QED
  BY <1>2, <1>3

(* Dropping the head of the first of two sequences drops the head of both. *)
LEMMA TailOfConcat ==
  ASSUME NEW S, NEW q \in Seq(S), NEW p \in Seq(S), q # <<>>
  PROVE  Removed(q \o p, Tail(q) \o p) /\ (q \o p)[1] = Head(q)
<1> DEFINE t == Tail(q)
<1>1. /\ t \in Seq(S)
      /\ Len(t) = Len(q) - 1
      /\ \A k \in 1..Len(t) : t[k] = q[k + 1]
  BY HeadTailProperties
<1>2. Len(q) \in Nat /\ Len(q) > 0 /\ Len(p) \in Nat
  BY EmptySeq
<1>3. Head(q) = q[1]
  OBVIOUS
<1>4. /\ Len(q \o p) = Len(q) + Len(p)
      /\ \A k \in 1..(Len(q) + Len(p)) :
           (q \o p)[k] = IF k <= Len(q) THEN q[k] ELSE p[k - Len(q)]
  BY ConcatProperties
<1> HIDE DEF t
<1>5. /\ Len(t \o p) = Len(t) + Len(p)
      /\ \A k \in 1..(Len(t) + Len(p)) :
           (t \o p)[k] = IF k <= Len(t) THEN t[k] ELSE p[k - Len(t)]
  BY <1>1, ConcatProperties
<1> DEFINE G == t \o p
           H == q \o p
<1> HIDE DEF G, H
<1>6. ASSUME NEW k \in 1..Len(G) PROVE G[k] = H[k + 1]
  BY <1>1, <1>2, <1>4, <1>5, <1>6 DEF G, H
<1>7. Removed(H, G) /\ H[1] = Head(q)
  BY <1>1, <1>2, <1>3, <1>4, <1>5, <1>6 DEF Removed, G, H
<1>8. QED
  BY <1>7 DEF G, H, t

(* take pops the earliest record its source holds. *)
LEMMA TakeRemovesHead ==
  ASSUME CoreTypeOK, NEW s \in Source, NEW waited, queues[s] # <<>>, Take(s, waited)
  PROVE  /\ queues' \in [Source -> Seq(Record)]
         /\ Head(queues[s]) = Held(s)[1]
         /\ Head(queues[s]) \in Record
         /\ Removed(Held(s), Held(s)')
         /\ \A t \in Source \ {s} : Held(t)' = Held(t)
<1> DEFINE q == queues[s]
           p == builders[s].pending
<1>1. q \in Seq(Record) /\ p \in Seq(Record)
  BY HeldIsSeq
<1>2. Head(q) \in Record /\ Tail(q) \in Seq(Record)
  BY <1>1, HeadTailProperties
<1>3. queues' = [queues EXCEPT ![s] = Tail(@)] /\ builders' = builders
  BY DEF Take
<1>4. queues' \in [Source -> Seq(Record)]
  BY <1>2, <1>3 DEF CoreTypeOK, MergeTypeOK
<1>5. Held(s) = q \o p /\ Held(s)' = Tail(q) \o p
  BY <1>3 DEF Held, CoreTypeOK, MergeTypeOK
<1>6. Removed(q \o p, Tail(q) \o p) /\ (q \o p)[1] = Head(q)
  BY <1>1, TailOfConcat
<1>7. \A t \in Source \ {s} : Held(t)' = Held(t)
  BY <1>3 DEF Held, CoreTypeOK, MergeTypeOK
<1>8. QED
  BY <1>2, <1>4, <1>5, <1>6, <1>7

LEMMA ConcatOneAppends ==
  ASSUME NEW S, NEW q \in Seq(S), NEW r \in S
  PROVE  Appended(q, q \o <<r>>, r)
BY AppendProperties, AppendIsConcat DEF Appended

LEMMA ConcatOneExtends ==
  ASSUME NEW q \in Seq(Record), NEW p \in Seq(Record), p # <<>>, Len(p) <= 1,
         NEW n \in Nat
  PROVE  Extended(q \o p, q \o <<[p[1] EXCEPT !.last = n]>>, n)
<1>1. Len(p) = 1 /\ p[1] \in Record /\ Len(q) \in Nat
  <2>1. Len(p) \in Nat /\ Len(p) # 0 /\ Len(p) <= 1
    BY EmptySeq, LenProperties
  <2>2. Len(p) = 1
    <3>1. \A x \in Nat : x # 0 /\ x <= 1 => x = 1
      OBVIOUS
    <3>2. QED
      BY <2>1, <3>1, Zenon
  <2>3. p[1] \in Record
    BY <2>2, ElementOfSeq
  <2>4. QED
    BY <2>2, <2>3, LenProperties
<1> DEFINE r == [p[1] EXCEPT !.last = n]
<1>2. r \in Record
  BY <1>1 DEF Record
<1>3. <<r>> \in Seq(Record) /\ Len(<<r>>) = 1 /\ <<r>>[1] = r
  BY <1>2
<1> HIDE DEF r
<1>4. /\ Len(q \o p) = Len(q) + 1
      /\ \A k \in 1..(Len(q) + 1) :
           (q \o p)[k] = IF k <= Len(q) THEN q[k] ELSE p[k - Len(q)]
  BY <1>1, ConcatProperties
<1>5. /\ Len(q \o <<r>>) = Len(q) + 1
      /\ \A k \in 1..(Len(q) + 1) :
           (q \o <<r>>)[k] = IF k <= Len(q) THEN q[k] ELSE <<r>>[k - Len(q)]
  BY <1>3, ConcatProperties
<1>6. (q \o p)[Len(q) + 1] = p[1] /\ (q \o <<r>>)[Len(q) + 1] = r
  BY <1>1, <1>3, <1>4, <1>5
<1>7. \A k \in 1..Len(q) : (q \o <<r>>)[k] = (q \o p)[k]
  BY <1>1, <1>4, <1>5
<1>8. QED
  BY <1>1, <1>4, <1>5, <1>6, <1>7 DEF Extended, r

(* push_line closes, extends or opens a record of its own source, and      *)
(* touches no other source.                                                *)
LEMMA PushLineEffect ==
  ASSUME CoreTypeOK, NEW i \in Source, NEW line \in Line, NEW arrival,
         PushLine(i, line, arrival)
  PROVE  LET last == builders[i].last
             next == builders'[i].last
             n    == fed[i] + 1
         IN /\ \/ /\ line \in Stamps
                  /\ next = Resolve(last, line)
                  /\ next \in Int
                  /\ Appended(Held(i), Held(i)', OneLine(next, n))
               \/ /\ last # None /\ next = last
                  /\ Extended(Held(i), Held(i)', n)
               \/ /\ last = None /\ next = None
                  /\ Appended(Held(i), Held(i)', OneLine(SESSION_START, n))
               \/ /\ last # None /\ next = last
                  /\ Appended(Held(i), Held(i)', OneLine(last, n))
            /\ undated' = [undated EXCEPT ![i] = IF next = None THEN @ + 1 ELSE @]
            /\ fed' = [fed EXCEPT ![i] = n]
            /\ handed' = handed /\ passed' = passed
            /\ builders' \in [Source -> Builder]
            /\ queues' \in [Source -> Seq(Record)]
            /\ \A s \in Source :
                 /\ Len(builders'[s].pending) <= 1
                 /\ builders'[s].last = None => builders'[s].pending = <<>>
            /\ \A s \in Source \ {i} :
                 builders'[s] = builders[s] /\ Held(s)' = Held(s)
<1> DEFINE b == builders[i]
           n == fed[i] + 1
           p == Pushed(b, n, line)
           q == queues[i]
<1>1. /\ b \in Builder
      /\ Len(b.pending) <= 1
      /\ b.last = None => b.pending = <<>>
      /\ n \in Nat
      /\ q \in Seq(Record)
      /\ b.pending \in Seq(Record)
      /\ b.last \in Int \cup {None}
  BY HeldIsSeq DEF CoreTypeOK, HistoryTypeOK
<1>2. /\ p.builder \in Builder
      /\ p.completed \in Seq(Record)
      /\ Len(p.builder.pending) <= 1
      /\ p.builder.last = None => p.builder.pending = <<>>
  BY <1>1, PushedTypes
<1>3. /\ builders' = [builders EXCEPT ![i] = p.builder]
      /\ queues' = [queues EXCEPT ![i] = @ \o p.completed]
      /\ fed' = [fed EXCEPT ![i] = n]
      /\ undated' = [undated EXCEPT ![i] = IF p.builder.last = None THEN @ + 1 ELSE @]
      /\ handed' = handed /\ passed' = passed
  BY DEF PushLine
<1>4. /\ builders' \in [Source -> Builder]
      /\ queues' \in [Source -> Seq(Record)]
      /\ builders'[i] = p.builder
      /\ queues'[i] = q \o p.completed
  BY <1>1, <1>2, <1>3 DEF CoreTypeOK, MergeTypeOK
<1>5. \A s \in Source \ {i} : builders'[s] = builders[s] /\ queues'[s] = queues[s]
  BY <1>3 DEF CoreTypeOK, MergeTypeOK
<1>6. \A s \in Source \ {i} : Held(s)' = Held(s)
  BY <1>5 DEF Held
<1>7. \A s \in Source : /\ Len(builders'[s].pending) <= 1
                        /\ builders'[s].last = None => builders'[s].pending = <<>>
  <2>1. ASSUME NEW s \in Source, s # i
        PROVE  /\ Len(builders'[s].pending) <= 1
               /\ builders'[s].last = None => builders'[s].pending = <<>>
    BY <1>5, <2>1 DEF CoreTypeOK
  <2>2. QED
    BY <1>2, <1>4, <2>1
<1>8. Held(i) = q \o b.pending /\ Held(i)' = (q \o p.completed) \o p.builder.pending
  BY <1>4 DEF Held
<1>9. \/ /\ line \in Stamps
         /\ p.builder.last = Resolve(b.last, line)
         /\ p.builder.last \in Int
         /\ Appended(Held(i), Held(i)', OneLine(p.builder.last, n))
      \/ /\ b.last # None /\ p.builder.last = b.last
         /\ Extended(Held(i), Held(i)', n)
      \/ /\ b.last = None /\ p.builder.last = None
         /\ Appended(Held(i), Held(i)', OneLine(SESSION_START, n))
      \/ /\ b.last # None /\ p.builder.last = b.last
         /\ Appended(Held(i), Held(i)', OneLine(b.last, n))
  <2> HIDE DEF b, n, p, q
  <2>1. CASE /\ line \in Stamps
             /\ p.builder = [last    |-> Resolve(b.last, line),
                             pending |-> <<OneLine(Resolve(b.last, line), n)>>]
             /\ p.completed = b.pending
    <3>1. Resolve(b.last, line) \in Int
      BY <1>1, ResolveIsTime, MergerAssumption, <2>1
    <3>2. OneLine(Resolve(b.last, line), n) \in Record
      BY <1>1, <3>1 DEF OneLine, Record
    <3>3. Appended(q \o b.pending,
                   (q \o b.pending) \o <<OneLine(Resolve(b.last, line), n)>>,
                   OneLine(Resolve(b.last, line), n))
      BY <1>1, <3>2, ConcatProperties, ConcatOneAppends
    <3>4. QED
      BY <1>8, <2>1, <3>1, <3>3
  <2>2. CASE /\ b.last # None
             /\ b.pending # <<>>
             /\ p.builder = [last    |-> b.last,
                             pending |-> <<[b.pending[1] EXCEPT !.last = n]>>]
             /\ p.completed = <<>>
    <3>1. Held(i)' = q \o <<[b.pending[1] EXCEPT !.last = n]>>
      BY <1>1, <1>8, <2>2, ConcatEmptySeq
    <3>2. Extended(q \o b.pending, q \o <<[b.pending[1] EXCEPT !.last = n]>>, n)
      BY <1>1, <2>2, ConcatOneExtends
    <3>3. QED
      BY <1>8, <2>2, <3>1, <3>2
  <2>3. CASE /\ b.last = None
             /\ b.pending = <<>>
             /\ p.builder = b
             /\ p.completed = <<OneLine(SESSION_START, n)>>
    <3>1. OneLine(SESSION_START, n) \in Record
      BY <1>1, BuilderAssumption DEF OneLine, Record
    <3>2. q \o p.completed \in Seq(Record)
      BY <1>1, <1>2, ConcatProperties
    <3>3. Held(i)' = q \o p.completed /\ Held(i) = q
      BY <1>1, <1>8, <2>3, <3>2, ConcatEmptySeq
    <3>4. QED
      BY <1>1, <2>3, <3>1, <3>3, ConcatOneAppends
  <2>4. CASE /\ b.last # None
             /\ b.pending = <<>>
             /\ p.builder = [last |-> b.last, pending |-> <<OneLine(b.last, n)>>]
             /\ p.completed = <<>>
    <3>1. OneLine(b.last, n) \in Record
      BY <1>1, <2>4 DEF OneLine, Record
    <3>2. /\ Held(i)' = q \o <<OneLine(b.last, n)>>
          /\ Held(i) = q
      BY <1>1, <1>8, <2>4, ConcatEmptySeq
    <3>3. QED
      BY <1>1, <2>4, <3>1, <3>2, ConcatOneAppends
  <2>5. QED
    BY <1>1, <2>1, <2>2, <2>3, <2>4, PushedCases DEF p
<1>10. QED
  BY <1>3, <1>4, <1>5, <1>6, <1>7, <1>9

-----------------------------------------------------------------------------
(* Types *)

LEMMA CoreTypeInit == Init => CoreTypeOK
<1> SUFFICES ASSUME Init PROVE CoreTypeOK
  OBVIOUS
<1>1. <<>> \in Seq(Record) /\ Len(<<>>) <= 1
  OBVIOUS
<1>2. NewBuilder \in Builder /\ NewBuilder.pending = <<>>
  BY <1>1 DEF NewBuilder, Builder
<1>3. MergeTypeOK
  BY <1>1, <1>2, MergerAssumption DEF Init, MergeTypeOK, Phase
<1>4. HistoryTypeOK
  BY DEF Init, HistoryTypeOK
<1>5. QED
  BY <1>1, <1>2, <1>3, <1>4 DEF Init, CoreTypeOK

(* The size of a record, and so what is handed out, is a number of lines. *)
LEMMA TakeTypes ==
  ASSUME CoreTypeOK, NEW s \in Source, NEW waited, queues[s] # <<>>,
         NothingLostOrRepeated, Take(s, waited)
  PROVE  CoreTypeOK'
<1> DEFINE r == Head(queues[s])
<1>1. /\ queues' \in [Source -> Seq(Record)]
      /\ r \in Record
      /\ r = Held(s)[1]
      /\ Len(Held(s)) > 0
  BY TakeRemovesHead DEF Removed
<1>2. Len(Held(s)) \in Nat
  BY HeldIsSeq
<1>3. r.first <= r.last /\ r.first \in Nat /\ r.last \in Nat /\ r.time \in Int
  <2>1. Held(s)[1].first <= Held(s)[1].last
    BY <1>1, <1>2 DEF NothingLostOrRepeated, Consecutive
  <2>2. r.first \in Nat /\ r.last \in Nat /\ r.time \in Int
    BY <1>1 DEF Record
  <2>3. QED
    BY <1>1, <2>1, <2>2
<1> HIDE DEF r
<1>4. /\ handed' = [handed EXCEPT ![s] = @ + (r.last - r.first + 1)]
      /\ passed' = [t \in Source |-> IF t = s \/ t \in waited
                                     THEN passed[t] \cup {r.time}
                                     ELSE passed[t]]
      /\ UNCHANGED <<builders, silence, eof, phase, fed, undated>>
  BY DEF Take, r
<1>5. handed' \in [Source -> Nat]
  BY <1>3, <1>4 DEF CoreTypeOK, HistoryTypeOK
<1>6. passed' \in [Source -> SUBSET Int]
  BY <1>3, <1>4 DEF CoreTypeOK, HistoryTypeOK
<1>7. QED
  BY <1>1, <1>4, <1>5, <1>6 DEF CoreTypeOK, MergeTypeOK, HistoryTypeOK

LEMMA CoreTypeStep ==
  ASSUME CoreTypeOK, NothingLostOrRepeated, [Next]_vars
  PROVE  CoreTypeOK'
<1> USE DEF MergeTypeOK, HistoryTypeOK
<1>1. ASSUME NEW i \in Source, NEW line \in Line, NEW arrival \in Arrivals,
             PushLine(i, line, arrival)
      PROVE  CoreTypeOK'
  <2>1. /\ builders' \in [Source -> Builder]
        /\ queues' \in [Source -> Seq(Record)]
        /\ \A s \in Source :
             /\ Len(builders'[s].pending) <= 1
             /\ builders'[s].last = None => builders'[s].pending = <<>>
        /\ undated' = [undated EXCEPT ![i] =
                         IF builders'[i].last = None THEN @ + 1 ELSE @]
        /\ fed' = [fed EXCEPT ![i] = fed[i] + 1]
        /\ handed' = handed /\ passed' = passed
    BY <1>1, PushLineEffect
  <2>2. silence' = [silence EXCEPT ![i] = 0] /\ UNCHANGED <<eof, phase>>
    BY <1>1 DEF PushLine
  <2>3. silence' \in [Source -> 0..WINDOW]
    BY <2>2, MergerAssumption DEF CoreTypeOK
  <2>4. QED
    BY <2>1, <2>2, <2>3 DEF CoreTypeOK
<1>2. ASSUME NEW S, Finish(S), UNCHANGED <<silence, historyVars>>,
             eof' \in [Source -> BOOLEAN], phase' \in Phase
      PROVE  CoreTypeOK'
  BY <1>2, FinishKeepsHeld DEF CoreTypeOK, historyVars
<1>3. ASSUME NEW i \in Source, Eof(i) PROVE CoreTypeOK'
  BY <1>2, <1>3 DEF Eof, CoreTypeOK
<1>4. CASE Tick
  BY <1>2, <1>4 DEF Tick, CoreTypeOK, Phase
<1>5. CASE Stop
  BY <1>2, <1>5 DEF Stop, CoreTypeOK, Phase
<1>6. ASSUME NEW s \in Source, DrainReady(s) PROVE CoreTypeOK'
  BY <1>6, TakeTypes DEF DrainReady, Earliest, Heads
<1>7. ASSUME NEW s \in Source, DrainAll(s) PROVE CoreTypeOK'
  BY <1>7, TakeTypes DEF DrainAll, Earliest, Heads
<1>8. CASE TickDone
  BY <1>8 DEF TickDone, CoreTypeOK, Phase, historyVars
<1>9. CASE StopDone
  BY <1>9 DEF StopDone, CoreTypeOK, Phase, historyVars
<1>10. CASE TimePasses
  <2>1. silence' \in [Source -> 0..WINDOW]
    BY <1>10, MergerAssumption DEF TimePasses, Silent, CoreTypeOK
  <2>2. QED
    BY <1>10, <2>1 DEF TimePasses, CoreTypeOK, historyVars
<1>11. CASE UNCHANGED vars
  BY <1>11 DEF vars, mergeVars, historyVars, CoreTypeOK
<1>12. QED
  BY <1>1, <1>3, <1>4, <1>5, <1>6, <1>7, <1>8, <1>9, <1>10, <1>11
     DEF Next, Read, Emit, Teardown

-----------------------------------------------------------------------------
(* Conservation of lines *)

LEMMA ConsecutiveAppended ==
  ASSUME NEW H \in Seq(Record), NEW G \in Seq(Record), NEW before \in Nat,
         NEW newest \in Nat, NEW time,
         Consecutive(H, before, newest), Appended(H, G, OneLine(time, newest + 1))
  PROVE  Consecutive(G, before, newest + 1)
<1>1. Len(H) \in Nat /\ (H = <<>> <=> Len(H) = 0) /\ G # <<>>
  BY EmptySeq DEF Appended
<1>2. G[Len(G)].first = newest + 1 /\ G[Len(G)].last = newest + 1
  BY DEF Appended, OneLine
<1>3. Len(H) # 0 => H[Len(H)].last = newest
  BY <1>1 DEF Consecutive
<1>4. ASSUME NEW k \in 1..Len(G)
      PROVE  /\ G[k].first = (IF k = 1 THEN before ELSE G[k - 1].last) + 1
             /\ G[k].first <= G[k].last
  <2>1. CASE k <= Len(H)
    <3>1. k \in 1..Len(H) /\ G[k] = H[k]
      BY <1>1, <2>1 DEF Appended
    <3>2. k # 1 => G[k - 1] = H[k - 1]
      BY <1>1, <2>1 DEF Appended
    <3>3. QED
      BY <3>1, <3>2 DEF Consecutive
  <2>2. CASE k = Len(H) + 1
    <3>1. k # 1 => G[k - 1] = H[Len(H)] /\ H[Len(H)].last = newest
      BY <1>1, <1>3, <2>2 DEF Appended
    <3>2. k = 1 => before = newest
      BY <1>1, <2>2 DEF Consecutive
    <3>3. G[k].first = newest + 1 /\ G[k].last = newest + 1
      BY <1>2, <2>2 DEF Appended
    <3>4. QED
      BY <3>1, <3>2, <3>3
  <2>3. QED
    BY <1>1, <2>1, <2>2 DEF Appended
<1>5. QED
  BY <1>1, <1>2, <1>4 DEF Consecutive

LEMMA ConsecutiveExtended ==
  ASSUME NEW H \in Seq(Record), NEW G \in Seq(Record), NEW before \in Nat,
         NEW newest \in Nat,
         Consecutive(H, before, newest), Extended(H, G, newest + 1)
  PROVE  Consecutive(G, before, newest + 1)
<1>1. Len(H) \in Nat /\ Len(H) > 0 /\ Len(G) = Len(H) /\ H # <<>> /\ G # <<>>
  BY EmptySeq DEF Extended
<1>2. H[Len(H)] \in Record /\ H[Len(H)].last = newest
  BY <1>1 DEF Consecutive
<1>3. /\ G[Len(G)].last = newest + 1
      /\ G[Len(G)].first = H[Len(H)].first
  BY <1>1, <1>2 DEF Extended, Record
<1>4. ASSUME NEW k \in 1..Len(G)
      PROVE  /\ G[k].first = (IF k = 1 THEN before ELSE G[k - 1].last) + 1
             /\ G[k].first <= G[k].last
  <2>1. /\ k \in 1..Len(H)
        /\ H[k].first = (IF k = 1 THEN before ELSE H[k - 1].last) + 1
        /\ H[k].first <= H[k].last
    BY <1>1 DEF Consecutive
  <2>2. k # 1 => G[k - 1] = H[k - 1]
    BY <1>1, <2>1 DEF Extended
  <2>3. CASE k < Len(H)
    <3>1. G[k] = H[k]
      BY <1>1, <2>3 DEF Extended
    <3>2. QED
      BY <2>1, <2>2, <3>1
  <2>4. CASE k = Len(H)
    <3>1. H[k].first \in Nat /\ H[k].last = newest
      BY <1>2, <2>4 DEF Record
    <3>2. G[k].first = H[k].first /\ G[k].last = newest + 1
      BY <1>1, <1>3, <2>4
    <3>3. QED
      BY <2>1, <2>2, <3>1, <3>2
  <2>5. QED
    BY <1>1, <2>3, <2>4
<1>5. QED
  BY <1>1, <1>3, <1>4 DEF Consecutive

LEMMA ConsecutiveRemoved ==
  ASSUME NEW H \in Seq(Record), NEW G \in Seq(Record), NEW before \in Nat,
         NEW newest \in Nat,
         Consecutive(H, before, newest), Removed(H, G)
  PROVE  Consecutive(G, before + (H[1].last - H[1].first + 1), newest)
<1>1. Len(H) \in Nat /\ Len(H) > 0 /\ Len(G) = Len(H) - 1 /\ H # <<>>
  BY EmptySeq DEF Removed
<1>2. H[1] \in Record /\ H[1].first = before + 1
  BY <1>1 DEF Consecutive
<1>3. before + (H[1].last - H[1].first + 1) = H[1].last
  <2>1. H[1].last \in Nat
    BY <1>2 DEF Record
  <2>2. QED
    BY <1>2, <2>1
<1>4. G = <<>> <=> Len(G) = 0
  BY EmptySeq
<1>5. ASSUME NEW k \in 1..Len(G)
      PROVE  /\ G[k].first = (IF k = 1 THEN H[1].last ELSE G[k - 1].last) + 1
             /\ G[k].first <= G[k].last
  <2>1. k + 1 \in 1..Len(H) /\ k + 1 # 1 /\ (k + 1) - 1 = k
    BY <1>1
  <2>2. H[k + 1].first = H[k].last + 1 /\ H[k + 1].first <= H[k + 1].last
    BY <2>1 DEF Consecutive
  <2>3. G[k] = H[k + 1]
    BY DEF Removed
  <2>4. k # 1 => G[k - 1] = H[k]
    BY <1>1 DEF Removed
  <2>5. QED
    BY <2>2, <2>3, <2>4
<1>6. newest = IF G = <<>> THEN H[1].last ELSE G[Len(G)].last
  BY <1>1, <1>4 DEF Consecutive, Removed
<1>7. QED
  BY <1>3, <1>5, <1>6 DEF Consecutive

LEMMA ConservationInit == Init => NothingLostOrRepeated
<1> SUFFICES ASSUME Init, NEW s \in Source
             PROVE  Consecutive(Held(s), handed[s], fed[s])
  BY DEF NothingLostOrRepeated
<1>1. queues[s] = <<>> /\ builders[s].pending = <<>>
  BY DEF Init, NewBuilder
<1>2. Held(s) = <<>>
  BY <1>1 DEF Held
<1>3. QED
  BY <1>2 DEF Init, Consecutive

(* A step that neither adds nor takes a record. *)
LEMMA ConservationSame ==
  ASSUME NothingLostOrRepeated, NEW s \in Source,
         Held(s)' = Held(s), handed'[s] = handed[s], fed'[s] = fed[s]
  PROVE  Consecutive(Held(s)', handed'[s], fed'[s])
BY DEF NothingLostOrRepeated

LEMMA ConservationTake ==
  ASSUME CoreTypeOK, NothingLostOrRepeated,
         NEW s \in Source, NEW waited, queues[s] # <<>>, Take(s, waited)
  PROVE  NothingLostOrRepeated'
<1> SUFFICES ASSUME NEW t \in Source
             PROVE  Consecutive(Held(t)', handed'[t], fed'[t])
  BY DEF NothingLostOrRepeated
<1>1. /\ Head(queues[s]) = Held(s)[1]
      /\ Removed(Held(s), Held(s)')
      /\ \A u \in Source \ {s} : Held(u)' = Held(u)
  BY TakeRemovesHead
<1>2. /\ handed' = [handed EXCEPT ![s] = @ + (Held(s)[1].last - Held(s)[1].first + 1)]
      /\ fed' = fed
  BY <1>1 DEF Take
<1>3. CASE t # s
  BY <1>1, <1>2, <1>3, ConservationSame DEF CoreTypeOK, HistoryTypeOK
<1>4. CASE t = s
  <2>1. CoreTypeOK'
    BY TakeTypes
  <2>2. Held(s) \in Seq(Record) /\ Held(s)' \in Seq(Record)
    BY <2>1, HeldIsSeq DEF CoreTypeOK, MergeTypeOK, Held, Builder
  <2>3. handed[s] \in Nat /\ fed[s] \in Nat
    BY DEF CoreTypeOK, HistoryTypeOK
  <2>4. Consecutive(Held(s), handed[s], fed[s])
    BY DEF NothingLostOrRepeated
  <2>5. handed'[s] = handed[s] + (Held(s)[1].last - Held(s)[1].first + 1)
    BY <1>2 DEF CoreTypeOK, HistoryTypeOK
  <2>6. QED
    BY <1>1, <1>2, <1>4, <2>2, <2>3, <2>4, <2>5, ConsecutiveRemoved
<1>5. QED
  BY <1>3, <1>4

LEMMA ConservationStep ==
  ASSUME CoreTypeOK, NothingLostOrRepeated, [Next]_vars
  PROVE  NothingLostOrRepeated'
<1>1. ASSUME NEW i \in Source, NEW line \in Line, NEW arrival \in Arrivals,
             PushLine(i, line, arrival)
      PROVE  NothingLostOrRepeated'
  <2> SUFFICES ASSUME NEW s \in Source
               PROVE  Consecutive(Held(s)', handed'[s], fed'[s])
    BY DEF NothingLostOrRepeated
  <2>1. /\ fed' = [fed EXCEPT ![i] = fed[i] + 1]
        /\ handed' = handed
        /\ \A t \in Source \ {i} : Held(t)' = Held(t)
    BY <1>1, PushLineEffect
  <2>2. CASE s # i
    BY <2>1, <2>2, ConservationSame DEF CoreTypeOK, HistoryTypeOK
  <2>3. CASE s = i
    <3>1. CoreTypeOK'
      BY <1>1, CoreTypeStep DEF Next, Read
    <3>2. Held(i) \in Seq(Record) /\ Held(i)' \in Seq(Record)
      BY <3>1, HeldIsSeq DEF CoreTypeOK, MergeTypeOK, Held, Builder
    <3>3. handed[i] \in Nat /\ fed[i] \in Nat /\ fed'[i] = fed[i] + 1
      BY <2>1 DEF CoreTypeOK, HistoryTypeOK
    <3>4. Consecutive(Held(i), handed[i], fed[i])
      BY DEF NothingLostOrRepeated
    <3>5. \/ \E time \in Int : Appended(Held(i), Held(i)', OneLine(time, fed[i] + 1))
          \/ Extended(Held(i), Held(i)', fed[i] + 1)
      BY <1>1, PushLineEffect, HeldIsSeq, BuilderAssumption
    <3>6. Consecutive(Held(i)', handed[i], fed[i] + 1)
      BY <3>2, <3>3, <3>4, <3>5, ConsecutiveAppended, ConsecutiveExtended
    <3>7. QED
      BY <2>1, <2>3, <3>3, <3>6
  <2>4. QED
    BY <2>2, <2>3
<1>2. ASSUME NEW S, Finish(S), UNCHANGED <<fed, handed>>
      PROVE  NothingLostOrRepeated'
  BY <1>2, FinishKeepsHeld DEF NothingLostOrRepeated
<1>3. ASSUME UNCHANGED <<builders, queues, fed, handed>>
      PROVE  NothingLostOrRepeated'
  BY <1>3 DEF NothingLostOrRepeated, Held
<1>4. ASSUME NEW i \in Source, Eof(i) PROVE NothingLostOrRepeated'
  BY <1>2, <1>4 DEF Eof, historyVars
<1>5. CASE Tick
  BY <1>2, <1>5 DEF Tick, historyVars
<1>6. CASE Stop
  BY <1>2, <1>6 DEF Stop, historyVars
<1>7. ASSUME NEW s \in Source, DrainReady(s) PROVE NothingLostOrRepeated'
  BY <1>7, ConservationTake DEF DrainReady, Earliest, Heads
<1>8. ASSUME NEW s \in Source, DrainAll(s) PROVE NothingLostOrRepeated'
  BY <1>8, ConservationTake DEF DrainAll, Earliest, Heads
<1>9. CASE TickDone \/ StopDone \/ TimePasses \/ UNCHANGED vars
  BY <1>3, <1>9 DEF TickDone, StopDone, TimePasses, vars, mergeVars, historyVars
<1>10. QED
  BY <1>1, <1>4, <1>5, <1>6, <1>7, <1>8, <1>9 DEF Next, Read, Emit, Teardown

(* However pushes, flushes, drains and EOFs interleave, and whatever the   *)
(* lines are, each source's lines stay in order and none is lost or handed *)
(* out twice.                                                              *)
THEOREM LinesConserved == Spec => [](CoreTypeOK /\ NothingLostOrRepeated)
<1>1. Init => CoreTypeOK /\ NothingLostOrRepeated
  BY CoreTypeInit, ConservationInit
<1>2. CoreTypeOK /\ NothingLostOrRepeated /\ [Next]_vars
        => CoreTypeOK' /\ NothingLostOrRepeated'
  BY CoreTypeStep, ConservationStep
<1>3. QED
  BY <1>1, <1>2, PTL DEF Spec

-----------------------------------------------------------------------------
(* Order *)

(* The time an undated record of this source would be given now. *)
Floor(s) == UndatedTime(builders[s].last)

(* H is in order, and lies between the times handed out past it and a      *)
(* floor under what may still be added to it.                              *)
Between(H, times, floor) ==
  /\ NonDecreasing(H)
  /\ \A k \in 1..Len(H) : H[k].time <= floor
  /\ \A time \in times : /\ time <= floor
                         /\ \A k \in 1..Len(H) : time <= H[k].time

(* This is so of every placed source, whose Floor is the least time its    *)
(* next line can be given.  Before its first line a source has passed      *)
(* nothing up: there was nothing the emitter could take without it.        *)
OrderOf(s) ==
  /\ builders[s].last = None /\ undated[s] = 0 => Held(s) = <<>> /\ passed[s] = {}
  /\ Placed(s) => Between(Held(s), passed[s], Floor(s))

OrderInv == \A s \in Source : OrderOf(s)

LEMMA BetweenAppended ==
  ASSUME NEW H \in Seq(Record), NEW G \in Seq(Record), NEW times \in SUBSET Int,
         NEW floor \in Int, NEW time \in Int, NEW n,
         Between(H, times, floor), floor <= time,
         Appended(H, G, OneLine(time, n))
  PROVE  Between(G, times, time)
<1>1. Len(H) \in Nat /\ Len(G) = Len(H) + 1
  BY DEF Appended
<1>2. \A k \in 1..Len(H) : H[k].time \in Int
  <2>1. \A k \in 1..Len(H) : H[k] \in Record
    BY ElementOfSeq
  <2>2. QED
    BY <2>1 DEF Record
<1>3. ASSUME NEW k \in 1..Len(G)
      PROVE  \/ k \in 1..Len(H) /\ G[k] = H[k]
             \/ k = Len(H) + 1 /\ G[k].time = time
  BY <1>1 DEF Appended, OneLine
<1>4. ASSUME NEW k \in 1..Len(G) PROVE G[k].time <= time
  BY <1>2, <1>3 DEF Between
<1>5. ASSUME NEW j \in 1..Len(G), NEW k \in 1..Len(G), j < k
      PROVE  G[j].time <= G[k].time
  <2>1. CASE k \in 1..Len(H) /\ G[k] = H[k]
    <3>1. j \in 1..Len(H) /\ G[j] = H[j]
      BY <1>1, <1>3, <1>5, <2>1
    <3>2. QED
      BY <1>5, <2>1, <3>1 DEF Between, NonDecreasing
  <2>2. CASE k = Len(H) + 1 /\ G[k].time = time
    BY <1>4, <2>2
  <2>3. QED
    BY <1>3, <2>1, <2>2
<1>6. ASSUME NEW t \in times
      PROVE  t <= time /\ \A k \in 1..Len(G) : t <= G[k].time
  BY <1>3 DEF Between
<1>7. QED
  BY <1>4, <1>5, <1>6 DEF Between, NonDecreasing

LEMMA BetweenExtended ==
  ASSUME NEW H \in Seq(Record), NEW G \in Seq(Record), NEW times, NEW floor, NEW n,
         Between(H, times, floor), Extended(H, G, n)
  PROVE  Between(G, times, floor)
<1>1. Len(H) \in Nat /\ Len(H) > 0 /\ Len(G) = Len(H)
  BY DEF Extended
<1>2. H[Len(H)] \in Record
  BY <1>1, ElementOfSeq
<1>3. ASSUME NEW k \in 1..Len(G) PROVE k \in 1..Len(H) /\ G[k].time = H[k].time
  <2>1. \A r \in Record : [r EXCEPT !.last = n].time = r.time
    BY DEF Record
  <2>2. CASE k = Len(H)
    BY <1>1, <1>2, <2>1, <2>2 DEF Extended
  <2>3. CASE k # Len(H)
    BY <1>1, <2>3 DEF Extended
  <2>4. QED
    BY <2>2, <2>3
<1>4. QED
  BY <1>3 DEF Between, NonDecreasing

(* Handing out a record that is no later than the first one held. *)
LEMMA BetweenPassed ==
  ASSUME NEW H \in Seq(Record), NEW times, NEW floor \in Int, NEW time \in Int,
         Between(H, times, floor), Len(H) > 0, time <= H[1].time
  PROVE  Between(H, times \cup {time}, floor)
<1>1. Len(H) \in Nat
  BY LenProperties
<1>2. \A k \in 1..Len(H) : H[k].time \in Int
  <2>1. \A k \in 1..Len(H) : H[k] \in Record
    BY ElementOfSeq
  <2>2. QED
    BY <2>1 DEF Record
<1>3. ASSUME NEW k \in 1..Len(H) PROVE H[1].time <= H[k].time
  BY <1>1, <1>2 DEF Between, NonDecreasing
<1>4. \A k \in 1..Len(H) : time <= H[k].time
  BY <1>1, <1>2, <1>3
<1>5. time <= floor
  BY <1>1, <1>2, <1>4 DEF Between
<1>6. QED
  BY <1>4, <1>5 DEF Between

LEMMA BetweenRemoved ==
  ASSUME NEW H \in Seq(Record), NEW G \in Seq(Record), NEW times, NEW floor \in Int,
         Between(H, times, floor), Removed(H, G)
  PROVE  Between(G, times \cup {H[1].time}, floor)
<1>1. Len(H) \in Nat /\ Len(H) > 0 /\ Len(G) = Len(H) - 1
  BY DEF Removed
<1>2. H[1].time \in Int
  <2>1. 1 \in 1..Len(H)
    BY <1>1
  <2>2. H[1] \in Record
    BY <2>1, ElementOfSeq
  <2>3. QED
    BY <2>2 DEF Record
<1>3. Between(H, times \cup {H[1].time}, floor)
  BY <1>1, <1>2, BetweenPassed
<1>4. ASSUME NEW k \in 1..Len(G) PROVE k + 1 \in 1..Len(H) /\ G[k] = H[k + 1]
  BY <1>1 DEF Removed
<1>5. ASSUME NEW j \in 1..Len(G), NEW k \in 1..Len(G), j < k
      PROVE  G[j].time <= G[k].time
  <2>1. j + 1 < k + 1 /\ j + 1 \in 1..Len(H) /\ k + 1 \in 1..Len(H)
    BY <1>4, <1>5
  <2>2. H[j + 1].time <= H[k + 1].time
    BY <1>3, <2>1 DEF Between, NonDecreasing
  <2>3. QED
    BY <1>4, <2>2
<1>6. QED
  BY <1>3, <1>4, <1>5 DEF Between, NonDecreasing

LEMMA FloorIsTime ==
  ASSUME CoreTypeOK, NEW s \in Source
  PROVE  Floor(s) \in Int
BY HeldIsSeq, BuilderAssumption DEF Floor, UndatedTime

LEMMA OrderInit == Init => OrderInv
<1> SUFFICES ASSUME Init, NEW s \in Source PROVE OrderOf(s)
  BY DEF OrderInv
<1>1. Held(s) = <<>> /\ passed[s] = {}
  BY DEF Init, Held, NewBuilder
<1>2. QED
  BY <1>1 DEF OrderOf, Between, NonDecreasing

(* A step that leaves a source its records, its floor and its history. *)
LEMMA OrderSame ==
  ASSUME NEW s \in Source, OrderOf(s), Held(s)' = Held(s), passed'[s] = passed[s],
         builders'[s].last = builders[s].last, undated'[s] = undated[s]
  PROVE  OrderOf(s)'
<1>1. Floor(s)' = Floor(s) /\ (Placed(s)' <=> Placed(s))
  BY DEF Floor, UndatedTime, Placed, StartsBeforeStamps
<1>2. QED
  BY <1>1 DEF OrderOf

LEMMA OrderPush ==
  ASSUME CoreTypeOK, OrderInv, CoreTypeOK',
         NEW i \in Source, NEW line \in Line, NEW arrival, PushLine(i, line, arrival)
  PROVE  OrderOf(i)'
<1> DEFINE last == builders[i].last
           next == builders'[i].last
           n    == fed[i] + 1
           H    == Held(i)
           G    == Held(i)'
           P    == passed[i]
<1>1. /\ H \in Seq(Record) /\ G \in Seq(Record)
      /\ last \in Int \cup {None} /\ next \in Int \cup {None}
      /\ P \in SUBSET Int /\ undated[i] \in Nat
      /\ passed'[i] = P
  <2>1. CoreTypeOK' => Held(i)' \in Seq(Record) /\ next \in Int \cup {None}
    BY DEF CoreTypeOK, MergeTypeOK, Held, Builder
  <2>2. passed' = passed
    BY PushLineEffect
  <2>3. QED
    BY <2>1, <2>2, HeldIsSeq DEF CoreTypeOK, HistoryTypeOK
<1>2. OrderOf(i)
  BY DEF OrderInv
<1>3. undated'[i] = IF next = None THEN undated[i] + 1 ELSE undated[i]
  BY PushLineEffect DEF CoreTypeOK, HistoryTypeOK
<1>4. Placed(i)' => Placed(i)
  <2>1. Placed(i)' <=> undated'[i] = 0 \/ StartsBeforeStamps
    BY DEF Placed, StartsBeforeStamps
  <2>2. undated'[i] = 0 => undated[i] = 0
    BY <1>1, <1>3
  <2>3. QED
    BY <2>1, <2>2 DEF Placed
<1>5. Floor(i)' = IF next = None THEN SESSION_START ELSE next
  BY DEF Floor, UndatedTime
<1>6. CASE /\ line \in Stamps
           /\ next = Resolve(last, line)
           /\ next \in Int
           /\ Appended(H, G, OneLine(next, n))
  <2>1. next # None
    BY <1>6, SourcesAssumption
  <2>2. ASSUME Placed(i)' PROVE Between(G, P, next)
    <3>1. Between(H, P, Floor(i))
      BY <1>2, <1>4, <2>2 DEF OrderOf
    <3>2. CASE Floor(i) <= next
      BY <1>1, <1>6, <3>1, <3>2, FloorIsTime, BetweenAppended
    <3>3. CASE last = None /\ undated[i] = 0
      <4>1. H = <<>> /\ P = {}
        BY <1>2, <3>3 DEF OrderOf
      <4>2. Between(H, P, next)
        BY <4>1 DEF Between, NonDecreasing
      <4>3. next <= next
        BY <1>6
      <4>4. QED
        BY <1>1, <1>6, <4>2, <4>3, BetweenAppended
    <3>4. CASE last = None /\ undated[i] # 0
      <4>1. StartsBeforeStamps
        BY <1>4, <2>2, <3>4 DEF Placed
      <4>2. SESSION_START <= next
        BY <1>6, <3>4, <4>1, FirstTimeAfterStart
      <4>3. QED
        BY <3>2, <3>4, <4>2 DEF Floor, UndatedTime
    <3>5. CASE last # None
      <4>1. last <= next
        BY <1>1, <1>6, <3>5, ResolveIsTime, MergerAssumption
      <4>2. QED
        BY <3>2, <3>5, <4>1 DEF Floor, UndatedTime
    <3>6. QED
      BY <3>3, <3>4, <3>5
  <2>3. QED
    BY <1>1, <1>5, <2>1, <2>2 DEF OrderOf
<1>7. CASE last # None /\ next = last /\ Extended(H, G, n)
  <2>1. ASSUME Placed(i)' PROVE Between(G, P, last)
    <3>1. Between(H, P, last)
      BY <1>2, <1>4, <1>7, <2>1 DEF OrderOf, Floor, UndatedTime
    <3>2. QED
      BY <1>1, <1>7, <3>1, BetweenExtended
  <2>2. QED
    BY <1>1, <1>5, <1>7, <2>1 DEF OrderOf
<1>8. ASSUME NEW floor \in Int, floor = Floor(i), Floor(i)' = floor,
             next # None \/ undated'[i] # 0,
             Appended(H, G, OneLine(floor, n))
      PROVE  OrderOf(i)'
  <2>1. ASSUME Placed(i)' PROVE Between(G, P, floor)
    <3>1. Between(H, P, floor)
      BY <1>2, <1>4, <1>8, <2>1 DEF OrderOf
    <3>2. floor <= floor
      BY <1>8
    <3>3. QED
      BY <1>1, <1>8, <3>1, <3>2, BetweenAppended
  <2>2. QED
    BY <1>1, <1>8, <2>1 DEF OrderOf
<1>9. CASE last = None /\ next = None /\ Appended(H, G, OneLine(SESSION_START, n))
  <2>1. undated'[i] # 0
    BY <1>1, <1>3, <1>9
  <2>2. QED
    BY <1>5, <1>8, <1>9, <2>1, BuilderAssumption DEF Floor, UndatedTime
<1>10. CASE last # None /\ next = last /\ Appended(H, G, OneLine(last, n))
  BY <1>1, <1>5, <1>8, <1>10 DEF Floor, UndatedTime
<1>11. QED
  BY <1>6, <1>7, <1>9, <1>10, PushLineEffect

(* A record goes out past its own source and the sources that had a head   *)
(* to compare it with, and it is no later than any of those heads.         *)
LEMMA OrderTake ==
  ASSUME CoreTypeOK, NothingLostOrRepeated, OrderInv, NEW s \in Source, NEW waited,
         Earliest(s), Take(s, waited), waited \subseteq Heads
  PROVE  OrderInv'
<1> DEFINE r == Head(queues[s])
<1>1. queues[s] # <<>>
  BY DEF Earliest, Heads
<1>2. /\ r = Held(s)[1] /\ r \in Record
      /\ Removed(Held(s), Held(s)')
      /\ \A t \in Source \ {s} : Held(t)' = Held(t)
  BY <1>1, TakeRemovesHead
<1>3. CoreTypeOK'
  BY <1>1, TakeTypes
<1>4. /\ UNCHANGED <<builders, undated>>
      /\ passed' = [t \in Source |-> IF t = s \/ t \in waited
                                     THEN passed[t] \cup {r.time} ELSE passed[t]]
  BY DEF Take
<1>5. SUFFICES ASSUME NEW t \in Source PROVE OrderOf(t)'
  BY DEF OrderInv
<1>6. /\ OrderOf(t)
      /\ Floor(t)' = Floor(t)
      /\ Placed(t)' <=> Placed(t)
      /\ builders'[t] = builders[t] /\ undated'[t] = undated[t]
  BY <1>4 DEF OrderInv, Floor, UndatedTime, Placed, StartsBeforeStamps
<1>7. CASE t # s /\ t \notin waited
  BY <1>2, <1>4, <1>6, <1>7, OrderSame
<1>8. ASSUME NEW u \in Heads
      PROVE  /\ Held(u) \in Seq(Record) /\ Len(Held(u)) > 0
             /\ Held(u)[1].time \in Int
             /\ r.time <= Held(u)[1].time
  <2>1. /\ queues[u] \in Seq(Record) /\ queues[u] # <<>>
        /\ builders[u].pending \in Seq(Record)
        /\ Held(u) \in Seq(Record)
    BY HeldIsSeq DEF Heads
  <2>2. /\ Removed(Held(u), Tail(queues[u]) \o builders[u].pending)
        /\ Held(u)[1] = Head(queues[u])
    BY <2>1, TailOfConcat DEF Held
  <2>3. Head(queues[u]) \in Record
    BY <2>1, HeadTailProperties
  <2>4. \A q \in Record : q.time \in Int
    BY DEF Record
  <2>5. r.time <= Head(queues[u]).time
    BY <1>2, <2>3, <2>4 DEF Earliest
  <2>6. QED
    BY <2>1, <2>2, <2>3, <2>4, <2>5 DEF Removed
<1>9. r.time \in Int
  BY <1>2 DEF Record
<1>10. CASE t = s
  <2>1. Held(t) # <<>>
    BY <1>8, <1>10, EmptySeq DEF Earliest
  <2>2. passed'[t] = passed[t] \cup {Held(t)[1].time}
    BY <1>2, <1>4, <1>10
  <2>3. Placed(t) => Between(Held(t)', passed'[t], Floor(t))
    <3>1. Held(t)' \in Seq(Record)
      BY <1>3 DEF CoreTypeOK, MergeTypeOK, Held, Builder
    <3>2. QED
      BY <1>2, <1>6, <1>10, <2>2, <3>1, HeldIsSeq, FloorIsTime, BetweenRemoved
         DEF OrderOf
  <2>4. QED
    BY <1>6, <2>1, <2>3 DEF OrderOf
<1>11. CASE t # s /\ t \in waited
  <2>1. t \in Heads /\ Held(t)' = Held(t) /\ passed'[t] = passed[t] \cup {r.time}
    BY <1>2, <1>4, <1>11
  <2>2. Held(t) # <<>>
    BY <1>8, <2>1, EmptySeq
  <2>3. Placed(t) => Between(Held(t), passed'[t], Floor(t))
    BY <1>6, <1>8, <1>9, <2>1, FloorIsTime, BetweenPassed DEF OrderOf
  <2>4. QED
    BY <1>6, <2>1, <2>2, <2>3 DEF OrderOf
<1>12. QED
  BY <1>7, <1>10, <1>11

LEMMA OrderStep ==
  ASSUME CoreTypeOK, NothingLostOrRepeated, OrderInv, [Next]_vars
  PROVE  OrderInv'
<1>1. ASSUME NEW i \in Source, NEW line \in Line, NEW arrival \in Arrivals,
             PushLine(i, line, arrival)
      PROVE  OrderInv'
  <2>1. OrderOf(i)'
    <3>1. [Next]_vars
      BY <1>1 DEF Next, Read
    <3>2. CoreTypeOK'
      BY <3>1, CoreTypeStep
    <3>3. QED
      BY <1>1, <3>2, OrderPush
  <2>2. ASSUME NEW s \in Source \ {i} PROVE OrderOf(s)'
    <3>1. /\ Held(s)' = Held(s) /\ builders'[s] = builders[s]
          /\ passed' = passed
          /\ undated' = [undated EXCEPT ![i] =
                           IF builders'[i].last = None THEN @ + 1 ELSE @]
      BY <1>1, PushLineEffect
    <3>2. undated'[s] = undated[s]
      BY <3>1 DEF CoreTypeOK, HistoryTypeOK
    <3>3. QED
      BY <3>1, <3>2, OrderSame DEF OrderInv
  <2>3. QED
    BY <2>1, <2>2 DEF OrderInv
<1>2. ASSUME NEW S, Finish(S), UNCHANGED historyVars PROVE OrderInv'
  BY <1>2, FinishKeepsHeld, OrderSame DEF OrderInv, historyVars
<1>3. ASSUME UNCHANGED <<builders, queues, historyVars>> PROVE OrderInv'
  BY <1>3, OrderSame DEF OrderInv, historyVars, Held
<1>4. ASSUME NEW i \in Source, Eof(i) PROVE OrderInv'
  BY <1>2, <1>4 DEF Eof
<1>5. CASE Tick \/ Stop
  BY <1>2, <1>5 DEF Tick, Stop
<1>6. ASSUME NEW s \in Source, DrainReady(s) PROVE OrderInv'
  <2> DEFINE waited == Heads \cup {t \in Source : ~Silent(t) /\ ~eof[t]}
  <2>1. waited \subseteq Heads
    BY <1>6 DEF DrainReady, Safe, Earliest, Heads
  <2>2. QED
    BY <1>6, <2>1, OrderTake DEF DrainReady
<1>7. ASSUME NEW s \in Source, DrainAll(s) PROVE OrderInv'
  BY <1>7, OrderTake DEF DrainAll
<1>8. CASE TickDone \/ StopDone \/ TimePasses \/ UNCHANGED vars
  BY <1>3, <1>8 DEF TickDone, StopDone, TimePasses, vars, mergeVars
<1>9. QED
  BY <1>1, <1>4, <1>5, <1>6, <1>7, <1>8 DEF Next, Read, Emit, Teardown

LEMMA OrderInvariant == Spec => []OrderInv
<1>1. Init => OrderInv
  BY OrderInit
<1>2. ASSUME CoreTypeOK, NothingLostOrRepeated, OrderInv, [Next]_vars PROVE OrderInv'
  BY <1>2, OrderStep
<1>3. QED
  BY <1>1, <1>2, LinesConserved, PTL DEF Spec

(* What a placed source holds is in order of time, whatever the flush, the *)
(* day rollovers and the clamp do: only the head of a queue can be its     *)
(* earliest record.                                                        *)
THEOREM PlacedSourcesAreSorted == Spec => []PlacedQueuesSorted
<1>1. OrderInv => PlacedQueuesSorted
  BY DEF OrderInv, OrderOf, Between, PlacedQueuesSorted
<1>2. QED
  BY <1>1, OrderInvariant, PTL

(* The merge is never wrong about a source that it waits for: nothing such *)
(* a source holds or will deliver is older than what has been handed out,  *)
(* for any number of sources and any window.                               *)
THEOREM WaitedForIsNeverOvertaken == Spec => []NeverOvertaken
<1>1. OrderInv => NeverOvertaken
  BY DEF OrderInv, OrderOf, Between, NeverOvertaken
<1>2. QED
  BY <1>1, OrderInvariant, PTL

-----------------------------------------------------------------------------
(* Open records *)

(* After its end a source has no open record; before it, one that stamps   *)
(* its lines has one for as long as it is not silent.                      *)
OpenInv ==
  /\ \A s \in Source : eof[s] => builders[s].pending = <<>>
  /\ BusySourceKeepsItsRecordOpen

LEMMA OpenInit == Init => OpenInv
BY DEF Init, OpenInv, BusySourceKeepsItsRecordOpen, NewBuilder

LEMMA OpenStep ==
  ASSUME CoreTypeOK, OpenInv, [Next]_vars
  PROVE  OpenInv'
<1> USE DEF OpenInv, BusySourceKeepsItsRecordOpen
<1>1. ASSUME NEW i \in Source, NEW line \in Line, NEW arrival \in Arrivals,
             PushLine(i, line, arrival)
      PROVE  OpenInv'
  <2> DEFINE b == builders[i]
             n == fed[i] + 1
             p == Pushed(b, n, line)
  <2>1. p.builder.last # None => p.builder.pending # <<>>
    <3>1. /\ b \in Builder /\ n \in Nat /\ Len(b.pending) <= 1
          /\ b.last = None => b.pending = <<>>
      BY HeldIsSeq DEF CoreTypeOK, HistoryTypeOK
    <3>2. QED
      BY <3>1, PushedTypes
  <2>2. builders' = [builders EXCEPT ![i] = p.builder]
    BY <1>1 DEF PushLine
  <2>3. /\ silence' = [silence EXCEPT ![i] = 0]
        /\ ~eof[i] /\ eof' = eof /\ phase' = phase
    BY <1>1 DEF PushLine
  <2> HIDE DEF p
  <2>4. \A s \in Source \ {i} : builders'[s] = builders[s] /\ silence'[s] = silence[s]
    BY <2>2, <2>3 DEF CoreTypeOK, MergeTypeOK
  <2>5. builders'[i] = p.builder
    BY <2>2 DEF CoreTypeOK, MergeTypeOK
  <2>6. QED
    BY <2>1, <2>3, <2>4, <2>5 DEF Silent
<1>2. ASSUME NEW S, Finish(S), UNCHANGED silence,
             \A s \in S : eof'[s] \/ Silent(s) \/ phase' = "all",
             \A s \in Source : eof'[s] => eof[s] \/ s \in S,
             \A s \in Source : eof[s] => eof'[s],
             phase' \in {"open", "ready"} => phase \in {"open", "ready"}
      PROVE  OpenInv'
  <2>1. \A s \in Source : s \notin S => builders'[s] = builders[s]
    BY <1>2 DEF Finish
  <2>2. \A s \in Source : s \in S => builders'[s].pending = <<>>
    <3> SUFFICES ASSUME NEW s \in Source, s \in S PROVE builders'[s].pending = <<>>
      OBVIOUS
    <3>1. builders'[s] = Finished(builders[s])
      BY <1>2 DEF Finish
    <3>2. builders[s] \in Builder
      BY HeldIsSeq
    <3>3. QED
      BY <3>1, <3>2 DEF Finished, Builder
  <2>3. \A s \in Source : builders'[s].last = builders[s].last
    BY <1>2, FinishKeepsHeld
  <2>4. QED
    BY <1>2, <2>1, <2>2, <2>3 DEF Silent
<1>3. ASSUME NEW i \in Source, Eof(i) PROVE OpenInv'
  BY <1>2, <1>3 DEF Eof, CoreTypeOK, MergeTypeOK
<1>4. CASE Tick
  BY <1>2, <1>4 DEF Tick
<1>5. CASE Stop
  BY <1>2, <1>5 DEF Stop
<1>6. ASSUME UNCHANGED <<builders, silence, eof>>,
             phase' \in {"open", "ready"} => phase \in {"open", "ready"}
      PROVE  OpenInv'
  BY <1>6 DEF Silent
<1>7. ASSUME NEW s \in Source, DrainReady(s) \/ DrainAll(s) PROVE OpenInv'
  BY <1>6, <1>7 DEF DrainReady, DrainAll, Take
<1>8. CASE TickDone \/ StopDone \/ UNCHANGED vars
  BY <1>6, <1>8 DEF TickDone, StopDone, vars, mergeVars
<1>9. CASE TimePasses
  <2>1. \A s \in Source : ~Silent(s)' => ~Silent(s)
    BY <1>9, MergerAssumption DEF TimePasses, Silent, CoreTypeOK, MergeTypeOK
  <2>2. QED
    BY <1>9, <2>1 DEF TimePasses
<1>10. QED
  BY <1>1, <1>3, <1>4, <1>5, <1>7, <1>8, <1>9 DEF Next, Read, Emit, Teardown

LEMMA OpenInvariant == Spec => []OpenInv
<1>1. Init => OpenInv
  BY OpenInit
<1>2. ASSUME CoreTypeOK, OpenInv, [Next]_vars PROVE OpenInv'
  BY <1>2, OpenStep
<1>3. QED
  BY <1>1, <1>2, LinesConserved, PTL DEF Spec

(* No flush closes the record of a source that is still writing it.        *)
THEOREM BusyRecordsStayOpen == Spec => []BusySourceKeepsItsRecordOpen
<1>1. OpenInv => BusySourceKeepsItsRecordOpen
  BY DEF OpenInv
<1>2. QED
  BY <1>1, OpenInvariant, PTL

(* is_done is right not to look at the builders: when it holds, every line *)
(* that was ever pushed has been handed to the emitter.                    *)
THEOREM DoneIsComplete == Spec => []DoneMeansEverythingShown
<1>1. ASSUME CoreTypeOK, NothingLostOrRepeated, OpenInv
      PROVE  DoneMeansEverythingShown
  <2> SUFFICES ASSUME IsDone, NEW s \in Source PROVE handed[s] = fed[s]
    BY <1>1 DEF CoreTypeOK, HistoryTypeOK, DoneMeansEverythingShown
  <2>1. queues[s] = <<>> /\ builders[s].pending = <<>>
    BY <1>1 DEF IsDone, OpenInv
  <2>2. Held(s) = <<>>
    BY <2>1 DEF Held
  <2>3. QED
    BY <1>1, <2>2 DEF NothingLostOrRepeated, Consecutive
<1>2. QED
  BY <1>1, LinesConserved, OpenInvariant, PTL

-----------------------------------------------------------------------------
(* The merger implements LineStream: whoever drives it may think of it as  *)
(* one first-in first-out stream of lines for each source.                 *)

(* NothingLostOrRepeated relates each record to the one before it.  This   *)
(* is what it comes to for records that are further apart, and for the     *)
(* two ends; it would follow by induction on the number of records held,   *)
(* and is an invariant of its own instead.                                 *)
Spread(H, before, newest) ==
  /\ before <= newest
  /\ \A k \in 1..Len(H) : before < H[k].first /\ H[k].last <= newest
  /\ \A j, k \in 1..Len(H) : j < k => H[j].last < H[k].first

SpreadInv == \A s \in Source : Spread(Held(s), handed[s], fed[s])

LEMMA RecordNumbers ==
  ASSUME NEW H \in Seq(Record)
  PROVE  /\ Len(H) \in Nat
         /\ \A k \in 1..Len(H) : H[k] \in Record /\ H[k].first \in Nat /\ H[k].last \in Nat
<1>1. \A k \in 1..Len(H) : H[k] \in Record
  BY ElementOfSeq
<1>2. QED
  BY <1>1, LenProperties DEF Record

LEMMA SpreadAppended ==
  ASSUME NEW H \in Seq(Record), NEW G \in Seq(Record), NEW before \in Nat,
         NEW newest \in Nat, NEW time,
         Spread(H, before, newest), Appended(H, G, OneLine(time, newest + 1))
  PROVE  Spread(G, before, newest + 1)
<1>1. Len(H) \in Nat /\ Len(G) = Len(H) + 1
  BY RecordNumbers DEF Appended
<1>2. ASSUME NEW k \in 1..Len(G)
      PROVE  \/ k \in 1..Len(H) /\ G[k] = H[k]
             \/ k = Len(H) + 1 /\ G[k].first = newest + 1 /\ G[k].last = newest + 1
  BY <1>1 DEF Appended, OneLine
<1>3. \A k \in 1..Len(H) : H[k].first \in Nat /\ H[k].last \in Nat
  BY RecordNumbers
<1>4. before <= newest + 1
  BY DEF Spread
<1>5. ASSUME NEW k \in 1..Len(G) PROVE before < G[k].first /\ G[k].last <= newest + 1
  BY <1>2, <1>3 DEF Spread
<1>6. ASSUME NEW j \in 1..Len(G), NEW k \in 1..Len(G), j < k
      PROVE  G[j].last < G[k].first
  <2>1. j \in 1..Len(H) /\ G[j] = H[j]
    BY <1>1, <1>2, <1>6
  <2>2. CASE k \in 1..Len(H) /\ G[k] = H[k]
    BY <1>6, <2>1, <2>2 DEF Spread
  <2>3. CASE k = Len(H) + 1 /\ G[k].first = newest + 1
    <3>1. H[j].last <= newest
      BY <2>1 DEF Spread
    <3>2. QED
      BY <1>3, <2>1, <2>3, <3>1
  <2>4. QED
    BY <1>2, <2>2, <2>3
<1>7. QED
  BY <1>4, <1>5, <1>6 DEF Spread

LEMMA SpreadExtended ==
  ASSUME NEW H \in Seq(Record), NEW G \in Seq(Record), NEW before \in Nat,
         NEW newest \in Nat,
         Spread(H, before, newest), Extended(H, G, newest + 1)
  PROVE  Spread(G, before, newest + 1)
<1>1. Len(H) \in Nat /\ Len(H) > 0 /\ Len(G) = Len(H)
  BY RecordNumbers DEF Extended
<1>2. \A k \in 1..Len(H) : H[k] \in Record /\ H[k].first \in Nat /\ H[k].last \in Nat
  BY RecordNumbers
<1>3. ASSUME NEW k \in 1..Len(G)
      PROVE  /\ k \in 1..Len(H)
             /\ G[k].first = H[k].first
             /\ \/ k < Len(H) /\ G[k].last = H[k].last
                \/ k = Len(H) /\ G[k].last = newest + 1
  <2>1. \A r \in Record : /\ [r EXCEPT !.last = newest + 1].first = r.first
                          /\ [r EXCEPT !.last = newest + 1].last = newest + 1
    BY DEF Record
  <2>2. CASE k = Len(H)
    BY <1>1, <1>2, <2>1, <2>2 DEF Extended
  <2>3. CASE k # Len(H)
    BY <1>1, <2>3 DEF Extended
  <2>4. QED
    BY <2>2, <2>3
<1>4. before <= newest + 1
  BY DEF Spread
<1>5. ASSUME NEW k \in 1..Len(G) PROVE before < G[k].first /\ G[k].last <= newest + 1
  BY <1>2, <1>3 DEF Spread
<1>6. ASSUME NEW j \in 1..Len(G), NEW k \in 1..Len(G), j < k
      PROVE  G[j].last < G[k].first
  <2>1. /\ j \in 1..Len(H) /\ k \in 1..Len(H)
        /\ G[j].last = H[j].last /\ G[k].first = H[k].first
    BY <1>1, <1>3, <1>6
  <2>2. QED
    BY <1>6, <2>1 DEF Spread
<1>7. QED
  BY <1>4, <1>5, <1>6 DEF Spread

LEMMA SpreadRemoved ==
  ASSUME NEW H \in Seq(Record), NEW G \in Seq(Record), NEW before, NEW newest,
         Spread(H, before, newest), Removed(H, G)
  PROVE  Spread(G, H[1].last, newest)
<1>1. Len(H) \in Nat /\ Len(H) > 0 /\ Len(G) = Len(H) - 1
  BY RecordNumbers DEF Removed
<1>2. ASSUME NEW k \in 1..Len(G) PROVE k + 1 \in 1..Len(H) /\ G[k] = H[k + 1] /\ 1 < k + 1
  BY <1>1 DEF Removed
<1>3. 1 \in 1..Len(H) /\ H[1].last <= newest
  BY <1>1 DEF Spread
<1>4. ASSUME NEW k \in 1..Len(G) PROVE H[1].last < G[k].first /\ G[k].last <= newest
  BY <1>2, <1>3 DEF Spread
<1>5. ASSUME NEW j \in 1..Len(G), NEW k \in 1..Len(G), j < k
      PROVE  G[j].last < G[k].first
  <2>1. j + 1 \in 1..Len(H) /\ k + 1 \in 1..Len(H) /\ j + 1 < k + 1
    BY <1>2, <1>5
  <2>2. H[j + 1].last < H[k + 1].first
    BY <2>1 DEF Spread
  <2>3. QED
    BY <1>2, <2>2
<1>6. QED
  BY <1>3, <1>4, <1>5 DEF Spread

LEMMA SpreadInit == Init => SpreadInv
<1> SUFFICES ASSUME Init, NEW s \in Source PROVE Spread(Held(s), handed[s], fed[s])
  BY DEF SpreadInv
<1>1. Held(s) = <<>> /\ handed[s] = 0 /\ fed[s] = 0
  BY DEF Init, Held, NewBuilder
<1>2. QED
  BY <1>1 DEF Spread

(* What a take leaves of its own source, and that it moves `handed' to the *)
(* last line of the record it hands out.                                   *)
LEMMA TakeSpread ==
  ASSUME CoreTypeOK, NothingLostOrRepeated, SpreadInv,
         NEW s \in Source, NEW waited, queues[s] # <<>>, Take(s, waited)
  PROVE  /\ SpreadInv'
         /\ \A t \in Source : handed[t] <= handed'[t] /\ handed'[t] <= fed[t]
<1> DEFINE H == Held(s)
<1>1. /\ Head(queues[s]) = H[1]
      /\ Removed(H, Held(s)')
      /\ \A t \in Source \ {s} : Held(t)' = Held(t)
  BY TakeRemovesHead
<1>2. CoreTypeOK'
  BY TakeTypes
<1>3. H \in Seq(Record) /\ Held(s)' \in Seq(Record)
  BY <1>2, HeldIsSeq DEF CoreTypeOK, MergeTypeOK, Held, Builder
<1>4. /\ handed' = [handed EXCEPT ![s] = handed[s] + (H[1].last - H[1].first + 1)]
      /\ fed' = fed
  BY <1>1 DEF Take
<1>5. 1 \in 1..Len(H) /\ H[1].first \in Nat /\ H[1].last \in Nat
  <2>1. Len(H) \in Nat /\ Len(H) > 0
    BY <1>1, <1>3, RecordNumbers DEF Removed
  <2>2. QED
    BY <1>3, <2>1, RecordNumbers
<1>6. H[1].first = handed[s] + 1
  BY <1>5 DEF NothingLostOrRepeated, Consecutive
<1>7. \A t \in Source : handed[t] \in Nat /\ fed[t] \in Nat /\ fed'[t] = fed[t]
  BY <1>4 DEF CoreTypeOK, HistoryTypeOK
<1>8. handed'[s] = H[1].last /\ \A t \in Source \ {s} : handed'[t] = handed[t]
  <2>1. handed[s] + (H[1].last - H[1].first + 1) = H[1].last
    BY <1>5, <1>6, <1>7
  <2>2. QED
    BY <1>4, <2>1 DEF CoreTypeOK, HistoryTypeOK
<1>9. Spread(H, handed[s], fed[s])
  BY DEF SpreadInv
<1>10. Spread(Held(s)', handed'[s], fed[s])
  BY <1>1, <1>3, <1>8, <1>9, SpreadRemoved
<1>11. SpreadInv'
  BY <1>1, <1>7, <1>8, <1>10 DEF SpreadInv
<1>12. handed[s] <= handed'[s]
  <2>1. handed[s] < H[1].first /\ H[1].first <= H[1].last
    BY <1>5, <1>6, <1>7 DEF NothingLostOrRepeated, Consecutive
  <2>2. QED
    BY <1>5, <1>7, <1>8, <2>1
<1>13. \A t \in Source : handed[t] <= handed'[t] /\ handed'[t] <= fed[t]
  BY <1>7, <1>8, <1>10, <1>12 DEF SpreadInv, Spread
<1>14. QED
  BY <1>11, <1>13

LEMMA SpreadStep ==
  ASSUME CoreTypeOK, NothingLostOrRepeated, SpreadInv, [Next]_vars
  PROVE  SpreadInv'
<1>1. ASSUME NEW i \in Source, NEW line \in Line, NEW arrival \in Arrivals,
             PushLine(i, line, arrival)
      PROVE  SpreadInv'
  <2>1. /\ fed' = [fed EXCEPT ![i] = fed[i] + 1]
        /\ handed' = handed
        /\ \A t \in Source \ {i} : Held(t)' = Held(t)
    BY <1>1, PushLineEffect
  <2>2. CoreTypeOK'
    <3>1. [Next]_vars
      BY <1>1 DEF Next, Read
    <3>2. QED
      BY <3>1, CoreTypeStep
  <2>3. Held(i) \in Seq(Record) /\ Held(i)' \in Seq(Record)
    BY <2>2, HeldIsSeq DEF CoreTypeOK, MergeTypeOK, Held, Builder
  <2>4. handed[i] \in Nat /\ fed[i] \in Nat /\ fed'[i] = fed[i] + 1
    BY <2>1 DEF CoreTypeOK, HistoryTypeOK
  <2>5. \/ \E time \in Int : Appended(Held(i), Held(i)', OneLine(time, fed[i] + 1))
        \/ Extended(Held(i), Held(i)', fed[i] + 1)
    BY <1>1, PushLineEffect, HeldIsSeq, BuilderAssumption
  <2>6. Spread(Held(i), handed[i], fed[i])
    BY DEF SpreadInv
  <2>7. Spread(Held(i)', handed'[i], fed'[i])
    BY <2>1, <2>3, <2>4, <2>5, <2>6, SpreadAppended, SpreadExtended
  <2>8. \A t \in Source \ {i} : fed'[t] = fed[t]
    BY <2>1 DEF CoreTypeOK, HistoryTypeOK
  <2>9. QED
    BY <2>1, <2>7, <2>8 DEF SpreadInv
<1>2. ASSUME NEW S, Finish(S), UNCHANGED <<fed, handed>> PROVE SpreadInv'
  BY <1>2, FinishKeepsHeld DEF SpreadInv
<1>3. ASSUME UNCHANGED <<builders, queues, fed, handed>> PROVE SpreadInv'
  BY <1>3 DEF SpreadInv, Held
<1>4. ASSUME NEW i \in Source, Eof(i) PROVE SpreadInv'
  BY <1>2, <1>4 DEF Eof, historyVars
<1>5. CASE Tick \/ Stop
  BY <1>2, <1>5 DEF Tick, Stop, historyVars
<1>6. ASSUME NEW s \in Source, DrainReady(s) \/ DrainAll(s) PROVE SpreadInv'
  BY <1>6, TakeSpread DEF DrainReady, DrainAll, Earliest, Heads
<1>7. CASE TickDone \/ StopDone \/ TimePasses \/ UNCHANGED vars
  BY <1>3, <1>7 DEF TickDone, StopDone, TimePasses, vars, mergeVars, historyVars
<1>8. QED
  BY <1>1, <1>4, <1>5, <1>6, <1>7 DEF Next, Read, Emit, Teardown

-----------------------------------------------------------------------------
LEMMA StreamStep ==
  ASSUME CoreTypeOK, NothingLostOrRepeated, SpreadInv, [Next]_vars
  PROVE  [Stream!StreamNext]_(Stream!streamVars)
<1> USE DEF Stream!StreamNext, Stream!streamVars, Stream!Source, Source
<1>1. ASSUME NEW i \in Source, NEW line \in Line, NEW arrival \in Arrivals,
             PushLine(i, line, arrival)
      PROVE  Stream!Deliver(i)
  BY <1>1 DEF PushLine, Stream!Deliver
<1>2. ASSUME NEW i \in Source, Eof(i) PROVE Stream!FinishSource(i)
  BY <1>2 DEF Eof, historyVars, Stream!FinishSource
<1>3. ASSUME NEW s \in Source, DrainReady(s) \/ DrainAll(s) PROVE Stream!HandOut
  <2>1. PICK waited : queues[s] # <<>> /\ Take(s, waited)
    BY <1>3 DEF DrainReady, DrainAll, Earliest, Heads
  <2>2. \A t \in Source : handed[t] <= handed'[t] /\ handed'[t] <= fed[t]
    BY <2>1, TakeSpread
  <2>3. handed' \in [Source -> UNION {0..fed[t] : t \in Source}]
    <3>1. handed' \in [Source -> Nat] /\ fed \in [Source -> Nat]
      BY <2>1, TakeTypes DEF CoreTypeOK, HistoryTypeOK
    <3>2. \A t \in Source : handed'[t] \in 0..fed[t]
      BY <2>2, <3>1
    <3>3. \A t \in Source : handed'[t] \in UNION {0..fed[u] : u \in Source}
      BY <3>2
    <3>4. QED
      BY <3>1, <3>3
  <2>4. UNCHANGED <<fed, eof>>
    BY <2>1 DEF Take
  <2>5. QED
    BY <2>2, <2>3, <2>4 DEF Stream!HandOut
<1>4. CASE Tick \/ Stop
  BY <1>4 DEF Tick, Stop, historyVars
<1>5. CASE TickDone \/ StopDone \/ TimePasses \/ UNCHANGED vars
  BY <1>5 DEF TickDone, StopDone, TimePasses, vars, mergeVars, historyVars
<1>6. QED
  BY <1>1, <1>2, <1>3, <1>4, <1>5 DEF Next, Read, Emit, Teardown

(* However the window, the flush and the two drains reorder records of     *)
(* different sources, each source's lines come out as they went in: every  *)
(* behaviour of the merger is one of LineStream.                           *)
THEOREM MergerImplementsStream == Spec => ImplementsStream
<1>1. Init => Stream!StreamInit
  BY DEF Init, Stream!StreamInit, Stream!Source, Source
<1>2. Init => SpreadInv
  BY SpreadInit
<1>3. ASSUME CoreTypeOK, NothingLostOrRepeated, SpreadInv, [Next]_vars
      PROVE  SpreadInv' /\ [Stream!StreamNext]_(Stream!streamVars)
  BY <1>3, SpreadStep, StreamStep
<1>4. QED
  BY <1>1, <1>2, <1>3, LinesConserved, PTL DEF Spec, ImplementsStream, Stream!StreamSpec

-----------------------------------------------------------------------------
(* The skew watch *)

LEMMA LeastNumber ==
  ASSUME NEW T \in SUBSET Nat, T # {}
  PROVE  \E x \in T : \A y \in T : x <= y
<1>1. PICK x \in T : \A y \in T : <<y, x>> \notin OpToRel(<, Nat)
  BY NatLessThanWellFounded, WFMin
<1>2. \A y \in T : y < x => <<y, x>> \in OpToRel(<, Nat)
  BY DEF OpToRel
<1>3. \A y \in T : ~(y < x)
  BY <1>1, <1>2
<1>4. x \in Nat /\ \A y \in T : y \in Nat
  OBVIOUS
<1>5. \A y \in T : x <= y
  BY <1>3, <1>4
<1>6. QED
  BY <1>5

LEMMA LeastSource ==
  ASSUME NEW S \in SUBSET Source, S # {}
  PROVE  Min(S) \in S
<1>1. S \in SUBSET Nat
  BY SourcesAssumption DEF Source
<1>2. \E x \in S : \A y \in S : x <= y
  BY <1>1, LeastNumber
<1>3. QED
  BY <1>2 DEF Min

(* Of the offsets of all sources one is smallest and one is largest: if    *)
(* not, there would be a least number of sources of which that is so.      *)
LEMMA OffsetsHaveExtremes ==
  ASSUME NEW o \in [Source -> Int]
  PROVE  LET S == {o[s] : s \in Source}
         IN /\ Min(S) \in S /\ Max(S) \in S
            /\ \A x \in S : Min(S) <= x /\ x <= Max(S)
<1> DEFINE Bounded(n) == \E lo, hi \in 1..n : \A k \in 1..n : o[lo] <= o[k] /\ o[k] <= o[hi]
           T == {n \in 1..N : ~Bounded(n)}
<1>1. N \in Nat \ {0} /\ Source = 1..N /\ \A k \in 1..N : o[k] \in Int
  BY SourcesAssumption DEF Source
<1>2. Bounded(1)
  <2>1. o[1] <= o[1] /\ \A k \in 1..1 : k = 1
    BY <1>1
  <2>2. QED
    BY <2>1
<1>3. ASSUME NEW n \in 2..N, Bounded(n - 1)
      PROVE  Bounded(n)
  <2>1. PICK lo \in 1..(n - 1), hi \in 1..(n - 1) :
          \A k \in 1..(n - 1) : o[lo] <= o[k] /\ o[k] <= o[hi]
    BY <1>3
  <2> DEFINE lo1 == IF o[n] < o[lo] THEN n ELSE lo
             hi1 == IF o[n] > o[hi] THEN n ELSE hi
  <2>2. /\ \A k \in 1..n : o[k] \in Int /\ (k = n \/ k \in 1..(n - 1))
        /\ lo \in 1..n /\ hi \in 1..n /\ n \in 1..n /\ lo1 \in 1..n /\ hi1 \in 1..n
    BY <1>1
  <2>3. \A k \in 1..n : o[lo1] <= o[k] /\ o[k] <= o[hi1]
    BY <2>1, <2>2
  <2> HIDE DEF lo1, hi1
  <2>4. QED
    BY <2>2, <2>3
<1> HIDE DEF Bounded
<1>4. T = {}
  <2> SUFFICES ASSUME T # {} PROVE FALSE
    OBVIOUS
  <2>1. T \in SUBSET Nat
    BY <1>1
  <2>2. PICK n \in T : \A m \in T : n <= m
    BY <2>1, LeastNumber
  <2>3. n \in 2..N /\ n - 1 \in 1..N /\ ~(n <= n - 1)
    BY <1>1, <1>2
  <2>4. QED
    BY <1>3, <2>2, <2>3
<1>5. Bounded(N)
  BY <1>1, <1>4
<1>6. PICK lo \in Source, hi \in Source : \A k \in Source : o[lo] <= o[k] /\ o[k] <= o[hi]
  BY <1>1, <1>5 DEF Bounded
<1> DEFINE S == {o[s] : s \in Source}
<1>7. /\ o[lo] \in S /\ \A x \in S : o[lo] <= x
      /\ o[hi] \in S /\ \A x \in S : x <= o[hi]
  BY <1>6
<1> HIDE DEF S
<1>8. Min(S) \in S /\ \A x \in S : Min(S) <= x
  BY <1>7 DEF Min
<1>9. Max(S) \in S /\ \A x \in S : x <= Max(S)
  BY <1>7 DEF Max
<1>10. QED
  BY <1>8, <1>9 DEF S

LEMMA ZoneIsPositive ==
  ASSUME NEW d \in Int, AsZoneOffset(d) # None
  PROVE  AsZoneOffset(d) \in Int /\ d > 0
<1>1. Rounded(d) \in Int
  BY SkewAssumption DEF Rounded
<1>2. QED
  BY <1>1, SkewAssumption DEF AsZoneOffset

(* check_skew on a set of offsets: either nothing changes, and that because*)
(* the spread was judged before or is no zone, or a proper note is raised. *)
LEMMA CheckSkewCases ==
  ASSUME NEW o \in [Source -> Int \cup {None}], skewJudged \in BOOLEAN, CheckSkew(o)
  PROVE  \/ /\ UNCHANGED <<skewNote, skewJudged>>
            /\ \/ skewJudged
               \/ N # 2
               \/ o[1] = None \/ o[2] = None
               \/ AsZoneOffset(Distance(o[1], o[2])) = None
         \/ ~skewJudged /\ skewJudged' = TRUE /\ skewNote' \in Note
<1>1. N = 2 => Source = {1, 2}
  BY DEF Source
<1>2. CASE skewJudged \/ ~(N >= 2) \/ \E s \in Source : o[s] = None
  <2>1. UNCHANGED <<skewNote, skewJudged>>
    BY <1>2 DEF CheckSkew, MayJudge
  <2>2. skewJudged \/ N # 2 \/ o[1] = None \/ o[2] = None
    BY <1>1, <1>2
  <2>3. QED
    BY <2>1, <2>2
<1>3. CASE ~skewJudged /\ N >= 2 /\ \A s \in Source : o[s] # None
  <2> DEFINE S    == {o[s] : s \in Source}
             base == Min(S)
             top  == Max(S)
  <2>1. o \in [Source -> Int]
    BY <1>3
  <2>2. base \in S /\ top \in S /\ \A x \in S : base <= x /\ x <= top
    BY <2>1, OffsetsHaveExtremes
  <2>3. base \in Int /\ top \in Int /\ top - base \in Int
    BY <2>1, <2>2
  <2>4. N = 2 => top - base = Distance(o[1], o[2])
    <3> SUFFICES ASSUME N = 2 PROVE top - base = Distance(o[1], o[2])
      OBVIOUS
    <3>1. S = {o[1], o[2]}
      BY <1>1
    <3>2. o[1] \in Int /\ o[2] \in Int
      BY <1>1, <2>1
    <3> HIDE DEF S, base, top
    <3>3. QED
      BY <2>2, <2>3, <3>1, <3>2 DEF Distance
  <2>5. CASE AsZoneOffset(top - base) = None
    BY <2>4, <2>5 DEF CheckSkew, MayJudge
  <2>6. CASE AsZoneOffset(top - base) # None
    <3> DEFINE ahead == {s \in Source : o[s] = base}
               behind == {s \in Source : o[s] # base}
    <3>1. top # base
      <4> HIDE DEF base, top
      <4>1. QED
        BY <2>3, <2>6, ZoneIsPositive
    <3>2. ahead # {} /\ behind # {}
      BY <2>2, <3>1
    <3>3. Min(ahead) \in Source /\ Min(behind) \in Source
      BY <3>2, LeastSource
    <3>4. /\ skewJudged' = TRUE
          /\ skewNote' = [ahead |-> Min(ahead), behind |-> Min(behind),
                          zone |-> AsZoneOffset(top - base)]
      BY <1>3, <2>6 DEF CheckSkew, MayJudge, SkewNote
    <3>5. AsZoneOffset(top - base) \in Int
      <4> HIDE DEF base, top
      <4>1. QED
        BY <2>3, <2>6, ZoneIsPositive
    <3>6. QED
      BY <1>3, <3>3, <3>4, <3>5 DEF Note
  <2>7. QED
    BY <2>5, <2>6
<1>4. QED
  BY <1>2, <1>3

(* A sample keeps the types of the watch.                                  *)
LEMMA ObserveTypes ==
  ASSUME SkewTypeOK, NEW i \in Source, NEW sample \in Int, Observe(i, sample)
  PROVE  SkewTypeOK'
<1> DEFINE o == [offsets EXCEPT ![i] = IF @ = None \/ sample < @ THEN sample ELSE @]
<1>1. o \in [Source -> Int \cup {None}]
  BY DEF SkewTypeOK
<1>2. offsets' = o /\ CheckSkew(o)
  BY DEF Observe
<1> HIDE DEF o
<1>3. \/ UNCHANGED <<skewNote, skewJudged>>
      \/ skewJudged' = TRUE /\ skewNote' \in Note
  BY <1>1, <1>2, CheckSkewCases DEF SkewTypeOK
<1>4. QED
  BY <1>1, <1>2, <1>3 DEF SkewTypeOK

(* Nothing has been said before the spread is judged, and afterwards the   *)
(* note is in one place: with the merger or with the operator.  A spread   *)
(* that is a zone now has been judged, now or before.                      *)
SkewInv ==
  /\ ClocksTypeOK
  /\ ~skewJudged => skewNote = None /\ Len(told) = 0
  /\ skewJudged => Len(told) + (IF skewNote = None THEN 0 ELSE 1) = 1
  /\ N = 2 /\ offsets[1] # None /\ offsets[2] # None
       /\ AsZoneOffset(Distance(offsets[1], offsets[2])) # None => skewJudged

LEMMA SkewInvInit == ClocksInit => SkewInv
<1> SUFFICES ASSUME ClocksInit PROVE SkewInv
  OBVIOUS
<1>1. offsets[1] = None
  BY SourcesAssumption DEF ClocksInit, SkewInit, Source
<1>2. told = <<>> /\ <<>> \in Seq(Note) /\ Len(<<>>) = 0
  BY DEF ClocksInit
<1>3. QED
  BY <1>1, <1>2 DEF ClocksInit, SkewInit, SkewInv, ClocksTypeOK, SkewTypeOK

LEMMA SkewInvStep ==
  ASSUME SkewInv, [ClocksNext]_clockVars
  PROVE  SkewInv'
<1> USE DEF SkewInv, ClocksTypeOK, SkewTypeOK
<1>2. ASSUME NEW i \in Source, NEW delay \in Delays, LineArrives(i, delay)
      PROVE  SkewInv'
  <2> DEFINE sample == clock[i] + delay
             o == [offsets EXCEPT ![i] =
                     IF @ = None \/ sample < @ THEN sample ELSE @]
  <2>1. sample \in Int
    <3>1. clock[i] \in Clocks
      OBVIOUS
    <3>2. Clocks \subseteq Int /\ Delays \subseteq Nat
      BY ClocksAssumption
    <3>3. clock[i] \in Int /\ delay \in Nat
      BY <3>1, <3>2, Zenon
    <3>4. QED
      BY <3>3
  <2>2. o \in [Source -> Int \cup {None}]
    BY <2>1
  <2>3. offsets' = o /\ CheckSkew(o) /\ UNCHANGED <<clock, told>>
    BY <1>2 DEF LineArrives, Observe
  <2> HIDE DEF o
  <2>4. Len(told) \in Nat
    OBVIOUS
  <2>5. CASE /\ UNCHANGED <<skewNote, skewJudged>>
             /\ \/ skewJudged
                \/ N # 2
                \/ o[1] = None \/ o[2] = None
                \/ AsZoneOffset(Distance(o[1], o[2])) = None
    BY <2>2, <2>3, <2>5
  <2>6. CASE ~skewJudged /\ skewJudged' = TRUE /\ skewNote' \in Note
    BY <2>2, <2>3, <2>4, <2>6, NoteAssumption
  <2>7. QED
    BY <2>2, <2>3, <2>5, <2>6, CheckSkewCases
<1>3. CASE EmitterAsks
  <2>1. /\ skewNote' = None
        /\ UNCHANGED <<offsets, skewJudged, clock>>
        /\ told' = IF skewNote = None THEN told ELSE Append(told, skewNote)
    BY <1>3 DEF EmitterAsks, TakeNote
  <2>2. CASE skewNote = None
    BY <2>1, <2>2
  <2>3. CASE skewNote # None
    <3>1. skewNote \in Note
      BY <2>3
    <3>2. told' \in Seq(Note) /\ Len(told') = Len(told) + 1 /\ Len(told) \in Nat
      BY <2>1, <2>3, <3>1
    <3>3. skewJudged /\ Len(told) = 0
      BY <2>3, <3>2
    <3>4. QED
      BY <2>1, <2>3, <3>2, <3>3
  <2>4. QED
    BY <2>2, <2>3
<1>4. CASE UNCHANGED clockVars
  BY <1>4 DEF clockVars
<1>5. QED
  BY <1>2, <1>3, <1>4 DEF ClocksNext

LEMMA SkewInvariant == ClocksSpec => []SkewInv
<1>1. ClocksInit => SkewInv
  BY SkewInvInit
<1>2. ASSUME SkewInv, [ClocksNext]_clockVars PROVE SkewInv'
  BY <1>2, SkewInvStep
<1>3. QED
  BY <1>1, <1>2, PTL DEF ClocksSpec

(* The types of the watch, and that a note names two of the sources.       *)
THEOREM SkewTypes == ClocksSpec => []ClocksTypeOK
<1>1. SkewInv => ClocksTypeOK
  BY DEF SkewInv
<1>2. QED
  BY <1>1, SkewInvariant, PTL

(* One session is told about a skew at most once, whatever the clocks, the *)
(* delays and the moments the emitter asks.                                *)
THEOREM SkewSaidOnce == ClocksSpec => []SaidOnce
<1>1. SkewInv => SaidOnce
  <2> SUFFICES ASSUME SkewInv PROVE SaidOnce
    OBVIOUS
  <2> DEFINE count == Len(told) + (IF skewNote = None THEN 0 ELSE 1)
  <2>1. CASE skewJudged
    <3>1. count = 1
      BY <2>1 DEF SkewInv
    <3>2. count <= 1
      BY <3>1
    <3>3. QED
      BY <3>2 DEF SaidOnce
  <2>2. CASE ~skewJudged
    BY <2>2 DEF SkewInv, SaidOnce
  <2>3. QED
    BY <2>1, <2>2 DEF SkewInv, ClocksTypeOK, SkewTypeOK
<1>2. QED
  BY <1>1, SkewInvariant, PTL

(* Two clocks that are a timezone apart are reported once both processes   *)
(* have delivered a line stamped as it arrived, whatever came before.      *)
THEOREM SkewReported == ASSUME N = 2 PROVE ClocksSpec => []TrueSkewIsReported
<1>1. SkewInv => TrueSkewIsReported
  <2> SUFFICES ASSUME SkewInv, NEW s \in Source, NEW t \in Source,
                      Live(s), Live(t), TrueZone(s, t) # None
               PROVE  Reported
    BY DEF TrueSkewIsReported
  <2>1. Source = {1, 2}
    BY DEF Source
  <2>2. clock[s] \in Int /\ clock[t] \in Int
    BY ClocksAssumption DEF SkewInv, ClocksTypeOK
  <2>3. Distance(clock[s], clock[t]) \in Int /\ Distance(clock[s], clock[t]) > 0
    BY <2>2, ZoneIsPositive DEF TrueZone, Distance
  <2>4. /\ offsets[1] \in Int /\ offsets[2] \in Int
        /\ Distance(offsets[1], offsets[2]) = Distance(clock[s], clock[t])
    BY <2>1, <2>2, <2>3 DEF Live, Distance
  <2>5. skewJudged
    BY <2>4, SourcesAssumption DEF SkewInv, TrueZone
  <2>6. told # <<>> \/ skewNote # None
    BY <2>5 DEF SkewInv
  <2>7. QED
    BY <2>6 DEF Reported
<1>2. QED
  BY <1>1, SkewInvariant, PTL

(* Whatever the merger is called with, a sample it takes is a time and the *)
(* types of its state, its history and its skew watch are kept.            *)
THEOREM MergerTypes == Spec => []TypeOK
<1>1. Init => SkewTypeOK
  BY DEF Init, SkewInit, SkewTypeOK
<1>2. ASSUME CoreTypeOK, SkewTypeOK, [Next]_vars PROVE SkewTypeOK'
  <2>1. ASSUME NEW i \in Source, NEW line \in Line, NEW arrival \in Arrivals,
               PushLine(i, line, arrival)
        PROVE  SkewTypeOK'
    <3> DEFINE p == Pushed(builders[i], fed[i] + 1, line)
    <3>1. p.stampedAt \in Int \cup {None}
      <4>1. /\ builders[i] \in Builder /\ fed[i] + 1 \in Nat
            /\ Len(builders[i].pending) <= 1
            /\ builders[i].last = None => builders[i].pending = <<>>
        BY <1>2, HeldIsSeq DEF CoreTypeOK, HistoryTypeOK
      <4>2. p.stampedAt = None \/ (line \in Stamps /\ p.stampedAt = Resolve(builders[i].last, line))
        BY <4>1, PushedCases
      <4>3. line \in Stamps => Resolve(builders[i].last, line) \in Int
        BY <4>1, ResolveIsTime, MergerAssumption DEF Builder
      <4>4. QED
        BY <4>2, <4>3
    <3>2. IF p.stampedAt = None THEN UNCHANGED skewVars ELSE Observe(i, arrival - p.stampedAt)
      BY <2>1 DEF PushLine
    <3>3. arrival \in Int
      BY MergerAssumption
    <3> HIDE DEF p
    <3>4. CASE p.stampedAt = None
      BY <1>2, <3>2, <3>4 DEF SkewTypeOK, skewVars
    <3>5. CASE p.stampedAt # None
      <4>1. arrival - p.stampedAt \in Int
        BY <3>1, <3>3, <3>5
      <4>2. QED
        BY <1>2, <3>2, <3>5, <4>1, ObserveTypes
    <3>6. QED
      BY <3>4, <3>5
  <2>2. ASSUME UNCHANGED skewVars \/ TakeNote PROVE SkewTypeOK'
    BY <1>2, <2>2 DEF SkewTypeOK, skewVars, TakeNote
  <2>3. QED
    BY <1>2, <2>1, <2>2
    DEF Next, Read, Emit, Teardown, Eof, Tick, DrainReady, TickDone, Stop, DrainAll, StopDone,
        TimePasses, vars
<1>3. CoreTypeOK /\ SkewTypeOK => TypeOK
  BY DEF CoreTypeOK, TypeOK
<1>4. QED
  BY <1>1, <1>2, <1>3, LinesConserved, PTL DEF Spec

=============================================================================
