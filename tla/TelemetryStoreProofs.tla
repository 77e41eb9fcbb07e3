------------------------ MODULE TelemetryStoreProofs ------------------------
(***************************************************************************)
(* Proofs about TelemetryStore, for any number of threads and points.      *)
(*                                                                         *)
(* The inductive invariant has three parts besides the types: ClearIsSafe  *)
(* and Attended speak of the buffer and its threads, Fresh of the way of a *)
(* point to InfluxDB and back to the reader.                               *)
(***************************************************************************)
EXTENDS TelemetryStore, WellFoundedInduction, TLAPS

(* The part of the type invariant the proofs about the buffer need. *)
CoreOK ==
    /\ buffer \in Seq(Point)
    /\ pc \in [Threads -> {"idle", "read", "check", "test", "write", "clear",
                           "stamp", "end"}]
    /\ closing \in [Threads -> BOOLEAN]
    /\ accepted \in 0..MaxPoints
    /\ now \in Times

(* When a thread is about to clear the buffer, what it may clear has been  *)
(* written, or was made during the race.                                   *)
ClearIsSafe ==
    \A t \in Threads :
        pc[t] = "clear" => \A m \in 1..accepted : m \in raced \/ m \in written

(* A thread that is going to flush before its request ends. *)
WillFlush(t) ==
    \/ pc[t] \in {"check", "test", "write", "clear"}
    \/ pc[t] = "end" /\ ~closing[t]

(* A buffered point has a thread that will flush it; only close() flushes  *)
(* with closing set.                                                       *)
Attended ==
    /\ buffer # <<>> /\ ~raised => \E t \in Threads : WillFlush(t)
    /\ \A t \in Threads : pc[t] \in {"idle", "read", "check"} => ~closing[t]

(* A point appended to the buffer. *)
LEMMA StoredPoint ==
    ASSUME CoreOK, NEW t \in Threads, NEW s \in Measurements, Store(t, s)
    PROVE  /\ buffer' \in Seq(Point) /\ buffer' # <<>>
           /\ accepted' = accepted + 1 /\ accepted' \in 0..MaxPoints
           /\ \A k \in DOMAIN buffer :
                 k \in DOMAIN buffer' /\ buffer'[k] = buffer[k]
           /\ \E k \in DOMAIN buffer' : buffer'[k].n = accepted + 1
<1> DEFINE p == [n |-> accepted + 1, series |-> s, made |-> now,
                 time |-> IF s \in Stamped THEN now ELSE 0]
<1>1. accepted + 1 \in 1..MaxPoints /\ accepted' = accepted + 1
  BY TelemetryAssumption DEF TelemetryAssumption, CoreOK, Store
<1>2. p \in Point /\ p.n = accepted + 1
  BY <1>1 DEF Point, CoreOK
<1>3. buffer' = Append(buffer, p)
  BY DEF Store
<1> HIDE DEF p
<1>4. /\ buffer' \in Seq(Point)
      /\ DOMAIN buffer' = DOMAIN buffer \cup {Len(buffer) + 1}
      /\ \A k \in DOMAIN buffer : buffer'[k] = buffer[k]
      /\ buffer'[Len(buffer) + 1] = p
  BY <1>2, <1>3 DEF CoreOK
<1>5. buffer' # <<>>
  <2>1. buffer' = <<>> => DOMAIN buffer' = {}
    OBVIOUS
  <2> QED
    BY <1>4, <2>1
<1> QED
  BY <1>1, <1>2, <1>4, <1>5

(* Each step keeps the core types. *)
LEMMA CoreStep == CoreOK /\ [TeleNext]_teleVars => CoreOK'
<1> SUFFICES ASSUME CoreOK, [TeleNext]_teleVars PROVE CoreOK'
  OBVIOUS
<1>1. ASSUME NEW t \in Threads, Thread(t) PROVE CoreOK'
  <2>1. ASSUME NEW s \in Measurements, Store(t, s) PROVE CoreOK'
    BY <2>1, StoredPoint DEF Store, Goto, CoreOK
  <2>2. ASSUME NEW s \in Measurements, LastRead(t, s) PROVE CoreOK'
    BY <2>2 DEF LastRead, Goto, CoreOK
  <2>3. CASE OtherRequest(t) \/ last_telemetry(t)
    BY <2>3 DEF OtherRequest, last_telemetry, Goto, CoreOK, history
  <2>4. CASE _check_flush(t) \/ FlushTest(t)
    <3>1. /\ \/ pc' = [pc EXCEPT ![t] = "test"]
             \/ pc' = [pc EXCEPT ![t] = "write"]
             \/ pc' = [pc EXCEPT ![t] = "end"]
          /\ UNCHANGED <<now, buffer, closing, accepted>>
      BY <2>4, Zenon DEF _check_flush, FlushTest, Goto, history
    <3> QED
      BY <3>1 DEF CoreOK
  <2>5. CASE FlushWrite(t) \/ WriteRaises(t)
    <3>1. /\ \/ pc' = [pc EXCEPT ![t] = "clear"]
             \/ pc' = [pc EXCEPT ![t] = "end"]
          /\ UNCHANGED <<now, buffer, closing, accepted>>
      BY <2>5, Zenon DEF FlushWrite, WriteRaises, Goto
    <3> QED
      BY <3>1 DEF CoreOK
  <2>6. CASE FlushClear(t) \/ FlushStamp(t)
    <3>1. /\ \/ pc' = [pc EXCEPT ![t] = "stamp"]
             \/ pc' = [pc EXCEPT ![t] = "end"]
          /\ buffer' = buffer \/ buffer' = <<>>
          /\ UNCHANGED <<now, closing, accepted>>
      BY <2>6, Zenon DEF FlushClear, FlushStamp, Goto, history
    <3>2. <<>> \in Seq(Point)
      OBVIOUS
    <3> QED
      BY <3>1, <3>2 DEF CoreOK
  <2>7. CASE Teardown(t) \/ CloseClient(t)
    BY <2>7 DEF Teardown, CloseClient, Goto, CoreOK, history
  <2> QED
    BY <1>1, <2>1, <2>2, <2>3, <2>4, <2>5, <2>6, <2>7 DEF Thread
<1>2. ASSUME NEW k, Land(k) \/ WriteLost(k) PROVE CoreOK'
  BY <1>2 DEF Land, WriteLost, CoreOK, history
<1>3. CASE ClockStep \/ UNCHANGED teleVars
  BY <1>3 DEF ClockStep, CoreOK, history, teleVars
<1> QED
  BY <1>1, <1>2, <1>3 DEF TeleNext

(* Nothing unraced is lost, whatever thread moves. *)
LEMMA RaceStep ==
    CoreOK /\ LostOnlyByRace /\ ClearIsSafe /\ [TeleNext]_teleVars
        => LostOnlyByRace' /\ ClearIsSafe'
<1> SUFFICES ASSUME CoreOK, LostOnlyByRace, ClearIsSafe, [TeleNext]_teleVars
             PROVE  LostOnlyByRace' /\ ClearIsSafe'
  OBVIOUS
<1>k. ASSUME UNCHANGED <<buffer, accepted, written, raced>>,
             \A t \in Threads : pc'[t] = "clear" => pc[t] = "clear"
      PROVE  LostOnlyByRace' /\ ClearIsSafe'
  BY <1>k DEF LostOnlyByRace, ClearIsSafe
<1>g. ASSUME NEW t \in Threads, NEW l, l # "clear", pc' = [pc EXCEPT ![t] = l]
      PROVE  \A u \in Threads : pc'[u] = "clear" => pc[u] = "clear"
  BY <1>g DEF CoreOK
<1>1. ASSUME NEW t \in Threads, Thread(t)
      PROVE  LostOnlyByRace' /\ ClearIsSafe'
  <2>1. ASSUME NEW s \in Measurements, Store(t, s)
        PROVE  LostOnlyByRace' /\ ClearIsSafe'
    <3>1. /\ accepted' = accepted + 1 /\ accepted \in Nat
          /\ \A k \in DOMAIN buffer :
                k \in DOMAIN buffer' /\ buffer'[k] = buffer[k]
          /\ \E k \in DOMAIN buffer' : buffer'[k].n = accepted + 1
      BY <2>1, StoredPoint DEF CoreOK
    <3>2. /\ written' = written /\ raced \subseteq raced'
          /\ (\E u \in Threads : pc[u] = "clear") => accepted + 1 \in raced'
          /\ pc' = [pc EXCEPT ![t] = "check"]
      BY <2>1 DEF Store, Goto
    <3>3. \A m \in 1..accepted' : m \in 1..accepted \/ m = accepted + 1
      BY <3>1
    <3>4. LostOnlyByRace'
      BY <3>1, <3>2, <3>3, Zenon DEF LostOnlyByRace
    <3>5. \A u \in Threads : pc'[u] = "clear" => pc[u] = "clear"
      BY <3>2, <1>g
    <3>6. ClearIsSafe'
      BY <3>2, <3>3, <3>5, Zenon DEF ClearIsSafe
    <3> QED
      BY <3>4, <3>6
  <2>2. ASSUME NEW s \in Measurements, LastRead(t, s)
        PROVE  LostOnlyByRace' /\ ClearIsSafe'
    <3>1. /\ UNCHANGED <<buffer, accepted, written, raced>>
          /\ \/ pc' = [pc EXCEPT ![t] = "end"]
             \/ pc' = [pc EXCEPT ![t] = "read"]
      BY <2>2, Zenon DEF LastRead, Goto
    <3> QED
      BY <3>1, <1>k, <1>g
  <2>3. CASE \/ OtherRequest(t) \/ last_telemetry(t) \/ _check_flush(t)
             \/ FlushTest(t) \/ WriteRaises(t)
    <3>1. /\ UNCHANGED <<buffer, accepted, written, raced>>
          /\ \/ pc' = [pc EXCEPT ![t] = "end"]
             \/ pc' = [pc EXCEPT ![t] = "read"]
             \/ pc' = [pc EXCEPT ![t] = "test"]
             \/ pc' = [pc EXCEPT ![t] = "write"]
      BY <2>3, Zenon
      DEF OtherRequest, last_telemetry, _check_flush, FlushTest, WriteRaises,
          Goto, history
    <3> QED
      BY <3>1, <1>k, <1>g
  <2>4. CASE FlushWrite(t)
    <3>1. /\ UNCHANGED <<buffer, accepted, raced>>
          /\ written \subseteq written'
          /\ \A k \in DOMAIN buffer : buffer[k].n \in written'
      BY <2>4, Zenon DEF FlushWrite
    <3>2. \A m \in 1..accepted : m \in raced \/ m \in written'
      BY <3>1, Zenon DEF LostOnlyByRace
    <3> QED
      BY <3>1, <3>2, Zenon DEF LostOnlyByRace, ClearIsSafe
  <2>5. CASE FlushClear(t)
    <3>1. /\ UNCHANGED <<accepted, written, raced>> /\ pc[t] = "clear"
          /\ pc' = [pc EXCEPT ![t] = "stamp"]
      BY <2>5 DEF FlushClear, Goto
    <3>2. \A m \in 1..accepted : m \in raced \/ m \in written
      BY <3>1 DEF ClearIsSafe
    <3> QED
      BY <3>1, <3>2, Zenon DEF LostOnlyByRace, ClearIsSafe
  <2>6. CASE FlushStamp(t) \/ Teardown(t) \/ CloseClient(t)
    <3>1. /\ UNCHANGED <<buffer, accepted, written, raced>>
          /\ \/ pc' = [pc EXCEPT ![t] = "end"]
             \/ pc' = [pc EXCEPT ![t] = "test"]
             \/ pc' = [pc EXCEPT ![t] = "idle"]
      BY <2>6, Zenon DEF FlushStamp, Teardown, CloseClient, Goto, history
    <3> QED
      BY <3>1, <1>k, <1>g
  <2> QED
    BY <1>1, <2>1, <2>2, <2>3, <2>4, <2>5, <2>6 DEF Thread
<1>2. ASSUME NEW k, Land(k) \/ WriteLost(k)
      PROVE  LostOnlyByRace' /\ ClearIsSafe'
  BY <1>2, <1>k DEF Land, WriteLost, history
<1>3. CASE ClockStep \/ UNCHANGED teleVars
  BY <1>3, <1>k DEF ClockStep, history, teleVars
<1> QED
  BY <1>1, <1>2, <1>3 DEF TeleNext

(* Every buffered point has a thread that will flush it. *)
LEMMA AttendedStep == CoreOK /\ Attended /\ [TeleNext]_teleVars => Attended'
<1> SUFFICES ASSUME CoreOK, Attended, [TeleNext]_teleVars PROVE Attended'
  OBVIOUS
<1>1. ASSUME NEW t \in Threads, Thread(t) PROVE Attended'
  <2>u. ASSUME NEW l, pc' = [pc EXCEPT ![t] = l]
        PROVE  pc'[t] = l /\ \A u \in Threads \ {t} : pc'[u] = pc[u]
    BY <2>u DEF CoreOK
  <2>1. ASSUME NEW s \in Measurements, Store(t, s) PROVE Attended'
    BY <2>1 DEF Store, Goto, CoreOK, Attended, WillFlush
  <2>2. ASSUME NEW s \in Measurements, LastRead(t, s) PROVE Attended'
    BY <2>2 DEF LastRead, Goto, CoreOK, Attended, WillFlush
  <2>3. CASE OtherRequest(t) \/ last_telemetry(t)
    BY <2>3 DEF OtherRequest, last_telemetry, Goto, CoreOK, Attended,
                WillFlush, history
  <2>4. CASE _check_flush(t)
    BY <2>4 DEF _check_flush, Goto, CoreOK, Attended, WillFlush, history
  <2>5. CASE FlushTest(t)
    BY <2>5 DEF FlushTest, Goto, CoreOK, Attended, WillFlush, history
  <2>6. CASE FlushWrite(t)
    BY <2>6 DEF FlushWrite, Goto, CoreOK, Attended, WillFlush
  <2>7. CASE WriteRaises(t)
    BY <2>7 DEF WriteRaises, Goto, CoreOK, Attended, WillFlush
  <2>8. CASE FlushClear(t)
    BY <2>8 DEF FlushClear, Goto, CoreOK, Attended, WillFlush
  <2>9. CASE FlushStamp(t)
    BY <2>9 DEF FlushStamp, Goto, CoreOK, Attended, WillFlush, history
  <2>10. CASE Teardown(t)
    BY <2>10 DEF Teardown, Goto, CoreOK, Attended, WillFlush, history
  <2>11. CASE CloseClient(t)
    BY <2>11 DEF CloseClient, Goto, CoreOK, Attended, WillFlush, history
  <2> QED
    BY <1>1, <2>1, <2>2, <2>3, <2>4, <2>5, <2>6, <2>7, <2>8, <2>9, <2>10,
       <2>11
    DEF Thread
<1>2. ASSUME NEW k, Land(k) \/ WriteLost(k) PROVE Attended'
  BY <1>2 DEF Land, WriteLost, Attended, WillFlush, history
<1>3. CASE ClockStep \/ UNCHANGED teleVars
  BY <1>3 DEF ClockStep, Attended, WillFlush, history, teleVars
<1> QED
  BY <1>1, <1>2, <1>3 DEF TeleNext

----------------------------------------------------------------------------
(* Every set of natural numbers that has a member has a least one: the     *)
(* principle behind the two inductions over the points of a request.       *)
LEMMA LeastNatural ==
    ASSUME NEW T, T \subseteq Nat, T # {}
    PROVE  \E x \in T : \A y \in T : x <= y
<1> DEFINE R == OpToRel(<, Nat)
<1>1. IsWellFoundedOn(R, Nat)
  BY NatLessThanWellFounded, Zenon
<1>2. \A x, y \in Nat : x < y => <<x, y>> \in R
  BY DEF OpToRel
<1> HIDE DEF R
<1>3. PICK x \in T : \A y \in T : <<y, x>> \notin R
  BY <1>1, WFMin
<1>4. \A y \in T : ~(y < x)
  BY <1>2, <1>3, Zenon
<1>5. \A y \in T : y \in Int /\ x \in Int
  OBVIOUS
<1> QED
  BY <1>4, <1>5

(* What the database is after each of the first n points of a request. *)
Arrival(f, n, d0, b) ==
    f = [i \in 0..n |-> IF i = 0 THEN d0 ELSE Arrive(f[i - 1], b[i])]

(* The points of a request can be taken one after the other, however many  *)
(* there are.                                                              *)
LEMMA ArrivalExists ==
    ASSUME NEW d0, NEW b, NEW n \in Nat
    PROVE  \E f : Arrival(f, n, d0, b)
<1> DEFINE T == {m \in Nat : ~ \E f : Arrival(f, m, d0, b)}
<1> SUFFICES ASSUME T # {} PROVE FALSE
  OBVIOUS
<1>1. PICK m \in T : \A y \in T : m <= y
  <2>1. T \subseteq Nat
    OBVIOUS
  <2> HIDE DEF T
  <2> QED
    BY <2>1, LeastNatural
<1>2. m \in Nat /\ ~ \E f : Arrival(f, m, d0, b)
  OBVIOUS
<1>3. m # 0
  <2> SUFFICES ASSUME m = 0 PROVE FALSE
    OBVIOUS
  <2> DEFINE f == [i \in 0..0 |-> d0]
  <2>1. f = [i \in 0..0 |-> IF i = 0 THEN d0 ELSE Arrive(f[i - 1], b[i])]
    OBVIOUS
  <2>2. Arrival(f, m, d0, b)
    BY <2>1 DEF Arrival
  <2> QED
    BY <1>2, <2>2
<1>4. m - 1 \in Nat /\ m - 1 \notin T
  BY <1>1, <1>2, <1>3
<1>5. PICK g : Arrival(g, m - 1, d0, b)
  BY <1>4
<1> DEFINE f == [i \in 0..m |-> IF i = m THEN Arrive(g[m - 1], b[m]) ELSE g[i]]
<1>6. \A i \in 0..(m - 1) :
         g[i] = IF i = 0 THEN d0 ELSE Arrive(g[i - 1], b[i])
  BY <1>5 DEF Arrival
<1>7. \A i \in 0..m :
         f[i] = IF i = 0 THEN d0 ELSE Arrive(f[i - 1], b[i])
  <2> SUFFICES ASSUME NEW i \in 0..m
               PROVE  f[i] = IF i = 0 THEN d0 ELSE Arrive(f[i - 1], b[i])
    OBVIOUS
  <2>1. CASE i = m
    <3>1. i # 0 /\ f[i - 1] = g[m - 1]
      BY <1>2, <1>3, <2>1
    <3>2. f[i] = Arrive(g[m - 1], b[m])
      BY <2>1
    <3> QED
      BY <2>1, <3>1, <3>2, Zenon
  <2>2. CASE i # m
    <3>1. i \in 0..(m - 1) /\ f[i] = g[i]
      BY <1>2, <2>2
    <3>2. i # 0 => f[i - 1] = g[i - 1]
      BY <1>2, <2>2
    <3> QED
      BY <1>6, <3>1, <3>2, Zenon
  <2> QED
    BY <2>1, <2>2
<1>8. f = [i \in 0..m |-> IF i = 0 THEN d0 ELSE Arrive(f[i - 1], b[i])]
  <2> DEFINE h == [i \in 0..m |-> IF i = 0 THEN d0 ELSE Arrive(f[i - 1], b[i])]
  <2>1. f = [i \in 0..m |-> f[i]]
    OBVIOUS
  <2> HIDE DEF f
  <2> QED
    BY <1>7, <2>1, Zenon
<1>9. Arrival(f, m, d0, b)
  BY <1>8 DEF Arrival
<1> HIDE DEF f
<1> QED
  BY <1>2, <1>9

(* A point that carries its own timestamp has the time it was made. *)
Honest(p) == p.series \in Stamped => p.time = p.made
HonestDb(d) == \A s \in Stamped : \A t \in Times : d[s][t] \in {0, t}

(* d1 has a point wherever d has one. *)
Keeps(d, d1) ==
    \A s \in Stamped : \A t \in Times : d[s][t] # 0 => d1[s][t] # 0

(* One point keeps all this ... *)
LEMMA ArriveKeeps ==
    ASSUME now \in Times, NEW d \in Database, NEW p \in Point,
           HonestDb(d), Honest(p)
    PROVE  /\ Arrive(d, p) \in Database
           /\ HonestDb(Arrive(d, p))
           /\ Keeps(d, Arrive(d, p))
<1> DEFINE x == p.series
           time == IF p.time = 0 THEN now ELSE p.time
           row == [d[x] EXCEPT ![time] = p.made]
<1>1. x \in Measurements /\ p.made \in Times /\ p.time \in Times \cup {0}
  BY DEF Point
<1>2. time \in Times /\ (x \in Stamped => time = p.made) /\ p.made # 0
  BY <1>1, TelemetryAssumption DEF TelemetryAssumption, Honest
<1>3. Arrive(d, p) = [d EXCEPT ![x] = row]
  BY Zenon DEF Arrive
<1> HIDE DEF x, time
<1>4. \A s \in Measurements : d[s] \in [Times -> Times \cup {0}]
  BY DEF Database
<1>5. /\ row \in [Times -> Times \cup {0}]
      /\ \A t \in Times : row[t] = IF t = time THEN p.made ELSE d[x][t]
  BY <1>1, <1>2, <1>4
<1> HIDE DEF row
<1>6. /\ Arrive(d, p) \in Database
      /\ \A s \in Measurements : Arrive(d, p)[s] = IF s = x THEN row ELSE d[s]
  BY <1>1, <1>3, <1>5 DEF Database
<1>7. ASSUME NEW s \in Stamped, NEW t \in Times
      PROVE  /\ Arrive(d, p)[s][t] \in {0, t}
             /\ d[s][t] # 0 => Arrive(d, p)[s][t] # 0
  <2>1. s \in Measurements /\ d[s][t] \in {0, t}
    BY DEF Measurements, HonestDb
  <2>2. CASE s = x /\ t = time
    <3>1. Arrive(d, p)[s][t] = p.made
      BY <1>5, <1>6, <2>1, <2>2
    <3> QED
      BY <1>2, <2>2, <3>1
  <2>3. CASE ~(s = x /\ t = time)
    <3>1. Arrive(d, p)[s][t] = d[s][t]
      BY <1>5, <1>6, <2>1, <2>3
    <3> QED
      BY <2>1, <3>1
  <2> QED
    BY <2>2, <2>3
<1> QED
  BY <1>6, <1>7 DEF HonestDb, Keeps

(* ... and so do all the points of a request. *)
LEMMA ArriveAllKeeps ==
    ASSUME now \in Times, NEW d0 \in Database, NEW b \in Seq(Point),
           HonestDb(d0), \A i \in DOMAIN b : Honest(b[i])
    PROVE  /\ ArriveAll(d0, b) \in Database
           /\ HonestDb(ArriveAll(d0, b))
           /\ Keeps(d0, ArriveAll(d0, b))
<1> DEFINE after == CHOOSE f : Arrival(f, Len(b), d0, b)
           Fine(d) == d \in Database /\ HonestDb(d) /\ Keeps(d0, d)
<1>a. Len(b) \in Nat /\ DOMAIN b = 1..Len(b) /\ \A i \in DOMAIN b : b[i] \in Point
  OBVIOUS
<1>1. Arrival(after, Len(b), d0, b)
  BY <1>a, ArrivalExists
<1>2. ArriveAll(d0, b) = after[Len(b)]
  BY DEF ArriveAll, Arrival
<1> HIDE DEF after
<1>3. \A i \in 0..Len(b) :
         after[i] = IF i = 0 THEN d0 ELSE Arrive(after[i - 1], b[i])
  BY <1>1 DEF Arrival
<1>4. Fine(d0)
  BY DEF Keeps
<1>5. ASSUME NEW i \in 1..Len(b), Fine(after[i - 1]) PROVE Fine(after[i])
  <2> DEFINE d == after[i - 1]
  <2>1. after[i] = Arrive(d, b[i]) /\ b[i] \in Point /\ Honest(b[i])
    BY <1>3, <1>a
  <2>2. d \in Database /\ HonestDb(d) /\ Keeps(d0, d)
    BY <1>5
  <2> HIDE DEF d
  <2>3. /\ Arrive(d, b[i]) \in Database /\ HonestDb(Arrive(d, b[i]))
        /\ Keeps(d, Arrive(d, b[i]))
    BY <2>1, <2>2, ArriveKeeps
  <2>4. Keeps(d0, Arrive(d, b[i]))
    BY <2>2, <2>3, Zenon DEF Keeps
  <2> QED
    BY <2>1, <2>3, <2>4
<1> DEFINE T == {i \in 0..Len(b) : ~Fine(after[i])}
<1>6. T = {}
  <2> SUFFICES ASSUME T # {} PROVE FALSE
    OBVIOUS
  <2> HIDE DEF Fine
  <2>1. PICK i \in T : \A y \in T : i <= y
    <3>1. T \subseteq Nat
      OBVIOUS
    <3> HIDE DEF T
    <3> QED
      BY <3>1, LeastNatural
  <2>2. i \in 0..Len(b) /\ ~Fine(after[i])
    OBVIOUS
  <2>3. i # 0
    BY <1>3, <1>4, <2>2
  <2>4. i \in 1..Len(b) /\ i - 1 \in 0..Len(b) /\ i - 1 \notin T
    BY <1>a, <2>1, <2>2, <2>3
  <2>5. Fine(after[i - 1])
    BY <2>4
  <2> QED
    BY <1>5, <2>2, <2>4, <2>5
<1>7. Fine(after[Len(b)])
  BY <1>6, <1>a
<1> QED
  BY <1>2, <1>7

----------------------------------------------------------------------------
(***************************************************************************)
(* What was shown is still in InfluxDB: for a measurement with its own     *)
(* timestamp, the point made then is the one stored under that time.       *)
(***************************************************************************)
Fresh ==
    /\ \A k \in DOMAIN buffer : Honest(buffer[k])
    /\ \A k \in DOMAIN inflight :
          \A i \in DOMAIN inflight[k] : Honest(inflight[k][i])
    /\ HonestDb(db)
    /\ \A s \in Stamped : shown[s] # 0 => db[s][shown[s]] # 0

(* A request that is answered, or lost, leaves the others. *)
LEMMA RemovedRequest ==
    ASSUME NEW S, NEW q \in Seq(S), NEW k \in DOMAIN q
    PROVE  /\ RemoveAt(q, k) \in Seq(S)
           /\ \A j \in DOMAIN RemoveAt(q, k) :
                 \E m \in DOMAIN q : RemoveAt(q, k)[j] = q[m]
<1> DEFINE l == SubSeq(q, 1, k - 1)
           r == SubSeq(q, k + 1, Len(q))
<1>1. k \in 1..Len(q) /\ Len(q) \in Nat /\ RemoveAt(q, k) = l \o r
  BY DEF RemoveAt
<1>2. /\ l \in Seq(S) /\ Len(l) = k - 1
      /\ \A j \in 1..(k - 1) : l[j] = q[j]
  BY <1>1
<1>3. /\ r \in Seq(S) /\ Len(r) = Len(q) - k
      /\ \A j \in 1..(Len(q) - k) : r[j] = q[k + j]
  BY <1>1
<1> HIDE DEF l, r
<1>4. /\ l \o r \in Seq(S) /\ DOMAIN (l \o r) = 1..(Len(q) - 1)
      /\ \A j \in 1..(Len(q) - 1) :
            (l \o r)[j] = IF j <= k - 1 THEN l[j] ELSE r[j - (k - 1)]
  BY <1>1, <1>2, <1>3
<1>5. ASSUME NEW j \in 1..(Len(q) - 1)
      PROVE  \E m \in DOMAIN q : (l \o r)[j] = q[m]
  <2>1. CASE j <= k - 1
    <3>1. j \in 1..(k - 1) /\ j \in DOMAIN q
      BY <1>1, <2>1
    <3>2. (l \o r)[j] = l[j] /\ l[j] = q[j]
      BY <1>2, <1>4, <2>1, <3>1
    <3> QED
      BY <3>1, <3>2
  <2>2. CASE ~(j <= k - 1)
    <3>1. j - (k - 1) \in 1..(Len(q) - k) /\ k + (j - (k - 1)) = j + 1
      BY <1>1, <2>2
    <3>2. (l \o r)[j] = r[j - (k - 1)] /\ r[j - (k - 1)] = q[j + 1]
      BY <1>3, <1>4, <2>2, <3>1
    <3>3. j + 1 \in DOMAIN q
      BY <1>1
    <3> QED
      BY <3>2, <3>3, Zenon
  <2> QED
    BY <2>1, <2>2
<1> QED
  BY <1>1, <1>4, <1>5

(* Every step keeps all the types, and what is shown fresh. *)
LEMMA TeleTypeStep ==
    TeleTypeOK /\ Fresh /\ [TeleNext]_teleVars => TeleTypeOK' /\ Fresh'
<1> SUFFICES ASSUME TeleTypeOK, Fresh, [TeleNext]_teleVars
             PROVE  TeleTypeOK' /\ Fresh'
  OBVIOUS
<1>c. CoreOK'
  <2>1. CoreOK
    BY DEF TeleTypeOK, CoreOK
  <2> QED
    BY <2>1, CoreStep
<1>r. ASSUME /\ last_flush' \in Times
             /\ todo' \in [Threads -> SUBSET Measurements]
             /\ inflight' \in Seq(Seq(Point))
             /\ db' \in Database
             /\ shown' \in [Measurements -> Times \cup {0}]
             /\ written' \subseteq 1..MaxPoints /\ raced' \subseteq 1..MaxPoints
             /\ raised' \in BOOLEAN
      PROVE  TeleTypeOK'
  BY <1>r, <1>c DEF CoreOK, TeleTypeOK
<1>t. /\ now \in Times /\ last_flush \in Times /\ buffer \in Seq(Point)
      /\ todo \in [Threads -> SUBSET Measurements]
      /\ inflight \in Seq(Seq(Point)) /\ db \in Database
      /\ shown \in [Measurements -> Times \cup {0}]
      /\ written \subseteq 1..MaxPoints /\ raced \subseteq 1..MaxPoints
      /\ raised \in BOOLEAN /\ accepted \in 0..MaxPoints
  BY DEF TeleTypeOK
<1>f. ASSUME UNCHANGED <<buffer, inflight, db, shown>> PROVE Fresh'
  BY <1>f DEF Fresh, HonestDb
<1>1. ASSUME NEW t \in Threads, Thread(t) PROVE TeleTypeOK' /\ Fresh'
  <2>1. ASSUME NEW s \in Measurements, Store(t, s)
        PROVE  TeleTypeOK' /\ Fresh'
    <3> DEFINE p == [n |-> accepted + 1, series |-> s, made |-> now,
                     time |-> IF s \in Stamped THEN now ELSE 0]
    <3>1. /\ UNCHANGED <<last_flush, todo, inflight, db, shown, written,
                         raised>>
          /\ raced' = raced \/ raced' = raced \cup {accepted + 1}
          /\ buffer' = Append(buffer, p) /\ accepted < MaxPoints
      BY <2>1 DEF Store
    <3>2. accepted + 1 \in 1..MaxPoints
      BY <3>1, <1>t, TelemetryAssumption DEF TelemetryAssumption
    <3>3. TeleTypeOK'
      BY <3>1, <3>2, <1>t, <1>r
    <3>4. p \in Point /\ Honest(p)
      BY <3>2, <1>t DEF Point, Honest
    <3> HIDE DEF p
    <3>5. \A k \in DOMAIN buffer' :
             buffer'[k] = p \/ (k \in DOMAIN buffer /\ buffer'[k] = buffer[k])
      BY <3>1, <3>4, <1>t
    <3> QED
      BY <3>1, <3>3, <3>4, <3>5 DEF Fresh, HonestDb
  <2>2. ASSUME NEW s \in Measurements, LastRead(t, s)
        PROVE  TeleTypeOK' /\ Fresh'
    <3>1. /\ UNCHANGED <<buffer, last_flush, inflight, db, written, raced,
                         raised>>
          /\ todo' = [todo EXCEPT ![t] = @ \ {s}]
          /\ \/ shown' = shown
             \/ \E last \in Times :
                   /\ db[s][last] # 0
                   /\ shown' = [shown EXCEPT ![s] = db[s][last]]
      BY <2>2 DEF LastRead, Found
    <3>2. \A last \in Times : db[s][last] \in Times \cup {0}
      BY <1>t DEF Database
    <3>3. todo' \in [Threads -> SUBSET Measurements]
      BY <3>1, <1>t
    <3>4. shown' \in [Measurements -> Times \cup {0}]
      BY <3>1, <3>2, <1>t
    <3>5. TeleTypeOK'
      BY <3>1, <3>3, <3>4, <1>t, <1>r
    <3>6. \A x \in Measurements :
             \/ shown'[x] = shown[x]
             \/ \E last \in Times : db[x][last] # 0 /\ shown'[x] = db[x][last]
      BY <3>1, <1>t
    <3>7. ASSUME NEW x \in Stamped, shown'[x] # 0 PROVE db[x][shown'[x]] # 0
      <4>1. x \in Measurements
        BY DEF Measurements
      <4>2. ASSUME NEW last \in Times, db[x][last] # 0, shown'[x] = db[x][last]
            PROVE  db[x][shown'[x]] # 0
        <5>1. db[x][last] = last
          BY <4>2 DEF Fresh, HonestDb
        <5> QED
          BY <4>2, <5>1
      <4> QED
        BY <3>6, <3>7, <4>1, <4>2 DEF Fresh
    <3> QED
      BY <3>1, <3>5, <3>7 DEF Fresh, HonestDb
  <2>3. CASE last_telemetry(t)
    <3>1. /\ UNCHANGED <<buffer, last_flush, inflight, db, shown, written,
                         raced, raised>>
          /\ todo' = [todo EXCEPT ![t] = Measurements]
      BY <2>3 DEF last_telemetry, history
    <3> QED
      BY <3>1, <1>t, <1>r, <1>f
  <2>4. CASE FlushWrite(t)
    <3>1. /\ UNCHANGED <<buffer, last_flush, todo, db, shown, raced, raised>>
          /\ inflight' = inflight \/ inflight' = Append(inflight, buffer)
          /\ written' = written \cup {buffer[k].n : k \in DOMAIN buffer}
      BY <2>4 DEF FlushWrite
    <3>2. \A k \in DOMAIN buffer : buffer[k].n \in 1..MaxPoints
      <4>1. \A k \in DOMAIN buffer : buffer[k] \in Point
        BY <1>t
      <4>2. \A x \in Point : x.n \in 1..MaxPoints
        BY DEF Point
      <4> QED
        BY <4>1, <4>2, Zenon
    <3>3. written' \subseteq 1..MaxPoints
      BY <3>1, <3>2, <1>t
    <3>4. /\ inflight' \in Seq(Seq(Point))
          /\ \A k \in DOMAIN inflight' :
                \/ inflight'[k] = buffer
                \/ k \in DOMAIN inflight /\ inflight'[k] = inflight[k]
      <4> DEFINE P == Seq(Point)
      <4>1. buffer \in P /\ inflight \in Seq(P)
        BY <1>t
      <4> HIDE DEF P
      <4>2. /\ inflight' \in Seq(P)
            /\ \A k \in DOMAIN inflight' :
                  \/ inflight'[k] = buffer
                  \/ k \in DOMAIN inflight /\ inflight'[k] = inflight[k]
        BY <3>1, <4>1
      <4> QED
        BY <4>2 DEF P
    <3>5. TeleTypeOK'
      BY <3>1, <3>3, <3>4, <1>t, <1>r
    <3> QED
      BY <3>1, <3>4, <3>5, Zenon DEF Fresh, HonestDb
  <2>5. CASE FlushClear(t)
    <3>1. /\ UNCHANGED <<last_flush, todo, inflight, db, shown, written,
                         raced>>
          /\ raised' = FALSE /\ buffer' = <<>>
      BY <2>5 DEF FlushClear
    <3>2. DOMAIN buffer' = {}
      BY <3>1
    <3> QED
      BY <3>1, <3>2, <1>t, <1>r DEF Fresh, HonestDb
  <2>6. CASE WriteRaises(t) \/ FlushStamp(t)
    <3>1. /\ UNCHANGED <<buffer, todo, inflight, db, shown, written, raced>>
          /\ raised' \in BOOLEAN /\ last_flush' \in Times
      BY <2>6, <1>t DEF WriteRaises, FlushStamp, history
    <3> QED
      BY <3>1, <1>t, <1>r, <1>f
  <2>7. CASE \/ OtherRequest(t) \/ _check_flush(t) \/ FlushTest(t)
             \/ Teardown(t) \/ CloseClient(t)
    <3>1. UNCHANGED <<buffer, last_flush, todo, inflight, db, shown,
                      written, raced, raised>>
      BY <2>7, Zenon DEF OtherRequest, _check_flush, FlushTest, Teardown, CloseClient,
                  history
    <3> QED
      BY <3>1, <1>t, <1>r, <1>f
  <2> QED
    BY <1>1, <2>1, <2>2, <2>3, <2>4, <2>5, <2>6, <2>7 DEF Thread
<1>2. ASSUME NEW k, Land(k) \/ WriteLost(k) PROVE TeleTypeOK' /\ Fresh'
  <2>1. /\ k \in DOMAIN inflight /\ inflight' = RemoveAt(inflight, k)
        /\ UNCHANGED <<buffer, last_flush, todo, shown, written, raced, raised>>
        /\ db' = db \/ db' = ArriveAll(db, inflight[k])
    BY <1>2 DEF Land, WriteLost, history
  <2>2. /\ inflight' \in Seq(Seq(Point))
        /\ \A j \in DOMAIN inflight' :
              \E m \in DOMAIN inflight : inflight'[j] = inflight[m]
    <3> DEFINE P == Seq(Point)
    <3>1. inflight \in Seq(P)
      BY <1>t
    <3> HIDE DEF P
    <3>2. /\ inflight' \in Seq(P)
          /\ \A j \in DOMAIN inflight' :
                \E m \in DOMAIN inflight : inflight'[j] = inflight[m]
      <4>1. /\ RemoveAt(inflight, k) \in Seq(P)
            /\ \A j \in DOMAIN RemoveAt(inflight, k) :
                  \E m \in DOMAIN inflight :
                      RemoveAt(inflight, k)[j] = inflight[m]
        BY <2>1, <3>1, RemovedRequest
      <4> QED
        BY <2>1, <4>1
    <3> QED
      BY <3>2 DEF P
  <2>3. db' \in Database /\ HonestDb(db') /\ Keeps(db, db')
    <3>1. CASE db' = db
      BY <3>1, <1>t DEF Fresh, Keeps
    <3>2. CASE db' = ArriveAll(db, inflight[k])
      <4>1. inflight[k] \in Seq(Point)
        BY <2>1, <1>t
      <4>2. \A i \in DOMAIN inflight[k] : Honest(inflight[k][i])
        BY <2>1 DEF Fresh
      <4>3. HonestDb(db)
        BY DEF Fresh
      <4> QED
        BY <3>2, <4>1, <4>2, <4>3, <1>t, ArriveAllKeeps
    <3> QED
      BY <2>1, <3>1, <3>2
  <2>4. TeleTypeOK'
    BY <2>1, <2>2, <2>3, <1>t, <1>r
  <2>5. \A s \in Stamped : shown'[s] # 0 => db'[s][shown'[s]] # 0
    <3> SUFFICES ASSUME NEW s \in Stamped, shown[s] # 0
                 PROVE  db'[s][shown[s]] # 0
      BY <2>1
    <3>1. shown[s] \in Times /\ db[s][shown[s]] # 0
      BY <1>t DEF Fresh, Measurements
    <3> QED
      BY <2>3, <3>1 DEF Keeps
  <2>6. \A j \in DOMAIN inflight' :
           \A i \in DOMAIN inflight'[j] : Honest(inflight'[j][i])
    BY <2>2, Zenon DEF Fresh
  <2> QED
    BY <2>1, <2>3, <2>4, <2>5, <2>6, Zenon DEF Fresh, HonestDb
<1>3. CASE ClockStep \/ UNCHANGED teleVars
  <2>1. UNCHANGED <<buffer, last_flush, todo, inflight, db, shown,
                    written, raced, raised>>
    BY <1>3 DEF ClockStep, history, teleVars
  <2> QED
    BY <2>1, <1>t, <1>r, <1>f
<1> QED
  BY <1>1, <1>2, <1>3 DEF TeleNext

TeleInv == TeleTypeOK /\ LostOnlyByRace /\ ClearIsSafe /\ Attended /\ Fresh

(* The first state has nothing to lose, and shows nothing. *)
LEMMA TeleInitInv == TeleInit => TeleInv
<1> SUFFICES ASSUME TeleInit PROVE TeleInv
  OBVIOUS
<1>1. TeleTypeOK
  <2>1. /\ buffer = <<>> /\ inflight = <<>> /\ <<>> \in Seq(Point)
        /\ <<>> \in Seq(Seq(Point))
    BY DEF TeleInit
  <2>3. db \in Database
    BY DEF TeleInit, Database
  <2>4. accepted \in 0..MaxPoints
    BY TelemetryAssumption DEF TelemetryAssumption, TeleInit
  <2> QED
    BY <2>1, <2>3, <2>4 DEF TeleInit, TeleTypeOK
<1>2. LostOnlyByRace /\ ClearIsSafe
  BY DEF TeleInit, LostOnlyByRace, ClearIsSafe
<1>3. Attended
  BY DEF TeleInit, Attended
<1>4. Fresh
  BY DEF TeleInit, Fresh, HonestDb, Measurements
<1> QED
  BY <1>1, <1>2, <1>3, <1>4 DEF TeleInv

(* The inductive invariant holds for any number of threads. *)
THEOREM TeleInvariant == TeleSpec => []TeleInv
<1>1. TeleInv /\ [TeleNext]_teleVars => TeleInv'
  <2>1. TeleTypeOK => CoreOK
    BY DEF TeleTypeOK, CoreOK
  <2> QED
    BY <2>1, RaceStep, AttendedStep, TeleTypeStep DEF TeleInv
<1> QED
  BY <1>1, TeleInitInv, PTL DEF TeleSpec

(* Whatever the threads do, a point is lost from the buffer only if it was *)
(* made while another thread stood between its write and its clear.        *)
THEOREM OnlyRacesLose == TeleSpec => []LostOnlyByRace
<1>1. TeleInv => LostOnlyByRace
  BY DEF TeleInv
<1> QED
  BY <1>1, TeleInvariant, PTL

(* Between requests nothing waits in the buffer, unless a write raised.    *)
THEOREM NothingLeftBehind == TeleSpec => []QuietMeansFlushed
<1>1. TeleInv => QuietMeansFlushed
  BY DEF TeleInv, Attended, WillFlush, QuietMeansFlushed
<1> QED
  BY <1>1, TeleInvariant, PTL

(* The types hold, those of what InfluxDB has found included. *)
THEOREM TeleTypes == TeleSpec => []TeleTypeOK
<1>1. TeleInv => TeleTypeOK
  BY DEF TeleInv
<1> QED
  BY <1>1, TeleInvariant, PTL

(* In whatever order InfluxDB gets the batches, a reader is shown an older *)
(* point of a measurement that carries its own timestamp only while the    *)
(* clock, set back, is not past the point it was shown before: the stop of *)
(* the query hides that one.                                               *)
THEOREM NeverBackInTime == TeleSpec => ShownNeverRegresses
<1>1. TeleInv /\ [TeleNext]_teleVars
        => [\A s \in Stamped : shown'[s] < shown[s] => now <= shown[s]]_teleVars
  <2> SUFFICES ASSUME TeleInv, TeleNext, NEW s \in Stamped, shown'[s] < shown[s]
               PROVE  now <= shown[s]
    OBVIOUS
  <2>1. /\ s \in Measurements /\ shown \in [Measurements -> Times \cup {0}]
        /\ now \in Times /\ db \in Database
    BY DEF TeleInv, TeleTypeOK, Measurements
  <2>2. Times \subseteq Nat \ {0} /\ now \in Nat /\ shown[s] \in Nat
    <3>1. Times \subseteq Nat \ {0} /\ shown[s] \in Times \cup {0}
      BY <2>1, TelemetryAssumption DEF TelemetryAssumption
    <3>2. Times \cup {0} \subseteq Nat
      BY <3>1
    <3> QED
      BY <2>1, <3>1, <3>2, Zenon
  <2>3. CASE shown' = shown
    BY <2>2, <2>3
  <2>4. ASSUME NEW t \in Threads, NEW x \in Measurements, LastRead(t, x),
               shown' # shown
        PROVE  now <= shown[s]
    <3>1. PICK last \in Found(x) :
             /\ \A time \in Found(x) : time <= last
             /\ shown' = [shown EXCEPT ![x] = db[x][last]]
      BY <2>4 DEF LastRead
    <3>2. x = s
      BY <2>1, <2>2, <3>1
    <3>3. last \in Times /\ now - Day <= last /\ shown'[s] = last
      <4>1. shown'[s] = db[s][last] /\ last \in Times /\ db[s][last] # 0
            /\ now - Day <= last
        BY <2>1, <3>1, <3>2 DEF Found
      <4> QED
        BY <4>1 DEF TeleInv, Fresh, HonestDb
    <3>4. shown[s] # 0 /\ shown[s] \in Times /\ db[s][shown[s]] # 0
      <4>1. shown[s] # 0
        BY <2>2, <3>3
      <4> QED
        BY <2>1, <4>1 DEF TeleInv, Fresh
    <3> SUFFICES ASSUME shown[s] < now PROVE FALSE
      BY <2>2
    <3>5. Day \in Nat
      BY TelemetryAssumption DEF TelemetryAssumption
    <3>6. now - Day <= shown[s]
      BY <2>2, <3>3, <3>5
    <3>7. shown[s] \in Found(x)
      BY <3>2, <3>4, <3>6 DEF Found
    <3> QED
      BY <2>2, <3>1, <3>3, <3>7
  <2> QED
    BY <2>3, <2>4, Zenon
    DEF TeleNext, Thread, history, Store, OtherRequest, last_telemetry,
        _check_flush, FlushTest, FlushWrite, WriteRaises, FlushClear,
        FlushStamp, Teardown, CloseClient, Land, WriteLost, ClockStep
<1> QED
  BY <1>1, TeleInvariant, PTL DEF TeleSpec, ShownNeverRegresses
=============================================================================
