--------------------------- MODULE TelemetryStore ---------------------------
(***************************************************************************)
(* The telemetry half of the Flask server: telemetry_store.py and the      *)
(* routes of __init__.py that use it.                                      *)
(*                                                                         *)
(* One TelemetryStore serves all requests, and the WSGI server runs every  *)
(* request in one of its threads, so buffer and last_flush are shared by   *)
(* Threads without a lock.  A step is what a thread does between two       *)
(* accesses to them.  No coroutine of the class ever suspends.             *)
(*                                                                         *)
(* create_app registers close() with teardown_appcontext: it runs at the   *)
(* end of EVERY request, of any route.                                     *)
(***************************************************************************)
EXTENDS Integers, Sequences, SequencesExt, FiniteSets

CONSTANTS
    Threads,         \* threads of the WSGI server
    Stamped,         \* measurements stored with .time(utcnow()): position,
                     \* battery and flight_mode
    Unstamped,       \* ... and without one: armed and in_air
    buffer_size,     \* 100 in the code
    flush_interval,  \* 5 seconds in the code
    Day,             \* what timedelta.seconds wraps at: 86400
    Times,           \* readings of the server's clock
    MaxPoints,       \* bound: points accepted over the whole behaviour
    MaxInflight      \* bound: writes handed to the client and not answered

Measurements == Stamped \cup Unstamped

ASSUME TelemetryAssumption ==
    /\ Stamped \cap Unstamped = {}
    /\ buffer_size \in Nat /\ flush_interval \in Nat
    /\ Day \in Nat \ {0}
    /\ Times \subseteq Nat \ {0}
    /\ MaxPoints \in Nat /\ MaxInflight \in Nat

VARIABLES
    now,         \* the wall clock
    buffer,      \* self.buffer
    last_flush,  \* self.last_flush
    pc,          \* where each thread is
    closing,     \* the flush a thread is in was called by close()
    todo,        \* the measurements /last/telemetry has still to read
    inflight,    \* write requests of the asynchronous client
    db,          \* InfluxDB: the points of each measurement
    shown,       \* history: when the point read last was made
    accepted,    \* history: number of points made
    written,     \* history: the points that were handed to write_api
    raced,       \* history: those made while a thread was about to clear
    raised       \* history: write_api.write raised after the last clear

teleVars == <<now, buffer, last_flush, pc, closing, todo, inflight, db,
              shown, accepted, written, raced, raised>>
history == <<shown, accepted, written, raced, raised>>

(* n numbers the points, made is the clock when a point was made, time its *)
(* timestamp; 0 is none.                                                   *)
Point == [n : 1..MaxPoints, series : Measurements, made : Times,
          time : Times \cup {0}]

(* One point for each measurement and timestamp, told by when it was made; *)
(* 0 is none.                                                              *)
Database == [Measurements -> [Times -> Times \cup {0}]]

(* Types of the TelemetryStore, its threads and what it wrote. *)
TeleTypeOK ==
    /\ now \in Times /\ last_flush \in Times
    /\ buffer \in Seq(Point)
    /\ pc \in [Threads -> {"idle", "read", "check", "test", "write", "clear",
                           "stamp", "end"}]
    /\ closing \in [Threads -> BOOLEAN]
    /\ todo \in [Threads -> SUBSET Measurements]
    /\ inflight \in Seq(Seq(Point))
    /\ db \in Database
    /\ shown \in [Measurements -> Times \cup {0}]
    /\ accepted \in 0..MaxPoints
    /\ written \subseteq 1..MaxPoints /\ raced \subseteq 1..MaxPoints
    /\ raised \in BOOLEAN

TeleInit ==
    /\ now \in Times /\ last_flush = now
    /\ buffer = <<>>
    /\ pc = [t \in Threads |-> "idle"]
    /\ closing = [t \in Threads |-> FALSE]
    /\ todo = [t \in Threads |-> {}]
    /\ inflight = <<>>
    /\ db = [s \in Measurements |-> [t \in Times |-> 0]]
    /\ shown = [s \in Measurements |-> 0]
    /\ accepted = 0 /\ written = {} /\ raced = {} /\ raised = FALSE

Goto(t, l) == pc' = [pc EXCEPT ![t] = l]

----------------------------------------------------------------------------
(* Plausible slips in the code below, used to test the properties. *)

MutStore(t, s) ==
    /\ pc[t] = "idle" /\ accepted < MaxPoints
    /\ buffer' = Append(buffer, [n |-> accepted + 1, series |-> s,
                                 made |-> now, time |-> 0])
    /\ accepted' = accepted + 1
    /\ raced' = IF \E u \in Threads : pc[u] = "clear"
                THEN raced \cup {accepted + 1} ELSE raced
    /\ Goto(t, "check")
    /\ UNCHANGED <<now, last_flush, closing, todo, inflight, db, shown,
                   written, raised>>

MutTeardown(t) ==
    /\ pc[t] = "end" /\ ~closing[t]
    /\ Goto(t, "idle")
    /\ UNCHANGED <<now, buffer, last_flush, closing, todo, inflight, db,
                   history>>

MutWriteRaises(t) ==
    /\ pc[t] = "write"
    /\ raised' = TRUE
    /\ Goto(t, "clear")
    /\ UNCHANGED <<now, buffer, last_flush, closing, todo, inflight, db,
                   shown, accepted, written, raced>>

MutFlushStamp(t) ==
    /\ pc[t] = "stamp"
    /\ last_flush' = 0
    /\ Goto(t, "end")
    /\ UNCHANGED <<now, buffer, closing, todo, inflight, db, history>>

----------------------------------------------------------------------------
(* store_position, store_battery, store_flight_mode, store_armed and       *)
(* store_in_air up to the append, called by POST /telemetry.  A thread     *)
(* that fetched self.buffer before a clear and appends after it has the    *)
(* effect of an append just before the clear.                              *)
Store(t, s) ==
    /\ pc[t] = "idle" /\ accepted < MaxPoints
    /\ buffer' = Append(buffer, [n |-> accepted + 1, series |-> s,
                                 made |-> now,
                                 time |-> IF s \in Stamped THEN now ELSE 0])
    /\ accepted' = accepted + 1
    /\ raced' = IF \E u \in Threads : pc[u] = "clear"
                THEN raced \cup {accepted + 1} ELSE raced
    /\ Goto(t, "check")
    /\ UNCHANGED <<now, last_flush, closing, todo, inflight, db, shown,
                   written, raised>>

(* Any other request: /health, /fetch, a refused or malformed telemetry    *)
(* message...  It touches nothing here before its teardown.                *)
OtherRequest(t) ==
    /\ pc[t] = "idle"
    /\ Goto(t, "end")
    /\ UNCHANGED <<now, buffer, last_flush, closing, todo, inflight, db,
                   history>>

(* GET /last/telemetry makes one query after the other. *)
last_telemetry(t) ==
    /\ pc[t] = "idle"
    /\ Goto(t, "read")
    /\ todo' = [todo EXCEPT ![t] = Measurements]
    /\ UNCHANGED <<now, buffer, last_flush, closing, inflight, db, history>>

(* The points range(start: -24h) leaves: those before its stop, which is   *)
(* now() when not given.  A point stamped before the clock was set back    *)
(* may be past it.                                                         *)
Found(s) ==
    {time \in Times : db[s][time] # 0 /\ now - Day <= time /\ time < now}

(* last_position ... last_in_air: range(start: -24h) |> last(). *)
LastRead(t, s) ==
    /\ pc[t] = "read" /\ s \in todo[t]
    /\ todo' = [todo EXCEPT ![t] = @ \ {s}]
    /\ \/ Found(s) = {} /\ UNCHANGED shown
       \/ \E last \in Found(s) :
             /\ \A time \in Found(s) : time <= last
             /\ shown' = [shown EXCEPT ![s] = db[s][last]]
    /\ Goto(t, IF todo'[t] = {} THEN "end" ELSE "read")
    /\ UNCHANGED <<now, buffer, last_flush, closing, inflight, db,
                   accepted, written, raced, raised>>

(* (now - last_flush).seconds is the remainder of a day. *)
_check_flush(t) ==
    /\ pc[t] = "check"
    /\ Goto(t, IF \/ Len(buffer) >= buffer_size
                  \/ (now - last_flush) % Day >= flush_interval
               THEN "test" ELSE "end")
    /\ UNCHANGED <<now, buffer, last_flush, closing, todo, inflight, db,
                   history>>

(* flush(), one step for each access to the shared attributes. *)
FlushTest(t) ==
    /\ pc[t] = "test"
    /\ Goto(t, IF buffer # <<>> THEN "write" ELSE "end")
    /\ UNCHANGED <<now, buffer, last_flush, closing, todo, inflight, db,
                   history>>

(* The points are serialised here and sent by a thread of the client. *)
FlushWrite(t) ==
    /\ pc[t] = "write" /\ Len(inflight) < MaxInflight
    /\ inflight' = IF buffer = <<>> THEN inflight ELSE Append(inflight, buffer)
    /\ written' = written \cup {buffer[k].n : k \in DOMAIN buffer}
    /\ Goto(t, "clear")
    /\ UNCHANGED <<now, buffer, last_flush, closing, todo, db, shown,
                   accepted, raced, raised>>

WriteRaises(t) ==
    /\ pc[t] = "write"
    /\ raised' = TRUE
    /\ Goto(t, "end")
    /\ UNCHANGED <<now, buffer, last_flush, closing, todo, inflight, db,
                   shown, accepted, written, raced>>

FlushClear(t) ==
    /\ pc[t] = "clear"
    /\ buffer' = <<>> /\ raised' = FALSE
    /\ Goto(t, "stamp")
    /\ UNCHANGED <<now, last_flush, closing, todo, inflight, db, shown,
                   accepted, written, raced>>

FlushStamp(t) ==
    /\ pc[t] = "stamp"
    /\ last_flush' = now
    /\ Goto(t, "end")
    /\ UNCHANGED <<now, buffer, closing, todo, inflight, db, history>>

(* The answer is made; teardown_appcontext calls close(). *)
Teardown(t) ==
    /\ pc[t] = "end" /\ ~closing[t]
    /\ closing' = [closing EXCEPT ![t] = TRUE]
    /\ Goto(t, "test")
    /\ UNCHANGED <<now, buffer, last_flush, todo, inflight, db, history>>

(* close() after its flush.  self.client.close() does not stop write_api   *)
(* and query_api, which were made before.                                  *)
CloseClient(t) ==
    /\ pc[t] = "end" /\ closing[t]
    /\ closing' = [closing EXCEPT ![t] = FALSE]
    /\ Goto(t, "idle")
    /\ UNCHANGED <<now, buffer, last_flush, todo, inflight, db, history>>

----------------------------------------------------------------------------
(* InfluxDB and its client: requests are answered in any order.  A point   *)
(* without a timestamp gets the time of its arrival; one with the measure- *)
(* ment and timestamp of another takes its place.                          *)

Arrive(d, p) ==
    [d EXCEPT ![p.series][IF p.time = 0 THEN now ELSE p.time] = p.made]

(* The points of a request, one after the other. *)
ArriveAll(d, b) ==
    LET after[i \in 0..Len(b)] ==
            IF i = 0 THEN d ELSE Arrive(after[i - 1], b[i])
    IN  after[Len(b)]

Land(k) ==
    /\ k \in DOMAIN inflight
    /\ db' = ArriveAll(db, inflight[k])
    /\ inflight' = RemoveAt(inflight, k)
    /\ UNCHANGED <<now, buffer, last_flush, pc, closing, todo, history>>

(* Nobody looks at the result of an asynchronous write. *)
WriteLost(k) ==
    /\ k \in DOMAIN inflight
    /\ inflight' = RemoveAt(inflight, k)
    /\ UNCHANGED <<now, buffer, last_flush, pc, closing, todo, db, history>>

(* The clock moves on, or is set back. *)
ClockStep ==
    /\ now' \in Times
    /\ UNCHANGED <<buffer, last_flush, pc, closing, todo, inflight, db,
                   history>>

Thread(t) ==
    \/ \E s \in Measurements : Store(t, s) \/ LastRead(t, s)
    \/ OtherRequest(t) \/ last_telemetry(t)
    \/ _check_flush(t) \/ FlushTest(t) \/ FlushWrite(t) \/ WriteRaises(t)
    \/ FlushClear(t) \/ FlushStamp(t) \/ Teardown(t) \/ CloseClient(t)

TeleNext ==
    \/ \E t \in Threads : Thread(t)
    \/ \E k \in 1..MaxInflight : Land(k) \/ WriteLost(k)
    \/ ClockStep

TeleSpec == TeleInit /\ [][TeleNext]_teleVars

----------------------------------------------------------------------------
(***************************************************************************)
(* A point is lost from the buffer only by a race: one that was made while *)
(* no other thread stood between write_api.write and self.buffer = [] is   *)
(* in the buffer until it has been handed to write_api, whatever the       *)
(* threads' flushes do and whichever of them raise.                        *)
(***************************************************************************)
LostOnlyByRace ==
    \A m \in 1..accepted :
        \/ m \in raced
        \/ m \in written
        \/ \E k \in DOMAIN buffer : buffer[k].n = m

(***************************************************************************)
(* Nothing is left behind in the buffer between requests: when no request  *)
(* is being served, it is empty, unless the write that came last raised.   *)
(* There is no timer, so this rests on the flush in teardown alone.        *)
(***************************************************************************)
QuietMeansFlushed ==
    (\A t \in Threads : pc[t] = "idle") /\ buffer # <<>> => raised

(***************************************************************************)
(* /last/telemetry goes back to an older point of a measurement that       *)
(* carries its own timestamp only while the clock, set back, is not past   *)
(* the one it showed, which range() then hides: not when batches reach         *)
(* InfluxDB out of order, and not once the clock has caught up.  armed and *)
(* in_air have no such protection.                                         *)
(***************************************************************************)
ShownNeverRegresses ==
    [][\A s \in Stamped : shown'[s] < shown[s] => now <= shown[s]]_teleVars
=============================================================================
