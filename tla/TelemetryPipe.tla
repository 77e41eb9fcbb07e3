--------------------------- MODULE TelemetryPipe ----------------------------
(***************************************************************************)
(* The way of a telemetry message from the drone to the server:            *)
(*                                                                         *)
(*   monitors -> queue_parser -> pub_telemetry --tele.pipe--> telemetry.py *)
(*                                                     --POST /telemetry-> *)
(*                                                                         *)
(* The tasks of controller.py share one event loop, and pub_telemetry      *)
(* gives it back only in its sleeps: monitors and queue_parser run while   *)
(* it sleeps.  telemetry.py is another process, so every system call on    *)
(* the FIFO is a step.                                                     *)
(*                                                                         *)
(* A message is written by one write of less than PIPE_BUF bytes, whole or *)
(* not at all, but its reader may get it in two reads: it has two parts.   *)
(* Lines stay below the 2048 characters of readline.                       *)
(***************************************************************************)
EXTENDS Integers, Sequences, SequencesExt

CONSTANTS
    BatchSize,   \* messages per opening of the FIFO: 100 in pub_telemetry
    LineLimit,   \* readlines per opening of the FIFO: 100 in telemetry.py
    PipeCap,     \* capacity of the FIFO, in parts and newlines
    MaxReports,  \* bound: messages the drone sends
    MaxStarts,   \* bound: how often controller.py is started
    MaxLaunches  \* bound: how often telemetry.py is started

ASSUME PipeAssumption ==
    /\ BatchSize \in Nat \ {0} /\ LineLimit \in Nat \ {0} /\ PipeCap \in Nat
    /\ MaxReports \in Nat /\ MaxStarts \in Nat /\ MaxLaunches \in Nat

VARIABLES
    wpc,              \* where pub_telemetry is
    telemetry_queue,  \* messages, by number
    json_queue,       \* the same, as JSON
    sent,             \* pub_telemetry's variable i
    starts,           \* how often controller.py was started
    reported,         \* history: number of messages the drone sent
    exists,           \* tele.pipe is in the file system
    pipe,             \* what is in the FIFO
    rpc,              \* where telemetry.py is
    lines,            \* its variable i
    rbuf,             \* what Python has read and readline not returned
    line,             \* its variable line
    launches,         \* how often it was started
    stored,           \* history: the messages the server took, in order
    gone              \* history: those an error or a close gave up

writerVars == <<wpc, telemetry_queue, json_queue, sent, starts, reported>>
readerVars == <<rpc, lines, rbuf, line, launches>>
pipeVars == <<writerVars, exists, pipe, readerVars, stored, gone>>

Head1(m) == [part |-> "head", n |-> m]
Tail1(m) == [part |-> "tail", n |-> m]
Newline == [part |-> "newline", n |-> 0]
Token == [part : {"head", "tail", "newline"}, n : 0..MaxReports]

(* The messages of which a sequence holds a part. *)
Messages(s) == {s[k].n : k \in DOMAIN s} \ {0}

(* Types, and the limits of a batch, of an opening and of the FIFO. *)
PipeTypeOK ==
    /\ wpc \in {"down", "sleep", "open", "loop", "newline", "close"}
    /\ telemetry_queue \in Seq(1..MaxReports)
    /\ json_queue \in Seq(1..MaxReports)
    /\ sent \in 0..BatchSize
    /\ starts \in 0..MaxStarts /\ launches \in 0..MaxLaunches
    /\ reported \in 0..MaxReports
    /\ exists \in BOOLEAN
    /\ pipe \in Seq(Token) /\ Len(pipe) <= PipeCap
    /\ rpc \in {"down", "open", "blocked", "read", "send"}
    /\ lines \in 0..LineLimit
    /\ rbuf \in Seq(Token) /\ line \in Seq(Token)
    /\ stored \in Seq(1..MaxReports) /\ gone \subseteq 1..MaxReports

PipeInit ==
    /\ wpc = "down" /\ telemetry_queue = <<>> /\ json_queue = <<>>
    /\ sent = 0 /\ starts = 0 /\ reported = 0
    /\ exists \in BOOLEAN           \* left over from an earlier run, or not
    /\ pipe = <<>>
    /\ rpc = "down" /\ lines = 0 /\ rbuf = <<>> /\ line = <<>> /\ launches = 0
    /\ stored = <<>> /\ gone = {}

----------------------------------------------------------------------------
(* Plausible slips in the code below, used to test the properties. *)

(* The publisher waits for a full batch. *)
MutPubWake ==
    /\ wpc = "sleep" /\ Len(json_queue) >= BatchSize
    /\ wpc' = "open"
    /\ UNCHANGED <<telemetry_queue, json_queue, sent, starts, reported,
                   exists, pipe, readerVars, stored, gone>>

MutBatchOver == json_queue = <<>>

MutWritten(m) ==
    IF Len(pipe) + 2 = PipeCap THEN <<Head1(m)>> ELSE <<Head1(m), Tail1(m)>>

MutRequeue ==
    /\ json_queue' = Append(Tail(json_queue), Head(json_queue))
    /\ UNCHANGED gone

MutRetry == UNCHANGED <<json_queue, gone>>

MutPubOpen ==
    /\ wpc = "open"
    /\ wpc' = IF rpc \in {"blocked", "read", "send"} THEN "loop" ELSE "sleep"
    /\ json_queue' = IF wpc' = "loop" THEN json_queue ELSE Tail(json_queue)
    /\ sent' = 0
    /\ rpc' = IF rpc = "blocked" THEN "read" ELSE rpc
    /\ UNCHANGED <<telemetry_queue, starts, reported,
                   exists, pipe, lines, rbuf, line, launches, stored, gone>>

----------------------------------------------------------------------------
HasWriter == wpc \in {"loop", "newline", "close"}  \* the FIFO counts a writer
HasReader == rpc \in {"blocked", "read", "send"}   \* the FIFO counts a reader

----------------------------------------------------------------------------
(* controller.py *)

Start ==
    /\ wpc = "down" /\ starts < MaxStarts
    /\ wpc' = "sleep" /\ starts' = starts + 1 /\ exists' = TRUE
    /\ UNCHANGED <<telemetry_queue, json_queue, sent, reported, pipe,
                   readerVars, stored, gone>>

(* An exception of another task ends the process, and its queues. *)
ControllerExit ==
    /\ wpc = "sleep"
    /\ wpc' = "down" /\ telemetry_queue' = <<>> /\ json_queue' = <<>>
    /\ gone' = gone \cup ToSet(telemetry_queue) \cup ToSet(json_queue)
    /\ UNCHANGED <<sent, starts, reported, exists, pipe, readerVars,
                   stored>>

(* One of the monitors gets a message from the drone. *)
Report ==
    /\ wpc = "sleep" /\ reported < MaxReports
    /\ reported' = reported + 1
    /\ telemetry_queue' = Append(telemetry_queue, reported + 1)
    /\ UNCHANGED <<wpc, json_queue, sent, starts, exists, pipe,
                   readerVars, stored, gone>>

queue_parser ==
    /\ wpc = "sleep" /\ telemetry_queue # <<>>
    /\ json_queue' = Append(json_queue, Head(telemetry_queue))
    /\ telemetry_queue' = Tail(telemetry_queue)
    /\ UNCHANGED <<wpc, sent, starts, reported, exists, pipe,
                   readerVars, stored, gone>>

(* The sleep is over and json_queue is not empty. *)
PubWake ==
    /\ wpc = "sleep" /\ json_queue # <<>>
    /\ wpc' = "open"
    /\ UNCHANGED <<telemetry_queue, json_queue, sent, starts, reported,
                   exists, pipe, readerVars, stored, gone>>

(* os.open does not block: without a reader ENXIO, then a sleep.  A reader *)
(* that is still blocked in its own open() counts.                         *)
PubOpen ==
    /\ wpc = "open"
    /\ wpc' = IF HasReader THEN "loop" ELSE "sleep"
    /\ sent' = IF HasReader THEN 0 ELSE sent
    /\ rpc' = IF rpc = "blocked" THEN "read" ELSE rpc
    /\ UNCHANGED <<telemetry_queue, json_queue, starts, reported,
                   exists, pipe, lines, rbuf, line, launches, stored, gone>>

(* The loop's condition, negated. *)
BatchOver == json_queue = <<>> \/ sent = BatchSize

(* What os.write puts into the FIFO: it is too short to be split. *)
Written(m) == <<Head1(m), Tail1(m)>>

(* A message whose write failed has been taken off the queue before. *)
GiveUp ==
    /\ json_queue' = Tail(json_queue)
    /\ gone' = gone \cup {Head(json_queue)}

(* The loop's test, get_nowait and the first write, which EPIPE or EAGAIN  *)
(* may end.                                                                *)
PubWrite ==
    /\ wpc = "loop"
    /\ \/ BatchOver /\ wpc' = "close" /\ UNCHANGED <<json_queue, pipe, gone>>
       \/ /\ ~BatchOver /\ HasReader /\ Len(pipe) + 2 <= PipeCap
          /\ pipe' = pipe \o Written(Head(json_queue))
          /\ json_queue' = Tail(json_queue)
          /\ wpc' = "newline" /\ UNCHANGED gone
       \/ /\ ~BatchOver /\ ~(HasReader /\ Len(pipe) + 2 <= PipeCap)
          /\ GiveUp
          /\ wpc' = "close" /\ UNCHANGED pipe
    /\ UNCHANGED <<telemetry_queue, sent, starts, reported, exists,
                   readerVars, stored>>

(* The second write.  If it fails, the message stays without its end. *)
PubNewline ==
    /\ wpc = "newline"
    /\ IF HasReader /\ Len(pipe) < PipeCap
       THEN /\ pipe' = Append(pipe, Newline)
            /\ sent' = sent + 1
            /\ wpc' = "loop"
       ELSE wpc' = "close" /\ UNCHANGED <<pipe, sent>>
    /\ UNCHANGED <<telemetry_queue, json_queue, starts, reported, exists,
                   readerVars, stored, gone>>

(* os.close, and back to the test of json_queue.empty(). *)
PubClose ==
    /\ wpc = "close"
    /\ wpc' = IF json_queue = <<>> THEN "sleep" ELSE "open"
    /\ pipe' = IF HasReader THEN pipe ELSE <<>>
    /\ gone' = IF HasReader THEN gone ELSE gone \cup Messages(pipe)
    /\ UNCHANGED <<telemetry_queue, json_queue, sent, starts, reported,
                   exists, readerVars, stored>>

----------------------------------------------------------------------------
(* telemetry.py *)

Launch ==
    /\ rpc = "down" /\ launches < MaxLaunches
    /\ rpc' = "open" /\ launches' = launches + 1
    /\ UNCHANGED <<writerVars, exists, pipe, lines, rbuf, line, stored, gone>>

(* open(pipe, "r") blocks until there is a writer; it makes no FIFO. *)
TeleOpen ==
    /\ rpc = "open"
    /\ rpc' = IF ~exists THEN "down"
              ELSE IF HasWriter THEN "read" ELSE "blocked"
    /\ lines' = 0
    /\ UNCHANGED <<writerVars, exists, pipe, rbuf, line, launches, stored,
                   gone>>

(* readline() needs more: read(2) returns some of what the FIFO holds. *)
TeleFill ==
    /\ rpc = "read" /\ lines < LineLimit /\ ~Contains(rbuf, Newline)
    /\ \E k \in 1..Len(pipe) :
          /\ rbuf' = rbuf \o SubSeq(pipe, 1, k)
          /\ pipe' = SubSeq(pipe, k + 1, Len(pipe))
    /\ UNCHANGED <<writerVars, exists, rpc, lines, line, launches, stored, gone>>

(* readline() returns a line, or at end of file what there is. *)
TeleLine ==
    /\ rpc = "read" /\ lines < LineLimit
    /\ \/ \E k \in DOMAIN rbuf :
             /\ rbuf[k] = Newline /\ ~Contains(SubSeq(rbuf, 1, k - 1), Newline)
             /\ line' = SubSeq(rbuf, 1, k)
             /\ rbuf' = SubSeq(rbuf, k + 1, Len(rbuf))
       \/ /\ ~Contains(rbuf, Newline) /\ pipe = <<>> /\ ~HasWriter
          /\ line' = rbuf /\ rbuf' = <<>>
    /\ lines' = lines + 1
    /\ rpc' = IF line' = <<>> THEN "read" ELSE "send"
    /\ UNCHANGED <<writerVars, exists, pipe, launches, stored, gone>>

(* send_msg.  The server takes a line that is one message; it answers 400  *)
(* to any other.  The request may fail before or after it was served.      *)
TeleSend ==
    /\ rpc = "send"
    /\ \/ \E m \in 1..MaxReports :
             /\ line \in {<<Head1(m), Tail1(m)>>,
                          <<Head1(m), Tail1(m), Newline>>}
             /\ stored' = Append(stored, m)
             /\ UNCHANGED gone
       \/ gone' = gone \cup Messages(line) /\ UNCHANGED stored
    /\ rpc' = "read" /\ line' = <<>>
    /\ UNCHANGED <<writerVars, exists, pipe, lines, rbuf, launches>>

(* After LineLimit lines the file is closed, with all that it buffers. *)
TeleClose ==
    /\ rpc = "read" /\ lines = LineLimit
    /\ rpc' = "open" /\ rbuf' = <<>>
    /\ pipe' = IF HasWriter THEN pipe ELSE <<>>
    /\ gone' = gone \cup Messages(rbuf)
                    \cup (IF HasWriter THEN {} ELSE Messages(pipe))
    /\ UNCHANGED <<writerVars, exists, lines, line, launches, stored>>

----------------------------------------------------------------------------
PipeNext ==
    \/ Start \/ ControllerExit \/ Report \/ queue_parser \/ PubWake
    \/ PubOpen \/ PubWrite \/ PubNewline \/ PubClose
    \/ Launch \/ TeleOpen \/ TeleFill \/ TeleLine \/ TeleSend \/ TeleClose

PipeSpec == PipeInit /\ [][PipeNext]_pipeVars

(***************************************************************************)
(* Both processes are scheduled.  Nothing is assumed of the server: a      *)
(* request has no timeout.                                                 *)
(***************************************************************************)
PipeFairness ==
    /\ WF_pipeVars(PubWake) /\ WF_pipeVars(PubOpen) /\ WF_pipeVars(PubWrite)
    /\ WF_pipeVars(PubNewline) /\ WF_pipeVars(PubClose)
    /\ WF_pipeVars(TeleOpen) /\ WF_pipeVars(TeleFill)
    /\ WF_pipeVars(TeleLine) /\ WF_pipeVars(TeleClose)

FairPipeSpec == PipeSpec /\ PipeFairness

----------------------------------------------------------------------------
(***************************************************************************)
(* The server takes each message at most once and in the order in which    *)
(* the drone sent them, whatever writes fail, however the reader's reads   *)
(* cut the stream and whenever either end is closed.                       *)
(***************************************************************************)
StoredInOrder ==
    \A j \in 2..Len(stored) : stored[j - 1] < stored[j]

(***************************************************************************)
(* A line may hold several messages, or only the end of one, but never     *)
(* joins the beginning of one message to the end of another: what the      *)
(* server takes is what the drone sent.                                    *)
(***************************************************************************)
NoMixture ==
    \A k \in 1..Len(line) - 1 :
        line[k].part = "head" => line[k + 1] = Tail1(line[k].n)

(***************************************************************************)
(* A message is lost only by a failed write, a close of the reader or of   *)
(* both ends, a line or a request that failed, or the end of the           *)
(* controller: not while there is no reader (ENXIO), and not at an end of  *)
(* file.                                                                   *)
(***************************************************************************)
LostOnlyByFault ==
    \A m \in 1..reported :
        \/ m \in gone
        \/ \E q \in {telemetry_queue, json_queue, stored} : Contains(q, m)
        \/ \E s \in {pipe, rbuf, line} : m \in Messages(s)

(***************************************************************************)
(* pub_telemetry gives the event loop back, even if the server never       *)
(* answers telemetry.py and the FIFO is full: every round takes a message  *)
(* off the queue before it can fail.                                       *)
(***************************************************************************)
LoopIsGivenBack == (wpc \in {"open", "loop", "newline", "close"}) ~> (wpc = "sleep")

(***************************************************************************)
(* The ends of the FIFO find each other although one waits in open() and   *)
(* the other only tries: a queued message leaves the queue unless a        *)
(* process is down or the server does not answer.                          *)
(***************************************************************************)
EndsMeet ==
    \A m \in 1..MaxReports :
        Contains(json_queue, m)
            ~> (~Contains(json_queue, m) \/ rpc \in {"down", "send"})
=============================================================================
