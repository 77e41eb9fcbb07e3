---------------------------- MODULE CommandLink -----------------------------
(***************************************************************************)
(* The way of a command from the server to the drone:                      *)
(*                                                                         *)
(*   server  <--HTTP--  poller.py  --comms.pipe-->  controller.py  -->  drone *)
(*                                                                         *)
(* Two operating system processes and a FIFO.  Every system call on the    *)
(* FIFO is a step, because the two processes interleave there; inside the  *)
(* controller only one coroutine runs at a time, so process_commands can   *)
(* move only while read_pipe sleeps.                                       *)
(***************************************************************************)
EXTENDS CommandStore

CONSTANTS
    OnError,       \* poller.py --on_error
    PollerHeaders, \* Authorization headers a poller is started with
    PipeCap,       \* capacity of the FIFO in bytes
    MaxQueue,      \* bound: command_queue length at which read_pipe pauses
    MaxLaunches,   \* bound: how often poller.py is started
    MaxStarts      \* bound: how often controller.py is started

ASSUME LinkAssumption ==
    /\ PollerHeaders \subseteq Headers
    /\ PipeCap \in Nat \ {0}
    /\ MaxQueue \in Nat \ {0}
    /\ MaxLaunches \in Nat /\ MaxStarts \in Nat

VARIABLES
    ppc,       \* where poller.py is
    res,       \* its variable res: the reply, or the fallback of poll()
    hdr,       \* the header made of its TOKEN
    launches,  \* how often it was started
    fetched,   \* history: serial number of the command last fetched
    wrote,     \* history: the last one whose byte this incarnation put in the
               \* FIFO
    exists,    \* comms.pipe is in the file system
    buf,       \* bytes in the FIFO
    cpc,       \* where controller.py's read_pipe is
    queue,     \* command_queue
    pstate,    \* process_commands: at get(), awaiting the drone, or failed
    cur,       \* its variable command
    starts,    \* how often controller.py was started
    flown,     \* the action the drone performed last
    applied    \* history: serial number of the operator's command done last

pollerVars == <<ppc, res, hdr, launches, fetched, wrote>>
fifoVars == <<exists, buf>>
controllerVars == <<cpc, queue, pstate, cur, starts>>
droneVars == <<flown, applied>>
linkVars == <<storeVars, pollerVars, fifoVars, controllerVars, droneVars>>

(***************************************************************************)
(* A byte of the FIFO.  Only ch is data; the rest is history: op tells an  *)
(* operator's command from the fallback, sn is the command last fetched    *)
(* when it was written, awaited that a reader was blocked on the empty     *)
(* FIFO when it arrived.                                                   *)
(***************************************************************************)
Codes == {"l", "h", "r"}
Byte == [ch : Codes \cup {None}, sn : Nat, op : BOOLEAN, awaited : BOOLEAN]
Reply == [id : Nat, command : FormValues \cup {OnError, None}, done : 0..1]
NoReply == [id |-> 0, command |-> None, done |-> 1]
Nothing(n) == [ch |-> None, sn |-> n, op |-> FALSE, awaited |-> FALSE]
NoByte == Nothing(0)

----------------------------------------------------------------------------
(* Plausible slips in the code below, used to test the properties. *)

MutWriterStays == ppc # "down" /\ exists /\ launches > 0

MutCode(c) == c

MutPollReply ==
    /\ ppc = "poll"
    /\ FetchRoute(hdr)
    /\ \E r \in FetchReplies :
         /\ res' = r
         /\ fetched' = IF r.id = 0 THEN fetched ELSE Serial(r.id)
         /\ ppc' = IF r.done = 1 THEN "poll" ELSE "mark"
    /\ UNCHANGED <<hdr, launches, wrote, fifoVars, controllerVars, droneVars>>

MutClosePipe ==
    /\ ppc = "close"
    /\ ppc' = "poll"
    /\ buf' = IF cpc \in {"read", "wait", "close"} THEN buf ELSE <<>>
    /\ UNCHANGED <<storeVars, res, hdr, launches, fetched, wrote, exists,
                   controllerVars, droneVars>>

MutReadWait ==
    /\ cpc = "wait"
    /\ buf # <<>> \/ ppc \notin {"blocked", "write", "close"}
    /\ buf' = IF buf # <<>> THEN Tail(buf) ELSE buf
    /\ cpc' = "close"
    /\ UNCHANGED <<storeVars, pollerVars, exists, queue, pstate, cur, starts,
                   droneVars>>

(* read_pipe without its while True *)
MutReadAgain ==
    /\ cpc = "sleep"
    /\ UNCHANGED cpc
    /\ UNCHANGED <<storeVars, pollerVars, fifoVars, queue, pstate, cur, starts,
                   droneVars>>

----------------------------------------------------------------------------
Writer == ppc \in {"blocked", "write", "close"}  \* the FIFO counts a writer
Reader == cpc \in {"read", "wait", "close"}      \* the FIFO counts a reader

(* Types: only the bytes main() of poller.py writes reach the controller. *)
LinkTypeOK ==
    /\ StoreTypeOK
    /\ ppc \in {"down", "poll", "open", "blocked", "write", "close", "mark"}
    /\ res \in Reply
    /\ hdr \in Headers
    /\ launches \in 0..MaxLaunches
    /\ fetched \in Nat /\ wrote \in Nat /\ applied \in Nat
    /\ exists \in BOOLEAN
    /\ buf \in Seq(Byte)
    /\ cpc \in {"down", "open", "read", "wait", "close", "sleep"}
    /\ queue \in Seq(Byte)
    /\ pstate \in {"get", "await", "raised"}
    /\ cur \in Byte
    /\ starts \in 0..MaxStarts
    /\ flown \in Codes \cup {None}

LinkInit ==
    /\ StoreInit
    /\ ppc = "down" /\ res = NoReply /\ launches = 0
    /\ hdr \in PollerHeaders
    /\ fetched = 0 /\ wrote = 0
    /\ exists \in BOOLEAN           \* left over from an earlier run, or not
    /\ buf = <<>>
    /\ cpc = "down" /\ queue = <<>> /\ starts = 0
    /\ pstate = "get" /\ cur = NoByte
    /\ flown = None /\ applied = 0

----------------------------------------------------------------------------
(* poller.py.  Its variable res is dead, and forgotten, from the end of one *)
(* round of the loop to the next answer.                                    *)

(* The byte main() writes for a command; none for a command it knows not. *)
Code(c) == CASE c = "land" -> "l" [] c = "loiter" -> "h" [] c = "rtl" -> "r"
             [] OTHER -> None

(* utils.makepipe; a FIFO that is there already is kept as it is, and any  *)
(* other OSError of mkfifo ends the process.                               *)
makepipe ==
    \/ exists' = TRUE /\ ppc' = "poll"
    \/ ~exists /\ UNCHANGED exists /\ ppc' = "down"

(* main() up to its loop. *)
Launch ==
    /\ ppc = "down" /\ launches < MaxLaunches
    /\ launches' = launches + 1
    /\ hdr' \in PollerHeaders
    /\ makepipe
    /\ res' = NoReply /\ wrote' = 0
    /\ UNCHANGED <<storeVars, fetched, buf, controllerVars, droneVars>>

(* poll() gets an answer.  That of a 401 has no "done": KeyError. *)
PollReply ==
    /\ ppc = "poll"
    /\ FetchRoute(hdr)
    /\ IF get_and_validate_token(hdr)
       THEN \E r \in FetchReplies :
              /\ fetched' = IF r.id = 0 THEN fetched ELSE Serial(r.id)
              /\ ppc' = IF r.done = 1 THEN "poll" ELSE "open"
              /\ res' = IF r.done = 1 THEN NoReply ELSE r
       ELSE ppc' = "down" /\ UNCHANGED <<res, fetched>>
    /\ UNCHANGED <<hdr, launches, wrote, fifoVars, controllerVars, droneVars>>

(* poll() meets a ConnectionError, before or after the server has answered *)
(* the request, and falls back to on_error.                                *)
PollFallback ==
    /\ ppc = "poll"
    /\ FetchRoute(hdr) \/ UNCHANGED storeVars
    /\ res' = [id |-> 0, command |-> OnError, done |-> 0]
    /\ ppc' = "open"
    /\ UNCHANGED <<hdr, launches, fetched, wrote,
                   fifoVars, controllerVars, droneVars>>

(* An answer that is not JSON (a 500, a proxy's error page) ends main(). *)
PollGarbled ==
    /\ ppc = "poll"
    /\ FetchRoute(hdr) \/ UNCHANGED storeVars
    /\ ppc' = "down"
    /\ UNCHANGED <<res, hdr, launches, fetched, wrote,
                   fifoVars, controllerVars, droneVars>>

(* open(pipe, 'w') blocks until a reader opens the FIFO. *)
OpenPipe ==
    /\ ppc = "open"
    /\ ppc' = IF Reader THEN "write" ELSE "blocked"
    /\ UNCHANGED <<storeVars, res, hdr, launches, fetched, wrote,
                   fifoVars, controllerVars, droneVars>>

(* The byte leaves Python's buffer when the with block closes the file. *)
(* Without a reader that is a BrokenPipeError, which ends main(); with   *)
(* neither reader nor writer left the FIFO forgets its bytes.  For a     *)
(* command it does not know main() writes nothing, and goes on.          *)
WritePipe ==
    /\ ppc = "write"
    /\ \/ /\ Code(res.command) = None
          /\ ppc' = "close"
          /\ UNCHANGED <<buf, wrote>>
       \/ /\ Code(res.command) # None /\ Reader
          /\ Len(buf) < PipeCap
          /\ buf' = Append(buf, [ch |-> Code(res.command), sn |-> fetched,
                                 op |-> res.id # 0,
                                 awaited |-> cpc = "wait" /\ buf = <<>>])
          /\ ppc' = "close"
          /\ wrote' = IF res.id # 0 THEN fetched ELSE wrote
       \/ /\ Code(res.command) # None /\ ~Reader
          /\ ppc' = "down"
          /\ buf' = <<>>
          /\ UNCHANGED wrote
    /\ res' = IF ppc' = "close" THEN res ELSE NoReply
    /\ UNCHANGED <<storeVars, hdr, launches, fetched, exists,
                   controllerVars, droneVars>>

ClosePipe ==
    /\ ppc = "close"
    /\ ppc' = IF res.id # 0 THEN "mark" ELSE "poll"
    /\ res' = IF res.id # 0 THEN res ELSE NoReply
    /\ buf' = IF Reader THEN buf ELSE <<>>
    /\ UNCHANGED <<storeVars, hdr, launches, fetched, wrote, exists,
                   controllerVars, droneVars>>

(* mark_done() gets its answer. *)
MarkReply ==
    /\ ppc = "mark"
    /\ DoneRoute(hdr, res.id)
    /\ ppc' = "poll"
    /\ res' = NoReply
    /\ UNCHANGED <<hdr, launches, fetched, wrote,
                   fifoVars, controllerVars, droneVars>>

(* mark_done() catches nothing: a lost request, a lost answer or one that *)
(* is not JSON ends main().                                               *)
MarkFails ==
    /\ ppc = "mark"
    /\ DoneRoute(hdr, res.id) \/ UNCHANGED storeVars
    /\ ppc' = "down"
    /\ res' = NoReply
    /\ UNCHANGED <<hdr, launches, fetched, wrote,
                   fifoVars, controllerVars, droneVars>>

----------------------------------------------------------------------------
(* controller.py *)

(* main() once the drone is connected: the tasks are created. *)
Start ==
    /\ cpc = "down" /\ starts < MaxStarts
    /\ cpc' = "open" /\ starts' = starts + 1
    /\ queue' = <<>> /\ pstate' = "get" /\ cur' = NoByte
    /\ UNCHANGED <<storeVars, pollerVars, fifoVars, droneVars>>

(* os.open never blocks here, and lets a poller blocked in open() go on.  *)
(* Only the poller makes comms.pipe: without it FileNotFoundError leaves  *)
(* the task, then gather, then main.                                      *)
ReadOpen ==
    /\ cpc = "open"
    /\ cpc' = IF exists THEN "read" ELSE "down"
    /\ ppc' = IF exists /\ ppc = "blocked" THEN "write" ELSE ppc
    /\ UNCHANGED <<storeVars, res, hdr, launches, fetched, wrote,
                   fifoVars, queue, pstate, cur, starts, droneVars>>

(* The first os.read: a byte that is already there is read and dropped,   *)
(* end of file is ignored, and EAGAIN makes the file blocking.            *)
ReadNow ==
    /\ cpc = "read"
    /\ \/ buf # <<>> /\ buf' = Tail(buf) /\ cpc' = "close"
       \/ buf = <<>> /\ ~Writer /\ cpc' = "close" /\ UNCHANGED buf
       \/ buf = <<>> /\ Writer /\ cpc' = "wait" /\ UNCHANGED buf
    /\ UNCHANGED <<storeVars, pollerVars, exists, queue, pstate, cur, starts,
                   droneVars>>

(* The second os.read blocks the whole event loop; what it returns, also  *)
(* the nothing of a writer that left, goes to command_queue.              *)
ReadWait ==
    /\ cpc = "wait"
    /\ \/ /\ buf # <<>>
          /\ queue' = Append(queue, Head(buf))
          /\ buf' = Tail(buf)
       \/ /\ buf = <<>> /\ ~Writer
          /\ queue' = Append(queue, Nothing(fetched))
          /\ UNCHANGED buf
    /\ cpc' = "close"
    /\ UNCHANGED <<storeVars, pollerVars, exists, pstate, cur, starts,
                   droneVars>>

ReadClose ==
    /\ cpc = "close"
    /\ cpc' = "sleep"
    /\ buf' = IF Writer THEN buf ELSE <<>>
    /\ UNCHANGED <<storeVars, pollerVars, exists, queue, pstate, cur, starts,
                   droneVars>>

(* asyncio.sleep(0.1) is over. *)
ReadAgain ==
    /\ cpc = "sleep" /\ Len(queue) < MaxQueue
    /\ cpc' = "open"
    /\ UNCHANGED <<storeVars, pollerVars, fifoVars, queue, pstate, cur, starts,
                   droneVars>>

(* process_commands: get() returns; what is no command is only printed. *)
TakeCommand ==
    /\ cpc = "sleep" /\ pstate = "get" /\ queue # <<>>
    /\ queue' = Tail(queue)
    /\ IF Head(queue).ch \in Codes
       THEN cur' = Head(queue) /\ pstate' = "await"
       ELSE UNCHANGED <<cur, pstate>>
    /\ UNCHANGED <<storeVars, pollerVars, fifoVars, cpc, starts, droneVars>>

(* drone.action.land/hold/return_to_launch succeeds. *)
ActionDone ==
    /\ pstate = "await"
    /\ pstate' = "get"
    /\ flown' = cur.ch
    /\ applied' = IF cur.op THEN cur.sn ELSE applied
    /\ cur' = NoByte
    /\ UNCHANGED <<storeVars, pollerVars, fifoVars, cpc, queue, starts>>

(* ... or is refused: ActionError, which nothing catches. *)
ActionRefused ==
    /\ pstate = "await"
    /\ pstate' = "raised"
    /\ UNCHANGED <<storeVars, pollerVars, fifoVars, cpc, queue, cur, starts,
                   droneVars>>

(* gather() raises in main(), which only handles KeyboardInterrupt. *)
ControllerExit ==
    /\ cpc = "sleep" /\ pstate = "raised"
    /\ cpc' = "down" /\ queue' = <<>> /\ pstate' = "get" /\ cur' = NoByte
    /\ UNCHANGED <<storeVars, pollerVars, fifoVars, starts, droneVars>>

----------------------------------------------------------------------------
linkOnly == <<pollerVars, fifoVars, controllerVars, droneVars>>

Server ==
    /\ (\E c \in FormValues : CommandRoute(c)) \/ init_db \/ ClockStep
    /\ UNCHANGED linkOnly

Poller ==
    \/ Launch \/ PollReply \/ PollFallback \/ PollGarbled
    \/ OpenPipe \/ WritePipe \/ ClosePipe \/ MarkReply \/ MarkFails

Controller ==
    \/ Start \/ ReadOpen \/ ReadNow \/ ReadWait \/ ReadClose \/ ReadAgain
    \/ TakeCommand \/ ActionDone \/ ActionRefused \/ ControllerExit

LinkNext == Server \/ Poller \/ Controller

LinkSpec == LinkInit /\ [][LinkNext]_linkVars

(***************************************************************************)
(* Each process is scheduled by its system: a call on the FIFO that can    *)
(* return does.  asyncio runs ready tasks in turn, so process_commands     *)
(* gets the loop whenever it keeps coming free, and MAVSDK answers every   *)
(* action or times out.  Nothing is assumed of the network: requests are   *)
(* made without a timeout, so poll() and mark_done() may never return.     *)
(***************************************************************************)
Fairness ==
    /\ WF_linkVars(OpenPipe) /\ WF_linkVars(WritePipe) /\ WF_linkVars(ClosePipe)
    /\ WF_linkVars(ReadOpen) /\ WF_linkVars(ReadNow) /\ WF_linkVars(ReadWait)
    /\ WF_linkVars(ReadClose) /\ WF_linkVars(ReadAgain)
    /\ SF_linkVars(TakeCommand) /\ SF_linkVars(ControllerExit)
    /\ WF_linkVars(ActionDone \/ ActionRefused)

FairLinkSpec == LinkSpec /\ Fairness

----------------------------------------------------------------------------
(***************************************************************************)
(* One incarnation of the poller puts the byte of a command in the FIFO at *)
(* most once: what it is about to write is newer than all it wrote,        *)
(* whatever is lost, refused, posted or cleared meanwhile.  Only a restart *)
(* repeats one.                                                            *)
(***************************************************************************)
NoRedelivery ==
    ppc \in {"open", "blocked", "write"} /\ res.id # 0 => fetched > wrote

(***************************************************************************)
(* A pending row becomes done only after this poller put the byte of that  *)
(* very command in the FIFO, with two exceptions.  A command that has no   *)
(* byte, like the "undefined" of a click on an icon, is marked done with   *)
(* nothing written; and an id fetched before a db:create by then belongs   *)
(* to another command.                                                     *)
(***************************************************************************)
MarkedOnlyIfWritten ==
    [][\A i \in DOMAIN commands \cap DOMAIN commands' :
          commands[i].done = 0 /\ commands'[i].done = 1
             => \/ wrote = Serial(i) \/ Code(commands[i].command) = None
                \/ fetched <= Base]_linkVars

(***************************************************************************)
(* A byte that arrives while read_pipe is blocked on the empty FIFO is not *)
(* lost: it leaves the FIFO only for command_queue, however the poller's   *)
(* close, mark_done and next write interleave with the reader.             *)
(***************************************************************************)
AwaitedByteQueued ==
    [][buf # <<>> /\ buf[1].awaited
          => \/ buf' # <<>> /\ buf'[1] = buf[1]
             \/ queue' = Append(queue, buf[1])]_linkVars

(***************************************************************************)
(* The link implements CommandRegister: the drone performs the operators'  *)
(* commands in the order accepted, or the fallback, and nothing else.      *)
(***************************************************************************)
Register == INSTANCE CommandRegister
                WITH Values <- FormValues \ {None}, Perform <- Code,
                     Fallback <- Code(OnError)

InOrder == Register!RegSpec

(***************************************************************************)
(* A poller that has something to write gets rid of it, fails, or finds no *)
(* controller: the blocking open() and the reader's loop never wait for    *)
(* each other.                                                             *)
(***************************************************************************)
HandoverCompletes ==
    (ppc \in {"open", "blocked", "write", "close"})
        ~> (ppc \in {"poll", "mark", "down"} \/ cpc = "down")

(***************************************************************************)
(* The blocking os.read always returns, so the event loop is not frozen    *)
(* for good, although the network may be.                                  *)
(***************************************************************************)
LoopThaws == (cpc = "wait") ~> (cpc # "wait")

(***************************************************************************)
(* What the docstring of process_commands says, "Process commands from the *)
(* queue and apply them to the drone": a queued command is taken up.       *)
(***************************************************************************)
QueuedIsTaken ==
    \A s \in 1..MaxIssued :
        (\E k \in DOMAIN queue : queue[k].op /\ queue[k].sn = s)
            ~> (cur.sn >= s)
=============================================================================
