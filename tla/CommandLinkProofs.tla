-------------------------- MODULE CommandLinkProofs --------------------------
(***************************************************************************)
(* Proofs about CommandLink, for every set of commands, clock, pipe        *)
(* capacity and number of restarts; the last part repeats them for         *)
(* LinkCrash, where processes are killed and requests served late.         *)
(*                                                                         *)
(* The inductive invariant has four parts.  History ties the tables to the *)
(* history; Handover says where the poller is with the command it fetched; *)
(* Pipe what the two ends of the FIFO know of each other; Ordered that     *)
(* commands keep their order, and their content, on the way to the drone.  *)
(***************************************************************************)
EXTENDS LinkCrash, CommandStoreProofs

(* Row i holds the command with serial number Serial(i). *)
History ==
    /\ Grown
    /\ \A i \in DOMAIN commands : commands[i].command = issued[Serial(i)]

Holding == ppc \in {"open", "blocked", "write", "close", "mark"}

(* What the poller fetched is never newer than what /fetch offers. *)
Bounds == wrote <= fetched /\ fetched <= Len(issued)
Offered == \A i \in Newest : fetched <= Serial(i)

(* The byte of the command it holds is in the FIFO, if there is such a byte. *)
ByteOut == ppc \in {"close", "mark"} /\ Code(res.command) # None

(* What it holds is the command it fetched, or the fallback. *)
Held ==
    /\ Holding /\ res.id # 0 =>
          /\ get_and_validate_token(hdr)
          /\ fetched > 0 /\ res.command = issued[fetched]
          /\ fetched > Base => res.id = fetched - Base
          /\ IF ByteOut THEN wrote = fetched ELSE wrote < fetched
    /\ Holding /\ res.id = 0 => res.command = OnError /\ ppc # "mark"

(* What it wrote is marked before the next poll. *)
Marked == wrote > Base => commands[wrote - Base].done = 1
Settled ==
    \/ ppc = "down"
    \/ ByteOut /\ res.id # 0
    \/ Marked

Handover == Bounds /\ Offered /\ Held /\ Settled

(* A reader lets a blocked writer go on, and an awaited byte is alone with *)
(* the reader that waits for it.                                           *)
Pipe ==
    /\ Reader => ppc # "blocked"
    /\ \A k \in DOMAIN buf : buf[k].awaited => k = 1 /\ cpc = "wait"

(* A byte stands for the operator's command with its serial number in the  *)
(* history h, or for the fallback.                                         *)
Genuine(b, h) ==
    IF b.op THEN b.sn \in 1..Len(h) /\ b.ch = Code(h[b.sn]) /\ b.ch # None
            ELSE b.ch \in {Code(OnError), None}

(* Serial numbers never decrease along a sequence, from one to another.    *)
Sorted(s) == \A j, k \in DOMAIN s : j <= k => s[j].sn <= s[k].sn
Precedes(s, t) == \A j \in DOMAIN s, k \in DOMAIN t : s[j].sn <= t[k].sn

(* All bytes of a sequence are genuine and neither older than the command  *)
(* performed last, lo, nor newer than the one fetched last, hi.            *)
Within(s, h, lo, hi) ==
    \A k \in DOMAIN s : Genuine(s[k], h) /\ lo <= s[k].sn /\ s[k].sn <= hi

InProgress(b, h, lo, hi) ==
    /\ Genuine(b, h) /\ b.ch # None /\ lo <= b.sn /\ b.sn <= hi
    /\ \A k \in DOMAIN queue : b.sn <= queue[k].sn
    /\ \A k \in DOMAIN buf : b.sn <= buf[k].sn

Ordered ==
    /\ applied <= fetched
    /\ Within(buf, issued, applied, fetched) /\ Sorted(buf)
    /\ Within(queue, issued, applied, fetched) /\ Sorted(queue)
    /\ Precedes(queue, buf)
    /\ pstate = "await" => InProgress(cur, issued, applied, fetched)

LinkInv == LinkTypeOK /\ History /\ Handover /\ Pipe /\ Ordered

----------------------------------------------------------------------------
(* Adding to a sequence of bytes, as os.write and put() do. *)
LEMMA AppendFacts ==
    ASSUME NEW S, NEW s \in Seq(S), NEW v \in S
    PROVE  /\ Append(s, v) \in Seq(S)
           /\ Len(Append(s, v)) = Len(s) + 1
           /\ DOMAIN Append(s, v) = DOMAIN s \cup {Len(s) + 1}
           /\ \A k \in DOMAIN s : Append(s, v)[k] = s[k]
           /\ Append(s, v)[Len(s) + 1] = v
OBVIOUS

(* Taking the first of a sequence, as os.read and get() do. *)
LEMMA TailFacts ==
    ASSUME NEW S, NEW s \in Seq(S), s # <<>>
    PROVE  /\ Tail(s) \in Seq(S) /\ Head(s) \in S
           /\ Head(s) = s[1] /\ 1 \in DOMAIN s
           /\ \A k \in DOMAIN Tail(s) : k + 1 \in DOMAIN s
                                       /\ Tail(s)[k] = s[k + 1]
                                       /\ k \in Nat \ {0}
OBVIOUS

(* poller.py knows three bytes. *)
LEMMA CodeType == \A c : Code(c) \in Codes \cup {None}
BY DEF Code, Codes

(* The empty answer, and that of an empty table, is a reply. *)
LEMMA NoReplyType == NoReply \in Reply
<1>1. 0 \in Nat /\ 1 \in 0..1
  OBVIOUS
<1> QED
  BY <1>1, Zenon DEF NoReply, Reply

(* Neither byte of the reader's side is a command. *)
LEMMA NothingType == \A n \in Nat : Nothing(n) \in Byte
BY DEF Nothing, Byte

(* What /fetch answers is a reply. *)
LEMMA ReplyType ==
    ASSUME StoreTypeOK, NEW r \in FetchReplies PROVE r \in Reply
<1>1. NoReply \in Reply
  BY NoReplyType
<1>2. CASE commands = <<>>
  BY <1>1, <1>2, Zenon DEF FetchReplies, NoReply
<1>3. CASE commands # <<>>
  <2>1. PICK i \in Newest :
          r = [id |-> i, command |-> commands[i].command,
               done |-> commands[i].done]
    BY <1>3 DEF FetchReplies
  <2>2. i \in Nat /\ commands[i] \in Row
    BY <2>1 DEF Newest, StoreTypeOK
  <2>3. commands[i].command \in FormValues /\ commands[i].done \in 0..1
    BY <2>2, Zenon DEF Row
  <2> QED
    BY <2>1, <2>2, <2>3, Zenon DEF Reply
<1> QED
  BY <1>2, <1>3

(* What /fetch answers is a row the server offers, or none. *)
LEMMA ReplyRow ==
    ASSUME StoreTypeOK, NEW r \in FetchReplies
    PROVE  \/ r.id = 0 /\ r.done = 1
           \/ /\ r.id \in Newest /\ r.id \in Nat \ {0}
              /\ r.command = commands[r.id].command
              /\ r.done = commands[r.id].done
<1>1. CASE commands = <<>>
  BY <1>1 DEF FetchReplies
<1>2. CASE commands # <<>>
  BY <1>2 DEF FetchReplies, Newest, StoreTypeOK
<1> QED
  BY <1>1, <1>2

(* Rows have positive serial numbers, up to that of the newest command. *)
LEMMA SerialType ==
    ASSUME StoreTypeOK, Grown, NEW i \in DOMAIN commands
    PROVE  Serial(i) \in 1..Len(issued) /\ Serial(i) > Base /\ Base \in Nat
BY DEF StoreTypeOK, Grown, Serial, Base

(* Every step of the link is, for the server, one of its own. *)
LEMMA LinkStoreStep == [LinkNext]_linkVars => StoreStep
BY DEF LinkNext, Server, Poller, Controller, StoreStep, linkVars,
       Launch, PollReply, PollFallback, PollGarbled, OpenPipe, WritePipe,
       ClosePipe, MarkReply, MarkFails, Start, ReadOpen, ReadNow, ReadWait,
       ReadClose, ReadAgain, TakeCommand, ActionDone, ActionRefused,
       ControllerExit

(* Every process keeps its variables, the FIFO and the queue of bytes in   *)
(* their types.                                                            *)
LEMMA LinkTypeStep ==
    LinkTypeOK /\ Grown /\ [LinkNext]_linkVars => LinkTypeOK'
<1> SUFFICES ASSUME LinkTypeOK, Grown, [LinkNext]_linkVars PROVE LinkTypeOK'
  OBVIOUS
<1> USE LinkAssumption DEF LinkAssumption
<1>a. StoreTypeOK'
  BY LinkStoreStep, StoreTypeStep DEF LinkTypeOK
<1>b. NoReply \in Reply /\ NoByte \in Byte
  BY NoReplyType, NothingType DEF NoByte
<1> USE DEF pollerVars, fifoVars, controllerVars, droneVars
<1>0. CASE UNCHANGED linkVars
  BY <1>0, <1>a DEF linkVars, LinkTypeOK
<1>s. CASE Server
  BY <1>s, <1>a DEF Server, linkOnly, LinkTypeOK
<1>1. CASE Launch
  <2>1. exists' \in BOOLEAN /\ ppc' \in {"poll", "down"}
    BY <1>1 DEF Launch, makepipe, LinkTypeOK
  <2> QED
    BY <1>1, <2>1, <1>a, <1>b DEF Launch, LinkTypeOK
<1>2. CASE PollReply
  <2>1. ASSUME NEW r \in FetchReplies, fetched' = IF r.id = 0 THEN fetched
                                                 ELSE Serial(r.id)
        PROVE  r \in Reply /\ fetched' \in Nat
    <3>1. r.id = 0 \/ r.id \in DOMAIN commands
      BY ReplyRow DEF LinkTypeOK, Newest
    <3> QED
      BY <2>1, <3>1, ReplyType, SerialType DEF LinkTypeOK
  <2> QED
    BY <1>2, <2>1, <1>a, <1>b DEF PollReply, LinkTypeOK
<1>3. CASE PollFallback
  <2>1. 0 \in Nat /\ 0 \in 0..1
    OBVIOUS
  <2>2. [id |-> 0, command |-> OnError, done |-> 0] \in Reply
    BY <2>1, Zenon DEF Reply
  <2> QED
    BY <1>3, <2>2, <1>a DEF PollFallback, LinkTypeOK
<1>4. CASE PollGarbled
  BY <1>4, <1>a, <1>b DEF PollGarbled, LinkTypeOK
<1>5. CASE OpenPipe
  BY <1>5, <1>a, <1>b DEF OpenPipe, LinkTypeOK
<1>6. CASE WritePipe
  <2> DEFINE b == [ch |-> Code(res.command), sn |-> fetched,
                   op |-> res.id # 0,
                   awaited |-> cpc = "wait" /\ buf = <<>>]
  <2>1. b \in Byte
    BY CodeType, Zenon DEF Byte, LinkTypeOK
  <2>2. buf' = buf \/ buf' = <<>> \/ buf' = Append(buf, b)
    BY <1>6, Zenon DEF WritePipe
  <2> HIDE DEF b
  <2>3. buf' \in Seq(Byte)
    <3>1. buf \in Seq(Byte) /\ <<>> \in Seq(Byte)
      BY DEF LinkTypeOK
    <3>2. Append(buf, b) \in Seq(Byte)
      BY <2>1, <3>1, AppendFacts
    <3> QED
      BY <2>2, <3>1, <3>2, Zenon
  <2>4. ppc' \in {"down", "close"} /\ wrote' \in Nat /\ res' \in Reply
    BY <1>6, <1>b DEF WritePipe, LinkTypeOK
  <2> QED
    BY <1>6, <2>3, <2>4, <1>a DEF WritePipe, LinkTypeOK
<1>7. CASE ClosePipe
  BY <1>7, <1>a, <1>b DEF ClosePipe, LinkTypeOK
<1>8. CASE MarkReply
  BY <1>8, <1>a, <1>b DEF MarkReply, LinkTypeOK
<1>9. CASE MarkFails
  BY <1>9, <1>a, <1>b DEF MarkFails, LinkTypeOK
<1>10. CASE Start
  BY <1>10, <1>a, <1>b DEF Start, LinkTypeOK
<1>11. CASE ReadOpen
  BY <1>11, <1>a, <1>b DEF ReadOpen, LinkTypeOK
<1>12. CASE ReadNow
  <2>1. buf' \in Seq(Byte)
    BY <1>12, TailFacts DEF ReadNow, LinkTypeOK
  <2>2. cpc' \in {"close", "wait"}
    BY <1>12 DEF ReadNow
  <2> QED
    BY <1>12, <2>1, <2>2, <1>a DEF ReadNow, LinkTypeOK
<1>13. CASE ReadWait
  <2>0. buf \in Seq(Byte) /\ queue \in Seq(Byte) /\ fetched \in Nat
    BY DEF LinkTypeOK
  <2>1. CASE buf # <<>> /\ queue' = Append(queue, Head(buf)) /\ buf' = Tail(buf)
    <3>1. buf' \in Seq(Byte) /\ Head(buf) \in Byte
      BY <2>0, <2>1, TailFacts
    <3>2. queue' \in Seq(Byte)
      BY <2>0, <2>1, <3>1, AppendFacts
    <3> QED
      BY <1>13, <3>1, <3>2, <1>a DEF ReadWait, LinkTypeOK
  <2>2. CASE queue' = Append(queue, Nothing(fetched)) /\ UNCHANGED buf
    <3>1. queue' \in Seq(Byte)
      BY <2>0, <2>2, NothingType, AppendFacts
    <3> QED
      BY <1>13, <2>2, <3>1, <1>a DEF ReadWait, LinkTypeOK
  <2> QED
    BY <1>13, <2>1, <2>2 DEF ReadWait
<1>14. CASE ReadClose
  BY <1>14, <1>a, <1>b DEF ReadClose, LinkTypeOK
<1>15. CASE ReadAgain
  BY <1>15, <1>a, <1>b DEF ReadAgain, LinkTypeOK
<1>16. CASE TakeCommand
  BY <1>16, <1>a, <1>b DEF TakeCommand, LinkTypeOK
<1>17. CASE ActionDone
  <2>1. cur.ch \in Codes \cup {None} /\ cur.sn \in Nat
    BY DEF LinkTypeOK, Byte
  <2> QED
    BY <1>17, <2>1, <1>a, <1>b DEF ActionDone, LinkTypeOK
<1>18. CASE ActionRefused
  BY <1>18, <1>a, <1>b DEF ActionRefused, LinkTypeOK
<1>19. CASE ControllerExit
  BY <1>19, <1>a, <1>b DEF ControllerExit, LinkTypeOK
<1> QED
  BY <1>0, <1>s, <1>1, <1>2, <1>3, <1>4, <1>5, <1>6, <1>7, <1>8, <1>9, <1>10, <1>11, <1>12, <1>13, <1>14, <1>15, <1>16, <1>17, <1>18, <1>19
  DEF LinkNext, Poller, Controller

(* The initial states are type correct. *)
LEMMA InitTypes == LinkInit => LinkTypeOK
<1>1. NoReply \in Reply /\ NoByte \in Byte
  BY NoReplyType, NothingType DEF NoByte
<1> QED
  BY <1>1, StoreAssumption, LinkAssumption
  DEF StoreAssumption, LinkAssumption, LinkInit, StoreInit, LinkTypeOK,
      StoreTypeOK

(* The whole link is type correct. *)
THEOREM LinkTypes == LinkSpec => []LinkTypeOK
<1>1. LinkInit => LinkTypeOK /\ Grown
  BY InitTypes DEF LinkInit, StoreInit, Grown
<1>2. LinkTypeOK /\ Grown /\ [LinkNext]_linkVars => Grown'
  BY LinkStoreStep, GrownStep DEF LinkTypeOK
<1> QED
  BY <1>1, <1>2, LinkTypeStep, PTL DEF LinkSpec

----------------------------------------------------------------------------
(* The two processes' steps on the FIFO keep what they know of each other. *)
LEMMA PipeStep == LinkTypeOK /\ Pipe /\ [LinkNext]_linkVars => Pipe'
<1> SUFFICES ASSUME LinkTypeOK, Pipe, [LinkNext]_linkVars PROVE Pipe'
  OBVIOUS
<1> USE DEF pollerVars, fifoVars, controllerVars, droneVars, Reader, Writer
<1>a. buf \in Seq(Byte)
  BY DEF LinkTypeOK
<1>0. CASE UNCHANGED linkVars \/ Server
  BY <1>0 DEF linkVars, Server, linkOnly, Pipe
<1>1. CASE Launch \/ PollReply \/ PollFallback \/ PollGarbled
  BY <1>1 DEF Launch, makepipe, PollReply, PollFallback, PollGarbled, Pipe
<1>2. CASE MarkReply \/ MarkFails
  BY <1>2 DEF MarkReply, MarkFails, Pipe
<1>3. CASE OpenPipe
  BY <1>3 DEF OpenPipe, Pipe
<1>4. CASE WritePipe
  <2>1. ppc' # "blocked" /\ cpc' = cpc
    BY <1>4 DEF WritePipe
  <2>2. CASE buf' = buf \/ buf' = <<>>
    BY <2>1, <2>2 DEF Pipe
  <2>3. ASSUME NEW b \in Byte, buf' = Append(buf, b),
               b.awaited => cpc = "wait" /\ buf = <<>>
        PROVE  Pipe'
    <3>1. \A k \in DOMAIN buf' : buf'[k].awaited => k = 1 /\ cpc = "wait"
      <4>1. \A k \in DOMAIN buf : buf'[k] = buf[k]
        BY <1>a, <2>3, AppendFacts
      <4>2. buf'[Len(buf) + 1] = b
        BY <1>a, <2>3, AppendFacts
      <4>3. DOMAIN buf' = DOMAIN buf \cup {Len(buf) + 1}
        BY <1>a, <2>3, AppendFacts
      <4>4. buf = <<>> => Len(buf) + 1 = 1
        OBVIOUS
      <4> QED
        BY <2>3, <4>1, <4>2, <4>3, <4>4, Zenon DEF Pipe
    <3> QED
      BY <2>1, <3>1 DEF Pipe
  <2>4. [ch |-> Code(res.command), sn |-> fetched, op |-> res.id # 0,
         awaited |-> cpc = "wait" /\ buf = <<>>] \in Byte
    BY CodeType, Zenon DEF Byte, LinkTypeOK
  <2> QED
    BY <1>4, <2>2, <2>3, <2>4 DEF WritePipe
<1>5. CASE ClosePipe
  BY <1>5 DEF ClosePipe, Pipe
<1>6. CASE Start \/ ReadOpen \/ ReadClose \/ ReadAgain
  BY <1>6 DEF Start, ReadOpen, ReadClose, ReadAgain, Pipe
<1>7. CASE ReadNow
  <2>1. \A k \in DOMAIN buf : ~buf[k].awaited
    BY <1>7 DEF ReadNow, Pipe
  <2>2. \A k \in DOMAIN buf' : ~buf'[k].awaited
    BY <1>7, <1>a, <2>1, TailFacts DEF ReadNow
  <2> QED
    BY <1>7, <2>2 DEF ReadNow, Pipe
<1>8. CASE ReadWait
  <2>1. \A k \in DOMAIN buf' : ~buf'[k].awaited
    <3>1. CASE buf # <<>> /\ buf' = Tail(buf)
      BY <1>a, <3>1, TailFacts DEF Pipe
    <3>2. CASE buf = <<>> /\ buf' = buf
      BY <3>2
    <3> QED
      BY <1>8, <3>1, <3>2 DEF ReadWait
  <2> QED
    BY <1>8, <2>1 DEF ReadWait, Pipe
<1>9. CASE TakeCommand \/ ActionDone \/ ActionRefused \/ ControllerExit
  BY <1>9 DEF TakeCommand, ActionDone, ActionRefused, ControllerExit, Pipe
<1> QED
  BY <1>0, <1>1, <1>2, <1>3, <1>4, <1>5, <1>6, <1>7, <1>8, <1>9
  DEF LinkNext, Poller, Controller

(* A byte that arrives while read_pipe waits for it reaches the queue.     *)
THEOREM AwaitedArrives == LinkSpec => AwaitedByteQueued
<1>1. LinkInit => Pipe
  BY DEF LinkInit, Pipe, Reader
<1>2. ASSUME LinkTypeOK, Pipe, LinkNext, buf # <<>>, buf[1].awaited
      PROVE  \/ buf' # <<>> /\ buf'[1] = buf[1]
             \/ queue' = Append(queue, buf[1])
  <2> USE DEF pollerVars, fifoVars, controllerVars, droneVars
  <2>a. buf \in Seq(Byte) /\ 1 \in DOMAIN buf
    BY <1>2 DEF LinkTypeOK
  <2>b. cpc = "wait"
    BY <1>2, <2>a DEF Pipe
  <2>1. CASE UNCHANGED buf
    BY <1>2, <2>1
  <2>2. CASE WritePipe
    <3>1. ASSUME NEW b \in Byte, buf' = Append(buf, b)
          PROVE  buf' # <<>> /\ buf'[1] = buf[1]
      BY <2>a, <3>1, AppendFacts
    <3>2. [ch |-> Code(res.command), sn |-> fetched, op |-> res.id # 0,
           awaited |-> cpc = "wait" /\ buf = <<>>] \in Byte
      BY <1>2, CodeType, Zenon DEF Byte, LinkTypeOK
    <3> QED
      BY <2>1, <2>2, <2>b, <3>1, <3>2 DEF WritePipe, Reader
  <2>3. CASE ClosePipe
    BY <1>2, <2>3, <2>b DEF ClosePipe, Reader
  <2>4. CASE ReadWait
    BY <1>2, <2>4, <2>a, TailFacts DEF ReadWait
  <2>5. CASE ReadNow \/ ReadClose
    BY <2>5, <2>b DEF ReadNow, ReadClose
  <2> QED
    BY <1>2, <2>1, <2>2, <2>3, <2>4, <2>5
    DEF LinkNext, Server, linkOnly, Poller, Controller, Launch, PollReply,
        PollFallback, PollGarbled, OpenPipe, MarkReply, MarkFails, Start,
        ReadOpen, ReadAgain, TakeCommand, ActionDone, ActionRefused,
        ControllerExit
<1>3. LinkTypeOK /\ Pipe /\ [LinkNext]_linkVars
        => [buf # <<>> /\ buf[1].awaited
              => \/ buf' # <<>> /\ buf'[1] = buf[1]
                 \/ queue' = Append(queue, buf[1])]_linkVars
  BY <1>2
<1> QED
  BY <1>1, <1>3, PipeStep, LinkTypes, PTL DEF LinkSpec, AwaitedByteQueued

----------------------------------------------------------------------------
(* Rows keep the command they were inserted with. *)
LEMMA HistoryStep == StoreTypeOK /\ History /\ StoreStep => History'
<1> SUFFICES ASSUME StoreTypeOK, History, StoreStep PROVE History'
  OBVIOUS
<1>a. Grown'
  BY GrownStep DEF History
<1>b. Len(commands) \in Nat /\ Len(issued) \in Nat
      /\ DOMAIN commands = 1..Len(commands)
  BY DEF StoreTypeOK
<1>1. ASSUME NEW c \in FormValues, CommandRoute(c) PROVE History'
  <2>1. /\ issued' = Append(issued, c) /\ issued \in Seq(FormValues \ {None})
        /\ c \in FormValues \ {None}
    BY <1>1 DEF CommandRoute, StoreTypeOK
  <2>2. /\ Len(issued') = Len(issued) + 1
        /\ issued'[Len(issued) + 1] = c
        /\ \A k \in DOMAIN issued : issued'[k] = issued[k]
    BY <2>1, AppendFacts
  <2>3. [command |-> c, done |-> 0, created_at |-> clock] \in Row
    BY <1>1 DEF CommandRoute, StoreTypeOK, Row
  <2>4. /\ Len(commands') = Len(commands) + 1
        /\ DOMAIN commands' = DOMAIN commands \cup {Len(commands) + 1}
        /\ commands'[Len(commands) + 1].command = c
        /\ \A i \in DOMAIN commands : commands'[i] = commands[i]
    BY <1>1, <2>3, AppendFacts DEF CommandRoute, StoreTypeOK
  <2>5. Base' = Base
    BY <1>b, <2>2, <2>4 DEF Base
  <2>6. \A i \in DOMAIN commands : Serial(i) \in DOMAIN issued
    BY SerialType DEF History, StoreTypeOK
  <2>7. \A i \in DOMAIN commands' : commands'[i].command = issued'[Base' + i]
    <3>1. ASSUME NEW i \in DOMAIN commands
          PROVE  commands'[i].command = issued'[Base' + i]
      BY <2>2, <2>4, <2>5, <2>6 DEF History, Serial
    <3>2. commands'[Len(commands) + 1].command
            = issued'[Base' + (Len(commands) + 1)]
      <4>1. Base + (Len(commands) + 1) = Len(issued) + 1
        BY <1>b DEF Base
      <4> QED
        BY <2>2, <2>4, <2>5, <4>1
    <3> QED
      BY <2>4, <3>1, <3>2
  <2> QED
    BY <1>a, <2>7 DEF History, Serial
<1>2. ASSUME NEW h, FetchRoute(h) PROVE History'
  BY <1>2, <1>a DEF FetchRoute, History, Serial, Base
<1>3. ASSUME NEW h, NEW id, DoneRoute(h, id) PROVE History'
  <2>1. /\ DOMAIN commands' = DOMAIN commands /\ Len(commands') = Len(commands)
        /\ \A i \in DOMAIN commands :
              commands'[i].command = commands[i].command
    <3>1. CASE id \in DOMAIN commands
               /\ commands' = [commands EXCEPT ![id].done = 1]
      <4>1. commands' \in Seq(Row) /\ DOMAIN commands' = DOMAIN commands
        BY <3>1, MarkType DEF StoreTypeOK
      <4>2. Len(commands') = Len(commands)
        BY <4>1 DEF StoreTypeOK
      <4> QED
        BY <3>1, <4>1, <4>2, MarkType DEF StoreTypeOK
    <3> QED
      BY <1>3, <3>1 DEF DoneRoute
  <2> QED
    BY <1>3, <1>a, <2>1 DEF DoneRoute, History, Serial, Base
<1>4. CASE init_db
  BY <1>4, <1>a DEF init_db, History
<1>5. CASE ClockStep \/ UNCHANGED storeVars
  BY <1>5, <1>a DEF ClockStep, storeVars, History, Serial, Base
<1> QED
  BY <1>1, <1>2, <1>3, <1>4, <1>5 DEF StoreStep

(***************************************************************************)
(* What the poller may rely on when the server moves: the history only     *)
(* grows, a row that survives keeps its serial number and stays done, and  *)
(* what is offered is what was offered or the newest command.              *)
(***************************************************************************)
LEMMA StoreEffect ==
    ASSUME StoreTypeOK, Grown, StoreStep
    PROVE  /\ Len(issued') >= Len(issued) /\ Len(issued') \in Nat
           /\ Base' \in Nat /\ Base \in Nat
           /\ \A k \in 1..Len(issued) : issued'[k] = issued[k]
           /\ \A n \in 1..Len(issued) :
                 n > Base' =>
                   /\ Base' = Base
                   /\ commands[n - Base].done = 1
                        => commands'[n - Base].done = 1
           /\ \A i \in Newest' : \/ i \in Newest /\ Base' = Base
                                \/ Base' + i = Len(issued')
<1>a. /\ Len(commands) \in Nat /\ Len(issued) \in Nat
      /\ DOMAIN commands = 1..Len(commands) /\ DOMAIN issued = 1..Len(issued)
      /\ Len(commands) <= Len(issued)
  BY DEF StoreTypeOK, Grown
<1>b. Base \in Nat
  BY <1>a DEF Base
<1>1. ASSUME NEW c \in FormValues, CommandRoute(c)
      PROVE  /\ Len(issued') = Len(issued) + 1
             /\ Base' = Base
             /\ \A k \in 1..Len(issued) : issued'[k] = issued[k]
             /\ \A i \in DOMAIN commands : commands'[i] = commands[i]
  <2>1. issued' = Append(issued, c) /\ c \in FormValues \ {None}
    BY <1>1 DEF CommandRoute
  <2>2. /\ Len(issued') = Len(issued) + 1
        /\ \A k \in 1..Len(issued) : issued'[k] = issued[k]
    BY <1>a, <2>1, AppendFacts DEF StoreTypeOK
  <2>3. [command |-> c, done |-> 0, created_at |-> clock] \in Row
    BY <1>1 DEF CommandRoute, StoreTypeOK, Row
  <2>4. /\ Len(commands') = Len(commands) + 1
        /\ \A i \in DOMAIN commands : commands'[i] = commands[i]
    BY <1>1, <2>3, AppendFacts DEF CommandRoute, StoreTypeOK
  <2> QED
    BY <1>a, <2>2, <2>4 DEF Base
<1>2. ASSUME NEW h, NEW id, DoneRoute(h, id)
      PROVE  /\ issued' = issued
             /\ Base' = Base
             /\ \A i \in DOMAIN commands :
                   commands[i].done = 1 => commands'[i].done = 1
  <2>1. CASE id \in DOMAIN commands
             /\ commands' = [commands EXCEPT ![id].done = 1]
    <3>1. commands' \in Seq(Row) /\ DOMAIN commands' = DOMAIN commands
      BY <2>1, MarkType DEF StoreTypeOK
    <3>2. Len(commands') = Len(commands)
      BY <3>1 DEF StoreTypeOK
    <3>3. \A i \in DOMAIN commands :
            commands'[i].done = IF i = id THEN 1 ELSE commands[i].done
      BY <2>1, MarkType DEF StoreTypeOK
    <3> QED
      BY <1>2, <3>2, <3>3 DEF DoneRoute, Base
  <2> QED
    BY <1>2, <2>1 DEF DoneRoute, Base
<1>3. CASE init_db
  <2>1. issued' = issued /\ commands' = <<>>
    BY <1>3 DEF init_db
  <2>2. Newest' = {}
    BY <2>1 DEF Newest
  <2>3. Base' = Len(issued)
    BY <1>a, <2>1 DEF Base
  <2> QED
    <3>1. \A n \in 1..Len(issued) : ~(n > Base')
      BY <1>a, <2>3
    <3>2. Len(issued') >= Len(issued) /\ Len(issued') \in Nat /\ Base' \in Nat
      BY <1>a, <2>1, <2>3
    <3> QED
      BY <1>b, <2>1, <2>2, <3>1, <3>2, Zenon
<1>4. ASSUME UNCHANGED <<commands, issued>>
      PROVE  Base' = Base /\ Newest' = Newest
  BY <1>4 DEF Base, Newest
<1>5. ASSUME Base' = Base
      PROVE  \A i \in Newest' : \/ i \in Newest /\ Base' = Base
                                \/ Base' + i = Len(issued')
  BY <1>5, OfferStep DEF Serial
<1>6. \A n \in 1..Len(issued) : n > Base => n - Base \in DOMAIN commands
  BY <1>a, <1>b DEF Base
<1>7. CASE \E c \in FormValues : CommandRoute(c)
  BY <1>a, <1>b, <1>1, <1>5, <1>6, <1>7
<1>8. CASE \E h, id : DoneRoute(h, id)
  BY <1>a, <1>b, <1>2, <1>5, <1>6, <1>8
<1>9. CASE UNCHANGED <<commands, issued>>
  BY <1>a, <1>b, <1>4, <1>9
<1> QED
  BY <1>3, <1>7, <1>8, <1>9 DEF StoreStep, FetchRoute, ClockStep, storeVars

(* The poller's progress with a command survives every step of the server, *)
(* of the controller and of its own.                                       *)
LEMMA HandoverStep ==
    LinkTypeOK /\ History /\ Handover /\ [LinkNext]_linkVars => Handover'
<1> SUFFICES ASSUME LinkTypeOK, History, Handover, [LinkNext]_linkVars
             PROVE  Handover'
  OBVIOUS
<1> USE DEF pollerVars, fifoVars, controllerVars, droneVars
<1>t. /\ StoreTypeOK /\ Grown /\ StoreStep /\ Len(issued) \in Nat
      /\ fetched \in Nat /\ wrote \in Nat
  BY LinkStoreStep DEF LinkTypeOK, StoreTypeOK, History
<1>e. /\ Len(issued') >= Len(issued) /\ Len(issued') \in Nat
      /\ Base' \in Nat /\ Base \in Nat
      /\ \A k \in 1..Len(issued) : issued'[k] = issued[k]
      /\ \A n \in 1..Len(issued) :
            n > Base' =>
              /\ Base' = Base
              /\ commands[n - Base].done = 1 => commands'[n - Base].done = 1
      /\ \A i \in Newest' : \/ i \in Newest /\ Base' = Base
                           \/ Base' + i = Len(issued')
  BY <1>t, StoreEffect
<1>b. fetched <= Len(issued') /\ wrote <= fetched /\ fetched <= Len(issued)
  BY <1>t, <1>e DEF Handover, Bounds
<1>o. fetched' = fetched => Offered'
  BY <1>t, <1>e, <1>b DEF Handover, Offered, Serial
<1>m. Marked /\ wrote' = wrote => Marked'
  BY <1>t, <1>e, <1>b DEF Marked
<1>h. /\ fetched > 0 => issued'[fetched] = issued[fetched]
      /\ fetched > Base' => Base' = Base
  BY <1>t, <1>e, <1>b
<1>k. ASSUME UNCHANGED <<ppc, res, hdr, fetched, wrote>> PROVE Handover'
  <2>1. Bounds' /\ Offered'
    BY <1>k, <1>b, <1>o DEF Bounds
  <2>2. Held'
    BY <1>k, <1>h DEF Handover, Held, Holding, ByteOut
  <2>3. Settled'
    BY <1>k, <1>m DEF Handover, Settled, ByteOut
  <2> QED
    BY <2>1, <2>2, <2>3 DEF Handover
<1>d. ASSUME ppc' = "down", UNCHANGED <<fetched, wrote>> PROVE Handover'
  <2>1. Bounds' /\ Offered'
    BY <1>d, <1>b, <1>o DEF Bounds
  <2>2. Held'
    BY <1>d DEF Held, Holding, ByteOut
  <2>3. Settled'
    BY <1>d DEF Settled
  <2> QED
    BY <2>1, <2>2, <2>3 DEF Handover
<1>0. CASE UNCHANGED linkVars \/ Server
  BY <1>0, <1>k DEF linkVars, Server, linkOnly
<1>1. CASE Launch
  BY <1>1, <1>t, <1>e, <1>b, <1>o
  DEF Launch, makepipe, Handover, Bounds, Held, Holding, ByteOut, Settled, Marked
<1>2. CASE PollReply
  <2>1. CASE ~get_and_validate_token(hdr)
    <3>1. ppc' = "down" /\ UNCHANGED <<fetched, wrote>>
      BY <1>2, <2>1 DEF PollReply
    <3> QED
      BY <3>1, <1>d
  <2>2. CASE get_and_validate_token(hdr)
    <3>1. PICK r \in FetchReplies :
            /\ fetched' = IF r.id = 0 THEN fetched ELSE Serial(r.id)
            /\ ppc' = IF r.done = 1 THEN "poll" ELSE "open"
            /\ res' = IF r.done = 1 THEN NoReply ELSE r
      BY <1>2, <2>2 DEF PollReply
    <3>2. /\ UNCHANGED <<commands, issued>>
          /\ UNCHANGED <<hdr, wrote>> /\ ppc = "poll"
      BY <1>2 DEF PollReply, FetchRoute
    <3>3. Marked /\ Marked'
      BY <1>m, <3>2 DEF Handover, Settled, ByteOut
    <3>4. CASE r.id = 0 /\ r.done = 1
      BY <3>1, <3>2, <3>3, <3>4, <1>b, <1>o
      DEF Handover, Bounds, Held, Holding, ByteOut, Settled
    <3>5. CASE /\ r.id \in Newest /\ r.id \in Nat \ {0}
               /\ r.command = commands[r.id].command
               /\ r.done = commands[r.id].done
      <4>1. fetched' = Serial(r.id) /\ r.id \in DOMAIN commands
        BY <3>1, <3>5 DEF Newest
      <4>2. fetched' \in 1..Len(issued) /\ fetched' > Base
        BY <4>1, <1>t, SerialType
      <4>3. fetched <= fetched'
        BY <4>1, <3>5 DEF Handover, Offered
      <4>4. Bounds'
        BY <4>2, <4>3, <1>t, <1>b, <3>2 DEF Bounds
      <4>5. Offered'
        <5>1. \A i \in Newest : i = r.id
          BY <3>5, <1>t, OfferAtMostOne
        <5> QED
          BY <4>1, <5>1, <3>2 DEF Offered, Newest, Serial, Base
      <4>6. Held'
        <5>1. CASE r.done = 1
          BY <5>1, <3>1 DEF Held, Holding, ByteOut
        <5>2. CASE r.done # 1
          <6>1. wrote # fetched'
            <7>1. r.id = fetched' - Base
              BY <4>1, <1>e, <3>5 DEF Serial
            <7>2. commands[fetched' - Base].done # 1
              BY <7>1, <5>2, <3>5
            <7> QED
              BY <7>2, <3>3, <4>2 DEF Marked
          <6>2. res'.command = issued'[fetched'] /\ res' = r /\ ppc' = "open"
            BY <5>2, <3>1, <3>2, <3>5, <4>1 DEF History
          <6>3. res'.id = fetched' - Base'
            BY <6>2, <4>1, <3>2, <1>e, <3>5 DEF Serial, Base
          <6>4. wrote' < fetched' /\ fetched' > 0
            BY <6>1, <4>2, <4>3, <1>t, <1>b, <3>2
          <6>5. get_and_validate_token(hdr')
            BY <2>2, <3>2
          <6> QED
            BY <3>5, <6>2, <6>3, <6>4, <6>5 DEF Held, Holding, ByteOut
        <5> QED
          BY <5>1, <5>2
      <4> QED
        BY <3>3, <4>4, <4>5, <4>6 DEF Handover, Settled, ByteOut
    <3> QED
      BY <3>4, <3>5, <1>t, ReplyRow
  <2> QED
    BY <2>1, <2>2
<1>3. CASE PollFallback
  BY <1>3, <1>t, <1>b, <1>o, <1>m
  DEF PollFallback, Handover, Bounds, Held, Holding, ByteOut, Settled
<1>4. CASE PollGarbled
  BY <1>4, <1>d DEF PollGarbled
<1>5. CASE OpenPipe
  <2>1. /\ ppc = "open" /\ ppc' \in {"write", "blocked"}
        /\ UNCHANGED <<res, hdr, fetched, wrote>>
    BY <1>5 DEF OpenPipe
  <2>2. Bounds' /\ Offered'
    BY <2>1, <1>b, <1>o DEF Bounds
  <2>3. Held'
    BY <2>1, <1>h DEF Handover, Held, Holding, ByteOut
  <2>4. Settled'
    BY <2>1, <1>m DEF Handover, Settled, ByteOut
  <2> QED
    BY <2>2, <2>3, <2>4 DEF Handover
<1>6. CASE WritePipe
  <2>1. /\ ppc = "write" /\ fetched' = fetched /\ hdr' = hdr
        /\ \/ ppc' = "down" /\ wrote' = wrote
           \/ ppc' = "close" /\ res' = res /\ Code(res.command) = None
                             /\ wrote' = wrote
           \/ ppc' = "close" /\ res' = res /\ Code(res.command) # None
                             /\ wrote' = IF res.id # 0 THEN fetched ELSE wrote
    BY <1>6 DEF WritePipe
  <2>2. Bounds' /\ Offered'
    BY <2>1, <1>t, <1>b, <1>o DEF Bounds
  <2>3. Held'
    BY <2>1, <1>h DEF Handover, Held, Holding, ByteOut
  <2>4. Settled'
    BY <2>1, <1>m DEF Handover, Settled, ByteOut
  <2> QED
    BY <2>2, <2>3, <2>4 DEF Handover
<1>7. CASE ClosePipe
  <2>1. /\ ppc = "close" /\ ppc' = IF res.id # 0 THEN "mark" ELSE "poll"
        /\ res' = IF res.id # 0 THEN res ELSE NoReply
        /\ UNCHANGED <<fetched, wrote, hdr>>
    BY <1>7 DEF ClosePipe
  <2>2. Bounds' /\ Offered'
    BY <2>1, <1>b, <1>o DEF Bounds
  <2>3. Held'
    BY <2>1, <1>h DEF Handover, Held, Holding, ByteOut
  <2>4. Settled'
    BY <2>1, <1>m DEF Handover, Settled, ByteOut
  <2> QED
    BY <2>2, <2>3, <2>4 DEF Handover
<1>8. CASE MarkReply
  <2>1. /\ ppc = "mark" /\ ppc' = "poll" /\ DoneRoute(hdr, res.id)
        /\ UNCHANGED <<fetched, wrote>>
    BY <1>8 DEF MarkReply
  <2>2. Bounds' /\ Offered' /\ Held'
    BY <2>1, <1>b, <1>o DEF Bounds, Held, Holding, ByteOut
  <2>3. /\ get_and_validate_token(hdr)
        /\ fetched > Base => res.id = fetched - Base
        /\ ByteOut => wrote = fetched
    BY <2>1 DEF Handover, Held, Holding, ByteOut
  <2>4. CASE ~ByteOut
    BY <2>1, <2>2, <2>4, <1>m DEF Handover, Settled, ByteOut
  <2>5. ASSUME ByteOut PROVE Marked'
    <3>1. SUFFICES ASSUME wrote > Base' PROVE commands'[wrote - Base'].done = 1
      BY <2>1 DEF Marked
    <3>2. Base' = Base /\ res.id = wrote - Base
      BY <2>3, <2>5, <3>1, <1>h
    <3>3. res.id \in DOMAIN commands
      BY <3>1, <3>2, <1>t, <1>b, <1>e DEF Base, StoreTypeOK
    <3>4. commands' = [commands EXCEPT ![res.id].done = 1]
      BY <2>1, <2>3, <3>3 DEF DoneRoute
    <3>5. commands'[res.id].done = 1
      BY <3>3, <3>4, <1>t, MarkType DEF StoreTypeOK
    <3> QED
      BY <3>2, <3>5
  <2> QED
    BY <2>1, <2>2, <2>4, <2>5 DEF Handover, Settled, ByteOut
<1>9. CASE MarkFails
  BY <1>9, <1>d DEF MarkFails
<1>10. CASE ReadOpen
  <2>1. /\ \/ ppc' = ppc
           \/ ppc = "blocked" /\ ppc' = "write"
        /\ UNCHANGED <<res, hdr, fetched, wrote>>
    BY <1>10 DEF ReadOpen
  <2>2. Bounds' /\ Offered'
    BY <2>1, <1>b, <1>o DEF Bounds
  <2>3. Held'
    BY <2>1, <1>h DEF Handover, Held, Holding, ByteOut
  <2>4. Settled'
    BY <2>1, <1>m DEF Handover, Settled, ByteOut
  <2> QED
    BY <2>2, <2>3, <2>4 DEF Handover
<1>11. CASE Start \/ ReadNow \/ ReadWait \/ ReadClose \/ ReadAgain
  BY <1>11, <1>k DEF Start, ReadNow, ReadWait, ReadClose, ReadAgain
<1>12. CASE TakeCommand \/ ActionDone \/ ActionRefused \/ ControllerExit
  BY <1>12, <1>k DEF TakeCommand, ActionDone, ActionRefused, ControllerExit
<1> QED
  BY <1>0, <1>1, <1>2, <1>3, <1>4, <1>5, <1>6, <1>7, <1>8, <1>9, <1>10,
     <1>11, <1>12
  DEF LinkNext, Poller, Controller

(* The initial state has no history. *)
LEMMA InitHandover == LinkInit => LinkTypeOK /\ History /\ Handover
<1> SUFFICES ASSUME LinkInit PROVE LinkTypeOK /\ History /\ Handover
  OBVIOUS
<1>1. LinkTypeOK
  BY InitTypes
<1>2. /\ commands = <<>> /\ issued = <<>> /\ ppc = "down"
      /\ fetched = 0 /\ wrote = 0
  BY DEF LinkInit, StoreInit
<1>3. Newest = {}
  BY <1>2 DEF Newest
<1>4. History
  BY <1>2 DEF History, Grown
<1>5. Bounds /\ Offered /\ Settled
  BY <1>2, <1>3 DEF Bounds, Offered, Settled
<1>6. Held
  BY <1>2 DEF Held, Holding, ByteOut
<1> QED
  BY <1>1, <1>4, <1>5, <1>6 DEF Handover

(* History and Handover are invariants of the link. *)
THEOREM HandoverInvariant == LinkSpec => [](LinkTypeOK /\ History /\ Handover)
<1>1. LinkTypeOK /\ History /\ [LinkNext]_linkVars => History'
  BY LinkStoreStep, HistoryStep DEF LinkTypeOK
<1>2. LinkTypeOK /\ History /\ [LinkNext]_linkVars => LinkTypeOK'
  BY LinkTypeStep DEF History
<1> QED
  BY <1>1, <1>2, InitHandover, HandoverStep, PTL DEF LinkSpec

(* One incarnation of the poller writes each command at most once. *)
THEOREM HandedOverOnce == LinkSpec => []NoRedelivery
<1>1. LinkTypeOK /\ History /\ Handover => NoRedelivery
  BY DEF LinkTypeOK, Handover, Held, Holding, ByteOut, NoRedelivery
<1> QED
  BY <1>1, HandoverInvariant, PTL

(* A row becomes done only in the answer to the poller's mark_done, and it *)
(* is the row of the command whose byte the poller wrote, or of one that   *)
(* has none.                                                               *)
LEMMA LinkMarks ==
    ASSUME LinkTypeOK, History, Handover, LinkNext,
           NEW i \in DOMAIN commands \cap DOMAIN commands',
           commands[i].done = 0, commands'[i].done = 1
    PROVE  \/ wrote = Serial(i) \/ Code(commands[i].command) = None
           \/ fetched <= Base
<1> USE DEF pollerVars, fifoVars, controllerVars, droneVars
<1>a. /\ StoreTypeOK /\ Grown /\ fetched \in Nat /\ i \in Nat
      /\ Base \in Nat /\ i \in DOMAIN commands
  BY SerialType DEF LinkTypeOK, History, StoreTypeOK
<1>1. CASE UNCHANGED commands
  BY <1>1
<1>2. CASE Server
  <2>1. ASSUME NEW c \in FormValues, CommandRoute(c)
        PROVE  commands'[i] = commands[i]
    <3>1. [command |-> c, done |-> 0, created_at |-> clock] \in Row
      BY <2>1, <1>a DEF CommandRoute, StoreTypeOK, Row
    <3> QED
      BY <2>1, <3>1, <1>a, AppendFacts DEF CommandRoute, StoreTypeOK
  <2>2. CASE init_db
    BY <2>2 DEF init_db
  <2> QED
    BY <1>1, <1>2, <2>1, <2>2 DEF Server, ClockStep
<1>3. CASE DoneRoute(hdr, res.id) /\ ppc = "mark"
  <2>1. i = res.id
    <3>1. CASE res.id \in DOMAIN commands
               /\ commands' = [commands EXCEPT ![res.id].done = 1]
      <4>1. commands'[i].done = IF i = res.id THEN 1 ELSE commands[i].done
        BY <3>1, <1>a, MarkType DEF StoreTypeOK
      <4> QED
        BY <4>1
    <3> QED
      BY <1>1, <1>3, <3>1 DEF DoneRoute
  <2>2. /\ Code(res.command) # None => wrote = fetched
        /\ res.command = issued[fetched]
        /\ fetched > Base => res.id = fetched - Base
    BY <1>3, <1>a, <2>1 DEF Handover, Held, Holding, ByteOut
  <2>3. CASE fetched > Base
    <3>1. Serial(i) = fetched
      BY <1>a, <2>1, <2>2, <2>3 DEF Serial
    <3>2. commands[i].command = res.command
      BY <1>a, <2>2, <3>1 DEF History
    <3> QED
      BY <2>2, <3>1, <3>2
  <2> QED
    BY <1>a, <2>3
<1>4. CASE MarkReply \/ MarkFails
  BY <1>1, <1>3, <1>4 DEF MarkReply, MarkFails, storeVars
<1> QED
  BY <1>1, <1>2, <1>4
  DEF LinkNext, Poller, Controller, storeVars, FetchRoute, Launch,
      PollReply, PollFallback, PollGarbled, OpenPipe, WritePipe, ClosePipe,
      Start, ReadOpen, ReadNow, ReadWait, ReadClose, ReadAgain,
      TakeCommand, ActionDone, ActionRefused, ControllerExit

(* Only the command whose byte the poller wrote is marked, unless it has   *)
(* no byte or a db:create has given its id away.                           *)
THEOREM MarkedAfterWrite == LinkSpec => MarkedOnlyIfWritten
<1>1. LinkTypeOK /\ History /\ Handover /\ [LinkNext]_linkVars
        => [\A i \in DOMAIN commands \cap DOMAIN commands' :
               commands[i].done = 0 /\ commands'[i].done = 1
                  => \/ wrote = Serial(i) \/ Code(commands[i].command) = None
                     \/ fetched <= Base]_linkVars
  BY LinkMarks
<1> QED
  BY <1>1, HandoverInvariant, PTL DEF LinkSpec, MarkedOnlyIfWritten

----------------------------------------------------------------------------
(* A byte stays genuine while the history grows. *)
LEMMA GenuineGrows ==
    ASSUME StoreTypeOK, Grown, StoreStep, NEW b, Genuine(b, issued)
    PROVE  Genuine(b, issued')
<1>1. /\ Len(issued') >= Len(issued) /\ Len(issued') \in Nat
      /\ Len(issued) \in Nat
      /\ \A k \in 1..Len(issued) : issued'[k] = issued[k]
  BY StoreEffect DEF StoreTypeOK
<1> QED
  BY <1>1 DEF Genuine

(* The poller never fetches an older command than before. *)
LEMMA FetchedGrows ==
    ASSUME LinkTypeOK, History, Handover, [LinkNext]_linkVars
    PROVE  fetched <= fetched' /\ fetched' \in Nat /\ fetched \in Nat
<1> USE DEF pollerVars
<1>1. fetched \in Nat /\ fetched' \in Nat
  BY LinkTypeStep DEF LinkTypeOK, History
<1>2. CASE PollReply
  <2>1. ASSUME NEW r \in FetchReplies,
               fetched' = IF r.id = 0 THEN fetched ELSE Serial(r.id)
        PROVE  fetched <= fetched'
    <3>1. r.id = 0 \/ r.id \in Newest
      BY ReplyRow DEF LinkTypeOK
    <3> QED
      BY <2>1, <3>1, <1>1 DEF Handover, Offered
  <2> QED
    BY <1>1, <1>2, <2>1 DEF PollReply
<1>3. CASE UNCHANGED fetched
  BY <1>1, <1>3
<1> QED
  BY <1>1, <1>2, <1>3
  DEF LinkNext, linkVars, Server, linkOnly, Poller, Controller, Launch,
      PollFallback, PollGarbled, OpenPipe, WritePipe, ClosePipe, MarkReply,
      MarkFails, Start, ReadOpen, ReadNow, ReadWait, ReadClose, ReadAgain,
      TakeCommand, ActionDone, ActionRefused, ControllerExit

(* Taking the first byte leaves a sequence sorted and within its bounds.   *)
LEMMA TailOrder ==
    ASSUME NEW s \in Seq(Byte), s # <<>>, NEW h, NEW lo, NEW hi,
           Sorted(s), Within(s, h, lo, hi)
    PROVE  /\ Sorted(Tail(s)) /\ Within(Tail(s), h, lo, hi)
           /\ \A k \in DOMAIN Tail(s) : Head(s).sn <= Tail(s)[k].sn
           /\ Genuine(Head(s), h) /\ lo <= Head(s).sn /\ Head(s).sn <= hi
<1>1. /\ Head(s) = s[1] /\ 1 \in DOMAIN s
      /\ \A k \in DOMAIN Tail(s) : /\ k + 1 \in DOMAIN s
                                   /\ Tail(s)[k] = s[k + 1]
                                   /\ k \in Nat \ {0}
  BY TailFacts
<1>2. Within(Tail(s), h, lo, hi)
  BY <1>1, Zenon DEF Within
<1>3. Sorted(Tail(s))
  BY <1>1 DEF Sorted
<1>4. \A k \in DOMAIN Tail(s) : Head(s).sn <= Tail(s)[k].sn
  BY <1>1 DEF Sorted
<1> QED
  BY <1>1, <1>2, <1>3, <1>4, Zenon DEF Within

(* Adding a byte that is not older than the others does so, too. *)
LEMMA AppendOrder ==
    ASSUME NEW s \in Seq(Byte), NEW b \in Byte, NEW h, NEW lo, NEW hi,
           Sorted(s), Within(s, h, lo, hi),
           Genuine(b, h), lo <= b.sn, b.sn <= hi,
           \A k \in DOMAIN s : s[k].sn <= b.sn
    PROVE  Sorted(Append(s, b)) /\ Within(Append(s, b), h, lo, hi)
<1>1. /\ DOMAIN Append(s, b) = DOMAIN s \cup {Len(s) + 1}
      /\ \A k \in DOMAIN s : Append(s, b)[k] = s[k]
      /\ Append(s, b)[Len(s) + 1] = b
  BY AppendFacts
<1>2. Within(Append(s, b), h, lo, hi)
  BY <1>1, Zenon DEF Within
<1>3. \A k \in DOMAIN s : k \in Nat /\ k < Len(s) + 1
  OBVIOUS
<1>4. b.sn <= b.sn /\ Len(s) \in Nat
  BY DEF Byte
<1>5. Sorted(Append(s, b))
  BY <1>1, <1>3, <1>4 DEF Sorted
<1> QED
  BY <1>2, <1>5

(* A later command fetched, or an earlier one performed, keeps the bounds. *)
LEMMA WithinGrows ==
    ASSUME LinkTypeOK, History, Handover, [LinkNext]_linkVars,
           NEW s \in Seq(Byte), Within(s, issued, applied, fetched)
    PROVE  Within(s, issued', applied, fetched')
<1>1. \A k \in DOMAIN s : Genuine(s[k], issued')
  <2>1. StoreTypeOK /\ Grown /\ StoreStep
    BY LinkStoreStep DEF LinkTypeOK, History
  <2> QED
    BY <2>1, GenuineGrows DEF Within
<1>2. fetched <= fetched' /\ fetched' \in Nat /\ fetched \in Nat
  BY FetchedGrows
<1>3. \A k \in DOMAIN s : s[k].sn \in Nat
  <2>1. \A k \in DOMAIN s : s[k] \in Byte
    OBVIOUS
  <2> QED
    BY <2>1 DEF Byte
<1>4. \A k \in DOMAIN s : applied <= s[k].sn /\ s[k].sn <= fetched'
  BY <1>2, <1>3 DEF Within
<1> QED
  BY <1>1, <1>4 DEF Within

(* The byte of the command just fetched goes to the end of the FIFO. *)
LEMMA Appended ==
    ASSUME Ordered, LinkTypeOK, NEW b \in Byte, Genuine(b, issued),
           b.sn = fetched, buf' = Append(buf, b),
           UNCHANGED <<issued, fetched, queue, cur, pstate, applied>>
    PROVE  Ordered'
<1>1. buf \in Seq(Byte) /\ fetched \in Nat
  BY DEF LinkTypeOK
<1>2. /\ \A k \in DOMAIN buf : buf[k].sn <= b.sn
      /\ \A k \in DOMAIN queue : queue[k].sn <= b.sn
      /\ applied <= b.sn /\ b.sn <= fetched
  BY <1>1 DEF Ordered, Within
<1>3. Sorted(buf') /\ Within(buf', issued, applied, fetched)
  BY <1>1, <1>2, AppendOrder DEF Ordered
<1>4. \A k \in DOMAIN buf' :
        buf'[k] = b \/ \E m \in DOMAIN buf : buf'[k] = buf[m]
  BY <1>1, AppendFacts
<1>5. Precedes(queue, buf')
  BY <1>2, <1>4, Zenon DEF Ordered, Precedes
<1>6. pstate = "await" => InProgress(cur, issued, applied, fetched)'
  BY <1>4 DEF Ordered, InProgress
<1> QED
  BY <1>3, <1>5, <1>6 DEF Ordered

(* A byte of a command is not the empty string of an end of file. *)
LEMMA CodesNotNone == None \notin Codes
BY Zenon DEF None, Codes

(* Commands keep their order and their content on the way to the drone.    *)
LEMMA OrderedStep ==
    LinkTypeOK /\ History /\ Handover /\ Ordered /\ [LinkNext]_linkVars
        => Ordered'
<1> SUFFICES ASSUME LinkTypeOK, History, Handover, Ordered,
                    [LinkNext]_linkVars
             PROVE  Ordered'
  OBVIOUS
<1> USE DEF pollerVars, fifoVars, controllerVars, droneVars
<1>t. /\ buf \in Seq(Byte) /\ queue \in Seq(Byte) /\ cur \in Byte
      /\ applied \in Nat /\ fetched \in Nat
  BY DEF LinkTypeOK
<1>f. fetched <= fetched' /\ fetched' \in Nat
  BY FetchedGrows
<1>n. /\ \A k \in DOMAIN buf : buf[k].sn \in Nat
      /\ \A k \in DOMAIN queue : queue[k].sn \in Nat
      /\ cur.sn \in Nat
  <2>1. /\ \A k \in DOMAIN buf : buf[k] \in Byte
        /\ \A k \in DOMAIN queue : queue[k] \in Byte
    BY <1>t
  <2> QED
    BY <1>t, <2>1 DEF Byte
<1>w. /\ Within(buf, issued', applied, fetched')
      /\ Within(queue, issued', applied, fetched')
      /\ applied <= fetched'
  <2>1. applied <= fetched'
    BY <1>t, <1>f DEF Ordered
  <2> QED
    BY <1>t, <2>1, WithinGrows DEF Ordered
<1>c. ASSUME pstate = "await"
      PROVE  InProgress(cur, issued', applied, fetched')
  <2>1. InProgress(cur, issued, applied, fetched)
    BY <1>c DEF Ordered
  <2>2. Genuine(cur, issued')
    BY <2>1, GenuineGrows, LinkStoreStep DEF InProgress, LinkTypeOK, History
  <2>3. cur.sn <= fetched'
    BY <2>1, <1>t, <1>f, <1>n DEF InProgress
  <2> QED
    BY <2>1, <2>2, <2>3 DEF InProgress
<1>k. ASSUME UNCHANGED <<buf, queue, cur, pstate, applied>> PROVE Ordered'
  BY <1>k, <1>w, <1>c DEF Ordered, InProgress, Precedes
<1>e. ASSUME buf' = <<>>, UNCHANGED <<queue, cur, pstate, applied>>
      PROVE  Ordered'
  <2>1. Within(buf', issued', applied, fetched') /\ Sorted(buf')
        /\ Precedes(queue, buf')
    BY <1>e DEF Within, Sorted, Precedes
  <2>2. pstate = "await" => InProgress(cur, issued, applied, fetched)'
    BY <1>e, <1>c DEF InProgress
  <2> QED
    BY <1>e, <1>w, <2>1, <2>2 DEF Ordered
<1>0. CASE UNCHANGED linkVars \/ Server
  BY <1>0, <1>k DEF linkVars, Server, linkOnly
<1>1. CASE Launch \/ PollReply \/ PollFallback \/ PollGarbled \/ OpenPipe
  BY <1>1, <1>k DEF Launch, PollReply, PollFallback, PollGarbled, OpenPipe
<1>2. CASE MarkReply \/ MarkFails \/ ReadOpen \/ ReadAgain
  BY <1>2, <1>k DEF MarkReply, MarkFails, ReadOpen, ReadAgain
<1>3. CASE WritePipe
  <2> DEFINE b == [ch |-> Code(res.command), sn |-> fetched,
                   op |-> res.id # 0,
                   awaited |-> cpc = "wait" /\ buf = <<>>]
  <2>1. /\ b \in Byte /\ b.sn = fetched /\ b.ch = Code(res.command)
        /\ b.op <=> res.id # 0
    BY CodeType, Zenon DEF Byte, LinkTypeOK
  <2>2. \/ UNCHANGED buf
        \/ buf' = <<>>
        \/ buf' = Append(buf, b) /\ Code(res.command) # None
    BY <1>3, Zenon DEF WritePipe
  <2> HIDE DEF b
  <2>3. UNCHANGED <<issued, fetched, queue, cur, pstate, applied>>
    BY <1>3 DEF WritePipe, storeVars
  <2>4. ASSUME buf' = Append(buf, b), Code(res.command) # None PROVE Ordered'
    <3>1. CASE res.id # 0
      <4>1. fetched > 0 /\ res.command = issued[fetched]
            /\ fetched <= Len(issued) /\ Len(issued) \in Nat
        BY <1>3, <3>1
        DEF WritePipe, Handover, Held, Holding, ByteOut, Bounds, LinkTypeOK, StoreTypeOK
      <4> QED
        <5>1. Genuine(b, issued)
          BY <1>t, <2>1, <2>4, <3>1, <4>1 DEF Genuine
        <5> QED
          BY <5>1, <1>t, <1>n, <2>1, <2>3, <2>4, Appended
    <3>2. CASE res.id = 0
      <4>1. res.command = OnError
        BY <1>3, <3>2 DEF WritePipe, Handover, Held, Holding, ByteOut
      <4>2. Genuine(b, issued)
        BY <2>1, <3>2, <4>1 DEF Genuine
      <4> QED
        BY <4>2, <1>t, <1>n, <2>1, <2>3, <2>4, Appended
    <3> QED
      BY <3>1, <3>2
  <2> QED
    BY <1>k, <1>e, <2>2, <2>3, <2>4
<1>4. CASE ClosePipe \/ ReadClose
  BY <1>4, <1>k, <1>e DEF ClosePipe, ReadClose
<1>5. CASE Start \/ ControllerExit
  <2>1. queue' = <<>> /\ pstate' = "get" /\ UNCHANGED <<buf, applied>>
    BY <1>5 DEF Start, ControllerExit
  <2>2. Within(queue', issued', applied, fetched') /\ Sorted(queue')
        /\ Precedes(queue', buf)
    BY <2>1 DEF Within, Sorted, Precedes
  <2> QED
    BY <1>w, <2>1, <2>2 DEF Ordered
<1>6. CASE ReadNow
  <2>1. UNCHANGED <<issued, fetched, queue, cur, pstate, applied>>
    BY <1>6 DEF ReadNow, storeVars
  <2>2. CASE buf # <<>> /\ buf' = Tail(buf)
    <3>1. Sorted(buf') /\ Within(buf', issued, applied, fetched)
      BY <1>t, <2>2, TailOrder DEF Ordered
    <3>2. \A k \in DOMAIN buf' : \E m \in DOMAIN buf : buf'[k] = buf[m]
      BY <1>t, <2>2, TailFacts
    <3>3. Precedes(queue, buf')
      BY <3>2, Zenon DEF Ordered, Precedes
    <3>4. pstate = "await" => InProgress(cur, issued, applied, fetched)'
      BY <2>1, <3>2 DEF Ordered, InProgress
    <3> QED
      BY <2>1, <3>1, <3>3, <3>4 DEF Ordered
  <2> QED
    BY <1>6, <1>k, <2>1, <2>2 DEF ReadNow
<1>7. CASE ReadWait
  <2>1. UNCHANGED <<issued, fetched, cur, pstate, applied>>
    BY <1>7 DEF ReadWait, storeVars
  <2>2. CASE buf # <<>> /\ buf' = Tail(buf) /\ queue' = Append(queue, Head(buf))
    <3>1. /\ Sorted(buf') /\ Within(buf', issued, applied, fetched)
          /\ \A k \in DOMAIN buf' : Head(buf).sn <= buf'[k].sn
          /\ Genuine(Head(buf), issued)
          /\ applied <= Head(buf).sn /\ Head(buf).sn <= fetched
      BY <1>t, <2>2, TailOrder DEF Ordered
    <3>2. /\ \A k \in DOMAIN buf' : \E m \in DOMAIN buf : buf'[k] = buf[m]
          /\ Head(buf) = buf[1] /\ 1 \in DOMAIN buf /\ Head(buf) \in Byte
      BY <1>t, <2>2, TailFacts
    <3>3. \A k \in DOMAIN queue : queue[k].sn <= Head(buf).sn
      BY <3>2 DEF Ordered, Precedes
    <3>4. Sorted(queue') /\ Within(queue', issued, applied, fetched)
      BY <1>t, <2>2, <3>1, <3>2, <3>3, AppendOrder DEF Ordered
    <3>5. \A k \in DOMAIN queue' :
            queue'[k] = Head(buf) \/ \E m \in DOMAIN queue : queue'[k] = queue[m]
      BY <1>t, <2>2, <3>2, AppendFacts
    <3>6. Precedes(queue', buf')
      BY <3>1, <3>2, <3>5, Zenon DEF Ordered, Precedes
    <3>7. pstate = "await" => InProgress(cur, issued, applied, fetched)'
      BY <2>1, <3>2, <3>5 DEF Ordered, InProgress
    <3> QED
      BY <2>1, <3>1, <3>4, <3>6, <3>7 DEF Ordered
  <2>3. CASE /\ buf = <<>> /\ UNCHANGED buf
             /\ queue' = Append(queue, Nothing(fetched))
    <3>1. /\ Nothing(fetched) \in Byte /\ Nothing(fetched).sn = fetched
          /\ Genuine(Nothing(fetched), issued)
      BY <1>t, NothingType DEF Nothing, Genuine
    <3>2. /\ \A k \in DOMAIN queue : queue[k].sn <= Nothing(fetched).sn
          /\ applied <= Nothing(fetched).sn /\ Nothing(fetched).sn <= fetched
      BY <1>t, <3>1 DEF Ordered, Within
    <3>3. Sorted(queue') /\ Within(queue', issued, applied, fetched)
      BY <1>t, <2>3, <3>1, <3>2, AppendOrder DEF Ordered
    <3>4. \A k \in DOMAIN queue' :
            \/ queue'[k] = Nothing(fetched)
            \/ \E m \in DOMAIN queue : queue'[k] = queue[m]
      BY <1>t, <2>3, <3>1, AppendFacts
    <3>5. Precedes(queue', buf')
      BY <2>3 DEF Precedes
    <3>6. pstate = "await" => InProgress(cur, issued, applied, fetched)'
      BY <2>1, <2>3, <3>1, <3>4 DEF Ordered, InProgress
    <3> QED
      BY <2>1, <2>3, <3>3, <3>5, <3>6 DEF Ordered
  <2> QED
    BY <1>7, <2>2, <2>3 DEF ReadWait
<1>8. CASE TakeCommand
  <2>1. /\ queue # <<>> /\ queue' = Tail(queue) /\ pstate = "get"
        /\ UNCHANGED <<issued, fetched, buf, applied>>
    BY <1>8 DEF TakeCommand, storeVars
  <2>2. /\ Sorted(queue') /\ Within(queue', issued, applied, fetched)
        /\ \A k \in DOMAIN queue' : Head(queue).sn <= queue'[k].sn
        /\ Genuine(Head(queue), issued)
        /\ applied <= Head(queue).sn /\ Head(queue).sn <= fetched
    BY <1>t, <2>1, TailOrder DEF Ordered
  <2>3. /\ \A k \in DOMAIN queue' : \E m \in DOMAIN queue : queue'[k] = queue[m]
        /\ Head(queue) = queue[1] /\ 1 \in DOMAIN queue
    BY <1>t, <2>1, TailFacts
  <2>4. Precedes(queue', buf)
    BY <2>3, Zenon DEF Ordered, Precedes
  <2>5. \A k \in DOMAIN buf : Head(queue).sn <= buf[k].sn
    BY <2>3 DEF Ordered, Precedes
  <2>6. pstate' = "await" => cur' = Head(queue) /\ cur'.ch # None
    BY <1>8, <2>1, CodesNotNone DEF TakeCommand
  <2>7. pstate' = "await" => InProgress(cur, issued, applied, fetched)'
    BY <2>1, <2>2, <2>5, <2>6 DEF InProgress
  <2> QED
    BY <2>1, <2>2, <2>4, <2>7 DEF Ordered
<1>9. CASE ActionDone
  <2>1. /\ pstate = "await" /\ pstate' = "get"
        /\ UNCHANGED <<issued, fetched, buf, queue>>
        /\ applied' = IF cur.op THEN cur.sn ELSE applied
    BY <1>9 DEF ActionDone, storeVars
  <2>2. InProgress(cur, issued, applied, fetched)
    BY <2>1 DEF Ordered
  <2>3. /\ Within(buf, issued, applied', fetched)
        /\ Within(queue, issued, applied', fetched)
        /\ applied' <= fetched
    BY <2>1, <2>2 DEF Ordered, InProgress, Within
  <2> QED
    BY <2>1, <2>3 DEF Ordered
<1>10. CASE ActionRefused
  BY <1>10, <1>w DEF ActionRefused, Ordered
<1> QED
  BY <1>0, <1>1, <1>2, <1>3, <1>4, <1>5, <1>6, <1>7, <1>8, <1>9, <1>10
  DEF LinkNext, Poller, Controller

(* The whole inductive invariant holds in every behaviour of the link. *)
THEOREM LinkInvariant == LinkSpec => []LinkInv
<1>1. LinkInit => Pipe /\ Ordered
  <2> SUFFICES ASSUME LinkInit PROVE Pipe /\ Ordered
    OBVIOUS
  <2>1. /\ buf = <<>> /\ queue = <<>> /\ pstate = "get" /\ cpc = "down"
        /\ applied = 0 /\ fetched = 0
    BY DEF LinkInit
  <2>2. Pipe
    BY <2>1 DEF Pipe, Reader
  <2>3. Ordered
    BY <2>1 DEF Ordered, Within, Sorted, Precedes
  <2> QED
    BY <2>2, <2>3
<1>2. LinkInit => LinkInv
  BY <1>1, InitHandover DEF LinkInv
<1>3. LinkInv /\ [LinkNext]_linkVars => LinkInv'
  <2> SUFFICES ASSUME LinkInv, [LinkNext]_linkVars PROVE LinkInv'
    OBVIOUS
  <2>1. LinkTypeOK' /\ History'
    BY LinkTypeStep, LinkStoreStep, HistoryStep DEF LinkInv, LinkTypeOK, History
  <2> QED
    BY <2>1, PipeStep, HandoverStep, OrderedStep DEF LinkInv
<1> QED
  BY <1>2, <1>3, PTL DEF LinkSpec

(* What the drone performs is a step of CommandRegister. *)
LEMMA Performs ==
    ASSUME Ordered, pstate = "await", flown' = cur.ch, issued' = issued,
           applied' = IF cur.op THEN cur.sn ELSE applied
    PROVE  Register!RegNext
<1>1. Genuine(cur, issued) /\ cur.ch # None /\ applied <= cur.sn
  BY DEF Ordered, InProgress
<1>2. CASE cur.op
  BY <1>1, <1>2 DEF Genuine, Register!RegNext, Register!Apply
<1>3. CASE ~cur.op
  BY <1>1, <1>3 DEF Genuine, Register!RegNext, Register!FallBack
<1> QED
  BY <1>2, <1>3

(* Every step of the link is a step of CommandRegister or a stutter. *)
LEMMA LinkRefines ==
    ASSUME Ordered, LinkNext
    PROVE  Register!RegNext \/ UNCHANGED Register!regVars
<1> USE DEF pollerVars, fifoVars, controllerVars, droneVars
<1>1. CASE UNCHANGED <<issued, flown, applied>>
  BY <1>1 DEF Register!regVars
<1>2. CASE Server
  <2>1. ASSUME NEW c \in FormValues, CommandRoute(c) PROVE Register!Issue
    BY <1>2, <2>1 DEF Server, linkOnly, CommandRoute, Register!Issue
  <2> QED
    BY <1>1, <1>2, <2>1
    DEF Server, linkOnly, init_db, ClockStep, Register!RegNext
<1>3. CASE ActionDone
  BY <1>3, Performs DEF ActionDone, storeVars
<1> QED
  BY <1>1, <1>2, <1>3
  DEF LinkNext, Poller, Controller, storeVars, FetchRoute, DoneRoute,
      Launch, PollReply, PollFallback, PollGarbled, OpenPipe, WritePipe,
      ClosePipe, MarkReply, MarkFails, Start, ReadOpen, ReadNow, ReadWait,
      ReadClose, ReadAgain, TakeCommand, ActionRefused, ControllerExit

(* The link implements CommandRegister: whatever is lost, repeated or      *)
(* restarted on the way, the drone performs the operators' commands in the *)
(* order the server accepted them, or the poller's fallback.               *)
THEOREM DroneFollowsOperators == LinkSpec => InOrder
<1>1. LinkInit => Register!RegInit
  BY DEF LinkInit, StoreInit, Register!RegInit
<1>2. LinkInv /\ [LinkNext]_linkVars => [Register!RegNext]_(Register!regVars)
  BY LinkRefines
  DEF LinkInv, linkVars, storeVars, droneVars, Register!regVars
<1> QED
  BY <1>1, <1>2, LinkInvariant, PTL DEF LinkSpec, InOrder, Register!RegSpec

----------------------------------------------------------------------------
(***************************************************************************)
(* The link under crashes.  A byte that was awaited may now outlive the    *)
(* reader that waited for it, so only the first half of Pipe is left; all  *)
(* else holds as before, and Late says what is known of the requests and   *)
(* the commands of pollers that are gone.                                  *)
(***************************************************************************)
Unblocked == Reader => ppc # "blocked"

Meant(m) ==
    /\ m.sn \in written \/ Code(issued[m.sn]) = None
    /\ m.sn \in 1..Len(issued)
    /\ m.sn > Base => m.id = m.sn - Base

Late ==
    /\ wrote # 0 => wrote \in written
    /\ \A m \in late : Meant(m)

CrashInv ==
    LinkTypeOK /\ History /\ Handover /\ Ordered /\ Unblocked /\ Late

(* A step of the link, or none. *)
LEMMA UnblockedStep == Unblocked /\ [LinkNext]_linkVars => Unblocked'
<1> SUFFICES ASSUME Unblocked, [LinkNext]_linkVars PROVE Unblocked'
  OBVIOUS
<1> USE DEF pollerVars, fifoVars, controllerVars, droneVars, Reader, Unblocked
<1>1. CASE UNCHANGED linkVars \/ Server
  BY <1>1 DEF linkVars, Server, linkOnly
<1>2. CASE Poller
  BY <1>2 DEF Poller, Launch, makepipe, PollReply, PollFallback, PollGarbled, OpenPipe,
              WritePipe, ClosePipe, MarkReply, MarkFails
<1>3. CASE Controller
  BY <1>3 DEF Controller, Start, ReadOpen, ReadNow, ReadWait, ReadClose,
              ReadAgain, TakeCommand, ActionDone, ActionRefused, ControllerExit
<1> QED
  BY <1>1, <1>2, <1>3 DEF LinkNext

(* A step of the server leaves what old requests mean. *)
LEMMA MeantStays ==
    ASSUME StoreTypeOK, Grown, StoreStep, NEW m, Meant(m),
           written \subseteq written'
    PROVE  /\ m.sn \in written' \/ Code(issued'[m.sn]) = None
           /\ m.sn \in 1..Len(issued')
           /\ m.sn > Base' => m.id = m.sn - Base'
<1>1. /\ Len(issued') >= Len(issued) /\ Len(issued') \in Nat
      /\ Base' \in Nat /\ Base \in Nat
      /\ \A n \in 1..Len(issued) : n > Base' => Base' = Base
      /\ \A k \in 1..Len(issued) : issued'[k] = issued[k]
  BY StoreEffect
<1>2. m.sn \in 1..Len(issued) /\ issued'[m.sn] = issued[m.sn]
  BY <1>1 DEF Meant
<1> QED
  BY <1>1, <1>2 DEF Meant, StoreTypeOK

(* A step of the link keeps the invariant: the late requests mean what    *)
(* they meant.                                                             *)
LEMMA ProceedStep == CrashInv /\ Proceed => CrashInv'
<1> SUFFICES ASSUME CrashInv, Proceed PROVE CrashInv'
  OBVIOUS
<1>1. LinkNext
  BY DEF Proceed
<1>2. LinkTypeOK' /\ History'
  BY <1>1, LinkTypeStep, LinkStoreStep, HistoryStep DEF CrashInv, LinkTypeOK, History
<1>3. Handover' /\ Ordered' /\ Unblocked'
  BY <1>1, HandoverStep, OrderedStep, UnblockedStep DEF CrashInv
<1>4. /\ written' = written \cup ({wrote'} \ {0}) /\ late' = late
      /\ written \subseteq written'
  BY DEF Proceed
<1>5. StoreTypeOK /\ Grown /\ StoreStep
  BY <1>1, LinkStoreStep DEF CrashInv, LinkTypeOK, History
<1>6. \A m \in late' : Meant(m)'
  BY <1>4, <1>5, MeantStays DEF CrashInv, Late, Meant
<1>7. wrote' # 0 => wrote' \in written'
  BY <1>4
<1> QED
  BY <1>2, <1>3, <1>6, <1>7 DEF CrashInv, Late

(* What the poller has to mark when it is killed is what it wrote, or has  *)
(* no byte.                                                                *)
LEMMA MarkMeant == ASSUME CrashInv, ppc = "mark" PROVE Meant(Mark)
<1>1. res.id # 0
  BY DEF CrashInv, Handover, Held, Holding, ByteOut
<1>2. /\ fetched > 0 /\ (fetched > Base => res.id = fetched - Base)
      /\ res.command = issued[fetched]
      /\ Code(res.command) # None => wrote = fetched
  BY <1>1 DEF CrashInv, Handover, Held, Holding, ByteOut
<1>3. fetched \in 1..Len(issued)
  BY <1>2 DEF CrashInv, Handover, Bounds, LinkTypeOK, StoreTypeOK
<1>4. fetched \in written \/ Code(issued[fetched]) = None
  BY <1>2, <1>3 DEF CrashInv, Late
<1> QED
  BY <1>2, <1>3, <1>4 DEF Meant, Mark

(* A killed poller holds nothing; its byte may be lost, its mark_done late. *)
LEMMA KillPollerStep == CrashInv /\ KillPoller => CrashInv'
<1> SUFFICES ASSUME CrashInv, KillPoller PROVE CrashInv'
  OBVIOUS
<1> USE DEF storeVars, controllerVars, droneVars
<1>1. /\ ppc' = "down" /\ res' = NoReply /\ (buf' = buf \/ buf' = <<>>)
      /\ UNCHANGED <<commands, pings, clock, issued, hdr, launches, fetched,
                     wrote, exists, cpc, queue, pstate, cur, starts, flown,
                     applied, written>>
  BY DEF KillPoller
<1>2. StoreTypeOK' /\ Base' = Base /\ Newest' = Newest /\ History'
      /\ \A i : Serial(i)' = Serial(i)
  BY <1>1 DEF CrashInv, LinkTypeOK, StoreTypeOK, Base, Newest, History, Grown, Serial
<1>3. LinkTypeOK'
  <2>1. buf' \in Seq(Byte)
    <3>1. buf \in Seq(Byte) /\ <<>> \in Seq(Byte)
      BY DEF CrashInv, LinkTypeOK
    <3>2. CASE buf' = buf
      BY <3>1, <3>2
    <3>3. CASE buf' = <<>>
      BY <3>1, <3>3
    <3> QED
      BY <1>1, <3>2, <3>3
  <2> QED
    BY <1>1, <1>2, <2>1, NoReplyType DEF CrashInv, LinkTypeOK
<1>4. Handover'
  <2>1. Bounds' /\ Offered'
    BY <1>1, <1>2 DEF CrashInv, Handover, Bounds, Offered
  <2>2. Held' /\ Settled'
    BY <1>1 DEF Held, Holding, ByteOut, Settled
  <2> QED
    BY <2>1, <2>2 DEF Handover
<1>5. Ordered'
  <2>1. CASE buf' = buf
    BY <1>1, <2>1 DEF CrashInv, Ordered, InProgress
  <2>2. CASE buf' = <<>>
    <3>1. DOMAIN buf' = {}
      BY <2>2
    <3> QED
      BY <1>1, <3>1 DEF CrashInv, Ordered, InProgress, Within, Sorted, Precedes
  <2> QED
    BY <1>1, <2>1, <2>2
<1>6. Unblocked'
  BY <1>1 DEF Unblocked
<1>7. Late'
  <2>1. \A m \in late' : Meant(m)
    BY MarkMeant DEF KillPoller, CrashInv, Late
  <2>2. \A m : Meant(m) => Meant(m)'
    BY <1>1, <1>2 DEF Meant
  <2> QED
    BY <1>1, <2>1, <2>2 DEF CrashInv, Late
<1> QED
  BY <1>2, <1>3, <1>4, <1>5, <1>6, <1>7 DEF CrashInv

(* A killed controller forgets its queue; what the drone was told counts. *)
LEMMA KillControllerStep == CrashInv /\ KillController => CrashInv'
<1> SUFFICES ASSUME CrashInv, KillController PROVE CrashInv'
  OBVIOUS
<1> USE DEF storeVars, pollerVars, droneVars
<1>1. /\ cpc' = "down" /\ queue' = <<>> /\ pstate' = "get" /\ cur' = NoByte
      /\ (buf' = buf \/ buf' = <<>>)
      /\ UNCHANGED <<commands, pings, clock, issued, ppc, res, hdr, launches,
                     fetched, wrote, exists, starts, late, written>>
  BY DEF KillController
<1>2. \/ UNCHANGED <<flown, applied>>
      \/ pstate = "await" /\ flown' = cur.ch
         /\ applied' = IF cur.op THEN cur.sn ELSE applied
  BY DEF KillController
<1>3. /\ StoreTypeOK' /\ Base' = Base /\ Newest' = Newest /\ History'
      /\ \A i : Serial(i)' = Serial(i)
  BY <1>1 DEF CrashInv, LinkTypeOK, StoreTypeOK, Base, Newest, History, Grown, Serial
<1>4. /\ applied' \in Nat /\ applied' <= fetched
      /\ Within(buf, issued, applied', fetched)
  <2>1. CASE UNCHANGED applied
    BY <2>1 DEF CrashInv, LinkTypeOK, Ordered
  <2>2. CASE pstate = "await" /\ applied' = cur.sn
    <3>1. InProgress(cur, issued, applied, fetched) /\ cur \in Byte
      BY <2>2 DEF CrashInv, LinkTypeOK, Ordered
    <3>2. cur.sn \in Nat
      BY <3>1 DEF Byte
    <3> QED
      BY <2>2, <3>1, <3>2 DEF CrashInv, Ordered, InProgress, Within
  <2> QED
    BY <1>2, <2>1, <2>2
<1>5. LinkTypeOK'
  <2>1. buf' \in Seq(Byte)
    <3>1. buf \in Seq(Byte) /\ <<>> \in Seq(Byte)
      BY DEF CrashInv, LinkTypeOK
    <3>2. CASE buf' = buf
      BY <3>1, <3>2
    <3>3. CASE buf' = <<>>
      BY <3>1, <3>3
    <3> QED
      BY <1>1, <3>2, <3>3
  <2>2. cur.ch \in Codes \cup {None} /\ flown' \in Codes \cup {None}
    <3>1. cur \in Byte /\ flown \in Codes \cup {None}
      BY DEF CrashInv, LinkTypeOK
    <3>2. cur.ch \in Codes \cup {None}
      BY <3>1, Zenon DEF Byte
    <3> QED
      BY <1>2, <3>1, <3>2
  <2>3. NoByte \in Byte
    BY NothingType DEF NoByte
  <2> QED
    BY <1>1, <1>3, <1>4, <2>1, <2>2, <2>3 DEF CrashInv, LinkTypeOK
<1>6. Handover'
  <2>1. Bounds' /\ Offered' /\ Held' /\ Settled'
    BY <1>1, <1>3
    DEF CrashInv, Handover, Bounds, Offered, Held, Holding, ByteOut, Settled, Marked
  <2> QED
    BY <2>1 DEF Handover
<1>7. Ordered'
  <2>1. DOMAIN queue' = {}
    BY <1>1
  <2>2. Within(buf', issued', applied', fetched') /\ Sorted(buf')
    <3>1. CASE buf' = buf
      BY <1>1, <1>4, <3>1 DEF CrashInv, Ordered
    <3>2. CASE buf' = <<>>
      <4>1. DOMAIN buf' = {}
        BY <3>2
      <4> QED
        BY <4>1 DEF Within, Sorted
    <3> QED
      BY <1>1, <3>1, <3>2
  <2>3. Within(queue', issued', applied', fetched') /\ Sorted(queue')
        /\ Precedes(queue', buf')
    BY <2>1 DEF Within, Sorted, Precedes
  <2> QED
    BY <1>1, <1>4, <2>2, <2>3 DEF Ordered
<1>8. Unblocked'
  BY <1>1 DEF Unblocked, Reader
<1>9. Late'
  BY <1>1, <1>3 DEF CrashInv, Late, Meant
<1> QED
  BY <1>3, <1>5, <1>6, <1>7, <1>8, <1>9 DEF CrashInv

(* A late mark_done changes at most one row, which keeps its command. *)
LEMMA LateDoneStep == ASSUME CrashInv, NEW m \in late, LateDone(m) PROVE CrashInv'
<1> USE DEF linkOnly, pollerVars, fifoVars, controllerVars, droneVars
<1>1. /\ DoneRoute(m.hdr, m.id) /\ late' \subseteq late
      /\ UNCHANGED <<ppc, res, hdr, launches, fetched, wrote, exists, buf, cpc,
                     queue, pstate, cur, starts, flown, applied, written>>
  BY DEF LateDone
<1>2. StoreTypeOK /\ Grown /\ StoreStep
  BY <1>1 DEF CrashInv, LinkTypeOK, History, StoreStep
<1>3. StoreTypeOK' /\ History'
  BY <1>2, StoreTypeStep, HistoryStep DEF CrashInv
<1>4. LinkTypeOK'
  BY <1>1, <1>3 DEF CrashInv, LinkTypeOK
<1>5. issued' = issued
  BY <1>1 DEF DoneRoute
<1>6. /\ Base' \in Nat /\ Base \in Nat /\ Len(issued) \in Nat
      /\ \A n \in 1..Len(issued) :
            n > Base' =>
              /\ Base' = Base
              /\ commands[n - Base].done = 1 => commands'[n - Base].done = 1
      /\ \A i \in Newest' : \/ i \in Newest /\ Base' = Base
                           \/ Base' + i = Len(issued')
  BY <1>2, StoreEffect DEF StoreTypeOK
<1>7. fetched \in Nat /\ wrote \in Nat /\ wrote <= fetched /\ fetched <= Len(issued)
  BY DEF CrashInv, LinkTypeOK, Handover, Bounds
<1>8. Handover'
  <2>1. Bounds'
    BY <1>1, <1>5, <1>7 DEF Bounds
  <2>2. Offered'
    BY <1>1, <1>5, <1>6, <1>7 DEF CrashInv, Handover, Offered, Serial
  <2>3. Held'
    <3>1. fetched > Base' => Base' = Base
      BY <1>6, <1>7
    <3> QED
      BY <1>1, <1>5, <3>1 DEF CrashInv, Handover, Held, Holding, ByteOut
  <2>4. Marked => Marked'
    <3> SUFFICES ASSUME Marked, wrote > Base'
                 PROVE  commands'[wrote - Base'].done = 1
      BY <1>1 DEF Marked
    <3>1. wrote \in 1..Len(issued)
      BY <1>6, <1>7
    <3>2. /\ Base' = Base
          /\ commands[wrote - Base].done = 1 => commands'[wrote - Base].done = 1
      BY <1>6, <3>1
    <3> QED
      BY <3>2 DEF Marked
  <2>5. Settled'
    BY <1>1, <2>4 DEF CrashInv, Handover, Settled, ByteOut
  <2> QED
    BY <2>1, <2>2, <2>3, <2>5 DEF Handover
<1>9. Ordered'
  BY <1>1, <1>5 DEF CrashInv, Ordered, InProgress
<1>10. Unblocked'
  BY <1>1 DEF CrashInv, Unblocked, Reader
<1>11. Late'
  <2>1. \A x \in late' : Meant(x)'
    BY <1>1, <1>2, MeantStays DEF CrashInv, Late, Meant
  <2> QED
    BY <1>1, <2>1 DEF CrashInv, Late
<1> QED
  BY <1>3, <1>4, <1>8, <1>9, <1>10, <1>11 DEF CrashInv

(* What holds of the link holds whoever is killed, and whatever is served  *)
(* late.                                                                   *)
THEOREM CrashInvariant == CrashSpec => []CrashInv
<1>1. CrashInit => CrashInv
  <2> SUFFICES ASSUME CrashInit PROVE CrashInv
    OBVIOUS
  <2>1. LinkTypeOK /\ History /\ Handover
    BY InitHandover DEF CrashInit
  <2>2. /\ buf = <<>> /\ queue = <<>> /\ pstate = "get" /\ cpc = "down"
        /\ applied = 0 /\ fetched = 0 /\ wrote = 0 /\ late = {}
    BY DEF CrashInit, LinkInit
  <2>3. Ordered
    BY <2>2 DEF Ordered, Within, Sorted, Precedes
  <2>4. Unblocked /\ Late
    BY <2>2 DEF Unblocked, Reader, Late
  <2> QED
    BY <2>1, <2>3, <2>4 DEF CrashInv
<1>2. CrashInv /\ UNCHANGED crashVars => CrashInv'
  BY DEF crashVars, linkVars, storeVars, pollerVars, fifoVars, controllerVars,
         droneVars, CrashInv, LinkTypeOK, StoreTypeOK, History, Grown, Handover,
         Bounds, Offered, Held, Holding, ByteOut, Settled, Marked, Newest, Serial, Base,
         Ordered, InProgress, Unblocked, Reader, Late, Meant
<1>3. CrashInv /\ [CrashNext]_crashVars => CrashInv'
  BY <1>2, ProceedStep, KillPollerStep, KillControllerStep, LateDoneStep DEF CrashNext
<1> QED
  BY <1>1, <1>3, PTL DEF CrashSpec

(* One incarnation of the poller writes each command at most once, also    *)
(* when the marks of earlier ones are served late.                         *)
THEOREM HandedOverOnceInCrashes == CrashSpec => []NoRedelivery
<1>1. CrashInv => NoRedelivery
  BY DEF CrashInv, LinkTypeOK, Handover, Held, Holding, ByteOut, NoRedelivery
<1> QED
  BY <1>1, CrashInvariant, PTL

(* However late a mark_done is served, a row becomes done only after the   *)
(* byte of its command was put in the FIFO, unless it has no byte or a     *)
(* db:create gave its id away.                                             *)
THEOREM LateMarksAreWritten == CrashSpec => LateMarksWritten
<1>1. ASSUME CrashInv, CrashNext,
             NEW i \in DOMAIN commands \cap DOMAIN commands',
             commands[i].done = 0, commands'[i].done = 1
      PROVE  \/ Serial(i) \in written \/ Code(commands[i].command) = None
             \/ fetched <= Base
             \/ \E m \in late \ late' : m.sn <= Base
  <2>a. /\ StoreTypeOK /\ Grown /\ i \in DOMAIN commands
        /\ Serial(i) \in 1..Len(issued) /\ Base \in Nat /\ i \in Nat
    BY <1>1, SerialType DEF CrashInv, LinkTypeOK, StoreTypeOK, History
  <2>1. CASE UNCHANGED commands
    BY <1>1, <2>1
  <2>2. CASE Proceed
    <3>1. \/ wrote = Serial(i) \/ Code(commands[i].command) = None
          \/ fetched <= Base
      BY <1>1, <2>2, LinkMarks DEF CrashInv, Proceed
    <3>2. Serial(i) # 0
      BY <2>a
    <3> QED
      BY <1>1, <3>1, <3>2 DEF CrashInv, Late
  <2>3. ASSUME NEW m \in late, LateDone(m)
        PROVE  \/ Serial(i) \in written \/ Code(commands[i].command) = None
               \/ m \in late \ late' /\ m.sn <= Base
    <3>1. DoneRoute(m.hdr, m.id) /\ m \in late \ late'
      BY <2>3 DEF LateDone
    <3>2. i = m.id
      <4>1. CASE m.id \in DOMAIN commands
                 /\ commands' = [commands EXCEPT ![m.id].done = 1]
        <5>1. commands'[i].done = IF i = m.id THEN 1 ELSE commands[i].done
          BY <4>1, <2>a, MarkType DEF StoreTypeOK
        <5> QED
          BY <1>1, <5>1
      <4> QED
        BY <1>1, <3>1, <4>1 DEF DoneRoute
    <3>3. Meant(m)
      BY <1>1, <2>3 DEF CrashInv, Late
    <3>4. CASE m.sn > Base
      <4>1. Serial(i) = m.sn
        BY <2>a, <3>2, <3>3, <3>4 DEF Meant, Serial
      <4>2. commands[i].command = issued[m.sn]
        BY <1>1, <2>a, <4>1 DEF CrashInv, History
      <4> QED
        BY <3>3, <4>1, <4>2 DEF Meant
    <3>5. CASE ~(m.sn > Base)
      BY <2>a, <3>1, <3>3, <3>5 DEF Meant, StoreTypeOK
    <3> QED
      BY <3>4, <3>5
  <2> QED
    BY <1>1, <2>1, <2>2, <2>3 DEF CrashNext, KillPoller, KillController, storeVars
<1>2. CrashInv /\ [CrashNext]_crashVars
        => [\A i \in DOMAIN commands \cap DOMAIN commands' :
              commands[i].done = 0 /\ commands'[i].done = 1
                 => \/ Serial(i) \in written \/ Code(commands[i].command) = None
                    \/ fetched <= Base
                    \/ \E m \in late \ late' : m.sn <= Base]_crashVars
  BY <1>1
<1> QED
  BY <1>2, CrashInvariant, PTL DEF CrashSpec, LateMarksWritten

(* The link implements CommandRegister also when its processes are killed  *)
(* at any step and its requests are served late.                           *)
THEOREM DroneFollowsOperatorsInCrashes == CrashSpec => InOrder
<1>1. CrashInit => Register!RegInit
  BY DEF CrashInit, LinkInit, StoreInit, Register!RegInit
<1>2. CrashInv /\ [CrashNext]_crashVars => [Register!RegNext]_(Register!regVars)
  <2> SUFFICES ASSUME CrashInv, CrashNext
               PROVE  Register!RegNext \/ UNCHANGED Register!regVars
    BY DEF crashVars, linkVars, storeVars, droneVars, Register!regVars
  <2>1. CASE UNCHANGED <<issued, flown, applied>>
    BY <2>1 DEF Register!regVars
  <2>2. CASE Proceed
    BY <2>2, LinkRefines DEF Proceed, CrashInv
  <2>3. CASE KillController
    BY <2>1, <2>3, Performs DEF KillController, CrashInv, storeVars, droneVars
  <2>4. CASE KillPoller \/ \E m \in late : LateDone(m)
    BY <2>1, <2>4
    DEF KillPoller, LateDone, DoneRoute, linkOnly, storeVars, droneVars
  <2> QED
    BY <2>2, <2>3, <2>4 DEF CrashNext
<1> QED
  BY <1>1, <1>2, CrashInvariant, PTL DEF CrashSpec, InOrder, Register!RegSpec
=============================================================================
