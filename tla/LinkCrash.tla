----------------------------- MODULE LinkCrash ------------------------------
(***************************************************************************)
(* CommandLink under crashes: poller.py and controller.py may be killed    *)
(* between any two of their steps, and what a killed poller asked of the   *)
(* server may be served long after, when another poller, other commands or *)
(* another table are there.                                                *)
(***************************************************************************)
EXTENDS CommandLink

VARIABLES
    late,     \* mark_done requests whose poller is gone
    written   \* history: the commands whose byte any poller put in the FIFO

crashVars == <<linkVars, late, written>>

(* sn is history: the command the poller means by id. *)
Mark == [hdr |-> hdr, id |-> res.id, sn |-> fetched]

CrashInit == LinkInit /\ late = {} /\ written = {}

(* A step of the link. *)
Proceed ==
    /\ LinkNext
    /\ written' = written \cup ({wrote'} \ {0})
    /\ UNCHANGED late

(* Bytes outlive a process as long as the other end is open.  The byte of  *)
(* a poller that has not closed the file is still in its own memory.       *)
KillPoller ==
    /\ ppc # "down" /\ ppc' = "down" /\ res' = NoReply
    /\ buf' = IF Reader THEN buf ELSE <<>>
    /\ late' \in {late, late \cup (IF ppc = "mark" THEN {Mark} ELSE {})}
    /\ UNCHANGED <<storeVars, hdr, launches, fetched, wrote, exists, controllerVars,
                   droneVars, written>>

(* The drone may have accepted the action that was awaited. *)
KillController ==
    /\ cpc # "down" /\ cpc' = "down"
    /\ queue' = <<>> /\ pstate' = "get" /\ cur' = NoByte
    /\ buf' = IF Writer THEN buf ELSE <<>>
    /\ \/ UNCHANGED droneVars
       \/ /\ pstate = "await" /\ flown' = cur.ch
          /\ applied' = IF cur.op THEN cur.sn ELSE applied
    /\ UNCHANGED <<storeVars, pollerVars, exists, starts, late, written>>

(* The server gets to a request nobody waits for. *)
LateDone(m) ==
    /\ DoneRoute(m.hdr, m.id)
    /\ late' = late \ {m}
    /\ UNCHANGED <<linkOnly, written>>

CrashNext ==
    \/ Proceed \/ KillPoller \/ KillController
    \/ \E m \in late : LateDone(m)

CrashSpec == CrashInit /\ [][CrashNext]_crashVars

-----------------------------------------------------------------------------
(***************************************************************************)
(* Whoever is killed, and however late a mark_done is served, a pending    *)
(* row becomes done only after some poller put the byte of that very       *)
(* command in the FIFO.  The exceptions are again a command that has no    *)
(* byte, and an id from before a db:create.                                *)
(***************************************************************************)
LateMarksWritten ==
    [][\A i \in DOMAIN commands \cap DOMAIN commands' :
          commands[i].done = 0 /\ commands'[i].done = 1
             => \/ Serial(i) \in written \/ Code(commands[i].command) = None
                \/ fetched <= Base
                \/ \E m \in late \ late' : m.sn <= Base]_crashVars
=============================================================================
