---------------------------- MODULE CommandStore ----------------------------
(***************************************************************************)
(* The command half of the Flask server: the SQLite tables of schema.sql   *)
(* and the routes of __init__.py that read or write them.                  *)
(*                                                                         *)
(* Callers are unconstrained here: browsers post commands, and any client  *)
(* may fetch, or mark any id done, with any Authorization header.  Each    *)
(* route runs in its own connection and commits once, so a route is one    *)
(* step.  The row id is its position: AUTOINCREMENT counts from 1 and      *)
(* dropping the table (db:create) makes it count from 1 again.             *)
(***************************************************************************)
EXTENDS Integers, Sequences

CONSTANTS
    FormValues,  \* values of the form field "command", None if absent
    Times,       \* readings of CURRENT_TIMESTAMP, in whole seconds
    Headers,     \* Authorization headers a request may carry
    MaxIssued    \* bound: commands accepted over the whole behaviour

ASSUME StoreAssumption ==
    /\ Times \subseteq Nat \ {0}
    /\ Headers \subseteq
         [words : 0..2, signed : BOOLEAN, issuer : {"Cherum", "other", "none"}]
    /\ MaxIssued \in Nat

None == ""  \* a form field that is absent, a command that does nothing

VARIABLES
    commands,  \* table commands, indexed by id
    pings,     \* newest created_at of table pings, 0 when it has no row
    clock,     \* the server's wall clock; NTP may set it to anything
    issued     \* history: every command accepted since the first db:create

storeVars == <<commands, pings, clock, issued>>

Row == [command : FormValues \ {None}, done : 0..1, created_at : Times]

(* Types of the tables: command() inserts no row without a command. *)
StoreTypeOK ==
    /\ commands \in Seq(Row)
    /\ pings \in Times \cup {0}
    /\ clock \in Times
    /\ issued \in Seq(FormValues \ {None})

StoreInit ==
    /\ commands = <<>>
    /\ pings = 0
    /\ clock \in Times
    /\ issued = <<>>

(***************************************************************************)
(* Serial number of row i in the history: rows lost to db:create come      *)
(* before it.                                                              *)
(***************************************************************************)
Base == Len(issued) - Len(commands)
Serial(i) == Base + i

----------------------------------------------------------------------------
(* Plausible slips in the code below, used to test the properties. *)

MutNewest ==
    LET rows == IF \E i \in DOMAIN commands : commands[i].done = 0
                THEN {i \in DOMAIN commands : commands[i].done = 0}
                ELSE DOMAIN commands
    IN  {i \in rows :
           \A j \in rows :
             /\ commands[j].created_at <= commands[i].created_at
             /\ commands[j].created_at = commands[i].created_at => i <= j}

MutLatestPending ==
    LET pending == {i \in DOMAIN commands : commands[i].done = 0}
        rows == IF pending = {} THEN DOMAIN commands ELSE pending
    IN  {i \in rows : \A j \in rows : j <= i}

----------------------------------------------------------------------------
(***************************************************************************)
(* jwt.get_and_validate_token: a missing header, one with no second word,  *)
(* a bad signature and a missing or foreign issuer all fail.               *)
(***************************************************************************)
get_and_validate_token(h) ==
    /\ h.words = 2
    /\ h.signed
    /\ h.issuer = "Cherum"

(***************************************************************************)
(* ORDER BY created_at DESC LIMIT 1.  Seconds tie; SQLite's sorter keeps   *)
(* the first row it scanned among equals, the one with the lowest id.      *)
(***************************************************************************)
Newest ==
    {i \in DOMAIN commands :
        \A j \in DOMAIN commands :
            /\ commands[j].created_at <= commands[i].created_at
            /\ commands[j].created_at = commands[i].created_at => i <= j}

(* The body of a 200 answer of GET /fetch; id 0 stands for null. *)
FetchReplies ==
    IF commands = <<>>
    THEN {[id |-> 0, command |-> None, done |-> 1]}
    ELSE {[id |-> i, command |-> commands[i].command,
           done |-> commands[i].done] : i \in Newest}

(* POST /command *)
CommandRoute(c) ==
    /\ c # None
    /\ Len(issued) < MaxIssued
    /\ commands' = Append(commands,
                          [command |-> c, done |-> 0, created_at |-> clock])
    /\ issued' = Append(issued, c)
    /\ UNCHANGED <<pings, clock>>

(* GET /fetch: a valid caller leaves a ping; 401 leaves nothing. *)
FetchRoute(h) ==
    /\ pings' = IF get_and_validate_token(h) /\ pings < clock
                THEN clock ELSE pings
    /\ UNCHANGED <<commands, clock, issued>>

(* POST /done/<id>: an id that has no row updates no row. *)
DoneRoute(h, id) ==
    /\ commands' = IF get_and_validate_token(h) /\ id \in DOMAIN commands
                   THEN [commands EXCEPT ![id].done = 1]
                   ELSE commands
    /\ UNCHANGED <<pings, clock, issued>>

(* flask db:create: drop both tables and their id counters. *)
init_db ==
    /\ commands' = <<>>
    /\ pings' = 0
    /\ UNCHANGED <<clock, issued>>

(* The wall clock moves, forwards or, when it is corrected, backwards. *)
ClockStep ==
    /\ clock' \in Times
    /\ UNCHANGED <<commands, pings, issued>>

StoreNext ==
    \/ \E c \in FormValues : CommandRoute(c)
    \/ \E h \in Headers : FetchRoute(h)
    \/ \E h \in Headers, id \in 1..MaxIssued : DoneRoute(h, id)
    \/ init_db
    \/ ClockStep

StoreSpec == StoreInit /\ [][StoreNext]_storeVars

----------------------------------------------------------------------------
(***************************************************************************)
(* The row /fetch offers only ever changes to the row just inserted: once  *)
(* another command has been offered in its place, a command never comes    *)
(* back, whatever the clock does and whoever marks what as done.           *)
(***************************************************************************)
NeverOfferedAgain ==
    [][\A i \in Newest' : \/ i \in Newest
                          \/ i = Len(commands') /\ Serial(i)' = Len(issued')
                                                /\ issued' # issued]_storeVars
=============================================================================
