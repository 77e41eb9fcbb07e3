------------------------- MODULE CommandStoreProofs -------------------------
(***************************************************************************)
(* Proofs about CommandStore, for every set of commands, clock and header. *)
(***************************************************************************)
EXTENDS CommandStore, TLAPS

(***************************************************************************)
(* What each route does to the table, whoever calls it: nothing that       *)
(* ORDER BY created_at can see, one row more at the end, or no row left.   *)
(***************************************************************************)
SameOrder ==
    /\ DOMAIN commands' = DOMAIN commands
    /\ \A i \in DOMAIN commands :
          commands'[i].created_at = commands[i].created_at

Inserted ==
    /\ issued' # issued
    /\ Len(issued') = Len(issued) + 1
    /\ Len(commands') = Len(commands) + 1
    /\ DOMAIN commands' = DOMAIN commands \cup {Len(commands) + 1}
    /\ \A i \in DOMAIN commands : commands'[i] = commands[i]

(* Marking a row as done leaves a table, and every other field as it was. *)
LEMMA MarkType ==
    ASSUME NEW T \in Seq(Row), NEW id \in DOMAIN T
    PROVE  /\ [T EXCEPT ![id].done = 1] \in Seq(Row)
           /\ DOMAIN [T EXCEPT ![id].done = 1] = DOMAIN T
           /\ \A i \in DOMAIN T :
                /\ [T EXCEPT ![id].done = 1][i].command = T[i].command
                /\ [T EXCEPT ![id].done = 1][i].created_at = T[i].created_at
                /\ [T EXCEPT ![id].done = 1][i].done
                     = IF i = id THEN 1 ELSE T[i].done
<1> DEFINE r == [T[id] EXCEPT !.done = 1]
<1>1. T[id] \in Row
  OBVIOUS
<1>2. 1 \in 0..1
  OBVIOUS
<1>3. /\ r \in Row
      /\ r.command = T[id].command
      /\ r.created_at = T[id].created_at
      /\ r.done = 1
  BY <1>1, <1>2, Zenon DEF Row
<1>4. [T EXCEPT ![id].done = 1] = [T EXCEPT ![id] = r]
  BY Zenon
<1> HIDE DEF r
<1> QED
  BY <1>3, <1>4

(* What a step of the server, in whatever system, can do to it. *)
StoreStep ==
    \/ \E c \in FormValues : CommandRoute(c)
    \/ \E h : FetchRoute(h)
    \/ \E h, id : DoneRoute(h, id)
    \/ init_db
    \/ ClockStep
    \/ UNCHANGED storeVars

(* The steps of CommandStore itself are such steps. *)
LEMMA StoreNextSteps == [StoreNext]_storeVars => StoreStep
BY DEF StoreNext, StoreStep

(* The types of the tables and of the history are preserved by every route *)
(* of the server, db:create and the clock.                                 *)
LEMMA StoreTypeStep == StoreTypeOK /\ StoreStep => StoreTypeOK'
<1> SUFFICES ASSUME StoreTypeOK, StoreStep PROVE StoreTypeOK'
  OBVIOUS
<1> USE StoreAssumption DEF StoreAssumption
<1>1. ASSUME NEW c \in FormValues, CommandRoute(c) PROVE StoreTypeOK'
  <2>1. [command |-> c, done |-> 0, created_at |-> clock] \in Row
    BY <1>1 DEF CommandRoute, StoreTypeOK, Row
  <2> QED
    BY <1>1, <2>1 DEF CommandRoute, StoreTypeOK
<1>2. ASSUME NEW h, FetchRoute(h) PROVE StoreTypeOK'
  BY <1>2 DEF FetchRoute, StoreTypeOK
<1>3. ASSUME NEW h, NEW id, DoneRoute(h, id) PROVE StoreTypeOK'
  <2>1. ASSUME id \in DOMAIN commands
        PROVE  [commands EXCEPT ![id].done = 1] \in Seq(Row)
    BY <2>1, MarkType DEF StoreTypeOK
  <2> QED
    BY <1>3, <2>1 DEF DoneRoute, StoreTypeOK
<1>4. CASE init_db
  BY <1>4 DEF init_db, StoreTypeOK
<1>5. CASE ClockStep
  BY <1>5 DEF ClockStep, StoreTypeOK
<1>6. CASE UNCHANGED storeVars
  BY <1>6 DEF storeVars, StoreTypeOK
<1> QED
  BY <1>1, <1>2, <1>3, <1>4, <1>5, <1>6 DEF StoreStep

(* The tables and the history keep their types. *)
THEOREM StoreTypes == StoreSpec => []StoreTypeOK
<1>1. StoreInit => StoreTypeOK
  BY StoreAssumption DEF StoreAssumption, StoreInit, StoreTypeOK
<1>2. StoreTypeOK /\ [StoreNext]_storeVars => StoreTypeOK'
  BY StoreNextSteps, StoreTypeStep
<1> QED
  BY <1>1, <1>2, PTL DEF StoreSpec

(* Every step of the server is of one of three kinds. *)
LEMMA StoreKinds ==
    StoreTypeOK /\ StoreStep
        => \/ SameOrder /\ (commands = <<>> <=> commands' = <<>>)
           \/ Inserted
           \/ commands' = <<>>
<1> SUFFICES ASSUME StoreTypeOK, StoreStep
             PROVE  \/ SameOrder /\ (commands = <<>> <=> commands' = <<>>)
                    \/ Inserted
                    \/ commands' = <<>>
  OBVIOUS
<1>1. ASSUME NEW c \in FormValues, CommandRoute(c) PROVE Inserted
  BY <1>1 DEF CommandRoute, StoreTypeOK, Inserted
<1>2. ASSUME UNCHANGED commands
      PROVE  SameOrder /\ (commands = <<>> <=> commands' = <<>>)
  BY <1>2 DEF SameOrder
<1>3. ASSUME NEW h, NEW id, DoneRoute(h, id)
      PROVE  SameOrder /\ (commands = <<>> <=> commands' = <<>>)
  <2>1. CASE commands' = [commands EXCEPT ![id].done = 1]
             /\ id \in DOMAIN commands
    BY <2>1, MarkType DEF StoreTypeOK, SameOrder
  <2> QED
    BY <1>2, <1>3, <2>1 DEF DoneRoute
<1> QED
  BY <1>1, <1>2, <1>3
  DEF StoreStep, FetchRoute, init_db, ClockStep, storeVars

(* Every row was accepted once, so serial numbers are positive. *)
Grown == Len(commands) <= Len(issued)

(* Routes insert into both, db:create empties the table only. *)
LEMMA GrownStep == StoreTypeOK /\ Grown /\ StoreStep => Grown'
<1> SUFFICES ASSUME StoreTypeOK, Grown, StoreStep PROVE Grown'
  OBVIOUS
<1>1. ASSUME NEW c \in FormValues, CommandRoute(c) PROVE Grown'
  BY <1>1 DEF CommandRoute, StoreTypeOK, Grown
<1>2. ASSUME NEW h, FetchRoute(h) PROVE Grown'
  BY <1>2 DEF FetchRoute, Grown
<1>3. ASSUME NEW h, NEW id, DoneRoute(h, id) PROVE Grown'
  BY <1>3 DEF DoneRoute, StoreTypeOK, Grown
<1>4. CASE init_db
  BY <1>4 DEF init_db, StoreTypeOK, Grown
<1>5. CASE ClockStep \/ UNCHANGED storeVars
  BY <1>5 DEF ClockStep, storeVars, Grown
<1> QED
  BY <1>1, <1>2, <1>3, <1>4, <1>5 DEF StoreStep

(* The row /fetch offers changes only to the row just inserted. *)
LEMMA OfferStep ==
    ASSUME StoreTypeOK, StoreStep, NEW i \in Newest'
    PROVE  \/ i \in Newest
           \/ i = Len(commands') /\ Serial(i)' = Len(issued')
                                 /\ issued' # issued
<1>1. CASE SameOrder
  BY <1>1 DEF SameOrder, Newest
<1>2. CASE Inserted
  <2>1. CASE i = Len(commands) + 1
    BY <1>2, <2>1 DEF Inserted, Serial, Base, StoreTypeOK
  <2>2. CASE i # Len(commands) + 1
    BY <1>2, <2>2 DEF Inserted, Newest
  <2> QED
    BY <2>1, <2>2
<1>3. CASE commands' = <<>>
  BY <1>3 DEF Newest
<1> QED
  BY <1>1, <1>2, <1>3, StoreKinds

(* Once the server offers another command in its place, a command is never *)
(* offered again, whatever the clock does.                                 *)
THEOREM OfferMovesOn == StoreSpec => NeverOfferedAgain
<1>1. StoreTypeOK /\ [StoreNext]_storeVars
        => [\A i \in Newest' :
               \/ i \in Newest
               \/ i = Len(commands') /\ Serial(i)' = Len(issued')
                                     /\ issued' # issued]_storeVars
  BY OfferStep, StoreNextSteps
<1> QED
  BY <1>1, StoreTypes, PTL DEF StoreSpec, NeverOfferedAgain

(* The tie-break leaves at most one row to offer. *)
LEMMA OfferAtMostOne ==
    ASSUME StoreTypeOK PROVE \A i, j \in Newest : i = j
<1> SUFFICES ASSUME NEW i \in Newest, NEW j \in Newest PROVE i = j
  OBVIOUS
<1>1. i \in DOMAIN commands /\ j \in DOMAIN commands
  BY DEF Newest
<1>2. commands[i] \in Row /\ commands[j] \in Row /\ i \in Nat /\ j \in Nat
  BY <1>1 DEF StoreTypeOK
<1>3. commands[i].created_at \in Nat /\ commands[j].created_at \in Nat
  BY <1>2, StoreAssumption DEF Row, StoreAssumption
<1>4. commands[i].created_at = commands[j].created_at
  BY <1>1, <1>3 DEF Newest
<1> QED
  BY <1>1, <1>2, <1>4 DEF Newest
=============================================================================
