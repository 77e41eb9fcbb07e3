-------------------------- MODULE DashboardProofs ---------------------------
(* Proofs about the operator's page, for every value of the constants. *)
EXTENDS Dashboard, CommandStoreProofs

(***************************************************************************)
(* The inductive invariant.  An answer to /last/connection is never newer  *)
(* than the newest ping; a command that was answered is stored or was      *)
(* refused; a marker that has left the origin was added to the map.        *)
(***************************************************************************)
DatesHeard == \A s \in ConnectionSlots : conn[s].date <= pings

ReachedIn(stored, rejected, c) == (\E i \in DOMAIN stored : stored[i] = c) \/ c \in rejected
Reached(c) == ReachedIn(issued, refused, c)

AnsweredReached ==
    \A s \in CommandSlots :
        /\ post[s].phase # "free" => post[s].button \in Buttons
        /\ post[s].phase = "answered" => Reached(FormValue(post[s]))

MovedIsOnMap == marker # Origin => onMap

DashInv ==
    /\ DashTypeOK /\ DatesHeard /\ AnsweredReached /\ MovedIsOnMap
    /\ TrailEndsAtMarker /\ HighlightHasCause

-----------------------------------------------------------------------------
(* Which steps touch which part of the state. *)

LEMMA StoreMoves ==
    ASSUME DashTypeOK, [DashNext]_dashVars
    PROVE  StoreStep
<1> USE DEF storeVars, serverVars, dashVars
<1>1. CASE Environment
  BY <1>1 DEF Environment, Poll, Tick, Report, Drag, StoreStep
<1>2. CASE Connection
  BY <1>2 DEF StoreStep, Connection, SendConnection, last_connection, UpdateConnection, updateConnectionUI, ConnectionFails
<1>3. CASE Telemetry
  BY <1>3 DEF StoreStep, Telemetry, SendTelemetry, last_telemetry, UpdateTelemetry,
              UpdateTelemetryLate, TelemetryFails
<1>4. CASE Command
  <2>1. ASSUME NEW s \in CommandSlots, sendCommand(s) PROVE StoreStep
    <3>1. post[s].button \in Buttons \cup {None} /\ post[s].icon \in BOOLEAN
      BY DEF DashTypeOK, RequestTypes
    <3>2. FormValue(post[s]) \in FormValues \cup {None}
      BY <3>1, DashboardAssumption DEF FormValue
    <3>3. CommandRoute(FormValue(post[s])) => StoreStep
      BY <3>2 DEF CommandRoute, StoreStep
    <3>4. QED BY <2>1, <3>3 DEF sendCommand, StoreStep
  <2>2. QED BY <1>4, <2>1 DEF StoreStep, Command, Click, Highlight, CommandFails
<1>5. CASE clearTrajectory \/ centerOnDrone \/ destroy \/ UNCHANGED dashVars
  BY <1>5 DEF StoreStep, clearTrajectory, centerOnDrone, destroy
<1>6. QED BY <1>1, <1>2, <1>3, <1>4, <1>5 DEF DashNext

(* Requests keep their types: every answer is one the server can give. *)
LEMMA RequestTypeStep ==
    ASSUME DashTypeOK, [DashNext]_dashVars
    PROVE  RequestTypes'
<1> USE DEF RequestTypes, requestVars, serverVars, dashVars
<1>0. RequestTypes
  BY DEF DashTypeOK
<1>1. CASE Environment
  BY <1>0, <1>1 DEF Environment, Poll, Tick, Report, Drag
<1>2. CASE Connection
  <2>1. pings \in Times \cup {0, Invalid}
    BY DEF DashTypeOK, StoreTypeOK
  <2>2. ASSUME NEW s \in ConnectionSlots, last_connection(s) PROVE RequestTypes'
    BY <1>0, <2>1, <2>2 DEF last_connection
  <2>3. ASSUME NEW s \in ConnectionSlots,
               SendConnection(s) \/ UpdateConnection(s) \/ ConnectionFails(s)
        PROVE  RequestTypes'
    <3>1. NoConn \in [phase : {"free", "sent", "answered"}, date : Times \cup {0, Invalid}]
      BY DEF NoConn
    <3>2. QED BY <1>0, <2>3, <3>1 DEF SendConnection, UpdateConnection, updateConnectionUI, ConnectionFails
  <2>4. QED BY <1>2, <2>2, <2>3 DEF Connection
<1>3. CASE Telemetry
  <2>1. Unknown \in Snapshot
    BY DEF Unknown, Snapshot, None
  <2>2. latest \in Snapshot
    BY DEF DashTypeOK, BoundTypes
  <2>3. ASSUME NEW s \in TelemetrySlots, SendTelemetry(s) PROVE RequestTypes'
    BY <1>0, <2>3 DEF SendTelemetry
  <2>4. ASSUME NEW s \in TelemetrySlots, last_telemetry(s) PROVE RequestTypes'
    BY <1>0, <2>2, <2>4 DEF last_telemetry
  <2>5. ASSUME NEW s \in TelemetrySlots,
               UpdateTelemetry(s) \/ UpdateTelemetryLate(s) \/ TelemetryFails(s)
        PROVE  RequestTypes'
    <3>1. NoTele \in [phase : {"free", "sent", "answered"}, data : Snapshot]
      BY <2>1 DEF NoTele
    <3>2. QED BY <1>0, <2>5, <3>1 DEF UpdateTelemetry, UpdateTelemetryLate, TelemetryFails
  <2>6. QED BY <1>3, <2>3, <2>4, <2>5 DEF Telemetry
<1>4. CASE Command
  <2>1. ASSUME NEW s \in CommandSlots, NEW b \in Buttons, NEW icon \in BOOLEAN,
               Click(s, b, icon)
        PROVE  RequestTypes'
    BY <1>0, <2>1 DEF Click
  <2>2. ASSUME NEW s \in CommandSlots, sendCommand(s) \/ Highlight(s) \/ CommandFails(s)
        PROVE  RequestTypes'
    <3>1. NoPost \in [phase : {"free", "sent", "answered"}, button : Buttons \cup {None},
                     icon : BOOLEAN]
      BY DEF NoPost
    <3>2. QED BY <1>0, <2>2, <3>1 DEF sendCommand, Highlight, CommandFails
  <2>3. QED BY <1>4, <2>1, <2>2 DEF Command
<1>5. CASE clearTrajectory \/ centerOnDrone \/ destroy \/ UNCHANGED dashVars
  BY <1>0, <1>5 DEF clearTrajectory, centerOnDrone, destroy
<1>6. QED BY <1>1, <1>2, <1>3, <1>4, <1>5 DEF DashNext

(* Merging a snapshot into what the page has gives a snapshot. *)
LEMMA MergedType == ASSUME telemetry \in Snapshot, NEW d \in Snapshot PROVE Merged(d) \in Snapshot
BY DEF Snapshot, Merged, Newer

(* What the page shows keeps its types. *)
LEMMA PageTypeStep ==
    ASSUME DashTypeOK, AnsweredReached, [DashNext]_dashVars
    PROVE  PageTypes'
<1> USE DEF PageTypes, connectionVars, serverVars, dashVars
<1>0. PageTypes
  BY DEF DashTypeOK
<1>1. CASE Environment
  BY <1>0, <1>1 DEF Environment, Poll, Tick, Report, Drag
<1>2. CASE Connection
  <2>1. ASSUME NEW s \in ConnectionSlots, UpdateConnection(s) PROVE PageTypes'
    <3>1. conn[s].date \in Times \cup {0, Invalid}
      BY DEF DashTypeOK, RequestTypes
    <3>2. Recent(conn[s].date) \in BOOLEAN
      BY DEF Recent
    <3>3. QED BY <1>0, <2>1, <3>1, <3>2 DEF UpdateConnection, updateConnectionUI
  <2>2. ASSUME NEW s \in ConnectionSlots,
               SendConnection(s) \/ last_connection(s) \/ ConnectionFails(s)
        PROVE  PageTypes'
    BY <1>0, <2>2 DEF SendConnection, last_connection, ConnectionFails, showError
  <2>3. QED BY <1>2, <2>1, <2>2 DEF Connection
<1>3. CASE Telemetry
  <2>1. ASSUME NEW s \in TelemetrySlots, UpdateTelemetry(s) \/ UpdateTelemetryLate(s)
        PROVE  PageTypes'
    <3>1. Merged(tele[s].data) \in Snapshot
      BY MergedType DEF DashTypeOK, RequestTypes
    <3>2. Highlighted(Merged(tele[s].data).mode) \subseteq Buttons
      BY DEF Highlighted
    <3>3. QED
      BY <1>0, <2>1, <3>1, <3>2 DEF UpdateTelemetry, UpdateTelemetryLate, showError, clearError
  <2>2. ASSUME NEW s \in TelemetrySlots,
               SendTelemetry(s) \/ last_telemetry(s) \/ TelemetryFails(s)
        PROVE  PageTypes'
    BY <1>0, <2>2 DEF SendTelemetry, last_telemetry, TelemetryFails, showError
  <2>3. QED BY <1>3, <2>1, <2>2 DEF Telemetry
<1>4. CASE Command
  <2>1. ASSUME NEW s \in CommandSlots, Highlight(s) PROVE PageTypes'
    <3>1. post[s].button \in Buttons
      BY <2>1 DEF Highlight, AnsweredReached
    <3>2. QED BY <1>0, <2>1, <3>1 DEF Highlight
  <2>2. ASSUME NEW s \in CommandSlots, sendCommand(s) \/ CommandFails(s) PROVE PageTypes'
    BY <1>0, <2>2 DEF sendCommand, CommandFails
  <2>3. QED BY <1>0, <1>4, <2>1, <2>2 DEF Command, Click
<1>5. CASE clearTrajectory \/ centerOnDrone \/ destroy \/ UNCHANGED dashVars
  BY <1>0, <1>5 DEF clearTrajectory, centerOnDrone, destroy
<1>6. QED BY <1>1, <1>2, <1>3, <1>4, <1>5 DEF DashNext

-----------------------------------------------------------------------------
(* The map. *)

LEMMA TrailWithFacts ==
    ASSUME MapTypes, NEW p \in Positions
    PROVE  /\ TrailWith(p) \in Seq(Positions) /\ Len(TrailWith(p)) <= maxTrajectoryPoints
           /\ TrailWith(p) # <<>> /\ TrailWith(p)[Len(TrailWith(p))] = p
<1> USE DashboardAssumption DEF MapTypes
<1>1. Append(trail, p) \in Seq(Positions) /\ Len(Append(trail, p)) = Len(trail) + 1
  OBVIOUS
<1>2. CASE Len(trail) + 1 > maxTrajectoryPoints
  <2>1. TrailWith(p) = Tail(Append(trail, p))
    BY <1>2 DEF TrailWith
  <2>2. Tail(Append(trail, p)) \in Seq(Positions) /\ Len(Tail(Append(trail, p))) = Len(trail)
    BY <1>1
  <2>3. Len(trail) >= 1
    BY <1>2
  <2>4. Tail(Append(trail, p))[Len(trail)] = p
    BY <1>1, <2>3
  <2>5. QED BY <2>1, <2>2, <2>3, <2>4
<1>3. CASE ~(Len(trail) + 1 > maxTrajectoryPoints)
  BY <1>1, <1>3 DEF TrailWith
<1>4. QED BY <1>2, <1>3

(* Everything that is claimed of the map, in one. *)
MapInv == MapTypes /\ MovedIsOnMap /\ TrailEndsAtMarker

(* The line and the marker move together, also when Leaflet throws. *)
LEMMA MapStep ==
    ASSUME DashTypeOK, MapInv, [DashNext]_dashVars
    PROVE  MapInv'
<1> USE DEF MapInv, MapTypes, MovedIsOnMap, TrailEndsAtMarker, mapVars, serverVars, dashVars
<1>1. CASE Environment
  BY <1>1 DEF Environment, Poll, Tick, Report, Drag
<1>2. CASE Connection
  BY <1>2 DEF Connection, SendConnection, last_connection, UpdateConnection, updateConnectionUI, ConnectionFails
<1>3. CASE Telemetry
  <2>1. ASSUME NEW s \in TelemetrySlots, UpdateTelemetry(s) PROVE MapInv'
    <3>1. CASE Merged(tele[s].data).position = None
      BY <2>1, <3>1 DEF UpdateTelemetry
    <3>2. CASE Merged(tele[s].data).position # None
      <4> DEFINE p == Merged(tele[s].data).position
      <4>1. p \in Positions
        BY <3>2, MergedType DEF DashTypeOK, RequestTypes, PageTypes, Snapshot
      <4>2. updateMapPosition(p)
        BY <2>1, <3>2 DEF UpdateTelemetry
      <4> HIDE DEF p
      <4>3. marker' = p /\ trail' = TrailWith(p) /\ onMap' = (onMap \/ marker = Origin)
        BY <4>2 DEF updateMapPosition, Follow
      <4>4. centre' \in {p, centre}
        BY <4>2 DEF updateMapPosition
      <4>5. onMap'
        BY <4>3
      <4>6. QED BY <4>1, <4>3, <4>4, <4>5, TrailWithFacts
    <3>3. QED BY <3>1, <3>2
  <2>2. ASSUME NEW s \in TelemetrySlots, UpdateTelemetryLate(s) PROVE MapInv'
    <3>1. CASE marker = Origin
      BY <2>2, <3>1 DEF UpdateTelemetryLate
    <3>2. CASE marker # Origin
      <4> DEFINE p == Merged(tele[s].data).position
      <4>1. p \in Positions
        BY <2>2, MergedType DEF UpdateTelemetryLate, DashTypeOK, RequestTypes, PageTypes, Snapshot
      <4>2. Follow(p) /\ onMap' = onMap /\ centre' = centre
        BY <2>2, <3>2 DEF UpdateTelemetryLate
      <4> HIDE DEF p
      <4>3. QED BY <3>2, <4>1, <4>2, TrailWithFacts DEF Follow
    <3>3. QED BY <3>1, <3>2
  <2>3. ASSUME NEW s \in TelemetrySlots,
               SendTelemetry(s) \/ last_telemetry(s) \/ TelemetryFails(s)
        PROVE  MapInv'
    BY <2>3 DEF SendTelemetry, last_telemetry, TelemetryFails
  <2>4. QED BY <1>3, <2>1, <2>2, <2>3 DEF Telemetry
<1>4. CASE Command
  BY <1>4 DEF Command, Click, sendCommand, Highlight, CommandFails
<1>5. CASE centerOnDrone
  BY <1>5 DEF centerOnDrone, DashTypeOK, PageTypes, Snapshot
<1>6. CASE clearTrajectory
  <2>1. trail' = <<>> /\ <<>> \in Seq(Positions) /\ Len(<<>>) = 0
    BY <1>6 DEF clearTrajectory
  <2>2. QED BY <1>6, <2>1, DashboardAssumption DEF clearTrajectory
<1>7. CASE destroy \/ UNCHANGED dashVars
  BY <1>7 DEF destroy
<1>8. QED BY <1>1, <1>2, <1>3, <1>4, <1>5, <1>6, <1>7 DEF DashNext

-----------------------------------------------------------------------------
(* Faults, reports and clicks keep to their bounds. *)
LEMMA BoundTypeStep ==
    ASSUME DashTypeOK, AnsweredReached, [DashNext]_dashVars
    PROVE  BoundTypes'
<1> USE DashboardAssumption DEF BoundTypes, boundVars, serverVars, dashVars
<1>0. BoundTypes
  BY DEF DashTypeOK
<1>1. CASE Environment
  BY <1>0, <1>1 DEF Environment, Poll, Tick, Report, Drag
<1>2. CASE Connection
  BY <1>0, <1>2 DEF Connection, SendConnection, last_connection, UpdateConnection, updateConnectionUI, ConnectionFails
<1>3. CASE Telemetry
  BY <1>0, <1>3 DEF Telemetry, SendTelemetry, last_telemetry, UpdateTelemetry,
                    UpdateTelemetryLate, TelemetryFails
<1>4. CASE Command
  <2>1. ASSUME NEW s \in CommandSlots, sendCommand(s) PROVE BoundTypes'
    <3>1. FormValue(post[s]) \in FormValues
      BY <2>1 DEF sendCommand, FormValue, AnsweredReached
    <3>2. QED BY <1>0, <2>1, <3>1 DEF sendCommand
  <2>2. QED BY <1>0, <1>4, <2>1 DEF Command, Click, Highlight, CommandFails
<1>5. CASE clearTrajectory \/ centerOnDrone \/ destroy \/ UNCHANGED dashVars
  BY <1>0, <1>5 DEF clearTrajectory, centerOnDrone, destroy
<1>6. QED BY <1>1, <1>2, <1>3, <1>4, <1>5 DEF DashNext

-----------------------------------------------------------------------------
(* The newest ping only moves on, and every answer told one of its values. *)
LEMMA PingsGrow ==
    ASSUME DashTypeOK, [DashNext]_dashVars
    PROVE  pings \in Int /\ pings' \in Int /\ pings <= pings' /\ -1 <= pings
<1> USE StoreAssumption DEF storeVars, serverVars, dashVars
<1>0. pings \in Nat /\ clock \in Nat
  BY DEF DashTypeOK, StoreTypeOK
<1>1. CASE Environment
  BY <1>0, <1>1 DEF Environment, Poll, Tick, Report, Drag, FetchRoute, ClockStep
<1>2. CASE Connection
  BY <1>0, <1>2 DEF Connection, SendConnection, last_connection, UpdateConnection, updateConnectionUI, ConnectionFails
<1>3. CASE Telemetry
  BY <1>0, <1>3 DEF Telemetry, SendTelemetry, last_telemetry, UpdateTelemetry,
                    UpdateTelemetryLate, TelemetryFails
<1>4. CASE Command
  BY <1>0, <1>4 DEF Command, Click, sendCommand, Highlight, CommandFails, CommandRoute
<1>5. CASE clearTrajectory \/ centerOnDrone \/ destroy \/ UNCHANGED dashVars
  BY <1>0, <1>5 DEF clearTrajectory, centerOnDrone, destroy
<1>6. QED BY <1>1, <1>2, <1>3, <1>4, <1>5 DEF DashNext

(* No answer carries a date that no ping had. *)
LEMMA DatesStep ==
    ASSUME DashTypeOK, DatesHeard, [DashNext]_dashVars
    PROVE  DatesHeard'
<1>0. pings \in Int /\ pings' \in Int /\ pings <= pings' /\ -1 <= pings
  BY PingsGrow
<1>1. \A s \in ConnectionSlots : conn[s].date \in Int
  <2>1. \A s \in ConnectionSlots : conn[s].date \in Times \cup {0, Invalid}
    BY DEF DashTypeOK, RequestTypes
  <2>2. Times \cup {0, Invalid} \subseteq Int
    BY StoreAssumption DEF Invalid
  <2>3. QED BY <2>1, <2>2
<1>2. CASE conn' = conn
  BY <1>0, <1>1, <1>2 DEF DatesHeard
<1>3. CASE Connection
  <2>1. PICK s \in ConnectionSlots :
           SendConnection(s) \/ last_connection(s) \/ UpdateConnection(s) \/ ConnectionFails(s)
    BY <1>3 DEF Connection
  <2>2. \A r \in ConnectionSlots : r # s => conn'[r] = conn[r]
    BY <2>1 DEF SendConnection, last_connection, UpdateConnection, updateConnectionUI, ConnectionFails,
                DashTypeOK, RequestTypes
  <2>3. conn'[s].date \in {conn[s].date, pings, -1, 0}
    BY <2>1 DEF SendConnection, last_connection, UpdateConnection, updateConnectionUI, ConnectionFails, NoConn,
                Invalid, DashTypeOK, RequestTypes
  <2>4. 0 <= pings
    BY StoreAssumption DEF DashTypeOK, StoreTypeOK
  <2>5. QED BY <1>0, <1>1, <2>2, <2>3, <2>4 DEF DatesHeard
<1>4. Environment \/ Telemetry \/ Command \/ clearTrajectory \/ centerOnDrone \/ destroy
        \/ UNCHANGED dashVars => conn' = conn
  BY DEF Environment, Poll, Tick, Report, Drag, Telemetry, SendTelemetry, last_telemetry,
         UpdateTelemetry, UpdateTelemetryLate, TelemetryFails, Command, Click, sendCommand,
         Highlight, CommandFails, clearTrajectory, centerOnDrone, destroy, requestVars, dashVars
<1>5. QED BY <1>2, <1>3, <1>4 DEF DashNext

(* What was stored or refused stays so. *)
LEMMA ReachedStays ==
    ASSUME DashTypeOK, [DashNext]_dashVars, NEW c, Reached(c)
    PROVE  Reached(c)'
<1> USE DEF Reached, ReachedIn, storeVars, serverVars, dashVars
<1>0. issued \in Seq(FormValues \ {None})
  BY DEF DashTypeOK, StoreTypeOK
<1>1. CASE Environment
  BY <1>1 DEF Environment, Poll, Tick, Report, Drag, FetchRoute, ClockStep
<1>2. CASE Connection
  BY <1>2 DEF Connection, SendConnection, last_connection, UpdateConnection, updateConnectionUI, ConnectionFails
<1>3. CASE Telemetry
  BY <1>3 DEF Telemetry, SendTelemetry, last_telemetry, UpdateTelemetry,
              UpdateTelemetryLate, TelemetryFails
<1>4. CASE Command
  <2>1. ASSUME NEW s \in CommandSlots, sendCommand(s) PROVE Reached(c)'
    <3>1. CASE CommandRoute(FormValue(post[s])) /\ refused' = refused
      <4>1. issued' = Append(issued, FormValue(post[s]))
        BY <3>1 DEF CommandRoute
      <4>2. \A i \in DOMAIN issued : i \in DOMAIN issued' /\ issued'[i] = issued[i]
        BY <1>0, <4>1
      <4>3. QED BY <3>1, <4>2
    <3>2. CASE issued' = issued /\ refused' = refused \cup {FormValue(post[s])}
      BY <3>2
    <3>3. QED BY <2>1, <3>1, <3>2 DEF sendCommand
  <2>2. QED BY <1>4, <2>1 DEF Command, Click, Highlight, CommandFails
<1>5. CASE clearTrajectory \/ centerOnDrone \/ destroy \/ UNCHANGED dashVars
  BY <1>5 DEF clearTrajectory, centerOnDrone, destroy
<1>6. QED BY <1>1, <1>2, <1>3, <1>4, <1>5 DEF DashNext

(* A command is answered after the server took or refused it. *)
LEMMA AnsweredStep ==
    ASSUME DashTypeOK, AnsweredReached, [DashNext]_dashVars
    PROVE  AnsweredReached'
<1>1. SUFFICES ASSUME NEW r \in CommandSlots
      PROVE  /\ post'[r].phase # "free" => post'[r].button \in Buttons
             /\ post'[r].phase = "answered"
                  => ReachedIn(issued', refused', FormValue(post'[r]))
  BY DEF AnsweredReached, FormValue, Reached
<1>2. CASE post'[r] = post[r]
  <2>1. \A c : Reached(c) => ReachedIn(issued', refused', c)
    BY ReachedStays DEF Reached
  <2>2. QED BY <1>2, <2>1 DEF AnsweredReached
<1>3. CASE Command
  <2>1. ASSUME NEW s \in CommandSlots, NEW b \in Buttons, NEW icon \in BOOLEAN,
               Click(s, b, icon), r = s
        PROVE  post'[r].phase = "sent" /\ post'[r].button \in Buttons
    BY <2>1 DEF Click, DashTypeOK, RequestTypes
  <2>2. ASSUME NEW s \in CommandSlots, sendCommand(s), r = s
        PROVE  post'[r].button \in Buttons /\ ReachedIn(issued', refused', FormValue(post'[r]))
    <3>1. /\ post'[r].button = post[r].button
          /\ post'[r].icon = post[r].icon
      BY <2>2 DEF sendCommand, DashTypeOK, RequestTypes
    <3>2. FormValue(post'[r]) = FormValue(post[s]) /\ post[r].button \in Buttons
      BY <2>2, <3>1 DEF FormValue, sendCommand, AnsweredReached
    <3>3. CASE CommandRoute(FormValue(post[s]))
      <4>1. issued' = Append(issued, FormValue(post[s])) /\ issued \in Seq(FormValues \ {None})
        BY <3>3 DEF CommandRoute, DashTypeOK, StoreTypeOK
      <4>2. Len(issued) + 1 \in DOMAIN issued' /\ issued'[Len(issued) + 1] = FormValue(post[s])
        BY <4>1
      <4>3. QED BY <3>1, <3>2, <4>2 DEF ReachedIn
    <3>4. CASE refused' = refused \cup {FormValue(post[s])}
      BY <3>1, <3>2, <3>4 DEF ReachedIn
    <3>5. QED BY <2>2, <3>3, <3>4 DEF sendCommand
  <2>3. ASSUME NEW s \in CommandSlots, Highlight(s) \/ CommandFails(s), r = s
        PROVE  post'[r].phase = "free"
    BY <2>3 DEF Highlight, CommandFails, NoPost, DashTypeOK, RequestTypes
  <2>4. ASSUME NEW s \in CommandSlots, r # s,
               \/ \E b \in Buttons, icon \in BOOLEAN : Click(s, b, icon)
               \/ sendCommand(s) \/ Highlight(s) \/ CommandFails(s)
        PROVE  post'[r] = post[r]
    BY <2>4 DEF Click, sendCommand, Highlight, CommandFails, DashTypeOK, RequestTypes
  <2>5. QED BY <1>2, <1>3, <2>1, <2>2, <2>3, <2>4 DEF Command
<1>4. Environment \/ Telemetry \/ Connection \/ clearTrajectory \/ centerOnDrone \/ destroy
        \/ UNCHANGED dashVars => post' = post
  BY DEF Environment, Poll, Tick, Report, Drag, Telemetry, SendTelemetry, last_telemetry,
         UpdateTelemetry, UpdateTelemetryLate, TelemetryFails, Connection, SendConnection,
         last_connection, UpdateConnection, updateConnectionUI, ConnectionFails, clearTrajectory, centerOnDrone,
         destroy, requestVars, dashVars
<1>5. QED BY <1>2, <1>3, <1>4 DEF DashNext

(* A step highlights a button for its flight mode or its command. *)
LEMMA HighlightStep ==
    ASSUME DashTypeOK, AnsweredReached, HighlightHasCause, [DashNext]_dashVars
    PROVE  HighlightHasCause'
<1>1. SUFFICES ASSUME NEW b \in primary'
      PROVE  b = FLIGHT_MODE_TO_COMMAND(telemetry.mode)' \/ Reached(b)'
  BY DEF HighlightHasCause, Reached, ReachedIn
<1>2. \A c \in primary : c = FLIGHT_MODE_TO_COMMAND(telemetry.mode) \/ Reached(c)
  BY DEF HighlightHasCause, Reached, ReachedIn
<1>3. CASE b \in primary /\ telemetry' = telemetry
  BY <1>2, <1>3, ReachedStays DEF FLIGHT_MODE_TO_COMMAND
<1>4. ASSUME NEW s \in TelemetrySlots, UpdateTelemetry(s) \/ UpdateTelemetryLate(s)
      PROVE  b = FLIGHT_MODE_TO_COMMAND(telemetry.mode)'
  BY <1>4 DEF UpdateTelemetry, UpdateTelemetryLate, Highlighted, FLIGHT_MODE_TO_COMMAND
<1>5. ASSUME NEW s \in CommandSlots, Highlight(s), b \notin primary
      PROVE  Reached(b)'
  <2>1. b = post[s].button /\ ~post[s].icon
    BY <1>5 DEF Highlight
  <2>2. Reached(b)
    BY <1>5, <2>1 DEF Highlight, AnsweredReached, FormValue
  <2>3. QED BY <2>2, ReachedStays
<1>6. ASSUME \/ Environment \/ Connection \/ clearTrajectory \/ centerOnDrone \/ destroy
             \/ UNCHANGED dashVars
      PROVE  primary' = primary /\ telemetry' = telemetry
  BY <1>6 DEF Environment, Poll, Tick, Report, Drag, Connection, SendConnection,
              last_connection, UpdateConnection, updateConnectionUI, ConnectionFails, clearTrajectory,
              centerOnDrone, destroy, dashVars
<1>7. ASSUME NEW s \in TelemetrySlots, SendTelemetry(s) \/ last_telemetry(s) \/ TelemetryFails(s)
      PROVE  primary' = primary /\ telemetry' = telemetry
  BY <1>7 DEF SendTelemetry, last_telemetry, TelemetryFails
<1>8. ASSUME NEW s \in CommandSlots,
             \/ \E c \in Buttons, icon \in BOOLEAN : Click(s, c, icon)
             \/ sendCommand(s) \/ CommandFails(s)
      PROVE  primary' = primary /\ telemetry' = telemetry
  BY <1>8 DEF Click, sendCommand, CommandFails
<1>9. ASSUME NEW s \in CommandSlots, Highlight(s) PROVE telemetry' = telemetry
  BY <1>9 DEF Highlight
<1>10. CASE Telemetry
  BY <1>3, <1>4, <1>7, <1>10 DEF Telemetry
<1>11. CASE Command
  BY <1>3, <1>5, <1>8, <1>9, <1>11 DEF Command
<1>12. QED BY <1>3, <1>6, <1>10, <1>11 DEF DashNext

-----------------------------------------------------------------------------
(* The page starts with nothing shown and nothing asked for. *)
LEMMA DashInitInv == DashInit => DashInv
<1>1. SUFFICES ASSUME DashInit PROVE DashInv
  OBVIOUS
<1> USE DEF DashInit
<1>2. StoreTypeOK
  BY <1>1, StoreAssumption DEF StoreInit, StoreTypeOK
<1>3. Unknown \in Snapshot
  BY DEF Unknown, Snapshot
<1>4. RequestTypes
  BY <1>1, <1>3 DEF RequestTypes, NoConn, NoTele, NoPost
<1>5. PageTypes
  BY <1>1, <1>3 DEF PageTypes
<1>6. MapTypes
  <2>1. <<>> \in Seq(Positions) /\ Len(<<>>) = 0
    OBVIOUS
  <2>2. trail \in Seq(Positions) /\ Len(trail) <= maxTrajectoryPoints
    BY <1>1, <2>1, DashboardAssumption
  <2>3. QED BY <1>1, <2>2, Zenon DEF MapTypes
<1>7. BoundTypes
  BY <1>1, <1>3, DashboardAssumption DEF BoundTypes
<1>8. DatesHeard
  BY <1>1 DEF DatesHeard, NoConn, StoreInit
<1>9. AnsweredReached
  BY <1>1 DEF AnsweredReached, NoPost
<1>10. MovedIsOnMap /\ TrailEndsAtMarker /\ HighlightHasCause
  BY <1>1 DEF MovedIsOnMap, TrailEndsAtMarker, HighlightHasCause
<1>11. QED BY <1>2, <1>4, <1>5, <1>6, <1>7, <1>8, <1>9, <1>10 DEF DashInv, DashTypeOK

(* The invariant is inductive. *)
LEMMA DashStepInv == DashInv /\ [DashNext]_dashVars => DashInv'
<1>1. SUFFICES ASSUME DashInv, [DashNext]_dashVars PROVE DashInv'
  OBVIOUS
<1>2. StoreTypeOK'
  BY <1>1, StoreMoves, StoreTypeStep DEF DashInv, DashTypeOK
<1>3. RequestTypes' /\ PageTypes' /\ BoundTypes'
  BY <1>1, RequestTypeStep, PageTypeStep, BoundTypeStep DEF DashInv
<1>4. MapInv'
  BY <1>1, MapStep DEF DashInv, DashTypeOK, MapInv
<1>5. DatesHeard' /\ AnsweredReached' /\ HighlightHasCause'
  BY <1>1, DatesStep, AnsweredStep, HighlightStep DEF DashInv
<1>6. QED BY <1>2, <1>3, <1>4, <1>5 DEF DashInv, DashTypeOK, MapInv

(* The page keeps its types, and the trajectory its limit, for any number  *)
(* of requests under way.                                                  *)
THEOREM DashTypes == DashSpec => []DashTypeOK
<1>1. DashInv => DashTypeOK
  BY DEF DashInv
<1>2. QED BY <1>1, DashInitInv, DashStepInv, PTL DEF DashSpec

(* updateMapPosition keeps line and marker together whatever the order in  *)
(* which answers come, and whatever destroy() leaves unfinished.           *)
THEOREM TrailFollowsMarker == DashSpec => []TrailEndsAtMarker
<1>1. DashInv => TrailEndsAtMarker
  BY DEF DashInv
<1>2. QED BY <1>1, DashInitInv, DashStepInv, PTL DEF DashSpec

(* No button is highlighted by a click whose request failed on the way.    *)
THEOREM HighlightsHaveCauses == DashSpec => []HighlightHasCause
<1>1. DashInv => HighlightHasCause
  BY DEF DashInv
<1>2. QED BY <1>1, DashInitInv, DashStepInv, PTL DEF DashSpec

(* For every window and every difference of the clocks: an answer that was *)
(* overtaken can turn the indicator off, but turns it on only if the drone *)
(* was heard of less than the window and that difference ago, for the age  *)
(* is computed when the answer is applied.                                 *)
THEOREM ConnectsTruly == DashSpec => NoFalseConnect
<1>1. DashInv /\ [DashNext]_dashVars
        => [~indicator /\ indicator' => HeardWithin(Window + Behind)]_dashVars
  <2>1. SUFFICES ASSUME DashInv, [DashNext]_dashVars, ~indicator, indicator'
        PROVE  HeardWithin(Window + Behind)
    OBVIOUS
  <2>2. PICK s \in ConnectionSlots : UpdateConnection(s)
    BY <2>1 DEF DashInv, DashTypeOK, PageTypes, DashNext, Environment, Poll, Tick, Report, Drag,
                Connection, SendConnection, last_connection, ConnectionFails, Telemetry,
                SendTelemetry, last_telemetry, UpdateTelemetry, UpdateTelemetryLate,
                TelemetryFails, Command, Click, sendCommand, Highlight, CommandFails,
                clearTrajectory, centerOnDrone, destroy, connectionVars, dashVars
  <2>3. Recent(conn[s].date)
    BY <2>1, <2>2 DEF UpdateConnection, updateConnectionUI
  <2>4. conn[s].date \in Times \cup {0, Invalid} /\ conn[s].date <= pings
    BY <2>1 DEF DashInv, DashTypeOK, RequestTypes, DatesHeard
  <2>5. pings \in Nat /\ clock \in Nat
    BY <2>1, StoreAssumption DEF DashInv, DashTypeOK, StoreTypeOK
  <2>6. conn[s].date \in Nat \ {0} /\ (clock - Behind) - conn[s].date < Window
    BY <2>3, <2>4, StoreAssumption DEF Recent
  <2>7. QED BY <2>4, <2>5, <2>6, DashboardAssumption DEF HeardWithin
<1>2. QED BY <1>1, DashInitInv, DashStepInv, PTL DEF DashSpec, NoFalseConnect
=============================================================================
