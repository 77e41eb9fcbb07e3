----------------------------- MODULE Dashboard ------------------------------
(***************************************************************************)
(* The operator's page: class DroneControl of app.js, composed with the    *)
(* server's command half (CommandStore).                                   *)
(*                                                                         *)
(* The browser runs one callback at a time, so what follows the await of a *)
(* fetch is one step.  The timers do not wait for the answers: several     *)
(* requests of a kind are under way together, and they are answered and    *)
(* applied in any order.  A slot holds one request.                        *)
(*                                                                         *)
(* Left out: the wording of what is shown, this.loading (nothing reads     *)
(* it), and battery and in_air, which are kept and shown exactly as armed. *)
(***************************************************************************)
EXTENDS CommandStore

CONSTANTS
    ConnectionSlots, TelemetrySlots, CommandSlots,
                   \* bound: requests of each kind that are under way
    Positions,     \* where the drone may be
    Modes,         \* its flight modes
    Snapshots,     \* what /last/telemetry may find; None is a missing part
    Origin,        \* latitude 0, longitude 0: where the marker is made
    Near,          \* Near[p]: what the map shows when p is in the middle
    Buttons,       \* the values of the command buttons of index.html
    Window,        \* 10 seconds
    Behind,        \* how far the browser's clock is behind the server's
    maxTrajectoryPoints,  \* 1000
    MaxFaults,     \* bound: requests that fail
    MaxReports,    \* bound: how often what the server knows changes
    MaxClicks      \* bound: clicks on the command buttons

Snapshot == [position : Positions \cup {None}, mode : Modes \cup {None},
             armed : {"yes", "no", None}]

ASSUME DashboardAssumption ==
    /\ Snapshots \subseteq Snapshot
    /\ None \notin Positions /\ None \notin Buttons
    /\ Buttons \cup {"undefined"} \subseteq FormValues
    /\ Window \in Nat /\ Behind \in Int
    /\ maxTrajectoryPoints \in Nat \ {0}
    /\ MaxFaults \in Nat /\ MaxReports \in Nat /\ MaxClicks \in Nat

VARIABLES
    latest,      \* what /last/telemetry finds now
    conn,        \* requests for /last/connection
    tele,        \* requests for /last/telemetry
    post,        \* requests for /command
    connected,   \* this.connectionStatus.connected
    indicator,   \* the indicator on the page is green
    lastShown,   \* the time of the last connection on the page, 0 if Never
    telemetry,   \* this.telemetry
    error,       \* what the error banner says, None if it is hidden
    primary,     \* the buttons that are highlighted
    marker,      \* where the marker is
    onMap,       \* it has been added to the map
    centre,      \* the middle of the map
    trail,       \* this.trajectoryPoints, and the line on the map
    alive,       \* destroy() was not called
    faults, reports, clicks,  \* counters for the bounds
    refused      \* history: commands the server answered with an error

serverVars == <<storeVars, latest, reports>>
requestVars == <<conn, tele, post>>
connectionVars == <<connected, indicator, lastShown>>
mapVars == <<marker, onMap, centre, trail>>
boundVars == <<faults, clicks>>
dashVars == <<serverVars, requestVars, connectionVars, telemetry, error,
              primary, mapVars, alive, boundVars, refused>>

Unknown == [position |-> None, mode |-> None, armed |-> None]
DefaultView == "default"  \* Mexico City
Invalid == 0 - 1          \* Invalid Date

NoConn == [phase |-> "free", date |-> 0]
NoTele == [phase |-> "free", data |-> Unknown]
NoPost == [phase |-> "free", button |-> None, icon |-> FALSE]

DashInit ==
    /\ StoreInit
    /\ latest = Unknown /\ reports = 0
    /\ conn = [s \in ConnectionSlots |-> NoConn]
    /\ tele = [s \in TelemetrySlots |-> NoTele]
    /\ post = [s \in CommandSlots |-> NoPost]
    /\ connected = FALSE /\ indicator = FALSE /\ lastShown = 0
    /\ telemetry = Unknown /\ error = None /\ primary = {}
    /\ marker = Origin /\ onMap = FALSE /\ centre = DefaultView /\ trail = <<>>
    /\ alive = TRUE /\ faults = 0 /\ clicks = 0 /\ refused = {}

-----------------------------------------------------------------------------
(* What goes on around the page. *)

(* The drone polls, which leaves a ping. *)
Poll(h) ==
    /\ FetchRoute(h)
    /\ UNCHANGED <<latest, reports, requestVars, connectionVars, telemetry, error,
                   primary, mapVars, alive, boundVars, refused>>

(* Time passes. *)
Tick ==
    /\ ClockStep /\ clock' > clock
    /\ UNCHANGED <<latest, reports, requestVars, connectionVars, telemetry, error,
                   primary, mapVars, alive, boundVars, refused>>

(* Telemetry arrives at the server, or leaves the 24 hours it looks back. *)
Report(d) ==
    /\ reports < MaxReports
    /\ latest' = d /\ reports' = reports + 1
    /\ UNCHANGED <<storeVars, requestVars, connectionVars, telemetry, error,
                   primary, mapVars, alive, boundVars, refused>>

(* The operator drags the map. *)
Drag(p) ==
    /\ centre' = p
    /\ UNCHANGED <<serverVars, requestVars, connectionVars, telemetry, error,
                   primary, marker, onMap, trail, alive, boundVars, refused>>

-----------------------------------------------------------------------------
showError(message) == error' = message
clearError == error' = None

(* updateConnectionStatus: the request, what the server answers, and what  *)
(* follows the await.  An error page is a text that is not a date.         *)
SendConnection(s) ==
    /\ alive /\ conn[s].phase = "free"
    /\ conn' = [conn EXCEPT ![s].phase = "sent"]
    /\ UNCHANGED <<serverVars, tele, post, connectionVars, telemetry, error,
                   primary, mapVars, alive, boundVars, refused>>

last_connection(s) ==
    /\ conn[s].phase = "sent"
    /\ \/ conn' = [conn EXCEPT ![s] = [phase |-> "answered", date |-> pings]]
          /\ UNCHANGED faults
       \/ /\ faults < MaxFaults /\ faults' = faults + 1
          /\ conn' = [conn EXCEPT ![s] = [phase |-> "answered", date |-> Invalid]]
    /\ UNCHANGED <<serverVars, tele, post, connectionVars, telemetry, error,
                   primary, mapVars, alive, clicks, refused>>

(* Mutant: every answer that is not Never counts. *)
MutRecent(date) == date # 0

(* Never is not a date, and nothing is less than NaN. *)
Recent(date) ==
    date # 0 /\ date # Invalid /\ (clock - Behind) - date < Window

(* Mutant: the indicator is redrawn only when the drone is connected. *)
MutUpdateConnection(s) ==
    /\ conn[s].phase = "answered"
    /\ connected' = Recent(conn[s].date) /\ lastShown' = conn[s].date
    /\ indicator' = (indicator \/ connected')
    /\ conn' = [conn EXCEPT ![s] = NoConn]
    /\ UNCHANGED <<serverVars, tele, post, telemetry, error, primary, mapVars,
                   alive, boundVars, refused>>

updateConnectionUI(date) == indicator' = connected' /\ lastShown' = date

UpdateConnection(s) ==
    /\ conn[s].phase = "answered"
    /\ connected' = Recent(conn[s].date) /\ updateConnectionUI(conn[s].date)
    /\ conn' = [conn EXCEPT ![s] = NoConn]
    /\ UNCHANGED <<serverVars, tele, post, telemetry, error, primary, mapVars,
                   alive, boundVars, refused>>

(* The fetch is rejected: the indicator is left as it is. *)
ConnectionFails(s) ==
    /\ conn[s].phase # "free" /\ faults < MaxFaults
    /\ faults' = faults + 1
    /\ connected' = FALSE /\ showError("connection")
    /\ conn' = [conn EXCEPT ![s] = NoConn]
    /\ UNCHANGED <<serverVars, tele, post, indicator, lastShown, telemetry,
                   primary, mapVars, alive, clicks, refused>>

-----------------------------------------------------------------------------
(* updateTelemetry. *)
SendTelemetry(s) ==
    /\ alive /\ tele[s].phase = "free"
    /\ tele' = [tele EXCEPT ![s].phase = "sent"]
    /\ UNCHANGED <<serverVars, conn, post, connectionVars, telemetry, error,
                   primary, mapVars, alive, boundVars, refused>>

last_telemetry(s) ==
    /\ tele[s].phase = "sent"
    /\ tele' = [tele EXCEPT ![s] = [phase |-> "answered", data |-> latest]]
    /\ UNCHANGED <<serverVars, conn, post, connectionVars, telemetry, error,
                   primary, mapVars, alive, boundVars, refused>>

(* A part that is missing in the answer stays as it was. *)
Newer(said, kept) == IF said = None THEN kept ELSE said
Merged(d) ==
    [position |-> Newer(d.position, telemetry.position),
     mode |-> Newer(d.mode, telemetry.mode), armed |-> Newer(d.armed, telemetry.armed)]

FLIGHT_MODE_TO_COMMAND(mode) ==
    CASE mode = "RETURN_TO_LAUNCH" -> "rtl" [] mode = "HOLD" -> "loiter"
      [] mode = "LAND" -> "land" [] OTHER -> None

(* Mutant: the highlight of the other buttons is not taken back. *)
MutHighlighted(mode) == primary \cup {b \in Buttons : b = FLIGHT_MODE_TO_COMMAND(mode)}
Highlighted(mode) == {b \in Buttons : b = FLIGHT_MODE_TO_COMMAND(mode)}

(* Mutant: the limit is tested before the point is added. *)
MutTrailWith(p) ==
    Append(IF Len(trail) > maxTrajectoryPoints THEN Tail(trail) ELSE trail, p)

TrailWith(p) ==
    IF Len(trail) + 1 > maxTrajectoryPoints THEN Tail(Append(trail, p)) ELSE Append(trail, p)

(* Mutant: a marker that has left the origin is not moved. *)
MutFollow(p) ==
    /\ trail' = TrailWith(p) /\ marker' = IF marker = Origin THEN p ELSE marker

Follow(p) == marker' = p /\ trail' = TrailWith(p)

(* The marker counts as new as long as it is at the origin. *)
updateMapPosition(p) ==
    LET middle == IF marker = Origin THEN p ELSE centre
    IN /\ onMap' = (onMap \/ marker = Origin)
       /\ centre' = IF p \in Near[middle] THEN middle ELSE p
       /\ Follow(p)

(* What follows the await. *)
UpdateTelemetry(s) ==
    LET t == Merged(tele[s].data)
    IN /\ tele[s].phase = "answered" /\ (alive \/ t.position = None)
       /\ telemetry' = t /\ primary' = Highlighted(t.mode)
       /\ IF t.position = None THEN UNCHANGED mapVars ELSE updateMapPosition(t.position)
       /\ clearError
       /\ tele' = [tele EXCEPT ![s] = NoTele]
       /\ UNCHANGED <<serverVars, conn, post, connectionVars, alive, boundVars, refused>>

(* After destroy() the map is gone: adding the marker to it, or asking it  *)
(* for its bounds, throws.                                                 *)
UpdateTelemetryLate(s) ==
    LET t == Merged(tele[s].data)
    IN /\ tele[s].phase = "answered" /\ ~alive /\ t.position # None
       /\ telemetry' = t /\ primary' = Highlighted(t.mode)
       /\ IF marker = Origin THEN UNCHANGED <<marker, trail>> ELSE Follow(t.position)
       /\ showError("telemetry")
       /\ tele' = [tele EXCEPT ![s] = NoTele]
       /\ UNCHANGED <<serverVars, conn, post, connectionVars, onMap, centre, alive,
                      boundVars, refused>>

(* The fetch is rejected, or the answer is not JSON. *)
TelemetryFails(s) ==
    /\ tele[s].phase # "free" /\ faults < MaxFaults
    /\ faults' = faults + 1
    /\ showError("telemetry")
    /\ tele' = [tele EXCEPT ![s] = NoTele]
    /\ UNCHANGED <<serverVars, conn, post, connectionVars, telemetry, primary,
                   mapVars, alive, clicks, refused>>

-----------------------------------------------------------------------------
(* The listener of the buttons, with sendCommand. *)

(* Mutant: the button is highlighted without waiting for the fetch. *)
MutClick(s, b, icon) ==
    /\ clicks < MaxClicks /\ clicks' = clicks + 1
    /\ post[s].phase = "free"
    /\ post' = [post EXCEPT ![s] = [phase |-> "sent", button |-> b, icon |-> icon]]
    /\ primary' = primary \cup {b}
    /\ UNCHANGED <<serverVars, conn, tele, connectionVars, telemetry, error,
                   mapVars, alive, faults, refused>>

(* e.target is the button, or the icon the pointer is on. *)
Click(s, b, icon) ==
    /\ clicks < MaxClicks /\ clicks' = clicks + 1
    /\ post[s].phase = "free"
    /\ post' = [post EXCEPT ![s] = [phase |-> "sent", button |-> b, icon |-> icon]]
    /\ UNCHANGED <<serverVars, conn, tele, connectionVars, telemetry, error,
                   primary, mapVars, alive, faults, refused>>

(* An icon has no value. *)
FormValue(r) == IF r.icon THEN "undefined" ELSE r.button

sendCommand(s) ==
    /\ post[s].phase = "sent"
    /\ post' = [post EXCEPT ![s].phase = "answered"]
    /\ \/ CommandRoute(FormValue(post[s])) /\ UNCHANGED <<faults, refused>>
       \/ /\ faults < MaxFaults /\ faults' = faults + 1
          /\ refused' = refused \cup {FormValue(post[s])}
          /\ UNCHANGED storeVars
    /\ UNCHANGED <<latest, reports, conn, tele, connectionVars, telemetry, error,
                   primary, mapVars, alive, clicks>>

(* Whatever the answer is, the target is highlighted. *)
Highlight(s) ==
    /\ post[s].phase = "answered"
    /\ primary' = IF post[s].icon THEN primary ELSE primary \cup {post[s].button}
    /\ post' = [post EXCEPT ![s] = NoPost]
    /\ UNCHANGED <<serverVars, conn, tele, connectionVars, telemetry, error,
                   mapVars, alive, boundVars, refused>>

(* The fetch is rejected, before or after the server had the command. *)
CommandFails(s) ==
    /\ post[s].phase # "free" /\ faults < MaxFaults
    /\ faults' = faults + 1
    /\ post' = [post EXCEPT ![s] = NoPost]
    /\ UNCHANGED <<serverVars, conn, tele, connectionVars, telemetry, error,
                   primary, mapVars, alive, clicks, refused>>

-----------------------------------------------------------------------------
(* The methods for the console of the browser. *)
clearTrajectory ==
    /\ trail' = <<>>
    /\ UNCHANGED <<serverVars, requestVars, connectionVars, telemetry, error,
                   primary, marker, onMap, centre, alive, boundVars, refused>>

centerOnDrone ==
    /\ alive /\ telemetry.position # None
    /\ centre' = telemetry.position
    /\ UNCHANGED <<serverVars, requestVars, connectionVars, telemetry, error,
                   primary, marker, onMap, trail, alive, boundVars, refused>>

(* The timers end and the map is taken away; requests stay under way. *)
destroy ==
    /\ alive /\ alive' = FALSE
    /\ UNCHANGED <<serverVars, requestVars, connectionVars, telemetry, error,
                   primary, mapVars, boundVars, refused>>

-----------------------------------------------------------------------------
Environment ==
    \/ \E h \in Headers : Poll(h)
    \/ Tick
    \/ \E d \in Snapshots : Report(d)
    \/ \E p \in Positions : Drag(p)

Connection ==
    \E s \in ConnectionSlots :
        SendConnection(s) \/ last_connection(s) \/ UpdateConnection(s) \/ ConnectionFails(s)

Telemetry ==
    \E s \in TelemetrySlots :
        \/ SendTelemetry(s) \/ last_telemetry(s) \/ UpdateTelemetry(s)
        \/ UpdateTelemetryLate(s) \/ TelemetryFails(s)

Command ==
    \E s \in CommandSlots :
        \/ \E b \in Buttons, icon \in BOOLEAN : Click(s, b, icon)
        \/ sendCommand(s) \/ Highlight(s) \/ CommandFails(s)

DashNext ==
    \/ Environment \/ Connection \/ Telemetry \/ Command
    \/ clearTrajectory \/ centerOnDrone \/ destroy

DashSpec == DashInit /\ [][DashNext]_dashVars

(***************************************************************************)
(* setInterval goes on firing, and a fetch is answered or rejected in the  *)
(* end: the server works, and the browser does not wait for ever.          *)
(***************************************************************************)
DashFairness ==
    /\ \A s \in ConnectionSlots :
         /\ WF_dashVars(SendConnection(s))
         /\ WF_dashVars(last_connection(s)) /\ WF_dashVars(UpdateConnection(s))
    /\ \A s \in TelemetrySlots :
         /\ WF_dashVars(SendTelemetry(s))
         /\ WF_dashVars(last_telemetry(s))
         /\ WF_dashVars(UpdateTelemetry(s) \/ UpdateTelemetryLate(s))
    /\ \A s \in CommandSlots : WF_dashVars(sendCommand(s)) /\ WF_dashVars(Highlight(s))

DashFairSpec == DashSpec /\ DashFairness

-----------------------------------------------------------------------------
RequestTypes ==
    /\ conn \in [ConnectionSlots -> [phase : {"free", "sent", "answered"},
                                     date : Times \cup {0, Invalid}]]
    /\ tele \in [TelemetrySlots -> [phase : {"free", "sent", "answered"}, data : Snapshot]]
    /\ post \in [CommandSlots -> [phase : {"free", "sent", "answered"},
                                  button : Buttons \cup {None}, icon : BOOLEAN]]

PageTypes ==
    /\ connected \in BOOLEAN /\ indicator \in BOOLEAN
    /\ lastShown \in Times \cup {0, Invalid}
    /\ telemetry \in Snapshot
    /\ error \in {None, "connection", "telemetry"}
    /\ primary \subseteq Buttons /\ alive \in BOOLEAN

MapTypes ==
    /\ marker \in Positions \cup {Origin} /\ onMap \in BOOLEAN
    /\ centre \in Positions \cup {DefaultView}
    /\ trail \in Seq(Positions) /\ Len(trail) <= maxTrajectoryPoints

BoundTypes ==
    /\ faults \in 0..MaxFaults /\ reports \in 0..MaxReports /\ clicks \in 0..MaxClicks
    /\ latest \in Snapshot /\ refused \subseteq FormValues

(* Types of the page and its requests; the trajectory keeps to its limit.  *)
DashTypeOK == StoreTypeOK /\ RequestTypes /\ PageTypes /\ MapTypes /\ BoundTypes

(* The line on the map ends at the marker, however answers overtake each   *)
(* other, and the marker is on the map once there is a line.               *)
TrailEndsAtMarker == trail # <<>> => onMap /\ trail[Len(trail)] = marker

(* A highlighted button is that of the flight mode shown, or its command   *)
(* has reached the server: a fetch that fails highlights nothing.          *)
HighlightHasCause ==
    \A b \in primary : \/ b = FLIGHT_MODE_TO_COMMAND(telemetry.mode)
                       \/ \E i \in DOMAIN issued : issued[i] = b
                       \/ b \in refused

HeardWithin(w) == pings # 0 /\ clock - pings < w

(* The indicator turns green only for a drone the server heard of less     *)
(* than the window ago, give or take the difference of the two clocks: how *)
(* long the answer that turns it was under way, and which answers overtook *)
(* it, adds nothing.                                                       *)
NoFalseConnect ==
    [][~indicator /\ indicator' => HeardWithin(Window + Behind)]_dashVars

(* Once the drone is silent for good the indicator goes out, and once it   *)
(* is heard of for good the indicator stays green; again the clocks'       *)
(* difference shifts the window.                                           *)
IndicatorSettles ==
    /\ <>[](alive /\ ~HeardWithin(Window + Behind)) => <>[]~indicator
    /\ <>[](alive /\ HeardWithin(Window + Behind)) => <>[]indicator

(* The page ends up showing what the server knows, with the button of that *)
(* flight mode and no other highlighted and no error, although answers     *)
(* are applied in the order they come.                                     *)
CatchesUp ==
    <>[](alive => /\ \A part \in {"position", "mode", "armed"} :
                        latest[part] \in {None, telemetry[part]}
                  /\ telemetry.position # None => marker = telemetry.position
                  /\ primary = Buttons \cap {FLIGHT_MODE_TO_COMMAND(telemetry.mode)}
                  /\ error = None)
=============================================================================
