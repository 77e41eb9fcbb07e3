---------------------------- MODULE MCDashboard -----------------------------
(* Three places on a line, of which the map shows two at a time. *)
EXTENDS Dashboard

CONSTANTS Here, There

MCHeaders == {[words |-> 2, signed |-> TRUE, issuer |-> "Cherum"]}
MCSnapshots ==
    {[position |-> Here, mode |-> "HOLD", armed |-> "yes"],
     [position |-> There, mode |-> "LAND", armed |-> None],
     [position |-> None, mode |-> "TAKEOFF", armed |-> "no"]}
MCNear ==
    [p \in {Here, There, Origin, DefaultView} |->
        CASE p = Here -> {Here, Origin} [] p = Origin -> {Here, Origin}
          [] p = There -> {There} [] OTHER -> {}]
=============================================================================
