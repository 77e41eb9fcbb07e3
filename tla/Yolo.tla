-------------------------------- MODULE Yolo --------------------------------
(***************************************************************************)
(* What a call of the network promises: a node is computed when everything *)
(* it is computed of is there, in any order, and the answer is given when  *)
(* all nodes of the picture are.                                           *)
(***************************************************************************)
EXTENDS YoloGraph

CONSTANT MaxFrames  \* bound: pictures

VARIABLES
    shown,     \* the number of the picture that was put in last
    done,      \* the nodes computed of it
    answered   \* the picture the last answer was about

yoloVars == <<shown, done, answered>>

YoloInit == shown = 0 /\ done = {} /\ answered = 0

(* A picture is put in once the one before it is answered. *)
PutIn ==
    /\ answered = shown /\ shown < MaxFrames
    /\ shown' = shown + 1
    /\ done' = {}
    /\ UNCHANGED answered

Compute(x) ==
    /\ answered < shown
    /\ x.node \notin done /\ Needs(x) \subseteq done
    /\ done' = done \cup {x.node}
    /\ UNCHANGED <<shown, answered>>

Answer ==
    /\ answered < shown
    /\ done = NodeNames
    /\ answered' = shown
    /\ UNCHANGED <<shown, done>>

YoloNext == PutIn \/ (\E x \in Graph : Compute(x)) \/ Answer

YoloSpec == YoloInit /\ [][YoloNext]_yoloVars /\ WF_yoloVars(YoloNext)
=============================================================================
