------------------------------ MODULE NetExec -------------------------------
(***************************************************************************)
(* The function setupNet returns, and the GPU that executes the command    *)
(* buffer it submits, pass after pass, on buffers that keep what the last  *)
(* picture left in them.                                                   *)
(*                                                                         *)
(* A pass is sound if its dispatch stores every element of its output      *)
(* once, if the buffer it stores to is none of those it reads, and if the  *)
(* buffers it reads hold tensors of the shapes it takes.  Anything else    *)
(* leaves a torn tensor, which nothing can be computed of.                 *)
(***************************************************************************)
EXTENDS Tensors, NetCommands

CONSTANT MaxFrames  \* bound: calls of the function

VARIABLES
    frame,   \* the number of the call under way, or of the last one
    at,      \* commands the GPU has executed; 0 with none submitted
    staged,  \* the picture in gpuWriteBuffer0
    mem,     \* what the buffers hold, the weights apart
    read,    \* what gpuReadBuffer0 holds
    result,  \* what the last call returned
    made     \* history: the nodes computed in this call, and of what

netVars == <<frame, at, staged, mem, read, result, made>>

Activations == {b \in DOMAIN Buffers : Buffers[b].layer = ""}

(* The commands: the copy to input0, the passes, the copy from output0. *)
Commands == Len(Passes) + 2

Picture(f) == Tensor(Planes("image", 3), 640 * 640, f)

(* The call is back, with a picture's boxes. *)
Idle == at = 0

NetInit ==
    /\ frame = 0 /\ at = 0 /\ staged = 0
    /\ mem = [b \in Activations |-> Torn]
    /\ read = Torn /\ result = Torn
    /\ made = {}

(***************************************************************************)
(* What pass p stores.                                                     *)
(***************************************************************************)
Reads(p) == SubSeq(p.bufs, 2, 1 + Len(p.kernel.reads))
Params(p) == SubSeq(p.bufs, 2 + Len(p.kernel.reads), Len(p.bufs))

Stores(p) ==
    LET k == p.kernel
    IN /\ Covers(Digits(k.tile, p.grid), k.planes * k.n)
       /\ Buffers[p.bufs[1]].n = k.planes * k.n
       /\ p.bufs[1] \notin {Reads(p)[i] : i \in DOMAIN Reads(p)}

Fits(p) ==
    LET k == p.kernel
    IN /\ Len(p.bufs) = 1 + Len(k.reads) + Len(k.params)
       /\ \A i \in DOMAIN k.reads :
            LET t == mem[Reads(p)[i]]
            IN Len(t.planes) = k.reads[i].total /\ t.n = k.reads[i].n
       /\ \A i \in DOMAIN k.params :
            LET w == Buffers[Params(p)[i]]
            IN /\ <<w.part, w.n>> = k.params[i]
               /\ w.layer = Buffers[Params(p)[1]].layer

Sound(p) == Stores(p) /\ Fits(p)

(* The planes the kernel uses of its i-th operand. *)
Operand(p, i) ==
    LET r == p.kernel.reads[i]
        used == SubSeq(mem[Reads(p)[i]].planes, r.first + 1, r.first + r.count)
    IN IF r.grow = 2 THEN Through(used, Upsample) ELSE used

Operands(p) == [i \in DOMAIN p.kernel.reads |-> Operand(p, i)]

(* Moving, pooling and sorting planes is no node of the graph. *)
Moves == {"cat", "pool", "exchange", "mirror", "fold"}

(* A convolution is known by its weights, another node by its kernel. *)
NodeName(p) ==
    IF p.kernel.op \in {"conv", "convAdd", "linear"}
    THEN Buffers[Params(p)[1]].layer ELSE p.kernel.op

Outcome(p) ==
    CASE p.kernel.op = "cat" -> FlattenSeq(Operands(p))
      [] p.kernel.op = "pool" -> Through(Operand(p, 1), MaxPool)
      [] p.kernel.op \in {"exchange", "mirror", "fold"} ->
            Through(Operand(p, 1), <<p.kernel.op, p.kernel.arg[1]>>)
      [] OTHER -> Planes(NodeName(p), p.kernel.planes)

(* The picture its operands belong to; a pass that reads nothing makes     *)
(* constants, which are as good as new.                                    *)
FramesRead(p) == {mem[Reads(p)[i]].frame : i \in DOMAIN Reads(p)}
FrameOf(p) == IF Reads(p) = <<>> THEN frame ELSE CHOOSE f \in FramesRead(p) : TRUE

Stored(p) ==
    IF Sound(p) /\ FramesRead(p) \subseteq {FrameOf(p)}
    THEN Tensor(Outcome(p), p.kernel.n, FrameOf(p))
    ELSE Torn

Computed(p) ==
    IF Stored(p) = Torn \/ Stored(p).frame # frame \/ p.kernel.op \in Moves THEN {}
    ELSE {[node |-> NodeName(p), op |-> p.kernel.op, arg |-> p.kernel.arg, of |-> Operands(p)]}

-----------------------------------------------------------------------------
(* The call up to submit: the picture is written to the mapped buffer, the *)
(* commands are recorded and queued.                                       *)
Submit ==
    /\ Idle /\ frame < MaxFrames
    /\ frame' = frame + 1
    /\ staged' = frame + 1
    /\ at' = 1
    /\ made' = {}
    /\ UNCHANGED <<mem, read, result>>

CopyIn ==
    /\ at = 1
    /\ mem' = [mem EXCEPT ![input0] = Picture(staged)]
    /\ at' = 2
    /\ UNCHANGED <<frame, staged, read, result, made>>

(* One compute pass. *)
RunPass ==
    /\ at \in 2..(Len(Passes) + 1)
    /\ LET p == Passes[at - 1]
       IN /\ mem' = [mem EXCEPT ![p.bufs[1]] = Stored(p)]
          /\ made' = made \cup Computed(p)
    /\ at' = at + 1
    /\ UNCHANGED <<frame, staged, read, result>>

CopyOut ==
    /\ at = Commands
    /\ read' = mem[output0]
    /\ at' = at + 1
    /\ UNCHANGED <<frame, staged, mem, result, made>>

(* mapAsync of gpuReadBuffer0 is resolved when the commands are executed;  *)
(* the call returns a copy.                                                *)
Return ==
    /\ at = Commands + 1
    /\ result' = read
    /\ at' = 0
    /\ UNCHANGED <<frame, staged, mem, read, made>>

NetNext == Submit \/ CopyIn \/ RunPass \/ CopyOut \/ Return

(* The GPU executes what was submitted, and the page goes on calling. *)
NetSpec == NetInit /\ [][NetNext]_netVars /\ WF_netVars(NetNext)

-----------------------------------------------------------------------------
(***************************************************************************)
(* Refinement: whatever buffers the values pass through, each node of the  *)
(* graph is computed once per picture, of the planes the graph names, all  *)
(* of this picture, and the call returns the boxes of the picture it was   *)
(* given: no pass reads a buffer too early, too late, at the wrong planes, *)
(* or as the last picture left it.                                         *)
(***************************************************************************)
G == INSTANCE YoloGraph

Answered(f) == result = Tensor(Planes("output", 1), 1800, f)

Y == INSTANCE Yolo WITH
        shown <- frame,
        done <- {x.node : x \in made \cap G!Graph},
        answered <- IF frame = 0 \/ (Idle /\ Answered(frame)) THEN frame ELSE frame - 1

ImplementsYolo == Y!YoloSpec
=============================================================================
