------------------------------- MODULE Video --------------------------------
(***************************************************************************)
(* Detection on the drone's video: video.js, with the asynchronous side of *)
(* the function net.js gives it (what that function computes is NetExec's  *)
(* business).                                                              *)
(*                                                                         *)
(* processFrame is an asynchronous function that asks for its own next     *)
(* call.  An activation is one call of it from the animation frame to the  *)
(* end; between two awaits it is one step.  Nothing catches what it throws:*)
(* a call that fails asks for no other.                                    *)
(*                                                                         *)
(* WebRTC, the media element and WebGPU are modelled by what video.js sees *)
(* of them.                                                                *)
(***************************************************************************)
EXTENDS Integers

CONSTANTS
    Activations,  \* bound: calls of processFrame that may be under way
    Dims,         \* sizes the video may have, [w, h]
    Sizes,        \* sizes the video element may have on the page, [w, h]
    Places,       \* where something is in a frame, in fractions of Parts
    Parts,
    Rates,        \* what one over the time between two frames may be
    FpsEvery      \* 10: samples after which the rate is shown

modelInputSize == 640
Pair == [w : Nat \ {0}, h : Nat \ {0}]

ASSUME VideoAssumption ==
    /\ Activations # {} /\ Dims \subseteq Pair /\ Sizes \subseteq Pair
    /\ Parts \in Nat \ {0} /\ FpsEvery \in Nat /\ Rates \subseteq Nat
    /\ Places \subseteq [x : 0..Parts, y : 0..Parts]

VARIABLES
    peer,       \* where main() is
    track,      \* the track event has been handled
    media,      \* readyState of the video, and whether its size is known
    dims,       \* videoWidth and videoHeight
    canvas,     \* size of the canvas
    scheduled,  \* calls of processFrame the browser has still to make
    act,        \* the calls under way
    offscreen,  \* geometry of the picture on offscreenCanvas
    net,        \* the network is loaded
    loading,    \* "Loading model" is on the page
    writeBuf,   \* gpuWriteBuffer0
    readBuf,    \* gpuReadBuffer0
    meter,      \* the frame rate: lastCalledTime is set, accumFps,
                \* frameCounter and, as a fraction, fps; seen is history:
                \* the terms of accumFps, or of fps when frameCounter is 0
    drawn       \* the box on the canvas, and what it stands for

mediaVars == <<media, dims>>
gpuVars == <<net, loading, writeBuf, readBuf>>
videoVars == <<peer, track, mediaVars, canvas, scheduled, act, offscreen, gpuVars,
               meter, drawn>>

(* Mutant: the smaller side is stretched to the picture. *)
MutGeometry(d) ==
    LET wide == d.w > d.h
        width == IF wide THEN (modelInputSize * d.w) \div d.h ELSE modelInputSize
        height == IF wide THEN modelInputSize ELSE (modelInputSize * d.h) \div d.w
    IN [w |-> width, h |-> height,
        x |-> (modelInputSize - width) \div 2, y |-> (modelInputSize - height) \div 2]

(* The target rectangle inside the 640 by 640 picture. *)
Geometry(d) ==
    LET wide == d.w > d.h
        width == IF wide THEN modelInputSize ELSE (modelInputSize * d.w) \div d.h
        height == IF wide THEN (modelInputSize * d.h) \div d.w ELSE modelInputSize
    IN [w |-> width, h |-> height,
        x |-> (modelInputSize - width) \div 2, y |-> (modelInputSize - height) \div 2]

NoGeometry == [w |-> 0, h |-> 0, x |-> 0, y |-> 0]
Quiet == [pc |-> "idle", geo |-> NoGeometry, input |-> NoGeometry]
NoBox == [place |-> [x |-> 0, y |-> 0], at |-> [x |-> 0, y |-> 0],
          canvas |-> [w |-> 300, h |-> 150]]

VideoInit ==
    /\ peer = "offer" /\ track = FALSE
    /\ media = "none" /\ dims \in Dims /\ canvas = [w |-> 300, h |-> 150]
    /\ scheduled = 0 /\ act = [a \in Activations |-> Quiet] /\ offscreen = NoGeometry
    /\ net = FALSE /\ loading = TRUE /\ writeBuf = "unmapped" /\ readBuf = "unmapped"
    /\ meter = [started |-> FALSE, accum |-> 0, counter |-> 0, seen |-> {},
                fps |-> [sum |-> 0, terms |-> 0]]
    /\ drawn = NoBox

-----------------------------------------------------------------------------
(* main(): createOffer, setLocalDescription, the POST of the offer, its    *)
(* text, setRemoteDescription.  Any of them may fail, and that is the end. *)
Stages == <<"offer", "local", "post", "text", "remote", "done">>

Negotiate ==
    /\ \E i \in 1..5 : peer = Stages[i] /\ peer' \in {Stages[i + 1], "failed"}
    /\ UNCHANGED <<track, mediaVars, canvas, scheduled, act, offscreen, gpuVars, meter, drawn>>

(* The one transceiver that was offered has one track, which is announced  *)
(* when the answer is applied.  ontrack is set just before.                *)
OnTrack ==
    /\ peer \in {"remote", "done"} /\ ~track /\ track' = TRUE
    /\ scheduled' = scheduled + 1
    /\ UNCHANGED <<peer, mediaVars, canvas, act, offscreen, gpuVars, meter, drawn>>

LoadedMetadata ==
    /\ track /\ media = "none" /\ media' = "metadata"
    /\ dims' \in Dims /\ canvas' \in Sizes
    /\ UNCHANGED <<peer, track, scheduled, act, offscreen, gpuVars, meter, drawn>>

(* Data arrives or stays away, and the sender may change its resolution.   *)
MediaChanges ==
    /\ media # "none" /\ media' \in {"metadata", "ready"} /\ dims' \in Dims
    /\ UNCHANGED <<peer, track, canvas, scheduled, act, offscreen, gpuVars, meter, drawn>>

-----------------------------------------------------------------------------
(* processFrame. *)
AnimationFrame(a) ==
    /\ scheduled > 0 /\ act[a].pc = "idle"
    /\ scheduled' = scheduled - 1
    /\ act' = [act EXCEPT ![a].pc = "frame"]
    /\ UNCHANGED <<peer, track, mediaVars, canvas, offscreen, gpuVars, meter, drawn>>

(* Mutant: a video that is not ready ends the loop. *)
MutNotReady(a) ==
    /\ act[a].pc = "frame" /\ media # "ready"
    /\ act' = [act EXCEPT ![a] = Quiet]
    /\ UNCHANGED <<peer, track, mediaVars, canvas, scheduled, offscreen, gpuVars, meter, drawn>>

NotReady(a) ==
    /\ act[a].pc = "frame" /\ media # "ready"
    /\ scheduled' = scheduled + 1
    /\ act' = [act EXCEPT ![a] = Quiet]
    /\ UNCHANGED <<peer, track, mediaVars, canvas, offscreen, gpuVars, meter, drawn>>

(* Mutant: the sum is divided by the counter as it was tested. *)
MutMeasured(rate) ==
    LET sum == meter.accum + rate
        seen == {rate} \cup (IF meter.counter = 0 THEN {} ELSE meter.seen)
    IN IF ~meter.started THEN [meter EXCEPT !.started = TRUE]
       ELSE IF meter.counter >= FpsEvery
       THEN [meter EXCEPT !.accum = 0, !.counter = 0, !.seen = seen,
                          !.fps = [sum |-> sum, terms |-> meter.counter]]
       ELSE [meter EXCEPT !.accum = sum, !.counter = @ + 1, !.seen = seen]

(* The first frame has no sample.  frameCounter++ >= 10 is tested before   *)
(* the increment, and accumFps divided after it; then both start again.    *)
Measured(rate) ==
    LET sum == meter.accum + rate
        seen == {rate} \cup (IF meter.counter = 0 THEN {} ELSE meter.seen)
    IN IF ~meter.started THEN [meter EXCEPT !.started = TRUE]
       ELSE IF meter.counter >= FpsEvery
       THEN [meter EXCEPT !.accum = 0, !.counter = 0, !.seen = seen,
                          !.fps = [sum |-> sum, terms |-> meter.counter + 1]]
       ELSE [meter EXCEPT !.accum = sum, !.counter = @ + 1, !.seen = seen]

(* prepareInput reads the pixels, and net() asks for gpuWriteBuffer0; to   *)
(* ask for a buffer that is mapped or asked for already is an error.       *)
CallNet(a, geo, pixels) ==
    IF writeBuf = "unmapped"
    THEN /\ act' = [act EXCEPT ![a] = [pc |-> "staging", geo |-> geo, input |-> pixels]]
         /\ writeBuf' = "pending"
    ELSE act' = [act EXCEPT ![a].pc = "clash"] /\ UNCHANGED writeBuf

(* Mutant: the next call is asked for before the detection. *)
MutReady(a) ==
    LET geo == Geometry(dims)
    IN /\ act[a].pc = "frame" /\ media = "ready"
       /\ scheduled' = scheduled + 1
       /\ (\E rate \in Rates : meter' = Measured(rate)) /\ offscreen' = geo
       /\ IF net THEN CallNet(a, geo, geo)
          ELSE /\ act' = [act EXCEPT ![a].pc = "device", ![a].geo = geo]
               /\ UNCHANGED writeBuf
       /\ UNCHANGED <<peer, track, mediaVars, canvas, net, loading, readBuf, drawn>>

(* The frame is drawn on offscreenCanvas.  The first frame has to load the *)
(* network; the others read the pixels back at once.                       *)
Ready(a) ==
    LET geo == Geometry(dims)
    IN /\ act[a].pc = "frame" /\ media = "ready"
       /\ (\E rate \in Rates : meter' = Measured(rate)) /\ offscreen' = geo
       /\ IF net THEN CallNet(a, geo, geo)
          ELSE /\ act' = [act EXCEPT ![a].pc = "device", ![a].geo = geo]
               /\ UNCHANGED writeBuf
       /\ UNCHANGED <<peer, track, mediaVars, canvas, scheduled, net, loading, readBuf, drawn>>

getDevice(a) ==
    /\ act[a].pc = "device"
    /\ act' = [act EXCEPT ![a].pc = "load"]
    /\ UNCHANGED <<peer, track, mediaVars, canvas, scheduled, offscreen, gpuVars, meter, drawn>>

load(a) ==
    /\ act[a].pc = "load"
    /\ net' = TRUE /\ loading' = FALSE
    /\ CallNet(a, act[a].geo, offscreen)
    /\ UNCHANGED <<peer, track, mediaVars, canvas, scheduled, offscreen, readBuf, meter, drawn>>

(* gpuWriteBuffer0 is mapped: it is filled and unmapped, the commands are  *)
(* submitted, and gpuReadBuffer0 is asked for.                             *)
Submit(a) ==
    /\ act[a].pc = "staging"
    /\ writeBuf' = "unmapped"
    /\ IF readBuf = "unmapped"
       THEN act' = [act EXCEPT ![a].pc = "reading"] /\ readBuf' = "pending"
       ELSE act' = [act EXCEPT ![a].pc = "clash"] /\ UNCHANGED readBuf
    /\ UNCHANGED <<peer, track, mediaVars, canvas, scheduled, offscreen, net, loading,
                   meter, drawn>>

(* Where the network sees something that is at p in the frame of which it  *)
(* was given the pixels.                                                   *)
Seen(p, pixels) ==
    [x |-> pixels.x + (pixels.w * p.x) \div Parts, y |-> pixels.y + (pixels.h * p.y) \div Parts]

(* Mutant: drawBoxes forgets the offsets. *)
MutAdjusted(at, geo) == [x |-> (at.x * canvas.w) \div geo.w, y |-> (at.y * canvas.h) \div geo.h]

(* drawBoxes, for a corner of a box. *)
Adjusted(at, geo) ==
    [x |-> ((at.x - geo.x) * canvas.w) \div geo.w, y |-> ((at.y - geo.y) * canvas.h) \div geo.h]

(* Mutant: gpuReadBuffer0 stays mapped. *)
MutDraw(a, p) ==
    /\ act[a].pc = "reading"
    /\ readBuf' = "mapped"
    /\ drawn' = [place |-> p, at |-> Adjusted(Seen(p, act[a].input), act[a].geo),
                 canvas |-> canvas]
    /\ scheduled' = scheduled + 1
    /\ act' = [act EXCEPT ![a] = Quiet]
    /\ UNCHANGED <<peer, track, mediaVars, canvas, offscreen, net, loading, writeBuf, meter>>

(* The result is copied, the boxes are drawn, and the next call is asked   *)
(* for.                                                                    *)
Draw(a, p) ==
    /\ act[a].pc = "reading"
    /\ readBuf' = "unmapped"
    /\ drawn' = [place |-> p, at |-> Adjusted(Seen(p, act[a].input), act[a].geo),
                 canvas |-> canvas]
    /\ scheduled' = scheduled + 1
    /\ act' = [act EXCEPT ![a] = Quiet]
    /\ UNCHANGED <<peer, track, mediaVars, canvas, offscreen, net, loading, writeBuf, meter>>

(* There is no WebGPU (wgpuError is null, for the page has no such         *)
(* element), no adapter or no device, the weights are not found, or the    *)
(* device is lost: the call throws and asks for no other.                  *)
Throw(a) ==
    /\ act[a].pc \in {"device", "load", "staging", "reading"}
    /\ act' = [act EXCEPT ![a].pc = "dead"]
    /\ UNCHANGED <<peer, track, mediaVars, canvas, scheduled, offscreen, gpuVars, meter, drawn>>

-----------------------------------------------------------------------------
VideoNext ==
    \/ Negotiate \/ OnTrack \/ LoadedMetadata \/ MediaChanges
    \/ \E a \in Activations :
        \/ AnimationFrame(a) \/ NotReady(a) \/ Ready(a) \/ getDevice(a) \/ load(a)
        \/ Submit(a) \/ (\E p \in Places : Draw(a, p)) \/ Throw(a)

VideoSpec == VideoInit /\ [][VideoNext]_videoVars

(***************************************************************************)
(* The page is visible, so animation frames come; the browser and the GPU  *)
(* answer.  Nothing is assumed of the sender and of the network.           *)
(***************************************************************************)
VideoFairness ==
    /\ WF_videoVars(\E a \in Activations : AnimationFrame(a))
    /\ \A a \in Activations :
         /\ WF_videoVars(NotReady(a) \/ Ready(a)) /\ WF_videoVars(getDevice(a))
         /\ WF_videoVars(load(a)) /\ WF_videoVars(Submit(a))
         /\ WF_videoVars(\E p \in Places : Draw(a, p))

VideoFairSpec == VideoSpec /\ VideoFairness

-----------------------------------------------------------------------------
Busy(a) == act[a].pc # "idle"
Inside == [w : 0..modelInputSize, h : 0..modelInputSize,
           x : 0..modelInputSize, y : 0..modelInputSize]

Meter == [started : BOOLEAN, accum : Nat, counter : 0..FpsEvery,
          seen : SUBSET Rates, fps : [sum : Nat, terms : Nat]]

(* Types: the rectangle of a frame lies in the 640 by 640 picture. *)
VideoTypeOK ==
    /\ peer \in {"offer", "local", "post", "text", "remote", "done", "failed"}
    /\ track \in BOOLEAN /\ media \in {"none", "metadata", "ready"}
    /\ dims \in Dims /\ canvas \in Pair /\ scheduled \in Nat
    /\ act \in [Activations -> [pc : {"idle", "frame", "device", "load", "staging",
                                      "reading", "dead", "clash"},
                                geo : Inside, input : Inside]]
    /\ offscreen \in Inside
    /\ net \in BOOLEAN /\ loading \in BOOLEAN
    /\ writeBuf \in {"unmapped", "pending", "mapped"}
    /\ readBuf \in {"unmapped", "pending", "mapped"}
    /\ meter \in Meter

(* One call of processFrame is under way or asked for, never two: the      *)
(* next one is asked for when all of the last one is done.                 *)
OneAtATime ==
    /\ scheduled <= 1 /\ (scheduled = 1 => \A a \in Activations : ~Busy(a))
    /\ \A a, b \in Activations : Busy(a) /\ Busy(b) => a = b

(* No buffer is asked for while it is mapped or asked for: NetExec may     *)
(* assume that inferences do not overlap.                                  *)
NoMapClash == \A a \in Activations : act[a].pc # "clash"

(* A box is drawn at the fraction of the canvas at which the thing is in   *)
(* the frame, although size and resolution of the video may have changed   *)
(* while the network was loading or computing.                             *)
DrawnWhereSeen ==
    /\ drawn.at.x * Parts = drawn.place.x * drawn.canvas.w
    /\ drawn.at.y * Parts = drawn.place.y * drawn.canvas.h

(* The page computes with fractions, this model with integers: the two     *)
(* agree where the divisions come out even, and no frame is so narrow that *)
(* nothing of it is left in the picture.                                   *)
NoRounding ==
    \A d \in Dims, size \in Sizes, p \in Places :
        LET geo == Geometry(d)
            Even(side, part, length) ==
                /\ side > 0
                /\ (side * part) % Parts = 0
                /\ (((side * part) \div Parts) * length) % side = 0
        IN Even(geo.w, p.x, size.w) /\ Even(geo.h, p.y, size.h)

(* The rate on the page is not slower than the slowest and not faster than *)
(* the fastest of the frames it was taken from: accumFps starts again      *)
(* whenever frameCounter does, and is divided by the number of its terms.  *)
RateWithinSamples ==
    meter.counter = 0 /\ meter.fps.terms > 0
        => \E slow, fast \in meter.seen :
              /\ slow * meter.fps.terms <= meter.fps.sum
              /\ meter.fps.sum <= fast * meter.fps.terms

(* As long as no call throws, a video that is ready for good has boxes     *)
(* drawn again and again, however long it was not ready before.            *)
KeepsDetecting ==
    (/\ <>[](track /\ media = "ready")
     /\ [](\A a \in Activations : act[a].pc # "dead"))
        => /\ []<>(\E a \in Activations : act[a].pc = "reading")
           /\ []<>(scheduled = 1)
=============================================================================
