----------------------------- MODULE VideoProofs ----------------------------
(* Proofs about the frame loop, for any video and any number of calls that *)
(* could be under way.                                                     *)
EXTENDS Video, TLAPS

Picture == 0..modelInputSize

(* A side that is scaled down stays inside the picture. *)
LEMMA Scaled ==
    ASSUME NEW a \in Nat \ {0}, NEW b \in Nat \ {0}, a <= b
    PROVE  (modelInputSize * a) \div b \in Picture
<1> DEFINE q == (640 * a) \div b
<1>1. q \in Int /\ b * q <= 640 * a /\ 640 * a < b * q + b
  OBVIOUS
<1>2. 640 * a <= 640 * b
  OBVIOUS
<1> HIDE DEF q
<1>3. q >= 0
  <2>1. SUFFICES ASSUME q <= -1 PROVE FALSE
    BY <1>1
  <2>2. b * q <= b * (-1)
    BY <1>1, <2>1
  <2>3. QED BY <1>1, <2>2
<1>4. q <= 640
  <2>1. SUFFICES ASSUME q >= 641 PROVE FALSE
    BY <1>1
  <2>2. b * 641 <= b * q
    BY <1>1, <2>1
  <2>3. QED BY <1>1, <1>2, <2>2
<1>5. QED BY <1>1, <1>3, <1>4 DEF q, modelInputSize, Picture

(* Half of what a rectangle leaves of the picture is inside the picture. *)
LEMMA Margin == ASSUME NEW n \in Picture PROVE (modelInputSize - n) \div 2 \in Picture
BY DEF Picture, modelInputSize

(* A frame of any size is drawn inside the picture. *)
LEMMA GeometryInside == ASSUME NEW d \in Pair PROVE Geometry(d) \in Inside
<1>1. d.w \in Nat \ {0} /\ d.h \in Nat \ {0}
  BY DEF Pair
<1>2. modelInputSize \in Picture
  BY DEF modelInputSize, Picture
<1>3. CASE d.w > d.h
  <2>1. (modelInputSize * d.h) \div d.w \in Picture
    BY <1>1, <1>3, Scaled
  <2>2. QED BY <1>2, <1>3, <2>1, Margin DEF Geometry, Inside, Picture
<1>4. CASE ~(d.w > d.h)
  <2>1. (modelInputSize * d.w) \div d.h \in Picture
    BY <1>1, <1>4, Scaled
  <2>2. QED BY <1>2, <1>4, <2>1, Margin DEF Geometry, Inside, Picture
<1>5. QED BY <1>3, <1>4

(* So is none. *)
LEMMA NoGeometryInside == NoGeometry \in Inside
BY DEF NoGeometry, Inside, modelInputSize

-----------------------------------------------------------------------------
(***************************************************************************)
(* The inductive invariant: nothing runs before the track event, and a     *)
(* buffer that is not free belongs to the one call that is under way, or   *)
(* to one that has thrown.                                                 *)
(***************************************************************************)
NothingBeforeTrack == ~track => scheduled = 0 /\ \A a \in Activations : ~Busy(a)

BuffersHaveOwner ==
    /\ writeBuf # "unmapped" => \E a \in Activations : act[a].pc \in {"staging", "dead"}
    /\ readBuf # "unmapped" => \E a \in Activations : act[a].pc \in {"reading", "dead"}

VideoInv ==
    /\ VideoTypeOK /\ OneAtATime /\ NothingBeforeTrack /\ BuffersHaveOwner /\ NoMapClash

(* The steps of a call, seen from the loop. *)
CallStep(a) ==
    \/ AnimationFrame(a) \/ NotReady(a) \/ Ready(a) \/ getDevice(a) \/ load(a)
    \/ Submit(a) \/ (\E p \in Places : Draw(a, p)) \/ Throw(a)

(* The steps of the page, grouped. *)
LEMMA VideoSteps ==
    [VideoNext]_videoVars
      <=> \/ Negotiate \/ OnTrack \/ LoadedMetadata \/ MediaChanges
          \/ (\E a \in Activations : CallStep(a)) \/ UNCHANGED videoVars
BY DEF VideoNext, CallStep

(* While a call is under way, both buffers it will ask for are free. *)
LEMMA BuffersFree ==
    ASSUME VideoInv, NEW a \in Activations, act[a].pc \notin {"idle", "dead"}
    PROVE  /\ act[a].pc # "staging" => writeBuf = "unmapped"
           /\ act[a].pc # "reading" => readBuf = "unmapped"
BY DEF VideoInv, OneAtATime, BuffersHaveOwner, Busy

(* A sample keeps the type of the meter. *)
LEMMA MeasuredType ==
    ASSUME meter \in Meter, NEW rate \in Rates
    PROVE  Measured(rate) \in Meter
<1>1. rate \in Nat /\ FpsEvery \in Nat
  BY VideoAssumption DEF VideoAssumption
<1>2. /\ meter.started \in BOOLEAN /\ meter.accum \in Nat
      /\ meter.counter \in 0..FpsEvery /\ meter.seen \in SUBSET Rates
      /\ meter.fps \in [sum : Nat, terms : Nat]
  BY DEF Meter
<1>3. CASE ~meter.started
  BY <1>2, <1>3 DEF Measured, Meter
<1> DEFINE seen == {rate} \cup (IF meter.counter = 0 THEN {} ELSE meter.seen)
           shown == [sum |-> meter.accum + rate, terms |-> meter.counter + 1]
<1>4. seen \in SUBSET Rates /\ shown \in [sum : Nat, terms : Nat] /\ 0 \in 0..FpsEvery
  BY <1>1, <1>2
<1>5. CASE meter.started /\ meter.counter >= FpsEvery
  <2>1. Measured(rate) = [meter EXCEPT !.accum = 0, !.counter = 0, !.seen = seen,
                                       !.fps = shown]
    BY <1>5, Zenon DEF Measured
  <2>2. 0 \in Nat
    OBVIOUS
  <2> HIDE DEF seen, shown
  <2> QED
    BY <1>2, <1>4, <2>1, <2>2, Zenon DEF Meter
<1>6. CASE meter.started /\ ~(meter.counter >= FpsEvery)
  <2>1. Measured(rate) = [meter EXCEPT !.accum = meter.accum + rate,
                                       !.counter = meter.counter + 1, !.seen = seen]
    BY <1>6, Zenon DEF Measured
  <2>2. meter.accum + rate \in Nat /\ meter.counter + 1 \in 0..FpsEvery
    BY <1>1, <1>2, <1>6
  <2> HIDE DEF seen, shown
  <2> QED
    BY <1>2, <1>4, <2>1, <2>2 DEF Meter
<1> QED
  BY <1>2, <1>3, <1>5, <1>6

(* Every step keeps the types. *)
LEMMA TypeStep ==
    ASSUME VideoInv, [VideoNext]_videoVars
    PROVE  VideoTypeOK'
<1> USE VideoAssumption, NoGeometryInside DEF VideoTypeOK, mediaVars, gpuVars, videoVars
<1>0. VideoTypeOK
  BY DEF VideoInv
<1>1. CASE Negotiate
  BY <1>0, <1>1 DEF Negotiate, Stages
<1>2. CASE OnTrack
  BY <1>0, <1>2 DEF OnTrack
<1>3. CASE LoadedMetadata \/ MediaChanges
  BY <1>0, <1>3 DEF LoadedMetadata, MediaChanges
<1>4. ASSUME NEW a \in Activations, AnimationFrame(a) \/ getDevice(a) \/ Throw(a)
      PROVE  VideoTypeOK'
  BY <1>0, <1>4 DEF AnimationFrame, getDevice, Throw
<1>5. ASSUME NEW a \in Activations, NotReady(a) PROVE VideoTypeOK'
  BY <1>0, <1>5 DEF NotReady, Quiet
<1>6. ASSUME NEW a \in Activations, Ready(a) PROVE VideoTypeOK'
  <2>1. Geometry(dims) \in Inside
    BY <1>0, GeometryInside
  <2>2. meter' \in Meter
    <3>1. meter \in Meter
      BY <1>0
    <3>2. PICK rate \in Rates : meter' = Measured(rate)
      BY <1>6 DEF Ready
    <3>3. QED BY <3>1, <3>2, MeasuredType
  <2>3. QED BY <1>0, <1>6, <2>1, <2>2 DEF Ready, CallNet
<1>7. ASSUME NEW a \in Activations, load(a) PROVE VideoTypeOK'
  <2>1. act[a].geo \in Inside /\ offscreen \in Inside
    BY <1>0
  <2>2. /\ act' \in [Activations -> [pc : {"idle", "frame", "device", "load", "staging",
                                          "reading", "dead", "clash"},
                                    geo : Inside, input : Inside]]
        /\ writeBuf' \in {"unmapped", "pending", "mapped"}
    BY <1>0, <1>7, <2>1 DEF load, CallNet
  <2>3. QED BY <1>0, <1>7, <2>2 DEF load
<1>8. ASSUME NEW a \in Activations, Submit(a) PROVE VideoTypeOK'
  BY <1>0, <1>8 DEF Submit
<1>9. ASSUME NEW a \in Activations, NEW p \in Places, Draw(a, p) PROVE VideoTypeOK'
  BY <1>0, <1>9 DEF Draw, Quiet
<1>10. CASE UNCHANGED videoVars
  BY <1>0, <1>10
<1>11. QED
  BY <1>1, <1>2, <1>3, <1>4, <1>5, <1>6, <1>7, <1>8, <1>9, <1>10, VideoSteps DEF CallStep

(* What is not of types. *)
LoopInv == OneAtATime /\ NothingBeforeTrack /\ BuffersHaveOwner /\ NoMapClash

(* Every step keeps the loop single and its buffers owned. *)
LEMMA LoopStep ==
    ASSUME VideoInv, [VideoNext]_videoVars
    PROVE  LoopInv'
<1> USE DEF LoopInv, OneAtATime, NothingBeforeTrack, BuffersHaveOwner, NoMapClash, Busy,
            mediaVars, gpuVars, videoVars
<1>0. LoopInv /\ scheduled \in Nat /\ track \in BOOLEAN /\ DOMAIN act = Activations
      /\ \A a \in Activations : DOMAIN act[a] = {"pc", "geo", "input"}
  BY DEF VideoInv, VideoTypeOK
<1>1. CASE Negotiate \/ LoadedMetadata \/ MediaChanges \/ UNCHANGED videoVars
  BY <1>0, <1>1 DEF Negotiate, LoadedMetadata, MediaChanges
<1>2. CASE OnTrack
  BY <1>0, <1>2 DEF OnTrack
<1>3. ASSUME NEW a \in Activations, AnimationFrame(a) PROVE LoopInv'
  <2>1. scheduled = 1 /\ scheduled' = 0 /\ track /\ track' = track
    BY <1>0, <1>3 DEF AnimationFrame
  <2>2. \A b \in Activations : act'[b].pc = IF b = a THEN "frame" ELSE "idle"
    BY <1>0, <1>3, <2>1 DEF AnimationFrame
  <2>3. writeBuf' = "unmapped" /\ readBuf' = "unmapped"
    BY <1>0, <1>3, <2>1 DEF AnimationFrame
  <2>4. QED BY <2>1, <2>2, <2>3
<1>4. ASSUME NEW a \in Activations, CallStep(a), ~AnimationFrame(a) PROVE LoopInv'
  <2>1. act[a].pc \notin {"idle", "dead", "clash"}
    BY <1>4, <1>0 DEF CallStep, NotReady, Ready, getDevice, load, Submit, Draw, Throw
  <2>2. \A b \in Activations : b # a => act[b].pc = "idle"
    BY <1>0, <2>1
  <2>3. scheduled = 0 /\ track
    BY <1>0, <2>1
  <2>4. /\ act[a].pc # "staging" => writeBuf = "unmapped"
        /\ act[a].pc # "reading" => readBuf = "unmapped"
    BY <2>1, BuffersFree
  <2>5. \A b \in Activations : b # a => act'[b].pc = "idle"
    BY <1>0, <1>4, <2>2 DEF CallStep, NotReady, Ready, getDevice, load, Submit, Draw, Throw, CallNet
  <2>6. track' = track
    BY <1>4 DEF CallStep, NotReady, Ready, getDevice, load, Submit, Draw, Throw
  <2>7. \/ scheduled' = 1 /\ act'[a].pc = "idle" /\ writeBuf' = "unmapped" /\ readBuf' = "unmapped"
        \/ /\ scheduled' = 0 /\ act'[a].pc \notin {"idle", "clash"}
           /\ writeBuf' # "unmapped" => act'[a].pc \in {"staging", "dead"}
           /\ readBuf' # "unmapped" => act'[a].pc \in {"reading", "dead"}
    <3>1. CASE NotReady(a)
      BY <1>0, <2>3, <2>4, <3>1 DEF NotReady, Quiet
    <3>2. CASE Ready(a)
      BY <1>0, <2>3, <2>4, <3>2 DEF Ready, CallNet
    <3>3. CASE getDevice(a)
      BY <1>0, <2>3, <2>4, <3>3 DEF getDevice
    <3>4. CASE load(a)
      BY <1>0, <2>3, <2>4, <3>4 DEF load, CallNet
    <3>5. CASE Submit(a)
      BY <1>0, <2>3, <2>4, <3>5 DEF Submit
    <3>6. ASSUME NEW p \in Places, Draw(a, p)
          PROVE  scheduled' = 1 /\ act'[a].pc = "idle" /\ writeBuf' = "unmapped"
                   /\ readBuf' = "unmapped"
      BY <1>0, <2>3, <2>4, <3>6 DEF Draw, Quiet
    <3>7. CASE Throw(a)
      BY <1>0, <2>3, <3>7 DEF Throw
    <3>8. QED BY <1>4, <3>1, <3>2, <3>3, <3>4, <3>5, <3>6, <3>7 DEF CallStep
  <2>8. QED BY <2>3, <2>5, <2>6, <2>7
<1>5. QED BY <1>1, <1>2, <1>3, <1>4, VideoSteps

(* The page starts without a call. *)
LEMMA VideoInitInv == VideoInit => VideoInv
<1>1. SUFFICES ASSUME VideoInit PROVE VideoInv
  OBVIOUS
<1>2. VideoTypeOK
  <2>1. Quiet \in [pc : {"idle", "frame", "device", "load", "staging", "reading", "dead",
                         "clash"}, geo : Inside, input : Inside]
    BY NoGeometryInside DEF Quiet
  <2>2. meter \in Meter
    BY <1>1, VideoAssumption DEF VideoInit, Meter
  <2>3. canvas \in Pair /\ scheduled \in Nat
    BY <1>1 DEF VideoInit, Pair
  <2>4. QED BY <1>1, <2>1, <2>2, <2>3, NoGeometryInside DEF VideoInit, VideoTypeOK
<1>3. OneAtATime /\ NothingBeforeTrack /\ BuffersHaveOwner /\ NoMapClash
  BY <1>1 DEF VideoInit, OneAtATime, NothingBeforeTrack, BuffersHaveOwner, NoMapClash, Busy, Quiet
<1>4. QED BY <1>2, <1>3 DEF VideoInv

(* The invariant is inductive. *)
LEMMA VideoStepInv == VideoInv /\ [VideoNext]_videoVars => VideoInv'
BY TypeStep, LoopStep DEF VideoInv, LoopInv

(* The page's variables keep their types: the rectangle a frame is drawn   *)
(* in lies in the picture for every size of the video.                     *)
THEOREM VideoTypes == VideoSpec => []VideoTypeOK
<1>1. VideoInv => VideoTypeOK
  BY DEF VideoInv
<1>2. QED BY <1>1, VideoInitInv, VideoStepInv, PTL DEF VideoSpec

(* processFrame never runs twice at a time, whatever fails and however     *)
(* long the network takes to load.                                         *)
THEOREM OneCallAtATime == VideoSpec => []OneAtATime
<1>1. VideoInv => OneAtATime
  BY DEF VideoInv
<1>2. QED BY <1>1, VideoInitInv, VideoStepInv, PTL DEF VideoSpec

(* net() finds both of its staging buffers free. *)
THEOREM BuffersNeverClash == VideoSpec => []NoMapClash
<1>1. VideoInv => NoMapClash
  BY DEF VideoInv
<1>2. QED BY <1>1, VideoInitInv, VideoStepInv, PTL DEF VideoSpec

-----------------------------------------------------------------------------
(***************************************************************************)
(* Where boxes are drawn: the pixels the network was given were read from  *)
(* a frame of the geometry drawBoxes uses, also when the network had to be *)
(* loaded in between, and the canvas has got its size before any frame.    *)
(***************************************************************************)
Fitted(geo) == \E d \in Dims : geo = Geometry(d)

Framed ==
    /\ \A a \in Activations :
          /\ act[a].pc \in {"device", "load"} =>
                act[a].geo = offscreen /\ Fitted(offscreen)
          /\ act[a].pc \in {"staging", "reading"} =>
                act[a].input = act[a].geo /\ Fitted(act[a].geo)
          /\ act[a].pc \in {"device", "load", "staging", "reading"} => media # "none"
    /\ media # "none" => canvas \in Sizes

(* The steps of one call leave the others alone. *)
LEMMA FramedStep ==
    ASSUME VideoInv, Framed, [VideoNext]_videoVars
    PROVE  Framed'
<1> USE DEF mediaVars, gpuVars, videoVars
<1>0. /\ dims \in Dims /\ DOMAIN act = Activations
      /\ \A a \in Activations : DOMAIN act[a] = {"pc", "geo", "input"}
  BY DEF VideoInv, VideoTypeOK
<1>1. CASE Negotiate \/ OnTrack \/ UNCHANGED videoVars
  BY <1>1 DEF Negotiate, OnTrack, Framed
<1>2. CASE LoadedMetadata \/ MediaChanges
  BY <1>2 DEF LoadedMetadata, MediaChanges, Framed
<1>3. ASSUME NEW a \in Activations, AnimationFrame(a) PROVE Framed'
  BY <1>0, <1>3 DEF AnimationFrame, Framed
<1>4. ASSUME NEW a \in Activations, getDevice(a) PROVE Framed'
  BY <1>0, <1>4 DEF getDevice, Framed
<1>5. ASSUME NEW a \in Activations, Throw(a) PROVE Framed'
  BY <1>0, <1>5 DEF Throw, Framed
<1>6. ASSUME NEW a \in Activations, Submit(a) PROVE Framed'
  BY <1>0, <1>6 DEF Submit, Framed
<1>7. ASSUME NEW a \in Activations, NotReady(a) PROVE Framed'
  BY <1>0, <1>7 DEF NotReady, Quiet, Framed
<1>8. ASSUME NEW a \in Activations, NEW p \in Places, Draw(a, p) PROVE Framed'
  BY <1>0, <1>8 DEF Draw, Quiet, Framed
<1>9. ASSUME NEW a \in Activations, Ready(a) PROVE Framed'
  <2> DEFINE geo == Geometry(dims)
  <2>1. Fitted(geo)
    BY <1>0 DEF Fitted
  <2> HIDE DEF geo
  <2>2. /\ act[a].pc = "frame" /\ media = "ready" /\ offscreen' = geo
        /\ UNCHANGED <<media, canvas>>
        /\ \/ act' = [act EXCEPT ![a] = [pc |-> "staging", geo |-> geo, input |-> geo]]
           \/ act' = [act EXCEPT ![a].pc = "clash"]
           \/ act' = [act EXCEPT ![a].pc = "device", ![a].geo = geo]
    BY <1>9 DEF Ready, CallNet, geo
  <2>3. \A b \in Activations : b # a => act'[b] = act[b] /\ act[b].pc = "idle"
    <3>1. \A b \in Activations : b # a => act[b].pc = "idle"
      BY <2>2 DEF VideoInv, OneAtATime, Busy
    <3> QED
      BY <1>0, <2>2, <3>1
  <2>4. \/ act'[a].pc = "clash"
        \/ act'[a].pc = "device" /\ act'[a].geo = geo
        \/ act'[a].pc = "staging" /\ act'[a].geo = geo /\ act'[a].input = geo
    BY <1>0, <2>2
  <2>5. Framed'
    BY <2>1, <2>2, <2>3, <2>4 DEF Framed, Fitted
  <2> QED
    BY <2>5
<1>10. ASSUME NEW a \in Activations, load(a) PROVE Framed'
  <2>1. /\ act[a].pc = "load" /\ UNCHANGED <<media, canvas, offscreen>>
        /\ \/ act' = [act EXCEPT ![a] = [pc |-> "staging", geo |-> act[a].geo,
                                         input |-> offscreen]]
           \/ act' = [act EXCEPT ![a].pc = "clash"]
    BY <1>10 DEF load, CallNet
  <2>2. act[a].geo = offscreen /\ Fitted(offscreen) /\ media # "none"
    BY <2>1 DEF Framed
  <2>3. \A b \in Activations : b # a => act'[b] = act[b]
    BY <1>0, <2>1
  <2>4. \/ act'[a].pc = "clash"
        \/ act'[a].pc = "staging" /\ act'[a].geo = offscreen /\ act'[a].input = offscreen
    BY <1>0, <2>1, <2>2
  <2> QED
    BY <2>1, <2>2, <2>3, <2>4 DEF Framed, Fitted
<1> QED
  BY <1>1, <1>2, <1>3, <1>4, <1>5, <1>6, <1>7, <1>8, <1>9, <1>10, VideoSteps DEF CallStep

(* Scaled down into the picture and up again, a fraction stays what it is. *)
LEMMA ThereAndBack ==
    ASSUME NEW side \in Nat \ {0}, NEW part \in Nat, NEW length \in Nat, NEW x \in Int,
           (side * part) % Parts = 0,
           (((side * part) \div Parts) * length) % side = 0
    PROVE  ((((x + (side * part) \div Parts) - x) * length) \div side) * Parts = part * length
<1> DEFINE q == (side * part) \div Parts
           r == (q * length) \div side
<1>0. Parts \in Nat \ {0}
  BY VideoAssumption DEF VideoAssumption
<1>1. q \in Int /\ q * Parts = side * part
  BY <1>0
<1>2. (x + q) - x = q
  BY <1>1
<1> HIDE DEF q
<1>3. q * length \in Int
  BY <1>1
<1>4. r \in Int /\ r * side = q * length
  <2> DEFINE n == q * length
  <2>1. n \in Int /\ n % side = 0
    BY <1>3 DEF q
  <2> HIDE DEF n
  <2>2. (n \div side) \in Int /\ (n \div side) * side = n
    BY <2>1
  <2> QED
    BY <2>2 DEF n
<1> HIDE DEF r
<1>5. side * (r * Parts) = side * (part * length)
  <2>1. side * (r * Parts) = (r * side) * Parts
    BY <1>0, <1>4
  <2>2. (r * side) * Parts = (q * Parts) * length
    BY <1>0, <1>1, <1>4
  <2>3. (q * Parts) * length = side * (part * length)
    BY <1>1
  <2> QED
    BY <2>1, <2>2, <2>3
<1>6. r * Parts = part * length
  <2> DEFINE u == r * Parts
             v == part * length
  <2>1. u \in Int /\ v \in Int /\ side * u = side * v
    BY <1>0, <1>4, <1>5
  <2> HIDE DEF u, v
  <2>2. u = v
    BY <2>1
  <2> QED
    BY <2>2 DEF u, v
<1> QED
  BY <1>2, <1>6, Zenon DEF q, r

(* What Draw puts on the canvas. *)
LEMMA DrawPlace ==
    ASSUME NoRounding, VideoInv, Framed, NEW a \in Activations, NEW p \in Places,
           Draw(a, p)
    PROVE  DrawnWhereSeen'
<1>1. /\ act[a].pc = "reading" /\ drawn'.place = p /\ drawn'.canvas = canvas
      /\ drawn'.at = Adjusted(Seen(p, act[a].input), act[a].geo)
  BY DEF Draw
<1>2. act[a].input = act[a].geo /\ Fitted(act[a].geo) /\ canvas \in Sizes
  BY <1>1 DEF Framed
<1>3. PICK d \in Dims : act[a].geo = Geometry(d)
  BY <1>2 DEF Fitted
<1> DEFINE g == Geometry(d)
<1>4. /\ drawn'.at.x = (((g.x + (g.w * p.x) \div Parts) - g.x) * canvas.w) \div g.w
      /\ drawn'.at.y = (((g.y + (g.h * p.y) \div Parts) - g.y) * canvas.h) \div g.h
  BY <1>1, <1>2, <1>3 DEF Adjusted, Seen
<1>5. g.w \in Nat /\ g.h \in Nat /\ g.x \in Int /\ g.y \in Int
  <2>1. g \in Inside
    BY VideoAssumption, GeometryInside DEF VideoAssumption
  <2> QED
    BY <2>1 DEF Inside
<1>6. p.x \in Nat /\ p.y \in Nat /\ canvas.w \in Nat /\ canvas.h \in Nat
  BY <1>2, VideoAssumption DEF VideoAssumption, Pair
<1>7. /\ g.w > 0 /\ (g.w * p.x) % Parts = 0
      /\ (((g.w * p.x) \div Parts) * canvas.w) % g.w = 0
      /\ g.h > 0 /\ (g.h * p.y) % Parts = 0
      /\ (((g.h * p.y) \div Parts) * canvas.h) % g.h = 0
  BY <1>2, Zenon DEF NoRounding
<1> HIDE DEF g
<1>8. g.w \in Nat \ {0} /\ g.h \in Nat \ {0}
  BY <1>5, <1>7
<1>9. drawn'.at.x * Parts = p.x * canvas.w
  <2>1. PICK side \in Nat \ {0}, part \in Nat, length \in Nat, x \in Int :
           side = g.w /\ part = p.x /\ length = canvas.w /\ x = g.x
    BY <1>5, <1>6, <1>8
  <2>2. /\ (side * part) % Parts = 0
        /\ (((side * part) \div Parts) * length) % side = 0
    BY <1>7, <2>1
  <2>3. ((((x + (side * part) \div Parts) - x) * length) \div side) * Parts
           = part * length
    BY <2>2, ThereAndBack
  <2> QED
    BY <1>4, <2>1, <2>3
<1>10. drawn'.at.y * Parts = p.y * canvas.h
  <2>1. PICK side \in Nat \ {0}, part \in Nat, length \in Nat, x \in Int :
           side = g.h /\ part = p.y /\ length = canvas.h /\ x = g.y
    BY <1>5, <1>6, <1>8
  <2>2. /\ (side * part) % Parts = 0
        /\ (((side * part) \div Parts) * length) % side = 0
    BY <1>7, <2>1
  <2>3. ((((x + (side * part) \div Parts) - x) * length) \div side) * Parts
           = part * length
    BY <2>2, ThereAndBack
  <2> QED
    BY <1>4, <2>1, <2>3
<1> QED
  BY <1>1, <1>9, <1>10 DEF DrawnWhereSeen

(* The inductive invariant of the drawing. *)
DrawInv == VideoInv /\ Framed /\ DrawnWhereSeen

(* A step that does not draw leaves the boxes where they are. *)
LEMMA DrawStepInv ==
    NoRounding /\ DrawInv /\ [VideoNext]_videoVars => DrawInv'
<1> SUFFICES ASSUME NoRounding, DrawInv, [VideoNext]_videoVars PROVE DrawInv'
  OBVIOUS
<1>1. VideoInv' /\ Framed'
  BY VideoStepInv, FramedStep DEF DrawInv
<1>2. DrawnWhereSeen'
  <2>1. CASE drawn' = drawn
    BY <2>1 DEF DrawInv, DrawnWhereSeen
  <2>2. ASSUME NEW a \in Activations, NEW p \in Places, Draw(a, p)
        PROVE  DrawnWhereSeen'
    BY <2>2, DrawPlace DEF DrawInv
  <2>3. drawn' = drawn \/ \E a \in Activations, p \in Places : Draw(a, p)
    BY DEF VideoNext, videoVars, Negotiate, OnTrack, LoadedMetadata, MediaChanges,
           AnimationFrame, NotReady, Ready, getDevice, load, Submit, Throw
  <2> QED
    BY <2>1, <2>2, <2>3
<1> QED
  BY <1>1, <1>2 DEF DrawInv

(* A box is drawn where the thing is in the frame, for all sizes of the    *)
(* video and of the page, whatever changes while the network loads and     *)
(* computes.                                                               *)
THEOREM BoxesInPlace == ASSUME NoRounding PROVE VideoSpec => []DrawnWhereSeen
<1>1. VideoInit => DrawInv
  <2> SUFFICES ASSUME VideoInit PROVE DrawInv
    OBVIOUS
  <2>1. Framed
    BY DEF VideoInit, Framed, Quiet
  <2>2. DrawnWhereSeen
    <3>1. /\ drawn.at.x = 0 /\ drawn.at.y = 0 /\ drawn.place.x = 0
          /\ drawn.place.y = 0 /\ drawn.canvas.w = 300 /\ drawn.canvas.h = 150
      BY DEF VideoInit, NoBox
    <3>2. Parts \in Nat
      BY VideoAssumption DEF VideoAssumption
    <3> QED
      BY <3>1, <3>2 DEF DrawnWhereSeen
  <2> QED
    BY <2>1, <2>2, VideoInitInv DEF DrawInv
<1>2. DrawInv => DrawnWhereSeen
  BY DEF DrawInv
<1>3. DrawInv /\ [VideoNext]_videoVars => DrawInv'
  BY DrawStepInv
<1> QED
  BY <1>1, <1>2, <1>3, PTL DEF VideoSpec

(***************************************************************************)
(* Why the rate on the page is one of its samples' range: so is the sum    *)
(* under way, and it is empty whenever the counter is 0.                   *)
(***************************************************************************)
Between(sum, terms, S) ==
    \E slow, fast \in S : slow * terms <= sum /\ sum <= fast * terms

MeterInv ==
    /\ meter \in Meter
    /\ meter.counter > 0 => Between(meter.accum, meter.counter, meter.seen)
    /\ meter.counter = 0 => meter.accum = 0
    /\ meter.counter = 0 /\ meter.fps.terms > 0
          => Between(meter.fps.sum, meter.fps.terms, meter.seen)

(* One term more widens the range to that term, and no further. *)
LEMMA OneMore ==
    ASSUME NEW S \in SUBSET Nat, NEW sum \in Nat, NEW terms \in Nat,
           Between(sum, terms, S), NEW rate \in Nat
    PROVE  Between(sum + rate, terms + 1, {rate} \cup S)
<1>1. PICK slow \in S, fast \in S : slow * terms <= sum /\ sum <= fast * terms
  BY DEF Between
<1>2. slow \in Nat /\ fast \in Nat
  OBVIOUS
<1>3. \A x, y \in Nat : x <= y => x * terms <= y * terms
  OBVIOUS
<1>4. PICK low \in {rate} \cup S : low \in Nat /\ low <= slow /\ low <= rate
  BY <1>2
<1>5. PICK high \in {rate} \cup S : high \in Nat /\ fast <= high /\ rate <= high
  BY <1>2
<1>6. low * terms <= slow * terms /\ fast * terms <= high * terms
  BY <1>2, <1>3, <1>4, <1>5
<1>7. /\ low * (terms + 1) = low * terms + low
      /\ high * (terms + 1) = high * terms + high
      /\ low * terms \in Nat /\ high * terms \in Nat
      /\ slow * terms \in Nat /\ fast * terms \in Nat
  BY <1>2, <1>4, <1>5
<1>8. /\ low * (terms + 1) <= sum + rate
      /\ sum + rate <= high * (terms + 1)
  BY <1>1, <1>4, <1>5, <1>6, <1>7
<1> QED
  BY <1>4, <1>5, <1>8 DEF Between

(* A sample keeps the sum within the range of its terms. *)
LEMMA MeterStep ==
    ASSUME MeterInv, NEW rate \in Rates, meter' = Measured(rate)
    PROVE  MeterInv'
<1>1. rate \in Nat /\ FpsEvery \in Nat /\ Rates \subseteq Nat
  BY VideoAssumption DEF VideoAssumption
<1>2. /\ meter.started \in BOOLEAN /\ meter.accum \in Nat
      /\ meter.counter \in 0..FpsEvery /\ meter.seen \in SUBSET Rates
      /\ meter.fps \in [sum : Nat, terms : Nat] /\ meter \in Meter
  BY DEF Meter, MeterInv
<1>3. meter' \in Meter
  BY <1>2, MeasuredType
<1> DEFINE seen == {rate} \cup (IF meter.counter = 0 THEN {} ELSE meter.seen)
<1>4. Between(meter.accum + rate, meter.counter + 1, seen)
  <2>1. CASE meter.counter = 0
    <3>1. meter.accum = 0 /\ seen = {rate}
      BY <2>1 DEF MeterInv
    <3>2. rate * (0 + 1) = 0 + rate
      BY <1>1
    <3> QED
      BY <1>1, <2>1, <3>1, <3>2 DEF Between
  <2>2. CASE meter.counter # 0
    <3>1. Between(meter.accum, meter.counter, meter.seen) /\ meter.counter \in Nat
      BY <1>1, <1>2, <2>2 DEF MeterInv
    <3>2. meter.seen \in SUBSET Nat /\ seen = {rate} \cup meter.seen
      BY <1>1, <1>2, <2>2
    <3> QED
      BY <1>1, <1>2, <3>1, <3>2, OneMore
  <2> QED
    BY <2>1, <2>2
<1> HIDE DEF seen
<1>5. CASE ~meter.started
  <2>1. /\ meter'.accum = meter.accum /\ meter'.counter = meter.counter
        /\ meter'.seen = meter.seen /\ meter'.fps = meter.fps
    BY <1>2, <1>5 DEF Measured, Meter
  <2> QED
    BY <1>3, <2>1 DEF MeterInv
<1>6. CASE meter.started /\ meter.counter >= FpsEvery
  <2>1. /\ meter'.accum = 0 /\ meter'.counter = 0 /\ meter'.seen = seen
        /\ meter'.fps.sum = meter.accum + rate
        /\ meter'.fps.terms = meter.counter + 1
    BY <1>2, <1>6 DEF Measured, Meter, seen
  <2> QED
    BY <1>3, <1>4, <2>1 DEF MeterInv
<1>7. CASE meter.started /\ ~(meter.counter >= FpsEvery)
  <2>1. /\ meter'.accum = meter.accum + rate /\ meter'.counter = meter.counter + 1
        /\ meter'.seen = seen
    BY <1>2, <1>7 DEF Measured, Meter, seen
  <2>2. meter'.counter # 0
    BY <1>2, <2>1
  <2> QED
    BY <1>3, <1>4, <2>1, <2>2 DEF MeterInv
<1> QED
  BY <1>2, <1>5, <1>6, <1>7

(* However many frames there are, and however fast, the rate shown lies    *)
(* between the slowest and the fastest of the frames it was taken from.    *)
THEOREM RateIsMean == VideoSpec => []RateWithinSamples
<1>1. VideoInit => MeterInv
  BY VideoAssumption DEF VideoInit, VideoAssumption, MeterInv, Meter
<1>2. MeterInv /\ [VideoNext]_videoVars => MeterInv'
  <2> SUFFICES ASSUME MeterInv, [VideoNext]_videoVars PROVE MeterInv'
    OBVIOUS
  <2>1. meter' = meter \/ \E rate \in Rates : meter' = Measured(rate)
    BY DEF VideoNext, videoVars, Negotiate, OnTrack, LoadedMetadata, MediaChanges,
           AnimationFrame, NotReady, Ready, getDevice, load, Submit, Throw, Draw
  <2>2. CASE meter' = meter
    BY <2>2 DEF MeterInv
  <2> QED
    BY <2>1, <2>2, MeterStep
<1>3. MeterInv => RateWithinSamples
  BY DEF MeterInv, RateWithinSamples, Between
<1> QED
  BY <1>1, <1>2, <1>3, PTL DEF VideoSpec
=============================================================================
