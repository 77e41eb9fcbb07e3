----------------------------- MODULE YoloGraph ------------------------------
(***************************************************************************)
(* What net.js is to compute of a picture, as a graph: the detector YOLOv8 *)
(* in its smallest size, as the names of its weights tell it, the anchors  *)
(* of its three heads decoded to boxes, and the choice of at most 300 of   *)
(* them.  A node names the planes it is computed of.                       *)
(***************************************************************************)
EXTENDS Tensors, SortNetwork

Node(name, op, arg, of) == [node |-> name, op |-> op, arg |-> arg, of |-> of]

Image == Planes("image", 3)

Half(planes) == SubSeq(planes, Len(planes) \div 2 + 1, Len(planes))

Layer(name, k, step, x) == Node(name, "conv", <<k, step>>, <<x>>)

(***************************************************************************)
(* A C2f block of c planes on x: a convolution, n bottlenecks one after    *)
(* the other on the second half of what it gives, and a convolution of all *)
(* of these.  With a shortcut a bottleneck adds what it started from.      *)
(***************************************************************************)
C2f(b, x, c, n, shortcut) ==
    LET First == Planes(b \o ".cv1", c)
        Bottle(i, part) == b \o ".bottleneck." \o ToString(i) \o part
        Start(i) == IF i = 0 THEN Half(First)
                             ELSE Planes(Bottle(i - 1, ".cv2"), c \div 2)
        Mid(i) == Planes(Bottle(i, ".cv1"), c \div 2)
        Ends == [i \in 1..n |-> Start(i)]
    IN {Layer(b \o ".cv1", 1, 1, x),
        Layer(b \o ".cv2", 1, 1, First \o FlattenSeq(Ends))}
       \cup {Layer(Bottle(i, ".cv1"), 3, 1, Start(i)) : i \in 0..(n - 1)}
       \cup {IF shortcut
             THEN Node(Bottle(i, ".cv2"), "convAdd", <<3, 1>>, <<Start(i), Mid(i)>>)
             ELSE Layer(Bottle(i, ".cv2"), 3, 1, Mid(i)) : i \in 0..(n - 1)}

(* Pooling over 5, 9 and 13 places, by pooling up to three times. *)
Sppf(b, x) ==
    LET First == Planes(b \o ".cv1", 128)
        Once == Through(First, MaxPool)
        Twice == Through(Once, MaxPool)
    IN {Layer(b \o ".cv1", 1, 1, x),
        Layer(b \o ".cv2", 1, 1, First \o Once \o Twice \o Through(Twice, MaxPool))}

Small == Planes("net.b2.2.cv2", 64)     \* 80 x 80
Middle == Planes("net.b3.1.cv2", 128)   \* 40 x 40
Large == Planes("net.b5.0.cv2", 256)    \* 20 x 20

Backbone ==
    {Layer("net.b1.0", 3, 2, Image),
     Layer("net.b1.1", 3, 2, Planes("net.b1.0", 16)),
     Layer("net.b2.1", 3, 2, Planes("net.b2.0.cv2", 32)),
     Layer("net.b3.0", 3, 2, Small),
     Layer("net.b4.0", 3, 2, Middle)}
    \cup C2f("net.b2.0", Planes("net.b1.1", 32), 32, 1, TRUE)
    \cup C2f("net.b2.2", Planes("net.b2.1", 64), 64, 2, TRUE)
    \cup C2f("net.b3.1", Planes("net.b3.0", 128), 128, 2, TRUE)
    \cup C2f("net.b4.1", Planes("net.b4.0", 256), 256, 1, TRUE)
    \cup Sppf("net.b5.0", Planes("net.b4.1.cv2", 256))

(* Down from the coarsest maps to the finest, and up again. *)
Pyramid ==
    LET Down == Planes("fpn.n1.cv2", 128)
        Fine == Planes("fpn.n2.cv2", 64)
    IN C2f("fpn.n1", Through(Large, Upsample) \o Middle, 128, 1, FALSE)
       \cup C2f("fpn.n2", Through(Down, Upsample) \o Small, 64, 1, FALSE)
       \cup {Layer("fpn.n3", 3, 2, Fine)}
       \cup C2f("fpn.n4", Planes("fpn.n3", 64) \o Down, 128, 1, FALSE)
       \cup {Layer("fpn.n5", 3, 2, Planes("fpn.n4.cv2", 128))}
       \cup C2f("fpn.n6", Planes("fpn.n5", 128) \o Large, 256, 1, FALSE)

(* On each of the three maps, the distances to the sides and the classes. *)
HeadOn(i, x) ==
    UNION {LET name == "head." \o cv \o "." \o i
           IN {Layer(name \o ".0", 3, 1, x),
               Layer(name \o ".1", 3, 1, Planes(name \o ".0", 64)),
               Node(name \o ".2", "linear", <<>>, <<Planes(name \o ".1", 64)>>)}
           : cv \in {"cv2", "cv3"}}

Distances == [i \in 1..3 |-> Planes("head.cv2." \o ToString(i - 1) \o ".2", 64)]
Classes == [i \in 1..3 |-> Planes("head.cv3." \o ToString(i - 1) \o ".2", 59)]

(* What one value per anchor, or another single plane, is computed of. *)
Of(name, args) == Node(name, name, <<>>, args)
One(name) == Planes(name, 1)
Sorted == [One("padded") EXCEPT ![1].by = SortSteps(14)]
Anchors == <<One("anchors80"), One("anchors40"), One("anchors20")>>

Decoder ==
    {Of(name, <<>>) : name \in {"anchors80", "anchors40", "anchors20",
                                "stride", "classRank", "index"}}
    \cup {Of("binMax", Distances), Of("scores", Classes),
          Of("binSum", Distances \o <<Planes("binMax", 4)>>),
          Of("dfl", Distances \o <<Planes("binMax", 4), Planes("binSum", 4)>>),
          Of("best", <<Planes("scores", 59)>>),
          Of("confident", <<One("best")>>),
          Of("class", <<Planes("scores", 59), One("best"), One("classRank")>>)}
    \cup {Of(name, Anchors \o <<Planes("dfl", 4)>>) : name \in {"centre", "size"}}
    \cup {Of(name, <<Planes("centre", 2), Planes("size", 2), One("stride")>>) :
            name \in {"x1", "y1", "x2", "y2"}}
    \cup {Of("rows", <<One("x1"), One("y1"), One("x2"), One("y2"),
                       One("confident"), One("class")>>)}

(* The scores sorted, the anchors in that order, the first 300 of them. *)
Choice ==
    {Of("padded", <<One("confident")>>),
     Of("rank", <<One("index"), One("confident")>>),
     Of("sortedRank", <<One("index"), Sorted>>),
     Of("order", <<One("confident"), Sorted, One("rank"), One("sortedRank"),
                   One("index")>>),
     Of("top", <<One("order")>>),
     Of("topRows", <<One("rows"), One("top"), One("index")>>),
     Of("area", <<One("topRows")>>),
     Of("keep", <<One("topRows"), One("area")>>),
     Of("output", <<One("topRows"), One("keep")>>)}

Graph ==
    Backbone \cup Pyramid
    \cup HeadOn("0", Planes("fpn.n2.cv2", 64))
    \cup HeadOn("1", Planes("fpn.n4.cv2", 128))
    \cup HeadOn("2", Planes("fpn.n6.cv2", 256))
    \cup Decoder \cup Choice

NodeNames == {x.node : x \in Graph}

(* The nodes whose planes x is computed of. *)
Needs(x) == UNION {{x.of[i][j].of : j \in DOMAIN x.of[i]} : i \in DOMAIN x.of} \ {"image"}
=============================================================================
