----------------------------- MODULE NetKernels -----------------------------
(***************************************************************************)
(* The compute kernels of net.js, under their own names: which operands a  *)
(* kernel takes and in which shape, what it computes of them, and which    *)
(* elements of its output its invocations store.                           *)
(*                                                                         *)
(* The numbers themselves are left out, the layout is not: a kernel that   *)
(* reads planes 16..31 of 32 is told apart from one that reads 0..15.      *)
(***************************************************************************)
EXTENDS Integers, Sequences, FiniteSetsExt

(***************************************************************************)
(* Stores.  The index an invocation stores at is linear in its workgroup,  *)
(* in its place there and in the unrolled stores, so it is a number in     *)
(* mixed radix: a digit is a pair <<stride, extent>>.  group has the       *)
(* strides of the workgroup's coordinates, whose extents the dispatch      *)
(* gives; within has the other digits.  Where one lane of a workgroup      *)
(* stores for all of them (those that use workgroup memory), the lanes are *)
(* no digit.                                                               *)
(***************************************************************************)
Tile(group, within) == [group |-> group, within |-> within]

Digits(tile, grid) ==
    [i \in DOMAIN grid |->
        <<IF i \in DOMAIN tile.group THEN tile.group[i] ELSE 0, grid[i]>>]
    \o tile.within

(* The digits reach each index of 0..(n-1), and each of them once. *)
Covers(digits, n) ==
    LET D == {i \in DOMAIN digits : digits[i][2] > 1}
        Extents(S) == MapThenFoldSet(LAMBDA x, y : x * y, 1,
                                     LAMBDA i : digits[i][2],
                                     LAMBDA T : CHOOSE i \in T : TRUE, S)
    IN /\ \A i \in D :
            digits[i][1] = Extents({j \in D \ {i} : digits[j][1] <= digits[i][1]})
       /\ Extents(D) = n

(***************************************************************************)
(* Operands.  Of a tensor of total planes with n values each a kernel uses *)
(* count planes from first on; grow is the factor it repeats rows and      *)
(* columns by.                                                             *)
(***************************************************************************)
Slice(total, first, count, side) ==
    [total |-> total, first |-> first, count |-> count, n |-> side * side, grow |-> 1]
Maps(count, side) == Slice(count, 0, count, side)
Grown(count, side) == [Maps(count, side) EXCEPT !.grow = 2]
Rows(count, n) == [total |-> count, first |-> 0, count |-> count, n |-> n, grow |-> 1]
Each == Rows(1, 8400)
Heads(c) == <<Maps(c, 80), Maps(c, 40), Maps(c, 20)>>

(***************************************************************************)
(* Kernels.  Of reads the kernel makes planes planes of n values; params   *)
(* are the weights it takes, by what they are and their number of values.  *)
(***************************************************************************)
Kernel(op, arg, reads, params, planes, n, tile) ==
    [op |-> op, arg |-> arg, reads |-> reads, params |-> params,
     planes |-> planes, n |-> n, tile |-> tile]

BatchNorm(weights, c) ==
    <<<<"conv.weight", weights>>, <<"bn.running_mean", c>>, <<"bn.weight", c>>,
      <<"bn.running_var", c>>, <<"bn.bias", c>>>>

(* k by k convolution of x to c planes, every step-th place, then batch    *)
(* normalisation and SiLU.                                                 *)
Conv(k, step, x, c, tile) ==
    Kernel("conv", <<k, step>>, <<x>>, BatchNorm(c * x.count * k * k, c),
           c, x.n \div (step * step), tile)

(* The same with step 1, and the shortcut added. *)
ConvAdd(k, shortcut, x, c, tile) ==
    Kernel("convAdd", <<k, 1>>, <<shortcut, x>>, BatchNorm(c * x.count * k * k, c),
           c, x.n, tile)

(* 1 by 1 convolution with a bias, as the last layer of a head. *)
Linear(x, c, tile) ==
    Kernel("linear", <<>>, <<x>>, <<<<"weight", c * x.count>>, <<"bias", c>>>>,
           c, x.n, tile)

(* The operands one after the other. *)
Cat(parts, tile) ==
    Kernel("cat", <<>>, parts, <<>>,
           MapThenSumSet(LAMBDA i : parts[i].count, DOMAIN parts),
           parts[1].n * parts[1].grow * parts[1].grow, tile)

(* 5 by 5 maximum, with zeros around the picture. *)
Pool(x, tile) == Kernel("pool", <<5>>, <<x>>, <<>>, x.count, x.n, tile)

(* A node of the decoder; MakeWith takes the weights of the distribution. *)
Make(node, reads, planes, n, tile) == Kernel(node, <<>>, reads, <<>>, planes, n, tile)
MakeWith(node, reads, planes, n, tile) ==
    Kernel(node, <<>>, reads, <<<<"conv.weight", 16>>>>, planes, n, tile)

(* A step of the sorting network. *)
Sort(kind, distance, tile) ==
    Kernel(kind, <<distance>>, <<Rows(1, 16384)>>, <<>>, 1, 16384, tile)

-----------------------------------------------------------------------------
(* The constants the decoder needs, and the stem (passes 0-7). *)

r_80_16_5 == Make("anchors80", <<>>, 1, 80,
    Tile(<<1>>, <<>>))
r_5_8_10_4 == Make("anchors40", <<>>, 1, 40,
    Tile(<<8>>, <<<<1, 8>>>>))
r_5_4_20 == Make("anchors20", <<>>, 1, 20,
    Tile(<<4>>, <<<<1, 4>>>>))
r_4_40_5_8_16_3_4_4_3_3 == Conv(3, 2, Maps(3, 640), 16,
    Tile(<<64, 2560, 409600>>,
         <<<<320, 8>>, <<4, 16>>, <<1, 4>>, <<102400, 4>>>>))
E_175_16_3 == Make("stride", <<>>, 1, 8400,
    Tile(<<48>>, <<<<3, 16>>, <<1, 3>>>>))
r_59_59 == Make("classRank", <<>>, 1, 59,
    Tile(<<1>>, <<>>))
r_175_16_2100_3_4 == Make("index", <<>>, 1, 8400,
    Tile(<<48>>, <<<<3, 16>>, <<1, 3>>>>))
r_8_10_5_16_8_16_4_4_3_3 == Conv(3, 2, Maps(16, 320), 32,
    Tile(<<32, 2560, 102400>>,
         <<<<160, 16>>, <<4, 8>>, <<1, 4>>, <<25600, 4>>>>))
-----------------------------------------------------------------------------
(* Backbone (passes 8-40). *)

r_400_8_16_4_4_32 == Conv(1, 1, Maps(32, 160), 32,
    Tile(<<64>>, <<<<102400, 8>>, <<4, 16>>, <<1, 4>>, <<25600, 4>>>>))
(* Mutant: the bottleneck starts from the first half of the planes. *)
MutFirstHalf == Conv(3, 1, Slice(32, 0, 16, 160), 16,
    Tile(<<32, 2560, 102400>>,
         <<<<160, 16>>, <<4, 8>>, <<1, 4>>, <<25600, 4>>>>))
r_4_10_5_16_8_16_4_4_3_3 == Conv(3, 1, Slice(32, 16, 16, 160), 16,
    Tile(<<32, 2560, 102400>>,
         <<<<160, 16>>, <<4, 8>>, <<1, 4>>, <<25600, 4>>>>))
r_4_10_5_16_8_16_4_4_3_3n1 ==
    ConvAdd(3, Slice(32, 16, 16, 160), Maps(16, 160), 16,
    Tile(<<32, 2560, 102400>>,
         <<<<160, 16>>, <<4, 8>>, <<1, 4>>, <<25600, 4>>>>))
E_6_400_8_16_4 == Cat(<<Maps(32, 160), Maps(16, 160)>>,
    Tile(<<64, 204800>>, <<<<25600, 8>>, <<4, 16>>, <<1, 4>>>>))
r_400_8_16_12_4_4_4 == Conv(1, 1, Maps(48, 160), 32,
    Tile(<<64>>, <<<<102400, 8>>, <<4, 16>>, <<1, 4>>, <<25600, 4>>>>))
r_8_5_5_2_16_4_32_4_4_3_3 == Conv(3, 2, Maps(32, 160), 64,
    Tile(<<16, 1280, 51200>>,
         <<<<25600, 2>>, <<80, 16>>, <<4, 4>>, <<1, 4>>, <<6400, 4>>>>))
r_2_100_8_16_16_4_4_4 == Conv(1, 1, Maps(64, 80), 64,
    Tile(<<64, 204800>>, <<<<25600, 8>>, <<4, 16>>, <<1, 4>>, <<6400, 4>>>>))
r_4_5_5_2_16_4_32_4_4_3_3 == Conv(3, 1, Slice(64, 32, 32, 80), 32,
    Tile(<<16, 1280, 51200>>,
         <<<<25600, 2>>, <<80, 16>>, <<4, 4>>, <<1, 4>>, <<6400, 4>>>>))
r_4_5_5_2_16_4_32_4_4_3_3n1 ==
    ConvAdd(3, Slice(64, 32, 32, 80), Maps(32, 80), 32,
    Tile(<<16, 1280, 51200>>,
         <<<<25600, 2>>, <<80, 16>>, <<4, 4>>, <<1, 4>>, <<6400, 4>>>>))
r_4_5_5_2_16_4_32_4_4_3_3n2 == Conv(3, 1, Maps(32, 80), 32,
    Tile(<<16, 1280, 51200>>,
         <<<<25600, 2>>, <<80, 16>>, <<4, 4>>, <<1, 4>>, <<6400, 4>>>>))
r_4_5_5_2_16_4_32_4_4_3_3n3 == ConvAdd(3, Maps(32, 80), Maps(32, 80), 32,
    Tile(<<16, 1280, 51200>>,
         <<<<25600, 2>>, <<80, 16>>, <<4, 4>>, <<1, 4>>, <<6400, 4>>>>))
E_16_100_8_16_4 == Cat(<<Maps(64, 80), Maps(32, 80), Maps(32, 80)>>,
    Tile(<<64, 51200>>, <<<<6400, 8>>, <<4, 16>>, <<1, 4>>>>))
r_2_100_8_16_32_4_4_4 == Conv(1, 1, Maps(128, 80), 64,
    Tile(<<64, 204800>>, <<<<25600, 8>>, <<4, 16>>, <<1, 4>>, <<6400, 4>>>>))
r_4_5_5_8_8_2_64_4_4_3_3 == Conv(3, 2, Maps(64, 80), 128,
    Tile(<<8, 320, 51200>>,
         <<<<6400, 8>>, <<40, 8>>, <<4, 2>>, <<1, 4>>, <<1600, 4>>>>))
r_4_25_8_16_32_4_4_4 == Conv(1, 1, Maps(128, 40), 128,
    Tile(<<64, 51200>>, <<<<6400, 8>>, <<4, 16>>, <<1, 4>>, <<1600, 4>>>>))
r_2_5_5_8_8_2_64_4_4_3_3 == Conv(3, 1, Slice(128, 64, 64, 40), 64,
    Tile(<<8, 320, 51200>>,
         <<<<6400, 8>>, <<40, 8>>, <<4, 2>>, <<1, 4>>, <<1600, 4>>>>))
r_2_5_5_8_8_2_64_4_4_3_3n1 ==
    ConvAdd(3, Slice(128, 64, 64, 40), Maps(64, 40), 64,
    Tile(<<8, 320, 51200>>,
         <<<<6400, 8>>, <<40, 8>>, <<4, 2>>, <<1, 4>>, <<1600, 4>>>>))
r_2_5_5_8_8_2_64_4_4_3_3n2 == Conv(3, 1, Maps(64, 40), 64,
    Tile(<<8, 320, 51200>>,
         <<<<6400, 8>>, <<40, 8>>, <<4, 2>>, <<1, 4>>, <<1600, 4>>>>))
r_2_5_5_8_8_2_64_4_4_3_3n3 == ConvAdd(3, Maps(64, 40), Maps(64, 40), 64,
    Tile(<<8, 320, 51200>>,
         <<<<6400, 8>>, <<40, 8>>, <<4, 2>>, <<1, 4>>, <<1600, 4>>>>))
E_32_25_8_16_4 == Cat(<<Maps(128, 40), Maps(64, 40), Maps(64, 40)>>,
    Tile(<<64, 12800>>, <<<<1600, 8>>, <<4, 16>>, <<1, 4>>>>))
r_4_25_8_16_64_4_4_4 == Conv(1, 1, Maps(256, 40), 128,
    Tile(<<64, 51200>>, <<<<6400, 8>>, <<4, 16>>, <<1, 4>>, <<1600, 4>>>>))
r_2_5_5_32_4_128_4_4_3_3 == Conv(3, 2, Maps(128, 40), 256,
    Tile(<<4, 80, 51200>>, <<<<1600, 32>>, <<20, 4>>, <<1, 4>>, <<400, 4>>>>))
r_2_25_32_4_64_4_4_4 == Conv(1, 1, Maps(256, 20), 256,
    Tile(<<16, 51200>>, <<<<1600, 32>>, <<4, 4>>, <<1, 4>>, <<400, 4>>>>))
r_5_5_32_4_128_4_4_3_3 == Conv(3, 1, Slice(256, 128, 128, 20), 128,
    Tile(<<4, 80>>, <<<<1600, 32>>, <<20, 4>>, <<1, 4>>, <<400, 4>>>>))
r_5_5_32_4_128_4_4_3_3n1 ==
    ConvAdd(3, Slice(256, 128, 128, 20), Maps(128, 20), 128,
    Tile(<<4, 80>>, <<<<1600, 32>>, <<20, 4>>, <<1, 4>>, <<400, 4>>>>))
E_12_25_32_4_4 == Cat(<<Maps(256, 20), Maps(128, 20)>>,
    Tile(<<16, 12800>>, <<<<400, 32>>, <<4, 4>>, <<1, 4>>>>))
r_2_25_32_4_96_4_4_4 == Conv(1, 1, Maps(384, 20), 256,
    Tile(<<16, 51200>>, <<<<1600, 32>>, <<4, 4>>, <<1, 4>>, <<400, 4>>>>))
r_25_32_4_64_4_4_4 == Conv(1, 1, Maps(256, 20), 128,
    Tile(<<16>>, <<<<1600, 32>>, <<4, 4>>, <<1, 4>>, <<400, 4>>>>))
r_4_5_5_32_4_5_4_5 == Pool(Maps(128, 20),
    Tile(<<4, 80, 12800>>, <<<<400, 32>>, <<20, 4>>, <<1, 4>>>>))
E_16_25_32_4_4 ==
    Cat(<<Maps(128, 20), Maps(128, 20), Maps(128, 20), Maps(128, 20)>>,
    Tile(<<16, 12800>>, <<<<400, 32>>, <<4, 4>>, <<1, 4>>>>))
r_2_25_32_4_128_4_4_4 == Conv(1, 1, Maps(512, 20), 256,
    Tile(<<16, 51200>>, <<<<1600, 32>>, <<4, 4>>, <<1, 4>>, <<400, 4>>>>))
-----------------------------------------------------------------------------
(* Pyramid and heads (passes 41-84). *)

E_48_5_5_8_8_2_4 == Cat(<<Grown(256, 20), Maps(128, 40)>>,
    Tile(<<8, 320, 12800>>, <<<<1600, 8>>, <<40, 8>>, <<4, 2>>, <<1, 4>>>>))
r_4_25_8_16_96_4_4_4 == Conv(1, 1, Maps(384, 40), 128,
    Tile(<<64, 51200>>, <<<<6400, 8>>, <<4, 16>>, <<1, 4>>, <<1600, 4>>>>))
E_24_25_8_16_4 == Cat(<<Maps(128, 40), Maps(64, 40)>>,
    Tile(<<64, 12800>>, <<<<1600, 8>>, <<4, 16>>, <<1, 4>>>>))
r_4_25_8_16_48_4_4_4 == Conv(1, 1, Maps(192, 40), 128,
    Tile(<<64, 51200>>, <<<<6400, 8>>, <<4, 16>>, <<1, 4>>, <<1600, 4>>>>))
E_96_5_5_2_16_4_4 == Cat(<<Grown(128, 40), Maps(64, 80)>>,
    Tile(<<16, 1280, 12800>>, <<<<6400, 2>>, <<80, 16>>, <<4, 4>>, <<1, 4>>>>))
r_2_100_8_16_48_4_4_4 == Conv(1, 1, Maps(192, 80), 64,
    Tile(<<64, 204800>>, <<<<25600, 8>>, <<4, 16>>, <<1, 4>>, <<6400, 4>>>>))
E_12_100_8_16_4 == Cat(<<Maps(64, 80), Maps(32, 80)>>,
    Tile(<<64, 51200>>, <<<<6400, 8>>, <<4, 16>>, <<1, 4>>>>))
r_2_100_8_16_24_4_4_4 == Conv(1, 1, Maps(96, 80), 64,
    Tile(<<64, 204800>>, <<<<25600, 8>>, <<4, 16>>, <<1, 4>>, <<6400, 4>>>>))
r_8_5_5_2_16_4_64_4_4_3_3 == Conv(3, 1, Maps(64, 80), 64,
    Tile(<<16, 1280, 51200>>,
         <<<<25600, 2>>, <<80, 16>>, <<4, 4>>, <<1, 4>>, <<6400, 4>>>>))
r_2_5_5_8_8_2_64_4_4_3_3n4 == Conv(3, 2, Maps(64, 80), 64,
    Tile(<<8, 320, 51200>>,
         <<<<6400, 8>>, <<40, 8>>, <<4, 2>>, <<1, 4>>, <<1600, 4>>>>))
E_24_25_8_16_4n1 == Cat(<<Maps(64, 40), Maps(128, 40)>>,
    Tile(<<64, 12800>>, <<<<1600, 8>>, <<4, 16>>, <<1, 4>>>>))
r_2_100_8_16_16_4_4_4n1 == Linear(Maps(64, 80), 64,
    Tile(<<64, 204800>>, <<<<25600, 8>>, <<4, 16>>, <<1, 4>>, <<6400, 4>>>>))
r_59_100_16_16_4_4 == Linear(Maps(64, 80), 59,
    Tile(<<64, 6400>>, <<<<4, 16>>, <<1, 4>>>>))
r_2_5_5_8_8_2_128_4_4_3_3 == Conv(3, 1, Maps(128, 40), 64,
    Tile(<<8, 320, 51200>>,
         <<<<6400, 8>>, <<40, 8>>, <<4, 2>>, <<1, 4>>, <<1600, 4>>>>))
r_5_5_32_4_128_4_4_3_3n2 == Conv(3, 2, Maps(128, 40), 128,
    Tile(<<4, 80>>, <<<<1600, 32>>, <<20, 4>>, <<1, 4>>, <<400, 4>>>>))
E_12_25_32_4_4n1 == Cat(<<Maps(128, 20), Maps(256, 20)>>,
    Tile(<<16, 12800>>, <<<<400, 32>>, <<4, 4>>, <<1, 4>>>>))
r_2_25_8_16_16_4_4_4 == Linear(Maps(64, 40), 64,
    Tile(<<64, 51200>>, <<<<6400, 8>>, <<4, 16>>, <<1, 4>>, <<1600, 4>>>>))
r_59_25_16_16_4_4 == Linear(Maps(64, 40), 59,
    Tile(<<64, 1600>>, <<<<4, 16>>, <<1, 4>>>>))
r_5_5_32_4_128_4_4_3_3n3 == Conv(3, 1, Maps(128, 20), 128,
    Tile(<<4, 80>>, <<<<1600, 32>>, <<20, 4>>, <<1, 4>>, <<400, 4>>>>))
r_5_5_16_4_256_4_4_3_3 == Conv(3, 1, Maps(256, 20), 64,
    Tile(<<4, 80>>, <<<<1600, 16>>, <<20, 4>>, <<1, 4>>, <<400, 4>>>>))
r_5_5_16_4_64_4_4_3_3 == Conv(3, 1, Maps(64, 20), 64,
    Tile(<<4, 80>>, <<<<1600, 16>>, <<20, 4>>, <<1, 4>>, <<400, 4>>>>))
r_25_16_4_16_4_4_4 == Linear(Maps(64, 20), 64,
    Tile(<<16>>, <<<<1600, 16>>, <<4, 4>>, <<1, 4>>, <<400, 4>>>>))
r_59_25_4_16_4_4 == Linear(Maps(64, 20), 59,
    Tile(<<16, 400>>, <<<<4, 4>>, <<1, 4>>>>))
-----------------------------------------------------------------------------
(* Decoding of the boxes and scores (passes 85-100). *)

r_175_4_16_3_16 == Make("binMax", Heads(64), 4, 8400,
    Tile(<<48>>, <<<<8400, 4>>, <<3, 16>>, <<1, 3>>>>))
E_59_175_16_3 == Make("scores", Heads(59), 59, 8400,
    Tile(<<48, 8400>>, <<<<3, 16>>, <<1, 3>>>>))
r_175_4_16_3_16n1 == Make("binSum", Heads(64) \o <<Rows(4, 8400)>>, 4, 8400,
    Tile(<<48>>, <<<<8400, 4>>, <<3, 16>>, <<1, 3>>>>))
r_175_4_16_3_16n2 ==
    MakeWith("dfl", Heads(64) \o <<Rows(4, 8400), Rows(4, 8400)>>, 4, 8400,
    Tile(<<48>>, <<<<8400, 4>>, <<3, 16>>, <<1, 3>>>>))
E_525_16_2 ==
    Make("centre", <<Rows(1, 80), Rows(1, 40), Rows(1, 20), Rows(4, 8400)>>, 2,
    8400,
    Tile(<<16>>, <<<<1, 16>>, <<8400, 2>>>>))
E_525_16_2n1 ==
    Make("size", <<Rows(1, 80), Rows(1, 40), Rows(1, 20), Rows(4, 8400)>>, 2,
    8400,
    Tile(<<16>>, <<<<1, 16>>, <<8400, 2>>>>))
E_175_16_3n1 == Make("x1", <<Rows(2, 8400), Rows(2, 8400), Each>>, 1, 8400,
    Tile(<<48>>, <<<<3, 16>>, <<1, 3>>>>))
E_175_16_3n2 == Make("y1", <<Rows(2, 8400), Rows(2, 8400), Each>>, 1, 8400,
    Tile(<<48>>, <<<<3, 16>>, <<1, 3>>>>))
E_175_16_3n3 == Make("x2", <<Rows(2, 8400), Rows(2, 8400), Each>>, 1, 8400,
    Tile(<<48>>, <<<<3, 16>>, <<1, 3>>>>))
E_175_16_3n4 == Make("y2", <<Rows(2, 8400), Rows(2, 8400), Each>>, 1, 8400,
    Tile(<<48>>, <<<<3, 16>>, <<1, 3>>>>))
r_175_16_59_3 == Make("best", <<Rows(59, 8400)>>, 1, 8400,
    Tile(<<48>>, <<<<3, 16>>, <<1, 3>>>>))
E_175_16_3n5 == Make("confident", <<Each>>, 1, 8400,
    Tile(<<48>>, <<<<3, 16>>, <<1, 3>>>>))
r_175_16_59_3n1 ==
    Make("class", <<Rows(59, 8400), Each, Rows(1, 59)>>, 1, 8400,
    Tile(<<48>>, <<<<3, 16>>, <<1, 3>>>>))
E_2_2_2_2_2_2_2_2_2_2_2_2_2_2 == Make("padded", <<Each>>, 1, 16384,
    Tile(<<8, 128, 256>>, <<<<4, 2>>, <<2, 2>>, <<1, 2>>, <<512, 32>>>>))
r_175_16_2100_3_4n1 == Make("rank", <<Each, Each>>, 1, 8400,
    Tile(<<48>>, <<<<3, 16>>, <<1, 3>>>>))
E_525_16_6 == Make("rows", <<Each, Each, Each, Each, Each, Each>>, 1, 50400,
    Tile(<<96>>, <<<<6, 16>>, <<1, 6>>>>))
-----------------------------------------------------------------------------
(* Sorting (passes 101-217). *)

E_256_32_2 == Sort("exchange", 1,
    Tile(<<64>>, <<<<2, 32>>, <<1, 2>>>>))
E_64_32_2_2_2 == Sort("mirror", 2,
    Tile(<<256>>, <<<<8, 32>>, <<1, 2>>, <<2, 4>>>>))
E_128_32_2_2 == Sort("exchange", 2,
    Tile(<<128>>, <<<<4, 32>>, <<1, 2>>, <<2, 2>>>>))
E_32_32_4_2_2 == Sort("mirror", 4,
    Tile(<<512>>, <<<<16, 32>>, <<1, 4>>, <<4, 4>>>>))
E_64_32_4_2 == Sort("exchange", 4,
    Tile(<<256>>, <<<<8, 32>>, <<1, 4>>, <<4, 2>>>>))
E_32_16_8_2_2 == Sort("mirror", 8,
    Tile(<<512>>, <<<<32, 16>>, <<1, 8>>, <<8, 4>>>>))
E_64_16_8_2 == Sort("exchange", 8,
    Tile(<<256>>, <<<<16, 16>>, <<1, 8>>, <<8, 2>>>>))
E_32_8_16_2_2 == Sort("mirror", 16,
    Tile(<<512>>, <<<<64, 8>>, <<1, 16>>, <<16, 4>>>>))
E_64_8_16_2 == Sort("exchange", 16,
    Tile(<<256>>, <<<<32, 8>>, <<1, 16>>, <<16, 2>>>>))
E_16_2_8_16_2_2 == Sort("mirror", 32,
    Tile(<<16, 1024>>, <<<<128, 8>>, <<1, 16>>, <<32, 4>>>>))
E_32_2_8_16_2 == Sort("exchange", 32,
    Tile(<<16, 512>>, <<<<64, 8>>, <<1, 16>>, <<32, 2>>>>))
E_8_4_8_16_2_2 == Sort("mirror", 64,
    Tile(<<16, 2048>>, <<<<256, 8>>, <<1, 16>>, <<64, 4>>>>))
E_16_4_8_16_2 == Sort("exchange", 64,
    Tile(<<16, 1024>>, <<<<128, 8>>, <<1, 16>>, <<64, 2>>>>))
E_4_8_8_16_2_2 == Sort("mirror", 128,
    Tile(<<16, 4096>>, <<<<512, 8>>, <<1, 16>>, <<128, 4>>>>))
E_8_8_8_16_2 == Sort("exchange", 128,
    Tile(<<16, 2048>>, <<<<256, 8>>, <<1, 16>>, <<128, 2>>>>))
E_2_16_8_16_2_2 == Sort("mirror", 256,
    Tile(<<16, 8192>>, <<<<1024, 8>>, <<1, 16>>, <<256, 4>>>>))
E_4_16_8_16_2 == Sort("exchange", 256,
    Tile(<<16, 4096>>, <<<<512, 8>>, <<1, 16>>, <<256, 2>>>>))
E_32_8_16_2_2n1 == Sort("mirror", 512,
    Tile(<<16>>, <<<<2048, 8>>, <<1, 16>>, <<512, 4>>>>))
E_2_32_8_16_2 == Sort("exchange", 512,
    Tile(<<16, 8192>>, <<<<1024, 8>>, <<1, 16>>, <<512, 2>>>>))
E_64_4_16_2_2 == Sort("mirror", 1024,
    Tile(<<16>>, <<<<4096, 4>>, <<1, 16>>, <<1024, 4>>>>))
E_64_8_16_2n1 == Sort("exchange", 1024,
    Tile(<<16>>, <<<<2048, 8>>, <<1, 16>>, <<1024, 2>>>>))
E_128_2_16_2_2 == Sort("mirror", 2048,
    Tile(<<16>>, <<<<8192, 2>>, <<1, 16>>, <<2048, 4>>>>))
E_128_4_16_2 == Sort("exchange", 2048,
    Tile(<<16>>, <<<<4096, 4>>, <<1, 16>>, <<2048, 2>>>>))
E_128_32_2_2n1 == Sort("mirror", 4096,
    Tile(<<32>>, <<<<1, 32>>, <<4096, 4>>>>))
E_256_2_16_2 == Sort("exchange", 4096,
    Tile(<<16>>, <<<<8192, 2>>, <<1, 16>>, <<4096, 2>>>>))
E_256_32_2n1 == Sort("fold", 8192,
    Tile(<<32>>, <<<<1, 32>>, <<8192, 2>>>>))
-----------------------------------------------------------------------------
(* Choice of the boxes (passes 218-224). *)

r_175_16_2100_3_4n2 == Make("sortedRank", <<Each, Rows(1, 16384)>>, 1, 8400,
    Tile(<<48>>, <<<<3, 16>>, <<1, 3>>>>))
r_175_16_2100_3_4n3 ==
    Make("order", <<Each, Rows(1, 16384), Each, Each, Each>>, 1, 8400,
    Tile(<<48>>, <<<<3, 16>>, <<1, 3>>>>))
E_25_3_4 == Make("top", <<Each>>, 1, 300,
    Tile(<<12>>, <<<<4, 3>>, <<1, 4>>>>))
r_300_6_16_525 ==
    Make("topRows", <<Rows(1, 50400), Rows(1, 300), Each>>, 1, 1800,
    Tile(<<1, 6>>, <<>>))
E_25_3_4n1 == Make("area", <<Rows(1, 1800)>>, 1, 300,
    Tile(<<12>>, <<<<4, 3>>, <<1, 4>>>>))
r_75_4_75_4 == Make("keep", <<Rows(1, 1800), Rows(1, 300)>>, 1, 300,
    Tile(<<4>>, <<<<1, 4>>>>))
E_75_4_2_3 == Make("output", <<Rows(1, 1800), Rows(1, 300)>>, 1, 1800,
    Tile(<<24>>, <<<<6, 4>>, <<3, 2>>, <<1, 3>>>>))
=============================================================================
