---------------------------- MODULE NetCommands -----------------------------
(***************************************************************************)
(* The buffers setupNet makes and the command buffer the function it       *)
(* returns records for every picture: 225 compute passes on 57 buffers     *)
(* that are used again and again, and 298 buffers of weights.  buf_17 is   *)
(* 17 here; sizes are in 32 bit words.                                     *)
(***************************************************************************)
EXTENDS NetKernels, SortNetwork, TLC

input0 == 353
output0 == 354

(* createEmptyBuf and createWeightBuf: words, and which weights. *)
Empty(bufs, n) == [b \in bufs |-> [n |-> n, layer |-> "", part |-> ""]]
Weight(b, layer, part, n) == b :> [n |-> n, layer |-> layer, part |-> part]

(* The weights of a convolution with batch normalisation, and with a bias. *)
Normed(b, layer, n, c) ==
    Weight(b, layer, "conv.weight", n) @@ Weight(b + 1, layer, "bn.running_mean", c) @@
    Weight(b + 2, layer, "bn.weight", c) @@ Weight(b + 3, layer, "bn.running_var", c) @@
    Weight(b + 4, layer, "bn.bias", c)
Biased(b, layer, n, c) ==
    Weight(b, layer, "weight", n) @@ Weight(b + 1, layer, "bias", c)

StemBuffers ==
    Empty({0}, 80) @@ Empty({1}, 40) @@ Empty({2}, 20) @@
    Empty({3}, 1638400) @@ Empty({input0}, 1228800) @@
    Normed(4, "net.b1.0", 432, 16) @@ Empty({9}, 8400) @@ Empty({10}, 59) @@
    Empty({11}, 8400) @@ Empty({12}, 819200) @@
    Normed(13, "net.b1.1", 4608, 32) @@ Empty({18}, 819200) @@
    Normed(19, "net.b2.0.cv1", 1024, 32) @@ Empty({24}, 409600) @@
    Normed(25, "net.b2.0.bottleneck.0.cv1", 2304, 16) @@ Empty({30}, 409600) @@
    Normed(31, "net.b2.0.bottleneck.0.cv2", 2304, 16) @@
    Empty({36}, 1228800) @@ Normed(37, "net.b2.0.cv2", 1536, 32) @@
    Normed(42, "net.b2.1", 18432, 64) @@
    Normed(47, "net.b2.2.cv1", 4096, 64) @@ Empty({52}, 204800) @@
    Normed(53, "net.b2.2.bottleneck.0.cv1", 9216, 32) @@ Empty({58}, 204800) @@
    Normed(59, "net.b2.2.bottleneck.0.cv2", 9216, 32) @@
    Normed(64, "net.b2.2.bottleneck.1.cv1", 9216, 32) @@ Empty({69}, 204800) @@
    Normed(70, "net.b2.2.bottleneck.1.cv2", 9216, 32) @@
    Normed(75, "net.b2.2.cv2", 8192, 64) @@
    Normed(80, "net.b3.0", 73728, 128) @@
    Normed(85, "net.b3.1.cv1", 16384, 128) @@ Empty({90}, 102400)

BackboneBuffers ==
    Normed(91, "net.b3.1.bottleneck.0.cv1", 36864, 64) @@
    Empty({96}, 102400) @@
    Normed(97, "net.b3.1.bottleneck.0.cv2", 36864, 64) @@
    Normed(102, "net.b3.1.bottleneck.1.cv1", 36864, 64) @@
    Empty({107}, 102400) @@
    Normed(108, "net.b3.1.bottleneck.1.cv2", 36864, 64) @@
    Normed(113, "net.b3.1.cv2", 32768, 128) @@
    Normed(118, "net.b4.0", 294912, 256) @@
    Normed(123, "net.b4.1.cv1", 65536, 256) @@ Empty({128}, 51200) @@
    Normed(129, "net.b4.1.bottleneck.0.cv1", 147456, 128) @@
    Empty({134}, 51200) @@
    Normed(135, "net.b4.1.bottleneck.0.cv2", 147456, 128) @@
    Empty({140}, 153600) @@ Normed(141, "net.b4.1.cv2", 98304, 256) @@
    Normed(146, "net.b5.0.cv1", 32768, 128) @@ Empty({151, 152}, 51200) @@
    Normed(153, "net.b5.0.cv2", 131072, 256) @@ Empty({158}, 614400) @@
    Normed(159, "fpn.n1.cv1", 49152, 128) @@
    Normed(164, "fpn.n1.bottleneck.0.cv1", 36864, 64) @@
    Normed(169, "fpn.n1.bottleneck.0.cv2", 36864, 64) @@
    Empty({174}, 307200) @@ Normed(175, "fpn.n1.cv2", 24576, 128) @@
    Normed(180, "fpn.n2.cv1", 12288, 64) @@
    Normed(185, "fpn.n2.bottleneck.0.cv1", 9216, 32) @@
    Normed(190, "fpn.n2.bottleneck.0.cv2", 9216, 32) @@
    Normed(195, "fpn.n2.cv2", 6144, 64) @@
    Normed(200, "head.cv2.0.0", 36864, 64)

HeadBuffers ==
    Empty({205}, 409600) @@ Normed(206, "head.cv3.0.0", 36864, 64) @@
    Normed(211, "fpn.n3", 36864, 64) @@
    Normed(216, "head.cv2.0.1", 36864, 64) @@
    Normed(221, "head.cv3.0.1", 36864, 64) @@
    Biased(226, "head.cv2.0.2", 4096, 64) @@ Empty({228}, 377600) @@
    Biased(229, "head.cv3.0.2", 3776, 59) @@
    Normed(231, "fpn.n4.cv1", 24576, 128) @@
    Normed(236, "fpn.n4.bottleneck.0.cv1", 36864, 64) @@
    Normed(241, "fpn.n4.bottleneck.0.cv2", 36864, 64) @@
    Normed(246, "fpn.n4.cv2", 24576, 128) @@
    Normed(251, "head.cv2.1.0", 73728, 64) @@
    Normed(256, "head.cv3.1.0", 73728, 64) @@
    Normed(261, "fpn.n5", 147456, 128) @@ Empty({266}, 102400) @@
    Normed(267, "head.cv2.1.1", 36864, 64) @@
    Normed(272, "head.cv3.1.1", 36864, 64) @@
    Biased(277, "head.cv2.1.2", 4096, 64) @@ Empty({279}, 94400) @@
    Biased(280, "head.cv3.1.2", 3776, 59) @@
    Normed(282, "fpn.n6.cv1", 98304, 256) @@
    Normed(287, "fpn.n6.bottleneck.0.cv1", 147456, 128) @@
    Normed(292, "fpn.n6.bottleneck.0.cv2", 147456, 128) @@
    Normed(297, "fpn.n6.cv2", 98304, 256) @@ Empty({302}, 25600) @@
    Normed(303, "head.cv2.2.0", 147456, 64) @@ Empty({308}, 25600) @@
    Normed(309, "head.cv3.2.0", 147456, 64) @@ Empty({314}, 25600) @@
    Normed(315, "head.cv2.2.1", 36864, 64) @@
    Normed(320, "head.cv3.2.1", 36864, 64) @@
    Biased(325, "head.cv2.2.2", 4096, 64) @@ Empty({327}, 23600) @@
    Biased(328, "head.cv3.2.2", 3776, 59)

DecoderBuffers ==
    Empty({330}, 33600) @@ Empty({331}, 495600) @@ Empty({332, 333}, 33600) @@
    Weight(334, "head.dfl", "conv.weight", 16) @@ Empty({335, 336}, 16800) @@
    Empty({337, 338, 339, 340, 341, 342}, 8400) @@ Empty({343}, 16384) @@
    Empty({344}, 8400) @@ Empty({345}, 50400) @@ Empty({346}, 16384) @@
    Empty({347, 348}, 8400) @@ Empty({349}, 300) @@ Empty({350}, 1800) @@
    Empty({351, 352}, 300) @@ Empty({output0}, 1800)

Buffers == StemBuffers @@ BackboneBuffers @@ HeadBuffers @@ DecoderBuffers

-----------------------------------------------------------------------------
(* One addComputePass: the kernel of its pipeline, the buffers bound to it *)
(* in order, the output first, and the number of workgroups.               *)
Pass(kernel, bufs, grid) == [kernel |-> kernel, bufs |-> bufs, grid |-> grid]

FiveFrom(b) == <<b, b + 1, b + 2, b + 3, b + 4>>

BackbonePasses == <<
    Pass(r_80_16_5, <<0>>, <<80, 1, 1>>),
    Pass(r_5_8_10_4, <<1>>, <<5, 1, 1>>),
    Pass(r_5_4_20, <<2>>, <<5, 1, 1>>),
    Pass(r_4_40_5_8_16_3_4_4_3_3, <<3, input0>> \o FiveFrom(4), <<5, 40, 4>>),
    Pass(E_175_16_3, <<9>>, <<175, 1, 1>>),
    Pass(r_59_59, <<10>>, <<59, 1, 1>>),
    Pass(r_175_16_2100_3_4, <<11>>, <<175, 1, 1>>),
    Pass(r_8_10_5_16_8_16_4_4_3_3, <<12, 3>> \o FiveFrom(13), <<5, 10, 8>>),
    Pass(r_400_8_16_4_4_32, <<18, 12>> \o FiveFrom(19), <<400, 1, 1>>),
    Pass(r_4_10_5_16_8_16_4_4_3_3, <<24, 18>> \o FiveFrom(25), <<5, 10, 4>>),
    Pass(r_4_10_5_16_8_16_4_4_3_3n1,
         <<30, 18, 24>> \o FiveFrom(31), <<5, 10, 4>>),
    Pass(E_6_400_8_16_4, <<36, 18, 30>>, <<400, 6, 1>>),
    Pass(r_400_8_16_12_4_4_4, <<18, 36>> \o FiveFrom(37), <<400, 1, 1>>),
    Pass(r_8_5_5_2_16_4_32_4_4_3_3, <<30, 18>> \o FiveFrom(42), <<5, 5, 8>>),
    Pass(r_2_100_8_16_16_4_4_4, <<24, 30>> \o FiveFrom(47), <<100, 2, 1>>),
    Pass(r_4_5_5_2_16_4_32_4_4_3_3, <<52, 24>> \o FiveFrom(53), <<5, 5, 4>>),
    Pass(r_4_5_5_2_16_4_32_4_4_3_3n1,
         <<58, 24, 52>> \o FiveFrom(59), <<5, 5, 4>>),
    Pass(r_4_5_5_2_16_4_32_4_4_3_3n2, <<52, 58>> \o FiveFrom(64), <<5, 5, 4>>),
    Pass(r_4_5_5_2_16_4_32_4_4_3_3n3,
         <<69, 58, 52>> \o FiveFrom(70), <<5, 5, 4>>),
    Pass(E_16_100_8_16_4, <<18, 24, 58, 69>>, <<100, 16, 1>>),
    Pass(r_2_100_8_16_32_4_4_4, <<24, 18>> \o FiveFrom(75), <<100, 2, 1>>),
    Pass(r_4_5_5_8_8_2_64_4_4_3_3, <<69, 24>> \o FiveFrom(80), <<5, 5, 4>>),
    Pass(r_4_25_8_16_32_4_4_4, <<58, 69>> \o FiveFrom(85), <<25, 4, 1>>),
    Pass(r_2_5_5_8_8_2_64_4_4_3_3, <<90, 58>> \o FiveFrom(91), <<5, 5, 2>>),
    Pass(r_2_5_5_8_8_2_64_4_4_3_3n1,
         <<96, 58, 90>> \o FiveFrom(97), <<5, 5, 2>>),
    Pass(r_2_5_5_8_8_2_64_4_4_3_3n2, <<90, 96>> \o FiveFrom(102), <<5, 5, 2>>),
    Pass(r_2_5_5_8_8_2_64_4_4_3_3n3,
         <<107, 96, 90>> \o FiveFrom(108), <<5, 5, 2>>),
    Pass(E_32_25_8_16_4, <<30, 58, 96, 107>>, <<25, 32, 1>>),
    Pass(r_4_25_8_16_64_4_4_4, <<58, 30>> \o FiveFrom(113), <<25, 4, 1>>),
    Pass(r_2_5_5_32_4_128_4_4_3_3, <<107, 58>> \o FiveFrom(118), <<5, 5, 2>>),
    Pass(r_2_25_32_4_64_4_4_4, <<96, 107>> \o FiveFrom(123), <<25, 2, 1>>),
    Pass(r_5_5_32_4_128_4_4_3_3, <<128, 96>> \o FiveFrom(129), <<5, 5, 1>>),
    Pass(r_5_5_32_4_128_4_4_3_3n1,
         <<134, 96, 128>> \o FiveFrom(135), <<5, 5, 1>>),
    Pass(E_12_25_32_4_4, <<140, 96, 134>>, <<25, 12, 1>>),
    Pass(r_2_25_32_4_96_4_4_4, <<96, 140>> \o FiveFrom(141), <<25, 2, 1>>),
    Pass(r_25_32_4_64_4_4_4, <<134, 96>> \o FiveFrom(146), <<25, 1, 1>>),
    Pass(r_4_5_5_32_4_5_4_5, <<128, 134>>, <<5, 5, 4>>),
    Pass(r_4_5_5_32_4_5_4_5, <<151, 128>>, <<5, 5, 4>>),
    Pass(r_4_5_5_32_4_5_4_5, <<152, 151>>, <<5, 5, 4>>),
    Pass(E_16_25_32_4_4, <<69, 134, 128, 151, 152>>, <<25, 16, 1>>),
    Pass(r_2_25_32_4_128_4_4_4, <<96, 69>> \o FiveFrom(153), <<25, 2, 1>>)>>

HeadPasses == <<
    Pass(E_48_5_5_8_8_2_4, <<158, 96, 58>>, <<5, 5, 48>>),
    Pass(r_4_25_8_16_96_4_4_4, <<58, 158>> \o FiveFrom(159), <<25, 4, 1>>),
    Pass(r_2_5_5_8_8_2_64_4_4_3_3, <<107, 58>> \o FiveFrom(164), <<5, 5, 2>>),
    Pass(r_2_5_5_8_8_2_64_4_4_3_3n2,
         <<90, 107>> \o FiveFrom(169), <<5, 5, 2>>),
    Pass(E_24_25_8_16_4, <<174, 58, 90>>, <<25, 24, 1>>),
    Pass(r_4_25_8_16_48_4_4_4, <<58, 174>> \o FiveFrom(175), <<25, 4, 1>>),
    Pass(E_96_5_5_2_16_4_4, <<36, 58, 24>>, <<5, 5, 96>>),
    Pass(r_2_100_8_16_48_4_4_4, <<24, 36>> \o FiveFrom(180), <<100, 2, 1>>),
    Pass(r_4_5_5_2_16_4_32_4_4_3_3, <<69, 24>> \o FiveFrom(185), <<5, 5, 4>>),
    Pass(r_4_5_5_2_16_4_32_4_4_3_3n2,
         <<52, 69>> \o FiveFrom(190), <<5, 5, 4>>),
    Pass(E_12_100_8_16_4, <<158, 24, 52>>, <<100, 12, 1>>),
    Pass(r_2_100_8_16_24_4_4_4, <<24, 158>> \o FiveFrom(195), <<100, 2, 1>>),
    Pass(r_8_5_5_2_16_4_64_4_4_3_3, <<30, 24>> \o FiveFrom(200), <<5, 5, 8>>),
    Pass(r_8_5_5_2_16_4_64_4_4_3_3, <<205, 24>> \o FiveFrom(206), <<5, 5, 8>>),
    Pass(r_2_5_5_8_8_2_64_4_4_3_3n4, <<90, 24>> \o FiveFrom(211), <<5, 5, 2>>),
    Pass(r_8_5_5_2_16_4_64_4_4_3_3, <<24, 30>> \o FiveFrom(216), <<5, 5, 8>>),
    Pass(r_8_5_5_2_16_4_64_4_4_3_3, <<30, 205>> \o FiveFrom(221), <<5, 5, 8>>),
    Pass(E_24_25_8_16_4n1, <<174, 90, 58>>, <<25, 24, 1>>),
    Pass(r_2_100_8_16_16_4_4_4n1, <<205, 24, 226, 227>>, <<100, 2, 1>>),
    Pass(r_59_100_16_16_4_4, <<228, 30, 229, 230>>, <<100, 59, 1>>),
    Pass(r_4_25_8_16_48_4_4_4, <<58, 174>> \o FiveFrom(231), <<25, 4, 1>>),
    Pass(r_2_5_5_8_8_2_64_4_4_3_3, <<90, 58>> \o FiveFrom(236), <<5, 5, 2>>),
    Pass(r_2_5_5_8_8_2_64_4_4_3_3n2,
         <<107, 90>> \o FiveFrom(241), <<5, 5, 2>>),
    Pass(E_24_25_8_16_4, <<174, 58, 107>>, <<25, 24, 1>>),
    Pass(r_4_25_8_16_48_4_4_4, <<58, 174>> \o FiveFrom(246), <<25, 4, 1>>),
    Pass(r_2_5_5_8_8_2_128_4_4_3_3, <<107, 58>> \o FiveFrom(251), <<5, 5, 2>>),
    Pass(r_2_5_5_8_8_2_128_4_4_3_3, <<90, 58>> \o FiveFrom(256), <<5, 5, 2>>),
    Pass(r_5_5_32_4_128_4_4_3_3n2, <<152, 58>> \o FiveFrom(261), <<5, 5, 1>>),
    Pass(r_2_5_5_8_8_2_64_4_4_3_3n2,
         <<266, 107>> \o FiveFrom(267), <<5, 5, 2>>),
    Pass(r_2_5_5_8_8_2_64_4_4_3_3n2,
         <<107, 90>> \o FiveFrom(272), <<5, 5, 2>>),
    Pass(E_12_25_32_4_4n1, <<140, 152, 96>>, <<25, 12, 1>>),
    Pass(r_2_25_8_16_16_4_4_4, <<96, 266, 277, 278>>, <<25, 2, 1>>),
    Pass(r_59_25_16_16_4_4, <<279, 107, 280, 281>>, <<25, 59, 1>>),
    Pass(r_2_25_32_4_96_4_4_4, <<107, 140>> \o FiveFrom(282), <<25, 2, 1>>),
    Pass(r_5_5_32_4_128_4_4_3_3, <<152, 107>> \o FiveFrom(287), <<5, 5, 1>>),
    Pass(r_5_5_32_4_128_4_4_3_3n3, <<151, 152>> \o FiveFrom(292), <<5, 5, 1>>),
    Pass(E_12_25_32_4_4, <<140, 107, 151>>, <<25, 12, 1>>),
    Pass(r_2_25_32_4_96_4_4_4, <<107, 140>> \o FiveFrom(297), <<25, 2, 1>>),
    Pass(r_5_5_16_4_256_4_4_3_3, <<302, 107>> \o FiveFrom(303), <<5, 5, 1>>),
    Pass(r_5_5_16_4_256_4_4_3_3, <<308, 107>> \o FiveFrom(309), <<5, 5, 1>>),
    Pass(r_5_5_16_4_64_4_4_3_3, <<314, 302>> \o FiveFrom(315), <<5, 5, 1>>),
    Pass(r_5_5_16_4_64_4_4_3_3, <<302, 308>> \o FiveFrom(320), <<5, 5, 1>>),
    Pass(r_25_16_4_16_4_4_4, <<308, 314, 325, 326>>, <<25, 1, 1>>),
    Pass(r_59_25_4_16_4_4, <<327, 302, 328, 329>>, <<25, 59, 1>>)>>

DecodePasses == <<
    Pass(r_175_4_16_3_16, <<330, 205, 96, 308>>, <<175, 1, 1>>),
    Pass(E_59_175_16_3, <<331, 228, 279, 327>>, <<175, 59, 1>>),
    Pass(r_175_4_16_3_16n1, <<332, 205, 96, 308, 330>>, <<175, 1, 1>>),
    Pass(r_175_4_16_3_16n2,
         <<333, 205, 96, 308, 330, 332, 334>>, <<175, 1, 1>>),
    Pass(E_525_16_2, <<335, 0, 1, 2, 333>>, <<525, 1, 1>>),
    Pass(E_525_16_2n1, <<336, 0, 1, 2, 333>>, <<525, 1, 1>>),
    Pass(E_175_16_3n1, <<337, 335, 336, 9>>, <<175, 1, 1>>),
    Pass(E_175_16_3n2, <<338, 335, 336, 9>>, <<175, 1, 1>>),
    Pass(E_175_16_3n3, <<339, 335, 336, 9>>, <<175, 1, 1>>),
    Pass(E_175_16_3n4, <<340, 335, 336, 9>>, <<175, 1, 1>>),
    Pass(r_175_16_59_3, <<9, 331>>, <<175, 1, 1>>),
    Pass(E_175_16_3n5, <<341, 9>>, <<175, 1, 1>>),
    Pass(r_175_16_59_3n1, <<342, 331, 9, 10>>, <<175, 1, 1>>),
    Pass(E_2_2_2_2_2_2_2_2_2_2_2_2_2_2, <<343, 341>>, <<16, 2, 2>>),
    Pass(r_175_16_2100_3_4n1, <<344, 11, 341>>, <<175, 1, 1>>),
    Pass(E_525_16_6, <<345, 337, 338, 339, 340, 341, 342>>, <<525, 1, 1>>)>>

(* The kernels of the steps of the sorting network and their workgroups. *)
Exchangers ==
    1 :> <<E_256_32_2, <<256, 1, 1>>>> @@
    2 :> <<E_128_32_2_2, <<128, 1, 1>>>> @@
    4 :> <<E_64_32_4_2, <<64, 1, 1>>>> @@
    8 :> <<E_64_16_8_2, <<64, 1, 1>>>> @@
    16 :> <<E_64_8_16_2, <<64, 1, 1>>>> @@
    32 :> <<E_32_2_8_16_2, <<2, 32, 1>>>> @@
    64 :> <<E_16_4_8_16_2, <<4, 16, 1>>>> @@
    128 :> <<E_8_8_8_16_2, <<8, 8, 1>>>> @@
    256 :> <<E_4_16_8_16_2, <<16, 4, 1>>>> @@
    512 :> <<E_2_32_8_16_2, <<32, 2, 1>>>> @@
    1024 :> <<E_64_8_16_2n1, <<64, 1, 1>>>> @@
    2048 :> <<E_128_4_16_2, <<128, 1, 1>>>> @@
    4096 :> <<E_256_2_16_2, <<256, 1, 1>>>>

Mirrors ==
    2 :> <<E_64_32_2_2_2, <<64, 1, 1>>>> @@
    4 :> <<E_32_32_4_2_2, <<32, 1, 1>>>> @@
    8 :> <<E_32_16_8_2_2, <<32, 1, 1>>>> @@
    16 :> <<E_32_8_16_2_2, <<32, 1, 1>>>> @@
    32 :> <<E_16_2_8_16_2_2, <<2, 16, 1>>>> @@
    64 :> <<E_8_4_8_16_2_2, <<4, 8, 1>>>> @@
    128 :> <<E_4_8_8_16_2_2, <<8, 4, 1>>>> @@
    256 :> <<E_2_16_8_16_2_2, <<16, 2, 1>>>> @@
    512 :> <<E_32_8_16_2_2n1, <<32, 1, 1>>>> @@
    1024 :> <<E_64_4_16_2_2, <<64, 1, 1>>>> @@
    2048 :> <<E_128_2_16_2_2, <<128, 1, 1>>>> @@
    4096 :> <<E_128_32_2_2n1, <<128, 1, 1>>>>

Folder == <<E_256_32_2n1, <<256, 1, 1>>>>

(* The sorting network goes to and fro between two buffers. *)
SortPasses ==
    [i \in DOMAIN SortSteps(14) |->
        LET step == SortSteps(14)[i]
            run == CASE step[1] = "exchange" -> Exchangers[step[2]]
                     [] step[1] = "mirror" -> Mirrors[step[2]]
                     [] step[1] = "fold" -> Folder
        IN Pass(run[1], IF i % 2 = 1 THEN <<346, 343>> ELSE <<343, 346>>, run[2])]

ChoicePasses == <<
    Pass(r_175_16_2100_3_4n2, <<347, 11, 346>>, <<175, 1, 1>>),
    Pass(r_175_16_2100_3_4n3, <<348, 341, 346, 344, 347, 11>>, <<175, 1, 1>>),
    Pass(E_25_3_4, <<349, 348>>, <<25, 1, 1>>),
    Pass(r_300_6_16_525, <<350, 345, 349, 11>>, <<6, 300, 1>>),
    Pass(E_25_3_4n1, <<351, 350>>, <<25, 1, 1>>),
    Pass(r_75_4_75_4, <<352, 350, 351>>, <<75, 1, 1>>),
    Pass(E_75_4_2_3, <<output0, 350, 352>>, <<75, 1, 1>>)>>

Passes == BackbonePasses \o HeadPasses \o DecodePasses \o SortPasses \o ChoicePasses
=============================================================================
