---------------------------- MODULE MCBlockWork ----------------------------
EXTENDS BlockWork

Like(in, out, stride, policy) ==
    [inChunk |-> in, outChunk |-> out, stride |-> stride, minIn |-> 1,
     maxIn |-> Unlimited, minOut |-> 1, maxOut |-> Unlimited, policy |-> policy]

\* A plain block, decimation, windows that overlap, windows that skip samples
\* between them, limits on the input port, and the other ways tags propagate.
Kinds == {Like(1, 1, 0, "default"), Like(2, 1, 0, "default"),
          Like(2, 1, 1, "default"), Like(1, 2, 3, "default"), Like(1, 1, 3, "default"),
          [Like(1, 1, 0, "default") EXCEPT !.minIn = 2, !.maxIn = 3],
          Like(2, 1, 1, "forward"), Like(2, 1, 1, "backward")}
=============================================================================
