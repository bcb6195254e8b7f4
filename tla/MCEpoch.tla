-------------------------------- MODULE MCEpoch --------------------------------
(***************************************************************************)
(* One epoch of two switches that report four heavy flows each.            *)
(***************************************************************************)
EXTENDS Epoch

\* A list, as the pairs of flow and size from place 0 on.
List(p) == [k \in Upper |-> [flowID |-> p[k + 1][1], size |-> p[k + 1][2]]]

LightOf(a, b) == [c \in Counter |-> IF c < 2 THEN a ELSE b]

Sketch(p, a, b) == [light |-> LightOf(a, b), heavy |-> List(p)]

\* Flows that stay, go and come, up and down; equal sizes; short lists and an
\* empty one; flows that both switches report among the larger sizes.
MCMessages ==
  {<<Sketch(<<<<1, 3>>, <<2, 3>>, <<4, 1>>, <<6, 1>> >>, 0, 0),
     Sketch(<<<<3, 2>>, <<5, 2>>, <<1, 1>>, <<2, 1>> >>, 1, 0)>>,
   <<Sketch(<<<<1, 3>>, <<3, 3>>, <<5, 2>>, <<4, 1>> >>, 0, 2),
     Sketch(<<<<2, 3>>, <<1, 2>>, <<3, 2>>, <<6, 1>> >>, 0, 1)>>,
   <<Sketch(<<<<1, 3>>, <<5, 2>>, <<0, 0>>, <<0, 0>> >>, 0, 0),
     Sketch(<<<<2, 2>>, <<1, 1>>, <<4, 1>>, <<0, 0>> >>, 2, 0)>>,
   <<Sketch(<<<<5, 2>>, <<2, 2>>, <<3, 1>>, <<1, 1>> >>, 1, 1),
     Sketch(<<<<0, 0>>, <<0, 0>>, <<0, 0>>, <<0, 0>> >>, 0, 2)>>,
   <<Sketch(<<<<1, 3>>, <<3, 2>>, <<2, 1>>, <<0, 0>> >>, 2, 2),
     Sketch(<<<<3, 3>>, <<1, 3>>, <<6, 1>>, <<4, 1>> >>, 0, 0)>>}

\* Hash functions that spread the flows, and that let them collide.
MCBtHashes  == {h \in [Flow -> Bucket] :
                  /\ h[1] = 0 /\ h[2] = 1 /\ h[3] < 3 /\ h[4] = 2 /\ h[5] < 2 /\ h[6] \in {0, 3}}
MCStHashes  == {[f \in Flow |-> f % 2], [f \in Flow |-> IF f = 2 THEN 1 ELSE 0], [f \in Flow |-> 0],
                [f \in Flow |-> IF f < 3 THEN 0 ELSE 1]}
MCCusHashes == {[f \in Flow |-> f % CUSKETCH_MEM], [f \in Flow |-> f \div 2]}
================================================================================
