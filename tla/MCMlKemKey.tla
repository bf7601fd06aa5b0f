------------------------------- MODULE MCMlKemKey -------------------------------
(***************************************************************************)
(* Model-checking instances of MlKemKey: two seeds; their private          *)
(* encodings, and the first one's with a part replaced.                    *)
(***************************************************************************)
EXTENDS MlKemKey

CONSTANTS d1, d2, z1, z2

MCSeeds == {[d |-> d1, z |-> z1], [d |-> d2, z |-> z2]}

MCDks ==
    LET dk == Genuine([d |-> d1, z |-> z1])
    IN  {Genuine(seed) : seed \in MCSeeds} \cup
        {[dk EXCEPT !.s = d2], [dk EXCEPT !.s = Bad], [dk EXCEPT !.pub = Bad],
         [dk EXCEPT !.hash = d2]}
================================================================================
