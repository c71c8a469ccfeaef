---------------------------- MODULE MC_LSHIndex ----------------------------
(***************************************************************************)
(* Model-checking instance of LSHIndex: two hyperplanes in the plane, so   *)
(* the four sign quadrants are the four bucket keys 0..3 at Hamming        *)
(* distances 0, 1 and 2 from each other; pages of two items.               *)
(***************************************************************************)
EXTENDS LSHIndex

MCHyperplane == << <<1, 0>>, <<0, 1>> >>

MCVectors == { <<1, 1>>, <<-1, 1>>, <<1, -1>>, <<-1, -1>> }

MCSearchLimits == 1..7

=============================================================================
