------------------------ MODULE MCMiningSimulation ------------------------
(***************************************************************************)
(* Instances of MiningSimulation for TLC.  The factors are "no submits" in *)
(* the first second, both bounds of the clamp, and no change.              *)
(***************************************************************************)
EXTENDS MiningSimulation, TLC

AllFactors == {Half, MinFactor, <<1, 1>>, MaxFactor}
SomeFactors == {Half}

\* Bound on blocks, solutions and turns of vardiff loops together.
MaxEvents == 4

FewEvents ==
    prev_hash + used.vardiff + MapThenSumSet(LAMBDA m : used.shares[m], Miners) <= MaxEvents

Symmetry == Permutations(Miners)
===========================================================================
