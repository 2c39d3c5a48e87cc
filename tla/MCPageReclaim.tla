---------------------------- MODULE MCPageReclaim ----------------------------
(* Small instances of PageReclaim for TLC.                                 *)
EXTENDS PageReclaim, TLC

ScannerSymmetry == Permutations(Scanners)

(* What the guards and the liveness properties read: may is a history      *)
(* variable, and recorded matters only while there may be a crash.         *)
WithoutHistory ==
    <<pageVars, linkVars, fsm, IF faults < MaxFaults THEN recorded ELSE {}, next_xid, lockVars, pc,
      allocVars, buildVars, freeVars, vacVars, xmin, faults>>
==============================================================================
