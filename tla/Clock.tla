-------------------------------- MODULE Clock --------------------------------
(***************************************************************************)
(* The clock that the file-backed components read (time.time()): it does   *)
(* not run back, and any number of steps may happen at one reading.        *)
(***************************************************************************)
EXTENDS Integers

CONSTANT MaxTime  \* bound of the model: the clock stops here
ASSUME ClockAssumption == MaxTime \in Nat

VARIABLE now

Advance == now < MaxTime /\ now' = now + 1
=============================================================================
