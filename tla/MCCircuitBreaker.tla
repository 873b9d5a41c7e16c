--------------------------- MODULE MCCircuitBreaker ---------------------------
(***************************************************************************)
(* An instance of CircuitBreaker for TLC: three requests, of which one can *)
(* still be under way when the other two have opened the circuit.          *)
(***************************************************************************)
EXTENDS CircuitBreaker

CONSTANTS r1, r2, r3
=============================================================================
