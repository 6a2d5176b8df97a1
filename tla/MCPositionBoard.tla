-------------------------- MODULE MCPositionBoard --------------------------
(* Values of the constants of PositionBoard for TLC. *)
EXTENDS PositionBoard, TLC

CONSTANTS btc, eth

At(c, n) == [contract |-> c, notional |-> n]

\* Nothing; two contracts; one of them alone and larger.
MCReadings == {{}, {At(btc, 3), At(eth, 1)}, {At(eth, 2)}}
============================================================================
