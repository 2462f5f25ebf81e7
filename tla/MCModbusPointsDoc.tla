------------------------- MODULE MCModbusPointsDoc -------------------------
(* Instance of ModbusPointsDoc for TLC: two devices of one model on one slave. *)
EXTENDS ModbusPointsDoc, TLC

CONSTANTS meter, valve

TwoDevices == {meter, valve}
OneUnit    == {1}
Shared     == (meter :> 1) @@ (valve :> 1)
Tables     == {"HOLDING_REGISTER"}

Energy(d) == [device |-> d, name |-> "energy", duration |-> 1, table |-> "HOLDING_REGISTER",
              address |-> 0, quantity |-> 2, byteSwap |-> FALSE, wordSwap |-> FALSE,
              narrow |-> FALSE]

SomePoints     == {Energy(meter), Energy(valve)}
DistinctValues == [p \in SomePoints |-> <<<<101, 102>>, <<103, 104>>>>]
=============================================================================
