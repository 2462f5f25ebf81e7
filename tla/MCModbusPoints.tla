--------------------------- MODULE MCModbusPoints ---------------------------
(* Instances of ModbusPoints for TLC. *)
EXTENDS ModbusPoints, TLC

CONSTANTS meter, valve

TwoDevices == {meter, valve}

Pt(d, n, t, a, q, bs, ws) ==
    [device |-> d, name |-> n, duration |-> 1, table |-> t, address |-> a, quantity |-> q,
     byteSwap |-> bs, wordSwap |-> ws, narrow |-> FALSE]

HR == "HOLDING_REGISTER"

\* Values of every length and order of bytes, side by side, apart, on top of one another and at
\* the top of the addresses; the valve's is an INT64.
SomePoints ==
    { Pt(meter, "a", HR, 1, 1, TRUE, FALSE),
      Pt(meter, "b", HR, 2, 2, FALSE, TRUE),
      Pt(meter, "c", HR, 4, 2, FALSE, FALSE),
      [Pt(meter, "d", HR, 3, 4, FALSE, TRUE) EXCEPT !.duration = 5],
      Pt(meter, "d", HR, 7, 1, FALSE, FALSE),
      Pt(meter, "e", "COIL", 2, 1, TRUE, FALSE),
      [Pt(valve, "a", HR, 3, 4, TRUE, TRUE) EXCEPT !.narrow = TRUE] }

\* Every value has bytes of its own, so that each can be traced.
DistinctValues ==
    [p \in SomePoints |-> LET base == 100 * p.quantity + 10 * p.address
                          IN  [i \in 1..p.quantity |-> <<base + 2 * i, base + 2 * i + 1>>]]

\* Two slaves, one of them unit 0.
Apart == (meter :> 1) @@ (valve :> 0)

TwoUnits == {0, 1}
Tables   == {"COIL", HR}
=============================================================================
