-------------------------- MODULE ModbusPointsDoc --------------------------
(* What model.go:87 and connector.go:149 say of registers that belong to     *)
(* several points or devices.                                                *)
EXTENDS ModbusPoints

\* "The points collected from a slave may belong to several devices" (model.go:87), and points at
\* one register address have to be in one group (connector.go:149): every point then has the value
\* its registers hold, also when two devices read the same value of two registers.
PointsShareRegisters == \A p \in added : reported[p] # NoValue => reported[p] = Told(p)
=============================================================================
