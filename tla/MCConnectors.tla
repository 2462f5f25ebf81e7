---------------------------- MODULE MCConnectors ----------------------------
(***************************************************************************)
(* Two connections that collect and are written beside it: a Modbus        *)
(* connection (ModbusConnector) and a BACnet connection (BacnetConnector). *)
(* A behaviour exercises one of them, part, and leaves the other where it  *)
(* starts: they share no state, and one run has the sum of their states.   *)
(*                                                                         *)
(* Modbus: two callers, one that writes a bit, one that writes this bit    *)
(* and the next; two attempts.                                             *)
(*                                                                         *)
(* BACnet: two BACnet devices, model devices that share objects, two       *)
(* objects to a group; one command.                                        *)
(***************************************************************************)
EXTENDS ModbusConnector, TLC

CONSTANTS c1, c2, low, high

CONSTANTS Configs, Batches, GroupSize, MaxCommands     \* of BacnetConnector

\* What the configuration gives: the points of a model device have different names, and a command
\* has values that fit their types or do not, each with points to write before it.
ASSUME BacnetAssumption ==
    /\ GroupSize \in Nat \ {0}
    /\ \A c \in Configs :
          /\ c \in Seq({c[i] : i \in DOMAIN c})
          /\ \A i \in DOMAIN c : c[i].dur \in Int /\ c[i].read \in BOOLEAN /\ c[i].addr \in BOOLEAN
          /\ \A i, j \in DOMAIN c : c[i].dev = c[j].dev /\ c[i].name = c[j].name => c[i] = c[j]
    /\ \A b \in Batches :
          /\ b.values \in Seq({b.values[i] : i \in DOMAIN b.values})
          /\ \A i \in DOMAIN b.values : b.values[i].fits \in BOOLEAN /\ b.values[i].pre \in Seq(BOOLEAN)

VARIABLES
    config, virtual, stage, todo, devices, due, job, close, closing, late, cmd, written, commands, alive,
    part

bacnetVars == <<config, virtual, stage, todo, devices, due, job, close, closing, late, cmd, written, commands, alive>>

Bacnet == INSTANCE BacnetConnector WITH wire <- written

----------------------------------------------------------------------------
(***************************************************************************)
(* Modbus                                                                  *)
(***************************************************************************)
TwoCallers == {c1, c2}
Bits       == {low, high}

InOrder == [b \in Bit |-> b]

\* One caller writes one bit, the other that bit and the next.
TwoRequests == (c1 :> {<<<<low, 1>>>>}) @@ (c2 :> {<<<<high, 1>>, <<low, 0>>>>})

----------------------------------------------------------------------------
(***************************************************************************)
(* BACnet                                                                  *)
(***************************************************************************)
Object1(dev, name, id, type, inst, dur, read) ==
    [dev |-> dev, name |-> name, id |-> id, type |-> type, inst |-> inst, dur |-> dur, read |-> read, addr |-> TRUE]

\* A full group, an object that two model devices share; types, then periods that differ on one
\* object, a point of an unknown type; a device whose address is wrong.
SharedObject ==
    <<Object1("d", "a", 1, "analog", 1, 0, TRUE), Object1("d", "b", 1, "binary", 2, -1, TRUE),
      Object1("e", "a", 1, "analog", 1, 1, TRUE), Object1("e", "b", 1, "multi", 3, 1, TRUE),
      Object1("f", "a", 2, "large", 1, 5, TRUE)>>
TwoTypes ==
    <<Object1("d", "a", 1, "analog", 1, 2, TRUE), Object1("d", "b", 1, "binary", 2, 1, TRUE),
      Object1("d", "c", 1, "analog", 3, 2, TRUE), Object1("e", "b", 1, "binary", 1, 2, TRUE),
      Object1("e", "c", 1, "analog", 1, 1, FALSE)>>
TwoPeriods ==
    <<Object1("d", "a", 1, "analog", 1, 1, TRUE), Object1("d", "b", 1, "analog", 1, 1, TRUE),
      Object1("e", "b", 1, "none", 2, 1, TRUE), Object1("e", "c", 1, "binary", 2, 1, TRUE),
      Object1("d", "c", 1, "analog", 1, 3, TRUE)>>
BadAddress ==
    <<Object1("d", "a", 1, "analog", 1, 1, TRUE), [Object1("e", "a", 2, "analog", 1, 1, TRUE) EXCEPT !.addr = FALSE]>>

MCConfigs == {SharedObject, TwoTypes, TwoPeriods, BadAddress}

NewValue(p, f) == [pre |-> p, fits |-> f]

\* Values that are written, on either device; one with a point before it that cannot be encoded;
\* one that does not fit.
Good == <<NewValue(<<TRUE, TRUE>>, TRUE), NewValue(<<>>, TRUE)>>
MCBatches == {[id |-> 1, values |-> Good], [id |-> 2, values |-> Good],
              [id |-> 1, values |-> <<NewValue(<<TRUE>>, TRUE), NewValue(<<FALSE>>, TRUE)>>],
              [id |-> 1, values |-> <<NewValue(<<TRUE>>, TRUE), NewValue(<<>>, FALSE)>>]}

----------------------------------------------------------------------------
\* The part that is left out has one state.
MCInit ==
    /\ part \in {"modbus", "bacnet"}
    /\ Init /\ Bacnet!Init
    /\ virtual => config \in {TwoPeriods, BadAddress}
    /\ part # "modbus" => \A b \in Bit : register[b] = 0
    /\ part # "bacnet" => virtual /\ config = BadAddress

MCNext ==
    /\ UNCHANGED part
    /\ \/ part = "modbus" /\ Next /\ UNCHANGED bacnetVars
       \/ part = "bacnet" /\ Bacnet!Next /\ UNCHANGED vars

\* The fairness of ModbusConnector, where that is exercised.
MCFairness ==
    /\ \A c \in Caller : SF_vars(part = "modbus" /\ CallerStep(c))
    /\ \A p \in Process : SF_vars(part = "modbus" /\ ReadStep(p))
    /\ WF_vars(part = "modbus" /\ Collect) /\ WF_vars(part = "modbus" /\ Collected) /\ WF_vars(part = "modbus" /\ Tick)

MCSpec == MCInit /\ [][MCNext]_<<vars, bacnetVars, part>> /\ MCFairness

----------------------------------------------------------------------------
\* The collection of a modbus connection reads on, whatever is written (ModbusConnector).
RegisterIsCollected == part = "modbus" => CollectionGoesOn

\* Every point that is read is in groups of its own period and type, within their size; a write
\* of several values is sent whole, in order, with what must precede it; and of all that is
\* planned a closed connection does one read at most (BacnetConnector).
PlansAreWhole == Bacnet!GroupsHoldPoints /\ Bacnet!BatchIsWhole /\ Bacnet!OneReadAfterClose
=============================================================================
