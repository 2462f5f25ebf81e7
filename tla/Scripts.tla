------------------------------ MODULE Scripts ------------------------------
(***************************************************************************)
(* The Lua scripts of devices and of protocols (pkg/library, pkg/luautil). *)
(*                                                                         *)
(* A script is loaded into a virtual machine at its first call, under a    *)
(* lock, and kept in a map.  Each machine has a lock, kept in a map of its *)
(* own, for its calls.  Starting the program again in the same process     *)
(* replaces the map of machines, without the lock of loading, and then     *)
(* walks the old map and closes what it comes to: machines that are stored *)
(* into that map or found in it meanwhile are closed like the others.      *)
(* Goroutines of the former run may be in any call by then.  A closed      *)
(* machine fails in the middle of a call, which recovers and returns       *)
(* nothing: neither a result nor an error.                                 *)
(*                                                                         *)
(* Of a call there is its method, and what the script does: it returns a   *)
(* list of tables, a table of something else (flat), another value, or it  *)
(* fails.                                                                  *)
(***************************************************************************)
EXTENDS Naturals, Sequences, FiniteSets

CONSTANTS
    Key,        \* of scripts
    Caller,     \* goroutines that encode and decode
    Methods,    \* the methods they call
    MaxVersion, \* bound: versions of a file
    MaxVMs,     \* bound: machines
    MaxStarts   \* bound: starts of the program

VARIABLES
    file,       \* the version of each script, or 0: no file
    pool,       \* the map that drivers points to, numbered from 1
    drivers,    \* the machine of each key in each map, or 0
    lock,       \* who holds the lock of loading, or 0
    vms,        \* machines: key, version, whether open, whether luaLocks has it, who is in it
    caller,     \* each caller: where it is, method, key, machine, the map it looked at
    unload,     \* the map that is walked, the keys it has yet to come to, those stored into
                \* meanwhile; the machine it waits for, or 0
    wanted,     \* history: the versions at the last start
    crossed,    \* history: keys that were loading while the program started
    overtaken   \* history: machines callers had looked up when the program started, or that were
                \* stored into, or found in, a map that a start had replaced by then

vars == <<file, pool, drivers, lock, vms, caller, unload, wanted, crossed, overtaken>>
start == <<pool, unload, wanted, crossed, overtaken>>

Maps == 1 .. MaxStarts + 1
Idle == [at |-> "idle", method |-> "none", key |-> "none", vm |-> 0, map |-> 1]
Returns == {"list", "flat", "other", "fails"}

Init ==
    /\ file \in [Key -> {0, 1}]
    /\ pool = 1 /\ drivers = [m \in Maps |-> [k \in Key |-> 0]]
    /\ lock = 0 /\ vms = <<>>
    /\ caller = [p \in Caller |-> Idle]
    /\ unload = [map |-> 1, left |-> {}, fresh |-> {}, vm |-> 0]
    /\ wanted = [k \in Key |-> 0] /\ crossed = {} /\ overtaken = {}

At(p, pc) == caller[p].at = pc
Go(p, pc) == caller' = [caller EXCEPT ![p].at = pc]
Found(p, v) == caller' = [caller EXCEPT ![p] = [caller[p] EXCEPT !.at = "call", !.vm = v]]
Fail(p) == caller' = [caller EXCEPT ![p] = Idle]

----------------------------------------------------------------------------
(***************************************************************************)
(* What the methods make of what the call returned: a result, an error,    *)
(* or a panic in the goroutine of the caller                               *)
(***************************************************************************)

\* A table comes back, or an error; of what the table holds nothing is known.
CallLuaMethodV2(r) == IF r \in {"other", "fails"} THEN "error" ELSE r

\* The text of whatever is returned.
CallLuaMethod(r) == IF r = "fails" THEN "error" ELSE IF r = "nothing" THEN "empty" ELSE "text"

\* The loop over the table takes each value for a table, and the table for there.
EachTable(r) == CASE r = "list" -> "result" [] r = "error" -> "error" [] OTHER -> "panic"

DeviceEncode(r) == EachTable(CallLuaMethodV2(r))
DeviceDecode(r) == EachTable(CallLuaMethodV2(r))

\* The table is the caller's: a call that returned nothing looks like a result.
EncodeV2(r) == IF CallLuaMethodV2(r) = "error" THEN "error" ELSE "result"

\* The only method that looks whether there is a table.
DecodeV2(r) == IF r = "nothing" THEN "error" ELSE EachTable(CallLuaMethodV2(r))

Execute(r) == IF CallLuaMethod(r) = "error" THEN "error" ELSE "result"
Encode(r) == IF CallLuaMethod(r) = "error" THEN "error" ELSE "result"

\* The text is parsed, which may fail.
Decodes(r) == IF CallLuaMethod(r) = "text" THEN {"result", "error"} ELSE {"error"}

Outcomes(method, r) ==
    CASE method = "DeviceEncode" -> {DeviceEncode(r)}
      [] method = "DeviceDecode" -> {DeviceDecode(r)}
      [] method = "EncodeV2"     -> {EncodeV2(r)}
      [] method = "DecodeV2"     -> {DecodeV2(r)}
      [] method = "Execute"      -> {Execute(r)}
      [] method = "Encode"       -> {Encode(r)}
      [] method = "Decode"       -> Decodes(r)

----------------------------------------------------------------------------
(***************************************************************************)
(* A call                                                                  *)
(***************************************************************************)

\* What was found in a map, or put there, if the map has been replaced.
Late(m, v) == IF m < pool THEN {v} \ {0} ELSE {}

\* The pointer to the map.
Ask(p, method, k) ==
    /\ At(p, "idle")
    /\ caller' = [caller EXCEPT ![p] = [at |-> "look", method |-> method, key |-> k, vm |-> 0, map |-> pool]]
    /\ UNCHANGED <<file, drivers, lock, vms, start>>

\* The first look at that map.
Look(p) ==
    LET v == drivers[caller[p].map][caller[p].key]
    IN /\ At(p, "look")
       /\ IF v = 0 THEN Go(p, "lock") ELSE Found(p, v)
       /\ overtaken' = overtaken \union Late(caller[p].map, v)
       /\ UNCHANGED <<file, pool, drivers, lock, vms, unload, wanted, crossed>>

\* Mutant of SecondLook: what another caller has loaded meanwhile is not looked for.
SecondLook_Mutant(k) == 0

SecondLook(k) == drivers[pool][k]

LoadLibrary(p) ==
    LET v == SecondLook(caller[p].key)
    IN /\ At(p, "lock") /\ lock = 0
       /\ IF v # 0
          THEN Found(p, v) /\ UNCHANGED lock
          ELSE lock' = p /\ caller' = [caller EXCEPT ![p] = [caller[p] EXCEPT !.at = "init", !.map = pool]]
       /\ UNCHANGED <<file, drivers, vms, start>>

InitLuaVM(p) ==
    LET k == caller[p].key
    IN /\ At(p, "init")
       /\ IF file[k] = 0
          THEN lock' = 0 /\ Fail(p) /\ UNCHANGED vms
          ELSE /\ Len(vms) < MaxVMs
               /\ vms' = Append(vms, [key |-> k, version |-> file[k], open |-> TRUE, known |-> TRUE, in |-> 0])
               /\ caller' = [caller EXCEPT ![p] = [caller[p] EXCEPT !.at = "store", !.vm = Len(vms) + 1]]
               /\ UNCHANGED lock
       /\ UNCHANGED <<file, drivers, start>>

\* The pointer to the map is read again, at some time since the second look.
Store(p) ==
    LET k == caller[p].key
        v == caller[p].vm
    IN /\ At(p, "store")
       /\ \E m \in caller[p].map .. pool :
             /\ drivers' = [drivers EXCEPT ![m][k] = v]
             /\ overtaken' = overtaken \union Late(m, v)
             /\ unload' = IF m = unload.map THEN [unload EXCEPT !.fresh = @ \union ({k} \intersect unload.left)] ELSE unload
       /\ lock' = 0
       /\ Found(p, v)
       /\ UNCHANGED <<file, pool, vms, wanted, crossed>>

\* "lua VM not exists" once the lock of the machine has been forgotten.
FindLock(p) ==
    /\ At(p, "call")
    /\ IF vms[caller[p].vm].known THEN Go(p, "wait") ELSE Fail(p)
    /\ UNCHANGED <<file, drivers, lock, vms, start>>

\* What a call returned, in its caller.
Return(p, r) ==
    \E outcome \in Outcomes(caller[p].method, r) :
        caller' = [caller EXCEPT ![p] = IF outcome = "panic" THEN [caller[p] EXCEPT !.at = r] ELSE Idle]

Enter(p) ==
    LET v == caller[p].vm
    IN /\ At(p, "wait") /\ vms[v].in = 0
       /\ IF vms[v].open
          THEN vms' = [vms EXCEPT ![v].in = p] /\ Go(p, "run")
          ELSE Return(p, "nothing") /\ UNCHANGED vms
       /\ UNCHANGED <<file, drivers, lock, start>>

Leave(p, r) ==
    /\ At(p, "run")
    /\ vms' = [vms EXCEPT ![caller[p].vm].in = 0]
    /\ Return(p, r)
    /\ UNCHANGED <<file, drivers, lock, start>>

----------------------------------------------------------------------------
(***************************************************************************)
(* Starting again                                                          *)
(***************************************************************************)

\* Mutant of Unloaded: the machines stay in the map they are closed in.
Unloaded_Mutant == pool

Unloaded == pool + 1

UnloadDeviceDrivers ==
    /\ pool < MaxStarts + 1 /\ unload.left = {} /\ unload.vm = 0
    /\ pool' = Unloaded
    /\ unload' = [map |-> pool, left |-> Key, fresh |-> {}, vm |-> 0]
    /\ wanted' = file
    /\ crossed' = crossed \union {caller[p].key : p \in {q \in Caller : caller[q].at \in {"init", "store"}}}
    /\ overtaken' = overtaken \union {caller[p].vm : p \in {q \in Caller : caller[q].at \in {"call", "wait"}}}
    /\ UNCHANGED <<file, drivers, lock, vms, caller>>

\* The walk comes to a key, or passes it: the key has no machine, or has it only since the swap.
Pass(k) ==
    /\ unload.vm = 0 /\ k \in unload.left
    /\ drivers[unload.map][k] = 0 \/ k \in unload.fresh
    /\ unload' = [unload EXCEPT !.left = @ \ {k}]
    /\ UNCHANGED <<file, pool, drivers, lock, vms, caller, wanted, crossed, overtaken>>

\* The machine's lock is taken out of luaLocks before it is waited for.
Forget(k) ==
    LET v == drivers[unload.map][k]
    IN /\ unload.vm = 0 /\ k \in unload.left /\ v # 0
       /\ unload' = [unload EXCEPT !.left = @ \ {k}, !.vm = IF vms[v].known THEN v ELSE 0]
       /\ vms' = [vms EXCEPT ![v].known = FALSE]
       /\ UNCHANGED <<file, pool, drivers, lock, caller, wanted, crossed, overtaken>>

\* Mutant of MayClose: the call in the machine is not waited for.
MayClose_Mutant(v) == TRUE

MayClose(v) == vms[v].in = 0

Close ==
    /\ unload.vm # 0 /\ MayClose(unload.vm)
    /\ vms' = [vms EXCEPT ![unload.vm].open = FALSE]
    /\ unload' = [unload EXCEPT !.vm = 0]
    /\ UNCHANGED <<file, pool, drivers, lock, caller, wanted, crossed, overtaken>>

\* Somebody puts another script in its place.
Edit(k) ==
    /\ file[k] < MaxVersion
    /\ file' = [file EXCEPT ![k] = @ + 1]
    /\ UNCHANGED <<drivers, lock, vms, caller, start>>

Next ==
    \/ \E p \in Caller :
          \/ Look(p) \/ LoadLibrary(p) \/ InitLuaVM(p) \/ Store(p) \/ FindLock(p) \/ Enter(p)
          \/ \E r \in Returns : Leave(p, r)
          \/ \E method \in Methods, k \in Key : Ask(p, method, k)
    \/ UnloadDeviceDrivers \/ Close
    \/ \E k \in Key : Pass(k) \/ Forget(k) \/ Edit(k)

Spec == Init /\ [][Next]_vars

----------------------------------------------------------------------------
\* The machines callers find are open, and run the script as it was at the last start or later
\* (device_driver.go, protocol_driver.go: loadLibrary, UnloadDeviceDrivers): unless the script was
\* being loaded when the program started.
FoundIsCurrent ==
    \A k \in Key \ crossed :
        LET v == drivers[pool][k]
        IN v # 0 => vms[v].open /\ vms[v].known /\ vms[v].key = k /\ vms[v].version >= wanted[k]

\* Nobody else's machine stays open: two callers that load at once do not load twice.
NoneIsLeaked ==
    \A v \in DOMAIN vms :
        vms[v].open /\ vms[v].key \notin crossed =>
            \/ drivers[pool][vms[v].key] = v \/ v = unload.vm
            \/ vms[v].key \in unload.left /\ drivers[unload.map][vms[v].key] = v
            \/ \E p \in Caller : At(p, "store") /\ caller[p].vm = v

\* A machine is not closed under a call that is in it, and no method panics but for a table that
\* does not hold tables, or in a machine that a start took away from it: one the caller had looked up
\* when the program started, or stored into or found in the map that had been replaced (luautil/lua.go).
CallsEndWell ==
    \A p \in Caller :
        /\ At(p, "run") => vms[caller[p].vm].open /\ vms[caller[p].vm].in = p
        /\ At(p, "nothing") => caller[p].vm \in overtaken

ScriptsAreCurrent == FoundIsCurrent /\ NoneIsLeaked /\ CallsEndWell
=============================================================================
