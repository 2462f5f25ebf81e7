------------------------ MODULE RulesGateway_proofs ------------------------
(***************************************************************************)
(* Theorems about the link edge export and the gateways, whose steps       *)
(* MCRulesGateway puts together.  Of LinkEdge: types, and the agreement of *)
(* a rule's file with what memory holds of it.  Of Gateway: types, what    *)
(* becomes of commands, and how devices reach the main gateway.            *)
(***************************************************************************)
EXTENDS MCRulesGateway, FiniteSetTheorems, SequenceTheorems, WellFoundedInduction, TLAPS

-----------------------------------------------------------------------------
(***************************************************************************)
(* Rules                                                                   *)
(***************************************************************************)
\* Whoever works on a rule has one.
Named ==
    /\ \A c \in Client : clients[c].at # "idle" => clients[c].rule \in Rule
    /\ \A p \in Runner : runs[p].top \/ runs[p].at \in {"get", "put"} => runs[p].rule \in Rule

TypeInv == TypeOK /\ Named

LEMMA BlankOK == Blank \in ConfigType
BY DEF Blank, ConfigType

LEMMA IdleOK ==
    /\ IdleRun \in RunType /\ ~IdleRun.top /\ IdleRun.at = "idle"
    /\ IdleClient \in ClientType /\ IdleClient.at = "idle"
BY BlankOK DEF IdleRun, IdleClient, RunType, ClientType, NoPoints, NotAdding

\* A configuration that Get finds.
LEMMA ConfOK ==
    ASSUME TypeOK, NEW r \in Rule, Found(r)
    PROVE  ConfOf(r) \in ConfigType
BY DEF TypeOK, Found, Cached, ConfOf, EntryType

LEMMA GetOK ==
    ASSUME TypeOK, NEW r \in Rule
    PROVE  AfterGet(r) \in [Rule -> EntryType \cup {Nothing}]
<1>1. CASE ~Reads(r)
  BY <1>1 DEF AfterGet, TypeOK
<1>2. CASE Reads(r)
  <2>1. (IF file[r] = Empty THEN Blank ELSE file[r]) \in ConfigType
    BY <1>2, BlankOK DEF Reads, TypeOK
  <2>2. [conf |-> IF file[r] = Empty THEN Blank ELSE file[r], recent |-> FALSE] \in EntryType
    BY <2>1 DEF EntryType
  <2> QED BY <1>2, <2>2 DEF AfterGet, TypeOK
<1> QED BY <1>1, <1>2

LEMMA LoadedOK ==
    ASSUME file \in [Rule -> ConfigType \cup {Nothing, Empty}], NEW S
    PROVE  /\ Loaded(S) \in [Rule -> EntryType \cup {Nothing}]
           /\ (\A r \in Rule : r \in S => file[r] # Empty) =>
                ConditionsOf(S) \in [Rule -> Nat] /\ SchedulesOf(S) \in [Rule -> Nat]
<1>1. ASSUME NEW r \in Rule, file[r] # Nothing
      PROVE  [conf |-> IF file[r] = Empty THEN Blank ELSE file[r], recent |-> FALSE] \in EntryType
  BY <1>1, BlankOK DEF EntryType
<1>2. Loaded(S) \in [Rule -> EntryType \cup {Nothing}]
  BY <1>1 DEF Loaded
<1>3. ASSUME NEW r \in Rule, file[r] # Nothing, file[r] # Empty
      PROVE  file[r].conditions \in Nat /\ file[r].schedules \in Nat
  BY <1>3 DEF ConfigType
<1> QED BY <1>2, <1>3 DEF ConditionsOf, SchedulesOf

LEMMA InitTypes == Init => TypeInv
<1> SUFFICES ASSUME Init PROVE TypeInv
  OBVIOUS
<1>1. file \in [Rule -> ConfigType \cup {Nothing, Empty}] /\ \A r \in Rule : file[r] # Empty
  BY LinkEdgeAssumption DEF Init
<1>2. /\ configs \in [Rule -> EntryType \cup {Nothing}]
      /\ conditions \in [Rule -> Nat] /\ schedules \in [Rule -> Nat]
  BY <1>1, LoadedOK DEF Init
<1>3. clients \in [Client -> ClientType] /\ runs \in [Runner -> RunType]
  BY IdleOK DEF Init
<1>4. TypeOK
  BY <1>1, <1>2, <1>3 DEF Init, TypeOK
<1>5. Named
  BY DEF Init, Named, IdleClient, IdleRun
<1> QED BY <1>4, <1>5 DEF TypeInv

\* One run moves on.
LEMMA RunMoves ==
    ASSUME TypeInv, NEW p \in Runner, NEW x \in RunType, Becomes(p, x), UNCHANGED clients,
           x.top \/ x.at \in {"get", "put"} => x.rule \in Rule
    PROVE  runs' \in [Runner -> RunType] /\ Named'
<1>1. runs' \in [Runner -> RunType] /\ runs'[p] = x /\ \A q \in Runner \ {p} : runs'[q] = runs[q]
  BY DEF TypeInv, TypeOK, Becomes
<1> QED BY <1>1 DEF TypeInv, Named

\* One client moves on.
LEMMA ClientMoves ==
    ASSUME TypeInv, NEW c \in Client, NEW x \in ClientType, clients' = [clients EXCEPT ![c] = x],
           UNCHANGED runs, x.at # "idle" => x.rule \in Rule
    PROVE  clients' \in [Client -> ClientType] /\ Named'
<1>1. /\ clients' \in [Client -> ClientType] /\ clients'[c] = x
      /\ \A d \in Client \ {c} : clients'[d] = clients[d]
  BY DEF TypeInv, TypeOK
<1> QED BY <1>1 DEF TypeInv, Named

LEMMA ClientGoes ==
    ASSUME TypeInv, NEW c \in Client, clients[c].at # "idle", UNCHANGED runs,
           NEW at \in {"create", "write", "register", "undo", "remove", "stop"},
           GoesTo(c, at) \/ Returns(c)
    PROVE  clients' \in [Client -> ClientType] /\ Named' /\ clients[c].rule \in Rule
<1>1. clients[c] \in ClientType /\ clients[c].rule \in Rule
  BY DEF TypeInv, TypeOK, Named
<1>2. CASE Returns(c)
  BY <1>1, <1>2, IdleOK, ClientMoves DEF Returns, IdleClient
<1>3. CASE GoesTo(c, at)
  <2> DEFINE x == [clients[c] EXCEPT !.at = at]
  <2>1. x \in ClientType /\ x.rule \in Rule
    BY <1>1 DEF ClientType
  <2>2. clients' = [clients EXCEPT ![c] = x]
    BY <1>3 DEF GoesTo
  <2> HIDE DEF x
  <2> QED BY <1>1, <2>1, <2>2, ClientMoves
<1> QED BY <1>2, <1>3

\* What memory forgets.
LEMMA ForgetOK ==
    ASSUME TypeOK, NEW r \in Rule, Forget(r)
    PROVE  /\ configs' \in [Rule -> EntryType \cup {Nothing}]
           /\ conditions' \in [Rule -> Nat] /\ schedules' \in [Rule -> Nat]
BY DEF TypeOK, Forget

LEMMA DisturbsOK ==
    ASSUME TypeOK, NEW S, Disturbs(S)
    PROVE  disturbed' \in [Rule -> BOOLEAN]
BY DEF TypeOK, Disturbs

LEMMA NewCallOK == TypeOK /\ NewCall => calls' \in Nat
BY DEF TypeOK, NewCall

\* Every operation of a client is of the type.
LEMMA ClientTypes == TypeInv /\ (\E c \in Client : ClientStep(c)) => TypeInv'
<1> SUFFICES ASSUME TypeInv, NEW c \in Client, ClientStep(c) PROVE TypeInv'
  OBVIOUS
<1> USE DEF TypeInv
<1>t. TypeOK /\ Named /\ clients[c] \in ClientType
  BY DEF TypeOK
<1> DEFINE r == clients[c].rule
<1>1. ASSUME NEW q \in Rule, Delete(c, q) PROVE TypeInv'
  <2> DEFINE x == [at |-> "remove", rule |-> q, conf |-> Blank, again |-> FALSE]
  <2>1. x \in ClientType
    BY BlankOK DEF ClientType
  <2>2. clients' \in [Client -> ClientType] /\ Named'
    BY <1>1, <2>1, ClientMoves DEF Delete
  <2> QED BY <1>1, <2>2, ForgetOK, DisturbsOK, NewCallOK DEF Delete, NewOp, TypeOK
<1>2. ASSUME NEW q \in Rule, NEW conf \in Config, Create(c, q, conf) PROVE TypeInv'
  <2> DEFINE x == [at |-> "create", rule |-> q, conf |-> conf, again |-> FALSE]
  <2>1. x \in ClientType
    BY LinkEdgeAssumption DEF ClientType
  <2>2. clients' \in [Client -> ClientType] /\ Named'
    BY <1>2, <2>1, ClientMoves DEF Create
  <2> QED BY <1>2, <2>2, DisturbsOK, NewCallOK DEF Create, NewOp, TypeOK, memory
<1>3. ASSUME NEW q \in Rule, NEW conf \in Config, Update(c, q, conf) PROVE TypeInv'
  <2> DEFINE x == [at |-> "remove", rule |-> q, conf |-> conf, again |-> TRUE]
  <2>1. x \in ClientType
    BY LinkEdgeAssumption DEF ClientType
  <2>2. clients' \in [Client -> ClientType] /\ Named'
    BY <1>3, <2>1, ClientMoves DEF Update
  <2> QED BY <1>3, <2>2, ForgetOK, DisturbsOK, NewCallOK DEF Update, NewOp, TypeOK
<1>4. CASE CreateFile(c)
  <2>1. clients' \in [Client -> ClientType] /\ Named' /\ r \in Rule
    BY <1>4, ClientGoes DEF CreateFile
  <2> QED BY <1>4, <2>1 DEF CreateFile, TypeOK, memory
<1>5. CASE CannotCreateFile(c) \/ NothingToRemove(c)
  <2>1. clients' \in [Client -> ClientType] /\ Named'
    BY <1>5, ClientGoes DEF CannotCreateFile, NothingToRemove
  <2> QED BY <1>5, <2>1 DEF CannotCreateFile, NothingToRemove, TypeOK, memory
<1>6. CASE WriteFile(c) \/ CannotWriteFile(c)
  <2>1. clients' \in [Client -> ClientType] /\ Named' /\ r \in Rule
    BY <1>6, ClientGoes DEF WriteFile, CannotWriteFile
  <2>2. Written(c) \in [Rule -> ConfigType \cup {Nothing, Empty}]
    BY <1>t, <2>1 DEF Written, TypeOK, ClientType
  <2>3. file' \in [Rule -> ConfigType \cup {Nothing, Empty}] /\ disturbed' \in [Rule -> BOOLEAN]
    BY <1>6, <2>2, DisturbsOK DEF WriteFile, CannotWriteFile, TypeOK
  <2> QED BY <1>6, <2>1, <2>3 DEF WriteFile, CannotWriteFile, TypeOK, memory
<1>7. CASE Register(c)
  <2>1. clients' \in [Client -> ClientType] /\ Named' /\ r \in Rule
    BY <1>7, ClientGoes DEF Register
  <2>2. configs' \in [Rule -> EntryType \cup {Nothing}]
    BY <1>7, <2>1, GetOK DEF Register
  <2>3. conditions' \in [Rule -> Nat] /\ schedules' \in [Rule -> Nat]
    <3>1. CASE Found(r)
      <4>1. ConfOf(r).conditions \in Nat /\ ConfOf(r).schedules \in Nat
        BY <2>1, <3>1, ConfOK DEF ConfigType
      <4> QED BY <1>7, <2>1, <3>1, <4>1 DEF Register, Registered, TypeOK
    <3> QED BY <1>7, <3>1 DEF Register, TypeOK
  <2> QED BY <1>7, <2>1, <2>2, <2>3 DEF Register, TypeOK
<1>8. CASE Undo(c)
  <2> DEFINE x == [clients[c] EXCEPT !.at = "remove", !.again = FALSE]
  <2>1. x \in ClientType /\ x.rule \in Rule
    BY <1>t, <1>8 DEF Undo, Named, ClientType
  <2>2. clients' = [clients EXCEPT ![c] = x] /\ r \in Rule
    BY <1>8, <2>1, <1>t DEF Undo, TypeOK, ClientType
  <2>3. clients' \in [Client -> ClientType] /\ Named'
    <3> HIDE DEF x
    <3> QED BY <1>8, <2>1, <2>2, ClientMoves DEF Undo
  <2> QED BY <1>8, <2>2, <2>3, ForgetOK DEF Undo, TypeOK
<1>9. CASE Remove(c)
  <2>1. clients' \in [Client -> ClientType] /\ Named' /\ r \in Rule
    BY <1>9, ClientGoes DEF Remove
  <2> QED BY <1>9, <2>1 DEF Remove, TypeOK, memory
<1>10. CASE CannotRemove(c)
  <2>1. clients' \in [Client -> ClientType] /\ Named'
    BY <1>10, ClientGoes DEF CannotRemove
  <2> QED BY <1>10, <2>1, DisturbsOK DEF CannotRemove, TypeOK, memory
<1>11. CASE StopSchedule(c)
  <2>1. clients' \in [Client -> ClientType] /\ Named' /\ r \in Rule
    BY <1>11, ClientGoes DEF StopSchedule
  <2> QED BY <1>11, <2>1 DEF StopSchedule, TypeOK
<1> QED
  BY <1>1, <1>2, <1>3, <1>4, <1>5, <1>6, <1>7, <1>8, <1>9, <1>10, <1>11 DEF ClientStep

\* A Get in the course of a run.
LEMMA RunGetsOK ==
    ASSUME TypeOK, NEW p \in Runner, RunGets(p)
    PROVE  configs' \in [Rule -> EntryType \cup {Nothing}] /\ disturbed' \in [Rule -> BOOLEAN]
<1>1. CASE Stored(p)
  <2>1. runs[p].rule \in Rule
    BY <1>1 DEF Stored, TypeOK, RunType
  <2> QED BY <1>1, <2>1, GetOK, DisturbsOK DEF RunGets
<1>2. CASE ~Stored(p)
  BY <1>2 DEF RunGets, TypeOK
<1> QED BY <1>1, <1>2

LEMMA RunConfOK ==
    ASSUME TypeOK, NEW p \in Runner, HasConf(p)
    PROVE  Conf(p) \in ConfigType
<1>1. runs[p].rule \in Rule \cup {NoRule} /\ runs[p].conf \in ConfigType
  BY DEF TypeOK, RunType
<1> QED BY <1>1, ConfOK DEF Stored, HasConf, Conf

\* The next action of a run, and the run that has counted it.
LEMMA ActionOK ==
    ASSUME TypeOK, NEW p \in Runner, Acting(p)
    PROVE  /\ runs[p].conf.actions[runs[p].next] \in Action
           /\ Counted(p) \in RunType /\ Counted(p).at = "act" /\ Counted(p).top = runs[p].top
           /\ Counted(p).rule = runs[p].rule
<1>1. runs[p] \in RunType
  BY DEF TypeOK
<1>2. runs[p].conf.actions \in Seq(Action) /\ runs[p].next \in Nat \ {0} /\ runs[p].sucCount \in Nat
  BY <1>1 DEF RunType, ConfigType
<1>3. runs[p].next + 1 \in Nat \ {0} /\ runs[p].sucCount + 1 \in Nat
  BY <1>2
<1>4. Counted(p) \in RunType
  BY <1>1, <1>3 DEF Counted, RunType
<1>5. runs[p].conf.actions[runs[p].next] \in Action
  BY <1>2 DEF Acting
<1> QED BY <1>1, <1>4, <1>5 DEF Counted, RunType, Acting

\* Every step of a run is of the type.
LEMMA RunTypes == TypeInv /\ (\E p \in Runner : Starts(p) \/ RunStep(p)) => TypeInv'
<1> SUFFICES ASSUME TypeInv, NEW p \in Runner, Starts(p) \/ RunStep(p) PROVE TypeInv'
  OBVIOUS
<1> USE DEF TypeInv
<1>t. TypeOK /\ Named /\ runs[p] \in RunType
  BY DEF TypeOK
<1>n. ASSUME NEW x \in RunType, Becomes(p, x), UNCHANGED clients,
             x.top \/ x.at \in {"get", "put"} => x.rule \in Rule
      PROVE  runs' \in [Runner -> RunType] /\ Named'
  BY <1>n, RunMoves
<1>i. Ends(p) /\ UNCHANGED clients => runs' \in [Runner -> RunType] /\ Named'
  BY RunMoves, IdleOK DEF Ends, IdleRun
<1>1. ASSUME NEW r \in Rule, Trigger(p, r) PROVE TypeInv'
  <2> DEFINE x == [IdleRun EXCEPT !.at = "look", !.rule = r, !.top = TRUE]
  <2>1. x \in RunType /\ x.rule \in Rule
    BY IdleOK DEF RunType
  <2>2. Becomes(p, x) /\ UNCHANGED clients
    BY <1>1 DEF Trigger
  <2>3. runs' \in [Runner -> RunType] /\ Named'
    <3> HIDE DEF x
    <3> QED BY <2>1, <2>2, <1>n
  <2> QED BY <1>1, <2>3, NewCallOK DEF Trigger, NewRun, TypeOK, memory
<1>2. ASSUME NEW conf \in Preview, Execute(p, conf) PROVE TypeInv'
  <2> DEFINE x == [IdleRun EXCEPT !.at = "look", !.conf = conf]
  <2>1. conf \in ConfigType
    BY LinkEdgeAssumption
  <2>2. x \in RunType /\ ~x.top /\ x.at = "look"
    BY <2>1, IdleOK DEF RunType
  <2>3. Becomes(p, x) /\ UNCHANGED clients
    BY <1>2 DEF Execute
  <2>4. runs' \in [Runner -> RunType] /\ Named'
    <3> HIDE DEF x
    <3> QED BY <2>2, <2>3, <1>n
  <2> QED BY <1>2, <2>4, NewCallOK DEF Execute, NewRun, TypeOK, memory
<1>3. CASE Refused(p)
  BY <1>3, <1>i, RunGetsOK DEF Refused, TypeOK
<1>4. CASE Accepted(p)
  <2> DEFINE x == [runs[p] EXCEPT !.at = "act", !.conf = Conf(p)]
  <2>1. Conf(p) \in ConfigType
    BY <1>4, RunConfOK DEF Accepted
  <2>2. x \in RunType /\ x.at = "act" /\ x.top = runs[p].top /\ x.rule = runs[p].rule
    BY <1>t, <2>1 DEF RunType
  <2>3. Becomes(p, x) /\ UNCHANGED clients
    BY <1>4 DEF Accepted
  <2>4. runs' \in [Runner -> RunType] /\ Named'
    <3> HIDE DEF x
    <3> QED BY <2>2, <2>3, <1>n, <1>t DEF Named
  <2> QED BY <1>4, <2>4, RunGetsOK DEF Accepted, TypeOK
<1>5. CASE Skip(p)
  <2>1. runs' \in [Runner -> RunType] /\ Named'
    BY <1>5, <1>n, <1>t, ActionOK DEF Skip, Named
  <2> QED BY <1>5, <2>1 DEF Skip, TypeOK, memory
<1>6. CASE Collect(p)
  <2> DEFINE action == runs[p].conf.actions[runs[p].next]
             x == [runs[p] EXCEPT !.next = @ + 1, !.todo[action.dev] = @ + action.points]
  <2>1. action.dev \in Device /\ action.points \in Nat
    BY <1>6, ActionOK, Zenon DEF Collect, Action
  <2>2. runs[p].todo \in [Device -> Nat] /\ runs[p].next \in Nat
    BY <1>t DEF RunType
  <2>3. [runs[p].todo EXCEPT ![action.dev] = @ + action.points] \in [Device -> Nat]
    <3>1. runs[p].todo[action.dev] + action.points \in Nat
      BY <2>1, <2>2
    <3> QED BY <2>2, <3>1
  <2>4. x \in RunType /\ x.at = runs[p].at /\ x.top = runs[p].top /\ x.rule = runs[p].rule
    <3> HIDE DEF action
    <3>1. runs[p].next + 1 \in Nat \ {0}
      BY <2>2
    <3>2. runs[p] \in RunType
      BY <1>t
    <3>3. x = [[runs[p] EXCEPT !.todo[action.dev] = @ + action.points] EXCEPT !.next = @ + 1]
      BY <3>2 DEF RunType
    <3>4. [runs[p] EXCEPT !.todo[action.dev] = @ + action.points] \in RunType
      BY <3>2, <2>3 DEF RunType
    <3>5. ASSUME NEW y \in RunType
          PROVE  [y EXCEPT !.next = @ + 1] \in RunType
      BY DEF RunType
    <3>6. x \in RunType
      BY <3>3, <3>4, <3>5, Zenon
    <3>7. x.at = runs[p].at /\ x.top = runs[p].top /\ x.rule = runs[p].rule
      BY <3>2 DEF RunType
    <3> QED BY <3>6, <3>7
  <2>5. Becomes(p, x) /\ UNCHANGED clients
    BY <1>6, Zenon DEF Collect
  <2>6. runs' \in [Runner -> RunType] /\ Named'
    <3> HIDE DEF x
    <3> QED BY <2>4, <2>5, <1>n, <1>t DEF Named
  <2> QED BY <1>6, <2>6 DEF Collect, TypeOK, memory
<1>7. ASSUME NEW q \in Runner, Spawn(p, q) PROVE TypeInv'
  <2> DEFINE action == runs[p].conf.actions[runs[p].next]
             nested == [IdleRun EXCEPT !.at = "look", !.rule = action.rule, !.depth = NextDepth(p)]
  <2>1. action.rule \in Rule
    BY <1>7, ActionOK DEF Spawn, Action
  <2>2. NextDepth(p) \in Nat
    BY <1>t DEF NextDepth, RunType
  <2>3. nested \in RunType /\ ~nested.top /\ nested.at = "look"
    BY <2>1, <2>2, IdleOK DEF RunType
  <2>4. Acting(p) /\ UNCHANGED clients
    BY <1>7 DEF Spawn
  <2>5. \/ Becomes(p, Counted(p))
        \/ runs' = [runs EXCEPT ![p] = Counted(p), ![q] = nested]
    BY <1>7 DEF Spawn
  <2>6. runs' \in [Runner -> RunType] /\ Named'
    <3> HIDE DEF nested
    <3>1. CASE Becomes(p, Counted(p))
      BY <2>4, <3>1, <1>n, <1>t, ActionOK DEF Named
    <3>2. CASE runs' = [runs EXCEPT ![p] = Counted(p), ![q] = nested]
      <4>1. runs' \in [Runner -> RunType]
        BY <2>3, <2>4, <3>2, <1>t, ActionOK DEF TypeOK
      <4>2. /\ \A s \in Runner \ {p, q} : runs'[s] = runs[s]
            /\ runs'[q] = nested /\ (p # q => runs'[p] = Counted(p))
        BY <3>2, <1>t DEF TypeOK
      <4> QED BY <2>3, <2>4, <4>1, <4>2, <1>t, ActionOK DEF Named
    <3> QED BY <2>5, <3>1, <3>2
  <2> QED BY <1>7, <2>6 DEF Spawn, TypeOK, memory
<1>8. CASE BeginWriting(p)
  <2> DEFINE x == [runs[p] EXCEPT !.at = "writing"]
  <2>1. x \in RunType /\ x.at = "writing" /\ x.top = runs[p].top /\ x.rule = runs[p].rule
    BY <1>t DEF RunType
  <2>2. Becomes(p, x) /\ UNCHANGED clients
    BY <1>8 DEF BeginWriting
  <2>3. runs' \in [Runner -> RunType] /\ Named'
    <3> HIDE DEF x
    <3> QED BY <2>1, <2>2, <1>n, <1>t DEF Named
  <2> QED BY <1>8, <2>3 DEF BeginWriting, TypeOK, memory
<1>9. ASSUME NEW d \in Device, WritePoints(p, d) \/ AddPoints(p, d) \/ NotWritten(p, d)
      PROVE  TypeInv'
  <2>1. PICK x : x \in RunType /\ Becomes(p, x) /\ x.at = runs[p].at /\ x.top = runs[p].top
                 /\ x.rule = runs[p].rule
    <3>1. /\ runs[p].todo \in [Device -> Nat] /\ runs[p].adding \in [Device -> Nat \cup {-1}]
          /\ runs[p].sucCount \in Nat
      BY <1>t DEF RunType
    <3>2. CASE WritePoints(p, d)
      <4>1. [runs[p].adding EXCEPT ![d] = runs[p].sucCount] \in [Device -> Nat \cup {-1}]
        BY <3>1
      <4> DEFINE x == [runs[p] EXCEPT !.adding[d] = runs[p].sucCount, !.did = TRUE]
      <4>2. x \in RunType /\ x.at = runs[p].at /\ x.top = runs[p].top /\ x.rule = runs[p].rule
        BY <1>t, <4>1 DEF RunType
      <4>3. Becomes(p, x)
        BY <3>2 DEF WritePoints
      <4> QED BY <4>2, <4>3
    <3>3. CASE AddPoints(p, d)
      <4>1. Added(p, d) \in Nat
        BY <3>1, <3>3 DEF Added, AddPoints
      <4>2. /\ [runs[p].adding EXCEPT ![d] = -1] \in [Device -> Nat \cup {-1}]
            /\ [runs[p].todo EXCEPT ![d] = 0] \in [Device -> Nat]
        BY <3>1
      <4> DEFINE x == [runs[p] EXCEPT !.sucCount = Added(p, d), !.todo[d] = 0, !.adding[d] = -1]
      <4>3. x \in RunType /\ x.at = runs[p].at /\ x.top = runs[p].top /\ x.rule = runs[p].rule
        BY <1>t, <4>1, <4>2 DEF RunType
      <4>4. Becomes(p, x)
        BY <3>3 DEF AddPoints
      <4> QED BY <4>3, <4>4
    <3>4. CASE NotWritten(p, d)
      <4>1. [runs[p].todo EXCEPT ![d] = 0] \in [Device -> Nat]
        BY <3>1
      <4> DEFINE x == [runs[p] EXCEPT !.todo[d] = 0, !.failed = TRUE]
      <4>2. x \in RunType /\ x.at = runs[p].at /\ x.top = runs[p].top /\ x.rule = runs[p].rule
        BY <1>t, <4>1 DEF RunType
      <4>3. Becomes(p, x)
        BY <3>4 DEF NotWritten
      <4> QED BY <4>2, <4>3
    <3> QED BY <1>9, <3>2, <3>3, <3>4
  <2>2. runs' \in [Runner -> RunType] /\ Named'
    BY <1>9, <2>1, <1>n, <1>t DEF Named, WritePoints, AddPoints, NotWritten
  <2> QED BY <1>9, <2>2 DEF WritePoints, AddPoints, NotWritten, TypeOK, memory
<1>10. CASE Report(p)
  <2>1. ASSUME runs[p].top PROVE runs' \in [Runner -> RunType] /\ Named'
    <3> DEFINE x == [IdleRun EXCEPT !.at = "get", !.rule = runs[p].rule]
    <3>1. runs[p].rule \in Rule
      BY <1>t, <2>1 DEF Named
    <3>2. x \in RunType /\ x.rule \in Rule
      BY <3>1, IdleOK DEF RunType
    <3>3. Becomes(p, x) /\ UNCHANGED clients
      BY <1>10, <2>1 DEF Report
    <3> HIDE DEF x
    <3> QED BY <3>2, <3>3, <1>n
  <2>2. runs' \in [Runner -> RunType] /\ Named'
    BY <1>10, <2>1, <1>i DEF Report
  <2> QED BY <1>10, <2>2 DEF Report, TypeOK, memory
<1>11. CASE GetAgain(p)
  <2> DEFINE r == runs[p].rule
             x == [runs[p] EXCEPT !.at = "put", !.conf = ConfOf(r)]
  <2>1. r \in Rule
    BY <1>11, <1>t DEF GetAgain, Named
  <2>2. Found(r) => x \in RunType /\ x.rule \in Rule
    BY <1>t, <2>1, ConfOK DEF RunType
  <2>3. UNCHANGED clients /\ ((Becomes(p, x) /\ Found(r)) \/ Ends(p))
    BY <1>11 DEF GetAgain
  <2>4. runs' \in [Runner -> RunType] /\ Named'
    <3> HIDE DEF x
    <3> QED BY <2>2, <2>3, <1>n, <1>i
  <2> QED BY <1>11, <2>4, RunGetsOK DEF GetAgain, TypeOK
<1>12. CASE PutBack(p)
  <2>1. runs[p].rule \in Rule /\ runs[p].conf \in ConfigType
    BY <1>12, <1>t DEF PutBack, Named, RunType
  <2>2. configs' \in [Rule -> EntryType \cup {Nothing}]
    BY <1>12, <2>1 DEF PutBack, TypeOK, EntryType
  <2> QED BY <1>12, <2>2, <1>i, DisturbsOK DEF PutBack, TypeOK
<1> QED
  BY <1>1, <1>2, <1>3, <1>4, <1>5, <1>6, <1>7, <1>8, <1>9, <1>10, <1>11, <1>12 DEF Starts, RunStep

\* So are Get, the end of a silent period, and the start of the export.
LEMMA OtherTypes ==
    ASSUME TypeInv,
           (\E r \in Rule : Get(r) \/ SilenceEnds(r)) \/ Restart \/ CannotLoad \/ CannotRegister
    PROVE  TypeInv'
<1> USE DEF TypeInv
<1>1. ASSUME NEW r \in Rule, Get(r) PROVE TypeInv'
  BY <1>1, GetOK, DisturbsOK DEF Get, TypeOK, Named
<1>2. ASSUME NEW r \in Rule, SilenceEnds(r) PROVE TypeInv'
  <2>1. configs[r] \in EntryType
    BY <1>2 DEF SilenceEnds, Cached, TypeOK
  <2>2. configs' \in [Rule -> EntryType \cup {Nothing}]
    BY <1>2, <2>1 DEF SilenceEnds, EntryType, TypeOK
  <2> QED BY <1>2, <2>2 DEF SilenceEnds, TypeOK, Named
<1>3. CASE Restart \/ CannotLoad \/ CannotRegister
  <2>1. Stops
    BY <1>3 DEF Restart, CannotLoad, CannotRegister
  <2>2. /\ clients' \in [Client -> ClientType] /\ runs' \in [Runner -> RunType]
        /\ calls' \in Nat /\ UNCHANGED file
    BY <2>1, IdleOK, NewCallOK DEF Stops
  <2>3. Named'
    BY <2>1 DEF Stops, Named, IdleClient, IdleRun
  <2>5. file \in [Rule -> ConfigType \cup {Nothing, Empty}]
    BY DEF TypeOK
  <2>6. configs' \in [Rule -> EntryType \cup {Nothing}]
    BY <1>3, <2>5, LoadedOK DEF Restart, CannotLoad, CannotRegister
  <2>7. \E S : RegisteredFrom(S) /\ \A r \in Rule : r \in S => file[r] # Empty
    <3>1. CASE Restart
      <4>1. RegisteredFrom(Rule) /\ \A r \in Rule : file[r] # Empty
        BY <3>1 DEF Restart, Unreadable
      <4> QED BY <4>1
    <3>2. CASE CannotLoad
      <4>1. RegisteredFrom({})
        BY <3>2 DEF CannotLoad
      <4> QED BY <4>1
    <3>3. CASE CannotRegister
      <4>1. \A r \in Rule : file[r] # Empty
        BY <3>3 DEF CannotRegister, Unreadable
      <4>2. PICK r \in Invalid, S \in SUBSET (Rule \ Invalid) : RegisteredFrom(S \cup {r})
        BY <3>3 DEF CannotRegister
      <4> QED BY <4>1, <4>2
    <3> QED BY <1>3, <3>1, <3>2, <3>3
  <2>8. conditions' \in [Rule -> Nat] /\ schedules' \in [Rule -> Nat]
    BY <2>5, <2>7, LoadedOK DEF RegisteredFrom
  <2>4. disturbed' \in [Rule -> BOOLEAN] /\ ready' \in BOOLEAN
    BY <1>3 DEF Restart, CannotLoad, CannotRegister, TypeOK
  <2> QED BY <2>2, <2>3, <2>4, <2>5, <2>6, <2>8 DEF TypeOK
<1> QED BY <1>1, <1>2, <1>3

LEMMA StepTypes == TypeInv /\ [Next]_vars => TypeInv'
<1>1. TypeInv /\ UNCHANGED vars => TypeInv'
  BY DEF TypeInv, TypeOK, Named, vars, memory
<1> QED BY <1>1, ClientTypes, RunTypes, OtherTypes DEF Next

\* Every variable keeps its type, for any rules, configurations, clients, runs and bounds: in
\* particular a run only ever puts back a configuration that it has found, and the
\* sum of the points written stays a number while goroutines race for it.
THEOREM LinkEdgeTypeCorrect == Spec => []TypeOK
<1>1. TypeInv => TypeOK
  BY DEF TypeInv
<1> QED BY InitTypes, StepTypes, <1>1, PTL DEF Spec

-----------------------------------------------------------------------------

Works(c, r) == clients[c].at # "idle" /\ clients[c].rule = r

Forgotten(r) == ~Cached(r) /\ conditions[r] = 0

\* What an operation has done to its rule, by the place where it stands.
Stage(c, r) ==
    /\ clients[c].at \in {"create", "write", "register"} => Forgotten(r) /\ schedules[r] = 0
    /\ clients[c].at = "create" => file[r] = Nothing
    /\ clients[c].at = "write" => file[r] = Empty
    /\ clients[c].at = "register" => file[r] = clients[c].conf
    /\ clients[c].at = "undo" => file[r] # Nothing
    /\ clients[c].at = "remove" => Forgotten(r) /\ (file[r] = Nothing => schedules[r] = 0)
    /\ clients[c].at = "stop" => Forgotten(r) /\ file[r] = Nothing

\* A rule that nothing has disturbed is in agreement or at a stage of its only operation.
Consistent(r) ==
    /\ \A c, d \in Client : Works(c, r) /\ Works(d, r) => c = d
    /\ \A c \in Client : Works(c, r) => Stage(c, r)
    /\ ~Busy(r) => Agrees(r)

AgreeInv == TypeInv /\ (ready => \A r \in Rule : disturbed[r] \/ Consistent(r))

\* The entry of r in the map of configurations is the same, up to its time.
SameConf(r) ==
    /\ configs'[r] = Nothing <=> configs[r] = Nothing
    /\ configs[r] # Nothing => configs'[r].conf = configs[r].conf

\* A step that leaves a rule and the operations on it alone.
LEMMA Untouched ==
    ASSUME NEW r \in Rule, Consistent(r), SameConf(r), file'[r] = file[r],
           conditions'[r] = conditions[r], schedules'[r] = schedules[r],
           \A c \in Client : Works(c, r)' <=> Works(c, r),
           \A c \in Client : Works(c, r) => clients'[c] = clients[c]
    PROVE  Consistent(r)'
<1>1. Busy(r)' <=> Busy(r)
  BY DEF Busy, Works
<1>2. Agrees(r) => Agrees(r)'
  BY DEF Agrees, Cached, SameConf
<1>3. \A c \in Client : Works(c, r) /\ Stage(c, r) => Stage(c, r)'
  BY DEF Stage, Forgotten, Cached, SameConf
<1> QED BY <1>1, <1>2, <1>3 DEF Consistent

\* A step that only changes the map of configurations.
LEMMA OnlyConfigs ==
    ASSUME AgreeInv, UNCHANGED <<file, conditions, schedules, ready, clients>>,
           \A r \in Rule : disturbed'[r] \/ (~disturbed[r] /\ (SameConf(r) \/ ~Consistent(r)))
    PROVE  ready' => \A r \in Rule : disturbed'[r] \/ Consistent(r)'
<1> SUFFICES ASSUME ready, NEW r \in Rule, ~disturbed'[r] PROVE Consistent(r)'
  OBVIOUS
<1>1. Consistent(r) /\ SameConf(r)
  BY DEF AgreeInv
<1>2. \A c \in Client : (Works(c, r)' <=> Works(c, r)) /\ clients'[c] = clients[c]
  BY DEF Works
<1> QED BY <1>1, <1>2, Untouched

\* A Get changes nothing of a rule, disturbs it, or was not called for.
LEMMA GetKeeps ==
    ASSUME TypeOK, NEW q \in Rule, configs' = AfterGet(q), Disturbs(DisturbedByGet(q)), NEW r \in Rule
    PROVE  disturbed'[r] \/ (~disturbed[r] /\ (SameConf(r) \/ ~Consistent(r)))
<1>1. disturbed'[r] <=> (disturbed[r] \/ r \in DisturbedByGet(q))
  BY DEF Disturbs
<1>2. CASE ~Reads(q) \/ r # q
  BY <1>1, <1>2 DEF AfterGet, SameConf, TypeOK
<1>3. CASE Reads(q) /\ r = q
  <2>1. Busy(r) => disturbed'[r]
    BY <1>1, <1>3 DEF DisturbedByGet
  <2>2. ~Agrees(r)
    BY <1>3 DEF Agrees, Reads
  <2>b. disturbed'[r] \in BOOLEAN /\ disturbed[r] \in BOOLEAN
    BY DisturbsOK DEF TypeOK
  <2>3. SUFFICES ASSUME disturbed'[r] = FALSE PROVE ~disturbed[r] /\ ~Consistent(r)
    BY <2>b
  <2>4. ~Busy(r)
    BY <2>1, <2>3
  <2>5. ~Consistent(r)
    BY <2>2, <2>4 DEF Consistent
  <2> QED BY <1>1, <2>3, <2>5
<1> QED BY <1>2, <1>3

LEMMA RunGetKeeps ==
    ASSUME TypeOK, NEW p \in Runner, RunGets(p), NEW r \in Rule
    PROVE  disturbed'[r] \/ (~disturbed[r] /\ (SameConf(r) \/ ~Consistent(r)))
<1>1. CASE Stored(p)
  <2>1. runs[p].rule \in Rule
    BY <1>1 DEF Stored, TypeOK, RunType
  <2> QED BY <1>1, <2>1, GetKeeps DEF RunGets
<1>2. CASE ~Stored(p)
  BY <1>2 DEF RunGets, SameConf, TypeOK
<1> QED BY <1>1, <1>2

LEMMA RunsAgree ==
    ASSUME AgreeInv, NEW p \in Runner, Starts(p) \/ RunStep(p)
    PROVE  ready' => \A r \in Rule : disturbed'[r] \/ Consistent(r)'
<1>t. TypeOK /\ Named
  BY DEF AgreeInv, TypeInv
<1>1. UNCHANGED <<file, conditions, schedules, ready, clients>>
  BY Zenon DEF Starts, RunStep, Trigger, Execute, Refused, Accepted, Skip, Collect, Spawn, BeginWriting,
         WritePoints, AddPoints, NotWritten, Report, GetAgain, PutBack, memory
<1>2. ASSUME NEW r \in Rule
      PROVE  disturbed'[r] \/ (~disturbed[r] /\ (SameConf(r) \/ ~Consistent(r)))
  <2>1. CASE UNCHANGED <<configs, disturbed>>
    BY <2>1, <1>t DEF SameConf, TypeOK
  <2>2. CASE RunGets(p)
    BY <2>2, <1>t, RunGetKeeps
  <2>3. CASE PutBack(p)
    <3> DEFINE q == runs[p].rule
    <3>1. q \in Rule /\ runs[p].conf \in ConfigType
      BY <2>3, <1>t DEF PutBack, Named, TypeOK, RunType
    <3>2. [conf |-> runs[p].conf, recent |-> TRUE] # Nothing
      <4>1. [conf |-> runs[p].conf, recent |-> TRUE] \in [conf : ConfigType, recent : BOOLEAN]
        BY <3>1
      <4> QED BY <4>1, LinkEdgeAssumption
    <3>3. CASE r # q
      BY <2>3, <3>1, <3>3, <1>t DEF PutBack, Disturbs, SameConf, TypeOK
    <3>4. CASE r = q
      <4>1. configs'[r] = [conf |-> runs[p].conf, recent |-> TRUE]
        BY <2>3, <3>1, <3>4, <1>t DEF PutBack, TypeOK
      <4>2. configs'[r] # Nothing /\ configs'[r].conf = runs[p].conf
        BY <3>2, <4>1
      <4>3. CASE Cached(r) /\ configs[r].conf = runs[p].conf
        BY <2>3, <3>4, <4>2, <4>3 DEF PutBack, Disturbs, SameConf, Cached
      <4>4. CASE ~(Cached(r) /\ configs[r].conf = runs[p].conf)
        <5>1. Disturbs({r})
          BY <2>3, <3>4, <4>4 DEF PutBack
        <5>2. disturbed'[r]
          BY ONLY <5>1, r \in Rule, Zenon DEF Disturbs
        <5> QED BY <5>2
      <4> QED BY <4>3, <4>4
    <3> QED BY <3>3, <3>4
  <2>4. RunGets(p) \/ PutBack(p) \/ UNCHANGED <<configs, disturbed>>
    BY Zenon DEF Starts, RunStep, Trigger, Execute, Refused, Accepted, Skip, Collect, Spawn, BeginWriting,
           WritePoints, AddPoints, NotWritten, Report, GetAgain, memory
  <2> QED BY <2>1, <2>2, <2>3, <2>4
<1> QED BY <1>1, <1>2, OnlyConfigs

\* An operation moves on: only its own rule is to be looked at.
LEMMA OpMoves ==
    ASSUME AgreeInv, NEW c \in Client, NEW r \in Rule, NEW x \in ClientType,
           clients' = [clients EXCEPT ![c] = x], x.at = "idle" \/ x.rule = r,
           clients[c].at = "idle" \/ clients[c].rule = r,
           \A q \in Rule \ {r} : /\ file'[q] = file[q] /\ configs'[q] = configs[q]
                                 /\ conditions'[q] = conditions[q] /\ schedules'[q] = schedules[q],
           \A q \in Rule : disturbed[q] => disturbed'[q],
           ready' = ready,
           clients[c].at = "idle" /\ Busy(r) => disturbed'[r],
           ready /\ ~disturbed'[r] /\ Consistent(r) =>
               IF x.at = "idle" THEN Agrees(r)' ELSE Stage(c, r)'
    PROVE  ready' => \A q \in Rule : disturbed'[q] \/ Consistent(q)'
<1> SUFFICES ASSUME ready, NEW q \in Rule, ~disturbed'[q] PROVE Consistent(q)'
  OBVIOUS
<1>1. Consistent(q)
  BY DEF AgreeInv
<1>2. clients'[c] = x /\ \A d \in Client \ {c} : clients'[d] = clients[d]
  BY DEF AgreeInv, TypeInv, TypeOK
<1>3. CASE q # r
  <2>1. \A d \in Client : (Works(d, q)' <=> Works(d, q)) /\ (Works(d, q) => clients'[d] = clients[d])
    BY <1>2, <1>3 DEF Works
  <2>2. SameConf(q)
    BY <1>3 DEF SameConf
  <2> QED BY <1>1, <1>3, <2>1, <2>2, Untouched
<1>4. CASE q = r
  <2>1. IF x.at = "idle" THEN Agrees(r)' ELSE Stage(c, r)'
    BY <1>1, <1>4
  <2>2. \A d \in Client \ {c} : ~Works(d, r)
    BY <1>1, <1>4 DEF Consistent, Works, Busy
  <2>3. \A d \in Client \ {c} : ~Works(d, r)'
    BY <1>2, <2>2 DEF Works
  <2>4. Works(c, r)' <=> x.at # "idle"
    BY <1>2 DEF Works
  <2>5. Busy(r)' <=> x.at # "idle"
    BY <2>3, <2>4 DEF Busy, Works
  <2> QED BY <1>4, <2>1, <2>3, <2>4, <2>5 DEF Consistent
<1> QED BY <1>3, <1>4

\* What a step of an operation says of the rules it is not about.
LEMMA DisturbsOnly ==
    ASSUME TypeOK, NEW S, Disturbs(S), NEW q \in Rule
    PROVE  (disturbed[q] => disturbed'[q]) /\ (q \in S => disturbed'[q])
BY DEF Disturbs

LEMMA ForgetsOnly ==
    ASSUME TypeOK, NEW r \in Rule, Forget(r)
    PROVE  /\ \A q \in Rule \ {r} : /\ configs'[q] = configs[q] /\ conditions'[q] = conditions[q]
                                    /\ schedules'[q] = schedules[q]
           /\ configs'[r] = Nothing /\ conditions'[r] = 0 /\ schedules'[r] = schedules[r]
BY DEF Forget, TypeOK

\* A new operation.
LEMMA NewOpAgrees ==
    ASSUME AgreeInv, NEW c \in Client, NEW r \in Rule,
           Delete(c, r) \/ \E conf \in Config : Create(c, r, conf) \/ Update(c, r, conf)
    PROVE  ready' => \A q \in Rule : disturbed'[q] \/ Consistent(q)'
<1>t. TypeOK
  BY DEF AgreeInv, TypeInv
<1>1. /\ clients[c].at = "idle" /\ Disturbs(DisturbedByOp(r)) /\ UNCHANGED <<file, ready>>
  BY DEF Delete, Create, Update, NewOp, FirstIdle
<1>2. /\ \A q \in Rule : disturbed[q] => disturbed'[q]
      /\ Busy(r) => disturbed'[r]
  BY <1>1, <1>t, DisturbsOnly DEF DisturbedByOp
<1>3. ASSUME ready, ~disturbed'[r], Consistent(r) PROVE Agrees(r)
  BY <1>2, <1>3 DEF Consistent
<1>4. ASSUME NEW conf \in ConfigType, NEW again \in BOOLEAN, Forget(r),
             clients' = [clients EXCEPT ![c] =
               [at |-> "remove", rule |-> r, conf |-> conf, again |-> again]]
      PROVE  ready' => \A q \in Rule : disturbed'[q] \/ Consistent(q)'
  <2> DEFINE x == [at |-> "remove", rule |-> r, conf |-> conf, again |-> again]
  <2>1. x \in ClientType /\ x.at = "remove" /\ x.rule = r
    BY DEF ClientType
  <2>2. clients'[c] = x
    BY <1>4, <1>t DEF TypeOK
  <2>3. Agrees(r) => Stage(c, r)'
    BY <1>1, <1>4, <1>t, <2>1, <2>2, ForgetsOnly DEF Agrees, Stage, Forgotten, Cached
  <2>4. ready /\ ~disturbed'[r] /\ Consistent(r) =>
          IF x.at = "idle" THEN Agrees(r)' ELSE Stage(c, r)'
    BY <1>3, <2>1, <2>3
  <2>5. \A q \in Rule \ {r} : /\ file'[q] = file[q] /\ configs'[q] = configs[q]
                              /\ conditions'[q] = conditions[q] /\ schedules'[q] = schedules[q]
    BY <1>1, <1>4, <1>t, ForgetsOnly
  <2>6. clients' = [clients EXCEPT ![c] = x]
    BY <1>4
  <2> HIDE DEF x
  <2> QED BY <1>1, <1>2, <2>1, <2>4, <2>5, <2>6, OpMoves
<1>5. CASE Delete(c, r)
  BY <1>4, <1>5, BlankOK DEF Delete
<1>6. ASSUME NEW conf \in Config, Update(c, r, conf)
      PROVE  ready' => \A q \in Rule : disturbed'[q] \/ Consistent(q)'
  BY <1>4, <1>6, LinkEdgeAssumption DEF Update
<1>7. ASSUME NEW conf \in Config, Create(c, r, conf)
      PROVE  ready' => \A q \in Rule : disturbed'[q] \/ Consistent(q)'
  <2> DEFINE x == [at |-> "create", rule |-> r, conf |-> conf, again |-> FALSE]
  <2>1. x \in ClientType /\ x.at = "create" /\ x.rule = r
    BY LinkEdgeAssumption DEF ClientType
  <2>2. clients' = [clients EXCEPT ![c] = x] /\ ~Cached(r) /\ UNCHANGED <<configs, conditions, schedules>>
    BY <1>7 DEF Create, memory
  <2>3. clients'[c] = x
    BY <2>2, <1>t DEF TypeOK
  <2>4. Agrees(r) => Stage(c, r)'
    BY <1>1, <2>1, <2>2, <2>3 DEF Agrees, Stage, Forgotten, Cached
  <2> HIDE DEF x
  <2> QED BY <1>1, <1>2, <1>3, <2>1, <2>2, <2>4, OpMoves
<1> QED BY <1>5, <1>6, <1>7

\* An operation that goes on.
LEMMA OpGoesOn ==
    ASSUME AgreeInv, NEW c \in Client, NEW r \in Rule, clients[c].rule = r,
           \/ CreateFile(c) \/ CannotCreateFile(c) \/ WriteFile(c) \/ CannotWriteFile(c)
           \/ Register(c) \/ Undo(c)
           \/ Remove(c) \/ NothingToRemove(c) \/ CannotRemove(c) \/ StopSchedule(c)
    PROVE  ready' => \A q \in Rule : disturbed'[q] \/ Consistent(q)'
<1> DEFINE Goal == ready' => \A q \in Rule : disturbed'[q] \/ Consistent(q)'
<1>t. TypeOK
  BY DEF AgreeInv, TypeInv
<1>1. clients[c].at # "idle" /\ clients[c] \in ClientType /\ ready' = ready
  BY <1>t DEF CreateFile, CannotCreateFile, WriteFile, CannotWriteFile, Register, Undo, Remove,
       NothingToRemove, CannotRemove, StopSchedule, AgreeInv, TypeInv, Named, TypeOK
<1>2. Consistent(r) => Stage(c, r)
  BY <1>1 DEF Consistent, Works
<1>3. \A q \in Rule : disturbed[q] => disturbed'[q]
  BY <1>1, <1>t, DisturbsOnly
     DEF CreateFile, CannotCreateFile, WriteFile, CannotWriteFile, Register, Undo, Remove,
         NothingToRemove, CannotRemove, StopSchedule
<1>4. ASSUME NEW x \in ClientType, clients' = [clients EXCEPT ![c] = x], x.at = "idle" \/ x.rule = r,
             \A q \in Rule \ {r} : /\ file'[q] = file[q] /\ configs'[q] = configs[q]
                                   /\ conditions'[q] = conditions[q] /\ schedules'[q] = schedules[q],
             ~disturbed'[r] /\ Stage(c, r) => IF x.at = "idle" THEN Agrees(r)' ELSE Stage(c, r)'
      PROVE  Goal
  <2>1. ready /\ ~disturbed'[r] /\ Consistent(r) =>
          IF x.at = "idle" THEN Agrees(r)' ELSE Stage(c, r)'
    BY <1>2, <1>4
  <2> QED BY <1>1, <1>3, <1>4, <2>1, OpMoves
<1>5. ASSUME Returns(c),
             \A q \in Rule \ {r} : /\ file'[q] = file[q] /\ configs'[q] = configs[q]
                                   /\ conditions'[q] = conditions[q] /\ schedules'[q] = schedules[q],
             ~disturbed'[r] /\ Stage(c, r) => Agrees(r)'
      PROVE  Goal
  BY <1>4, <1>5, IdleOK DEF Returns
<1>6. ASSUME NEW at \in {"create", "write", "register", "undo", "remove", "stop"}, GoesTo(c, at),
             \A q \in Rule \ {r} : /\ file'[q] = file[q] /\ configs'[q] = configs[q]
                                   /\ conditions'[q] = conditions[q] /\ schedules'[q] = schedules[q],
             clients'[c].at = at /\ clients'[c].conf = clients[c].conf
               /\ ~disturbed'[r] /\ Stage(c, r) => Stage(c, r)'
      PROVE  Goal
  <2> DEFINE x == [clients[c] EXCEPT !.at = at]
  <2>1. x \in ClientType /\ x.at = at /\ x.rule = r /\ x.conf = clients[c].conf
    BY <1>1 DEF ClientType
  <2>2. clients' = [clients EXCEPT ![c] = x] /\ clients'[c] = x
    BY <1>6, <1>t DEF GoesTo, TypeOK
  <2> HIDE DEF x
  <2> QED BY <1>4, <1>6, <2>1, <2>2
<1> SUFFICES Goal
  OBVIOUS
<1> HIDE DEF Goal
<1>7. CASE CreateFile(c)
  <2>1. /\ GoesTo(c, "write") /\ UNCHANGED <<configs, conditions, schedules>>
        /\ file'[r] = Empty /\ \A q \in Rule \ {r} : file'[q] = file[q]
    BY <1>7, <1>1, <1>t DEF CreateFile, TypeOK, memory
  <2>2. clients[c].at = "create"
    BY <1>7 DEF CreateFile
  <2> QED BY <1>6, <2>1, <2>2 DEF Stage, Forgotten, Cached
<1>8. CASE CannotCreateFile(c) \/ NothingToRemove(c)
  <2>1. /\ Returns(c) /\ UNCHANGED <<file, configs, conditions, schedules>>
        /\ clients[c].at = "create" \/ (clients[c].at = "remove" /\ file[r] = Nothing)
    BY <1>8 DEF CannotCreateFile, NothingToRemove, memory
  <2>2. Stage(c, r) => Agrees(r)'
    BY <2>1 DEF Stage, Forgotten, Agrees, Cached
  <2> QED BY <1>5, <2>1, <2>2
<1>9. CASE WriteFile(c)
  <2>1. /\ GoesTo(c, "register") /\ UNCHANGED <<configs, conditions, schedules>>
        /\ file' = Written(c) /\ clients[c].at = "write"
    BY <1>9 DEF WriteFile, memory
  <2>2. \A q \in Rule \ {r} : file'[q] = file[q]
    BY <2>1, <1>1, <1>t DEF Written, TypeOK
  <2>3. file[r] = Empty => file'[r] = clients[c].conf
    BY <2>1, <1>1, <1>t, LinkEdgeAssumption DEF Written, TypeOK
  <2> QED BY <1>6, <2>1, <2>2, <2>3 DEF Stage, Forgotten, Cached
<1>10. CASE CannotWriteFile(c) \/ CannotRemove(c)
  <2>1. /\ Returns(c) /\ UNCHANGED <<configs, conditions, schedules>> /\ file' \in {file, Written(c)}
        /\ Disturbs({r})
    BY <1>10 DEF CannotWriteFile, CannotRemove, memory
  <2>2. \A q \in Rule \ {r} : file'[q] = file[q]
    BY <2>1, <1>1, <1>t DEF Written, TypeOK
  <2>3. disturbed'[r]
    BY <2>1, <1>1, <1>t, DisturbsOnly
  <2> QED BY <1>5, <2>1, <2>2, <2>3
<1>11. CASE Register(c)
  <2>1. /\ clients[c].at = "register" /\ configs' = AfterGet(r) /\ UNCHANGED file
    BY <1>11 DEF Register
  <2>2. \A q \in Rule \ {r} : /\ configs'[q] = configs[q] /\ conditions'[q] = conditions[q]
                              /\ schedules'[q] = schedules[q]
    BY <1>11, <2>1, <1>1, <1>t DEF Register, Registered, AfterGet, TypeOK
  <2>3. CASE Returns(c)
    <3>1. ASSUME Stage(c, r) PROVE Agrees(r)'
      <4>1. configs[r] = Nothing /\ conditions[r] = 0 /\ schedules[r] = 0 /\ file[r] = clients[c].conf
        BY <2>1, <3>1 DEF Stage, Forgotten, Cached
      <4>2. file[r] \in ConfigType /\ file[r] # Nothing /\ file[r] # Empty
        BY <1>1, <4>1, LinkEdgeAssumption DEF ClientType
      <4>3. /\ Found(r) /\ ConfOf(r) = file[r]
            /\ file[r].conditions \in Nat /\ file[r].schedules \in Nat
        BY <4>1, <4>2 DEF Found, ConfOf, Cached, ConfigType
      <4>4. conditions'[r] = file[r].conditions /\ schedules'[r] = file[r].schedules
        BY <1>11, <1>1, <1>t, <4>1, <4>3 DEF Register, Registered, TypeOK
      <4>5. [conf |-> file[r], recent |-> FALSE] # Nothing
        <5>1. [conf |-> file[r], recent |-> FALSE] \in [conf : ConfigType, recent : BOOLEAN]
          BY <4>2
        <5> QED BY <5>1, LinkEdgeAssumption
      <4>6. configs'[r] = [conf |-> file[r], recent |-> FALSE]
        BY <2>1, <1>1, <1>t, <4>1, <4>2 DEF AfterGet, Reads, Cached, TypeOK
      <4> QED BY <2>1, <4>2, <4>4, <4>5, <4>6 DEF Agrees, Cached
    <3> QED BY <1>5, <2>1, <2>2, <2>3, <3>1
  <2>4. CASE GoesTo(c, "undo")
    <3>1. Stage(c, r) => file[r] # Nothing
      BY <2>1, <1>1, LinkEdgeAssumption DEF Stage, ClientType
    <3> QED BY <1>6, <2>1, <2>2, <2>4, <3>1 DEF Stage
  <2> QED BY <1>11, <2>3, <2>4 DEF Register
<1>12. CASE Undo(c)
  <2> DEFINE x == [clients[c] EXCEPT !.at = "remove", !.again = FALSE]
  <2>1. x \in ClientType /\ x.at = "remove" /\ x.rule = r
    BY <1>1 DEF ClientType
  <2>2. /\ clients' = [clients EXCEPT ![c] = x] /\ clients'[c] = x
        /\ Forget(r) /\ UNCHANGED file /\ clients[c].at = "undo"
    BY <1>12, <1>1, <1>t DEF Undo, TypeOK, ClientType
  <2> HIDE DEF x
  <2>3. Stage(c, r) => Stage(c, r)'
    BY <2>1, <2>2, <1>1, <1>t, ForgetsOnly DEF Stage, Forgotten, Cached
  <2> QED BY <1>4, <1>1, <1>t, <2>1, <2>2, <2>3, ForgetsOnly
<1>13. CASE Remove(c)
  <2>1. /\ GoesTo(c, "stop") /\ UNCHANGED <<configs, conditions, schedules>>
        /\ file'[r] = Nothing /\ \A q \in Rule \ {r} : file'[q] = file[q]
        /\ clients[c].at = "remove"
    BY <1>13, <1>1, <1>t DEF Remove, TypeOK, memory
  <2> QED BY <1>6, <2>1 DEF Stage, Forgotten, Cached
<1>14. CASE StopSchedule(c)
  <2>1. /\ UNCHANGED <<file, configs, conditions>> /\ clients[c].at = "stop"
        /\ schedules'[r] = 0 /\ \A q \in Rule \ {r} : schedules'[q] = schedules[q]
    BY <1>14, <1>1, <1>t DEF StopSchedule, TypeOK
  <2>2. CASE Returns(c)
    <3>1. Stage(c, r) => Agrees(r)'
      BY <2>1 DEF Stage, Forgotten, Agrees, Cached
    <3> QED BY <1>5, <2>1, <2>2, <3>1
  <2>3. CASE GoesTo(c, "create")
    BY <1>6, <2>1, <2>3 DEF Stage, Forgotten, Cached
  <2> QED BY <1>14, <2>2, <2>3 DEF StopSchedule
<1> QED
  BY <1>7, <1>8, <1>9, <1>10, <1>11, <1>12, <1>13, <1>14

LEMMA ClientsAgree ==
    ASSUME AgreeInv, NEW c \in Client, ClientStep(c)
    PROVE  ready' => \A q \in Rule : disturbed'[q] \/ Consistent(q)'
<1>1. CASE \E r \in Rule : Delete(c, r) \/ \E conf \in Config : Create(c, r, conf) \/ Update(c, r, conf)
  BY <1>1, NewOpAgrees
<1>2. CASE \/ CreateFile(c) \/ CannotCreateFile(c) \/ WriteFile(c) \/ CannotWriteFile(c)
           \/ Register(c) \/ Undo(c)
           \/ Remove(c) \/ NothingToRemove(c) \/ CannotRemove(c) \/ StopSchedule(c)
  <2>1. clients[c].at # "idle"
    BY <1>2 DEF CreateFile, CannotCreateFile, WriteFile, CannotWriteFile, Register, Undo, Remove,
         NothingToRemove, CannotRemove, StopSchedule
  <2>2. clients[c].rule \in Rule
    BY <2>1 DEF AgreeInv, TypeInv, Named
  <2> QED BY <1>2, <2>2, OpGoesOn
<1> QED BY <1>1, <1>2 DEF ClientStep

\* Loading and registering every file, none of which is empty, brings all rules into agreement.
LEMMA LoadAgrees ==
    ASSUME file \in [Rule -> ConfigType \cup {Nothing, Empty}], Unreadable = {}, NEW r \in Rule
    PROVE  IF file[r] = Nothing
           THEN Loaded(Rule)[r] = Nothing /\ ConditionsOf(Rule)[r] = 0 /\ SchedulesOf(Rule)[r] = 0
           ELSE /\ file[r] # Empty /\ Loaded(Rule)[r] # Nothing /\ Loaded(Rule)[r].conf = file[r]
                /\ ConditionsOf(Rule)[r] = file[r].conditions
                /\ SchedulesOf(Rule)[r] = file[r].schedules
<1>1. file[r] # Empty
  BY DEF Unreadable
<1>2. file[r] # Nothing => [conf |-> file[r], recent |-> FALSE] # Nothing
  <2>1. file[r] # Nothing => [conf |-> file[r], recent |-> FALSE] \in [conf : ConfigType, recent : BOOLEAN]
    BY <1>1
  <2> QED BY <2>1, LinkEdgeAssumption
<1>3. Loaded(Rule)[r] = IF file[r] = Nothing THEN Nothing ELSE [conf |-> file[r], recent |-> FALSE]
  BY <1>1 DEF Loaded
<1> QED BY <1>1, <1>2, <1>3 DEF ConditionsOf, SchedulesOf

LEMMA InitAgrees == Init => AgreeInv
<1> SUFFICES ASSUME Init PROVE AgreeInv
  OBVIOUS
<1>1. TypeInv
  BY InitTypes
<1>2. \A c \in Client, r \in Rule : ~Works(c, r)
  BY DEF Init, Works, IdleClient
<1>3. Unreadable = {} /\ file \in [Rule -> ConfigType \cup {Nothing, Empty}]
  BY LinkEdgeAssumption DEF Init, Unreadable
<1>4. /\ configs = Loaded(Rule) /\ conditions = ConditionsOf(Rule) /\ schedules = SchedulesOf(Rule)
  BY DEF Init
<1>5. \A r \in Rule : Agrees(r)
  BY <1>3, <1>4, LoadAgrees DEF Agrees, Cached
<1> QED BY <1>1, <1>2, <1>5 DEF AgreeInv, Consistent

LEMMA StepAgrees == AgreeInv /\ [Next]_vars => AgreeInv'
<1> SUFFICES ASSUME AgreeInv, [Next]_vars PROVE AgreeInv'
  OBVIOUS
<1>t. TypeInv /\ TypeOK /\ TypeInv'
  BY StepTypes DEF AgreeInv, TypeInv
<1> DEFINE Goal == ready' => \A q \in Rule : disturbed'[q] \/ Consistent(q)'
<1> SUFFICES Goal
  BY <1>t DEF AgreeInv
<1>1. ASSUME NEW c \in Client, ClientStep(c) PROVE Goal
  BY <1>1, ClientsAgree
<1>2. ASSUME NEW p \in Runner, Starts(p) \/ RunStep(p) PROVE Goal
  BY <1>2, RunsAgree
<1>3. ASSUME NEW r \in Rule, Get(r) PROVE Goal
  <2>1. \A q \in Rule : disturbed'[q] \/ (~disturbed[q] /\ (SameConf(q) \/ ~Consistent(q)))
    BY <1>3, <1>t, GetKeeps DEF Get
  <2> QED BY <1>3, <2>1, OnlyConfigs DEF Get
<1>4. ASSUME NEW r \in Rule, SilenceEnds(r) PROVE Goal
  <2>1. configs[r] \in EntryType
    BY <1>4, <1>t DEF SilenceEnds, Cached, TypeOK
  <2>2. \A q \in Rule \ {r} : SameConf(q)
    BY <1>4, <1>t DEF SilenceEnds, SameConf, TypeOK
  <2>3. SameConf(r)
    <3>1. configs'[r] = [configs[r] EXCEPT !.recent = FALSE]
      BY <1>4, <1>t DEF SilenceEnds, TypeOK
    <3>2. configs'[r] \in [conf : ConfigType, recent : BOOLEAN] /\ configs'[r].conf = configs[r].conf
      BY <2>1, <3>1 DEF EntryType
    <3> QED BY <1>4, <3>2, LinkEdgeAssumption DEF SameConf, SilenceEnds, Cached
  <2>4. UNCHANGED disturbed
    BY <1>4 DEF SilenceEnds
  <2>5. \A q \in Rule : disturbed'[q] \/ (~disturbed[q] /\ (SameConf(q) \/ ~Consistent(q)))
    BY <2>2, <2>3, <2>4
  <2> QED BY <1>4, <2>5, OnlyConfigs DEF SilenceEnds
<1>5. CASE Restart
  <2>1. \A c \in Client, r \in Rule : ~Works(c, r)'
    BY <1>5 DEF Restart, Stops, Works, IdleClient
  <2>2. UNCHANGED file /\ Unreadable = {} /\ file \in [Rule -> ConfigType \cup {Nothing, Empty}]
    BY <1>5, <1>t DEF Restart, Stops, TypeOK
  <2>3. configs' = Loaded(Rule) /\ conditions' = ConditionsOf(Rule) /\ schedules' = SchedulesOf(Rule)
    BY <1>5 DEF Restart, RegisteredFrom
  <2>4. \A r \in Rule : Agrees(r)'
    BY <2>2, <2>3, LoadAgrees DEF Agrees, Cached
  <2> QED BY <2>1, <2>4 DEF Consistent
<1>6. CASE CannotLoad \/ CannotRegister
  BY <1>6 DEF CannotLoad, CannotRegister
<1>7. CASE UNCHANGED vars
  <2>1. UNCHANGED <<file, configs, conditions, schedules, ready, clients, disturbed>>
    BY <1>7 DEF vars, memory
  <2>2. \A q \in Rule : disturbed'[q] \/ (~disturbed[q] /\ (SameConf(q) \/ ~Consistent(q)))
    BY <2>1 DEF SameConf
  <2> QED BY <2>1, <2>2, OnlyConfigs
<1> HIDE DEF Goal
<1> QED BY <1>1, <1>2, <1>3, <1>4, <1>5, <1>6, <1>7 DEF Next

\* Between operations a rule's file, configuration, conditions and schedules agree, for any number
\* of rules, clients and runs, and after any number of restarts, unless the rule has
\* been disturbed: no order of steps other than those named at Disturbs, and no early
\* return, takes them apart.
THEOREM RulesAlwaysAgree == Spec => []RulesAgree
<1>1. AgreeInv => RulesAgree
  BY DEF AgreeInv, Consistent, RulesAgree
<1> QED BY InitAgrees, StepAgrees, <1>1, PTL DEF Spec

-----------------------------------------------------------------------------
(***************************************************************************)
(* The gateways                                                            *)
(***************************************************************************)
\* A set of natural numbers has a least member.
LEMMA LeastNat ==
    ASSUME NEW S \in SUBSET Nat, S # {}
    PROVE  \E x \in S : \A y \in S : x <= y
<1>1. IsWellFoundedOn(OpToRel(<, Nat), Nat)
  BY NatLessThanWellFounded, Zenon
<1> DEFINE R == OpToRel(<, Nat)
<1>2. \A x, y \in Nat : y < x => <<y, x>> \in R
  BY DEF OpToRel
<1> HIDE DEF R
<1>3. PICK x \in S : \A y \in S : <<y, x>> \notin R
  BY <1>1, WFMin, Zenon DEF R
<1>4. \A y \in S : ~(y < x)
  <2> TAKE y \in S
  <2>1. x \in Nat /\ y \in Nat
    OBVIOUS
  <2> QED BY <1>2, <1>3, <2>1, Zenon
<1>5. \A y \in S : x <= y
  <2> TAKE y \in S
  <2>1. x \in Nat /\ y \in Nat /\ ~(y < x)
    BY <1>4
  <2> QED BY <2>1
<1> QED BY <1>3, <1>5, Zenon

\* What the sub-gateway makes of a device of the main gateway is the device it was made for.
LEMMA ParseGen ==
    ASSUME NEW T, Serial \notin T, NEW d \in Seq(T)
    PROVE  Gate!ParseDevice(Gate!GenDevice(d)) = d
<1> DEFINE x == <<Serial>> \o d
           N == 0 .. Len(x)
           Parsed(f) == [n \in N |-> IF n = 0 THEN <<>>
                                     ELSE IF x[n] = Serial THEN f[n - 1] ELSE Append(f[n - 1], x[n])]
           g == [n \in N |-> IF n = 0 THEN <<>> ELSE SubSeq(d, 1, n - 1)]
           h == CHOOSE f : f = Parsed(f)
<1>1. x \in Seq(T \cup {Serial}) /\ Len(x) = Len(d) + 1 /\ Len(d) \in Nat
  OBVIOUS
<1>2. x[1] = Serial /\ \A n \in 2 .. Len(x) : x[n] = d[n - 1] /\ x[n] # Serial
  OBVIOUS
<1>3. \A n \in 2 .. Len(x) : Append(SubSeq(d, 1, n - 2), d[n - 1]) = SubSeq(d, 1, n - 1)
  <2> TAKE n \in 2 .. Len(x)
  <2>1. n - 1 \in 1 .. Len(d)
    BY <1>1
  <2> QED BY <1>1, <2>1
<1>4. \A n \in N : g[n] = Parsed(g)[n]
  <2> TAKE n \in N
  <2>1. CASE n = 0
    BY <2>1
  <2>2. CASE n = 1
    <3>1. g[1] = SubSeq(d, 1, 0) /\ SubSeq(d, 1, 0) = <<>>
      BY <1>1
    <3> QED BY <1>1, <1>2, <2>2, <3>1
  <2>3. CASE n \in 2 .. Len(x)
    <3>1. g[n - 1] = SubSeq(d, 1, n - 2) /\ g[n] = SubSeq(d, 1, n - 1)
      BY <1>1, <2>3
    <3>2. Parsed(g)[n] = Append(g[n - 1], d[n - 1])
      BY <1>1, <1>2, <2>3
    <3> QED BY <1>3, <2>3, <3>1, <3>2
  <2> QED BY <1>1, <2>1, <2>2, <2>3
<1>5. g = Parsed(g)
  BY <1>4
<1>6. h = Parsed(h)
  <2> HIDE DEF g, Parsed
  <2> QED BY <1>5, Zenon
<1>7. \A n \in N : h[n] = Parsed(h)[n]
  <2> HIDE DEF Parsed, h
  <2> QED BY <1>6, Zenon
<1> DEFINE D == {n \in N : h[n] # g[n]}
<1>8. D = {}
  <2> SUFFICES ASSUME D # {} PROVE FALSE
    OBVIOUS
  <2> HIDE DEF h, g
  <2>1. D \in SUBSET Nat
    OBVIOUS
  <2>2. PICK n \in D : \A m \in D : n <= m
    <3> HIDE DEF D
    <3> QED BY <2>1, LeastNat, Zenon
  <2>3. n \in N /\ h[n] # g[n] /\ Len(x) \in Nat
    BY <1>1, <2>2
  <2>4. n # 0
    <3> USE DEF g
    <3> QED BY <1>7, <2>3
  <2>5. n - 1 \in N /\ n - 1 \notin D
    BY <2>2, <2>3, <2>4
  <2>6. h[n - 1] = g[n - 1]
    BY <2>5
  <2>7. h[n] = Parsed(h)[n] /\ g[n] = Parsed(g)[n]
    <3> HIDE DEF Parsed
    <3> QED BY <1>4, <1>7, <2>3
  <2>8. Parsed(h)[n] = Parsed(g)[n]
    BY <2>3, <2>4, <2>6
  <2> QED BY <2>3, <2>7, <2>8
<1>9. h[Len(x)] = d
  <2>1. Len(x) \in N /\ Len(x) - 1 = Len(d) /\ Len(x) # 0
    BY <1>1
  <2>2. h[Len(x)] = g[Len(x)]
    <3> HIDE DEF h, g
    <3> QED BY <1>8, <2>1
  <2>3. g[Len(x)] = SubSeq(d, 1, Len(d))
    BY <2>1
  <2>4. SubSeq(d, 1, Len(d)) = d
    OBVIOUS
  <2> HIDE DEF h, g
  <2> QED BY <2>2, <2>3, <2>4, Zenon
<1> QED BY <1>9, Zenon DEF Gate!ParseDevice, Gate!GenDevice

Remote == Gate!RemoteDevice
RemoteModel == {Gate!GenModel(SubModel[d]) : d \in SubDevice}
Line == Socket \cup {NoConn}

SubShadows == UNION {[D -> SubValue] : D \in SUBSET SubDevice}
RemoteShadows == UNION {[D -> SubValue] : D \in SUBSET Remote}

SubReport == [device : SubDevice, value : SubValue]

UpMessage == [type : {"register"}] \cup [type : {"control"}, device : Remote, id : Nat]

DownMessage ==
    [type : {"registered"}]
        \cup [type : {"models"}, models : SUBSET RemoteModel]
        \cup [type : {"devices"}, devices : SUBSET SubDevice]
        \cup [type : {"shadow"}, shadow : RemoteShadows]
        \cup [type : {"report"}, device : Remote, value : SubValue]

SubTypes ==
    /\ devices \in SUBSET SubDevice
    /\ value \in [SubDevice -> SubValue]
    /\ reports \in Seq(SubReport)
    /\ reporter \in [stage : {"idle", "checked", "writing"}, conn : Line]
    /\ mainGateway \in BOOLEAN /\ mainConn \in Line
    /\ handler \in [Socket -> {"none", "open", "panicked", "forgetting", "closed"}]
    /\ job \in [Socket -> {"none", "respond", "models", "devices", "take", "shadow", "answer"}]
    /\ taken \in [Socket -> SubShadows]
    /\ performed \in Seq([id : Nat, device : SubDevice])
    /\ crashed \in BOOLEAN

MainTypes ==
    /\ loop \in [MainConnector -> {"off", "dial", "dialed", "read", "wait", "done"}]
    /\ cur \in [MainConnector -> Line] /\ conn \in [MainConnector -> Line]
    /\ registering \in [MainConnector -> Nat] /\ destroyed \in [MainConnector -> BOOLEAN]
    /\ mainModels \in SUBSET RemoteModel /\ mainDevices \in SUBSET Remote
    /\ mainShadow \in [Remote -> SubValue \cup {NoValue}]

WireTypes ==
    /\ up \in [Socket -> Seq(UpMessage)] /\ down \in [Socket -> Seq(DownMessage)]
    /\ broken \in [Socket -> BOOLEAN]
    /\ commands \in Seq([device : Remote, conn : Socket]) /\ moves \in Nat

HistoryTypes ==
    /\ stolen \in BOOLEAN /\ ghost \in BOOLEAN
    /\ overtaken \in SUBSET SubDevice
    /\ promised \in [Socket -> SUBSET SubDevice]

\* A connector that reads has a connection, the one it has stored; a report being sent is the
\* first of those that wait.
Lines ==
    /\ \A c \in MainConnector :
          /\ loop[c] \in {"dialed", "read"} => cur[c] \in Socket
          /\ loop[c] = "read" => conn[c] = cur[c]
          /\ conn[c] # NoConn => loop[c] = "read"
    /\ reporter.stage # "idle" => reports # <<>>
    /\ reporter.stage = "writing" => reporter.conn \in Socket

GateTypes == SubTypes /\ MainTypes /\ WireTypes /\ HistoryTypes /\ Lines

LEMMA GateFacts ==
    /\ NoConn \notin Socket /\ \A n \in Socket : n \in Nat
    /\ FirstSubDevices \subseteq SubDevice /\ SubValue # {} /\ MaxMoves \in Nat
BY GatewayAssumption

LEMMA ParseRemote ==
    ASSUME NEW x \in Remote
    PROVE  /\ Gate!ParseDevice(x) \in SubDevice
           /\ Gate!GenDevice(Gate!ParseDevice(x)) = x
<1>1. PICK d \in SubDevice : x = Gate!GenDevice(d)
  BY DEF Remote, Gate!RemoteDevice
<1> DEFINE T == {d[i] : i \in DOMAIN d} \ {Serial}
<1>2. d \in Seq(T) /\ Serial \notin T
  BY GatewayAssumption
<1>3. Gate!ParseDevice(Gate!GenDevice(d)) = d
  <2> HIDE DEF T
  <2> QED BY <1>2, ParseGen
<1> QED BY <1>1, <1>3, Zenon

LEMMA GenRemote == \A d \in SubDevice : Gate!GenDevice(d) \in Remote
BY Zenon DEF Remote, Gate!RemoteDevice

LEMMA PutType ==
    ASSUME NEW T, NEW wire \in [Socket -> Seq(T)], NEW n \in Socket, NEW m \in T
    PROVE  Gate!Put(wire, n, m) \in [Socket -> Seq(T)]
BY DEF Gate!Put

LEMMA ShadowTypes ==
    /\ \A D \in SUBSET SubDevice : \A f : f \in [D -> SubValue] => f \in SubShadows
    /\ \A D \in SUBSET Remote : \A f : f \in [D -> SubValue] => f \in RemoteShadows
    /\ \A f \in SubShadows : DOMAIN f \subseteq SubDevice /\ f \in [DOMAIN f -> SubValue]
    /\ \A f \in RemoteShadows : DOMAIN f \subseteq Remote /\ f \in [DOMAIN f -> SubValue]
<1>1. ASSUME NEW S, NEW f \in UNION {[D -> SubValue] : D \in SUBSET S}
      PROVE  DOMAIN f \subseteq S /\ f \in [DOMAIN f -> SubValue]
  <2>1. PICK D \in SUBSET S : f \in [D -> SubValue]
    BY <1>1, Zenon
  <2>2. DOMAIN f = D
    BY <2>1
  <2> QED BY <2>1, <2>2, Zenon
<1>2. ASSUME NEW S, NEW D \in SUBSET S, NEW f \in [D -> SubValue]
      PROVE  f \in UNION {[E -> SubValue] : E \in SUBSET S}
  BY <1>2, Zenon
<1> QED BY <1>1, <1>2, Zenon DEF SubShadows, RemoteShadows

LEMMA NoShadow == [d \in {} |-> NoValue] \in SubShadows
<1>1. [d \in {} |-> NoValue] \in [{} -> SubValue]
  OBVIOUS
<1> QED BY <1>1, ShadowTypes, Zenon

LEMMA GateTypesInit == Gate!Init => GateTypes
<1> SUFFICES ASSUME Gate!Init PROVE GateTypes
  OBVIOUS
<1> USE GateFacts
<1>1. SubTypes
  <2>1. value \in [SubDevice -> SubValue]
    BY DEF Gate!Init
  <2>2. [d \in {} |-> NoValue] \in SubShadows
    BY NoShadow
  <2>3. taken \in [Socket -> SubShadows]
    BY <2>2 DEF Gate!Init
  <2>4. devices \in SUBSET SubDevice /\ mainGateway \in BOOLEAN /\ crashed \in BOOLEAN
    BY DEF Gate!Init
  <2>5. reporter = [stage |-> "idle", conn |-> NoConn] /\ mainConn = NoConn
    BY DEF Gate!Init, Gate!Idle
  <2>6. reports = <<>> /\ performed = <<>>
    BY DEF Gate!Init
  <2>7. /\ handler = [n \in Socket |-> "none"] /\ job = [n \in Socket |-> "none"]
    BY DEF Gate!Init
  <2> QED BY <2>1, <2>3, <2>4, <2>5, <2>6, <2>7 DEF SubTypes, Line
<1>2. MainTypes
  BY DEF Gate!Init, MainTypes, Line, Remote
<1>3. WireTypes
  BY DEF Gate!Init, WireTypes
<1>4. HistoryTypes
  BY DEF Gate!Init, HistoryTypes
<1>5. Lines
  BY DEF Gate!Init, Lines, Gate!Idle
<1> QED BY <1>1, <1>2, <1>3, <1>4, <1>5 DEF GateTypes


\* What is copied of the shadow, and what is sent of the copy.
LEMMA CopyType ==
    ASSUME NEW copy \in SubShadows
    PROVE  [x \in {Gate!GenDevice(d) : d \in DOMAIN copy} |->
              copy[CHOOSE d \in DOMAIN copy : Gate!GenDevice(d) = x]] \in RemoteShadows
<1> DEFINE D == {Gate!GenDevice(d) : d \in DOMAIN copy}
           f == [x \in D |-> copy[CHOOSE d \in DOMAIN copy : Gate!GenDevice(d) = x]]
<1>1. DOMAIN copy \subseteq SubDevice /\ copy \in [DOMAIN copy -> SubValue]
  BY ShadowTypes, Zenon
<1>2. D \in SUBSET Remote
  BY <1>1, GenRemote, Zenon
<1>3. ASSUME NEW x \in D PROVE copy[CHOOSE d \in DOMAIN copy : Gate!GenDevice(d) = x] \in SubValue
  <2>1. \E d \in DOMAIN copy : Gate!GenDevice(d) = x
    BY Zenon
  <2>2. (CHOOSE d \in DOMAIN copy : Gate!GenDevice(d) = x) \in DOMAIN copy
    BY <2>1, Zenon
  <2> QED BY <1>1, <2>2, Zenon
<1>4. f \in [D -> SubValue]
  BY <1>3, Zenon
<1> QED BY <1>2, <1>4, ShadowTypes, Zenon

LEMMA UpMessages ==
    /\ [type |-> "register"] \in UpMessage
    /\ \A x \in Remote, i \in Nat : [type |-> "control", device |-> x, id |-> i] \in UpMessage
BY DEF UpMessage

LEMMA DownMessages ==
    /\ [type |-> "registered"] \in DownMessage
    /\ \A D \in SUBSET SubDevice :
          [type |-> "models", models |-> {Gate!GenModel(SubModel[d]) : d \in D}] \in DownMessage
    /\ \A D \in SUBSET SubDevice : [type |-> "devices", devices |-> D] \in DownMessage
    /\ \A f \in RemoteShadows : [type |-> "shadow", shadow |-> f] \in DownMessage
    /\ \A x \in Remote, v \in SubValue : [type |-> "report", device |-> x, value |-> v] \in DownMessage
BY DEF DownMessage, RemoteModel

LEMMA DownFields ==
    ASSUME NEW m \in DownMessage
    PROVE  /\ m.type = "models" => m.models \subseteq RemoteModel
           /\ m.type = "devices" => m.devices \subseteq SubDevice
           /\ m.type = "shadow" => m.shadow \in RemoteShadows
           /\ m.type = "report" => m.device \in Remote /\ m.value \in SubValue
BY DEF DownMessage


LEMMA SubSame == SubTypes /\ UNCHANGED Gate!subVars => SubTypes'
BY DEF SubTypes, Gate!subVars

LEMMA MainSame == MainTypes /\ UNCHANGED Gate!mainVars => MainTypes'
BY DEF MainTypes, Gate!mainVars

LEMMA WireSame == WireTypes /\ UNCHANGED <<Gate!wireVars, Gate!counters>> => WireTypes'
BY DEF WireTypes, Gate!wireVars, Gate!counters

LEMMA HistorySame == HistoryTypes /\ UNCHANGED Gate!history => HistoryTypes'
BY DEF HistoryTypes, Gate!history

LEMMA LinesSame == Lines /\ UNCHANGED <<loop, cur, conn, reporter, reports>> => Lines'
BY DEF Lines

LEMMA ConnectorTypes ==
    ASSUME GateTypes, NEW c \in MainConnector,
           \/ Gate!Initialize(c) \/ Gate!Dial(c) \/ Gate!Connect(c) \/ Gate!Register(c) \/ Gate!Command(c)
           \/ Gate!Destroy(c)
    PROVE  GateTypes'
<1> USE GateFacts
<1>a. SubTypes /\ MainTypes /\ WireTypes /\ HistoryTypes /\ Lines
  BY DEF GateTypes
<1>1. CASE Gate!Initialize(c)
  <2>1. MainTypes' /\ Lines'
    BY <1>1, <1>a DEF Gate!Initialize, MainTypes, Lines, Gate!subVars
  <2>2. UNCHANGED <<Gate!subVars, Gate!wireVars, Gate!counters, Gate!history>>
    BY <1>1 DEF Gate!Initialize
  <2> QED BY <1>a, <2>1, <2>2, SubSame, WireSame, HistorySame DEF GateTypes
<1>2. CASE Gate!Dial(c)
  <2>1. PICK n \in Socket : /\ handler' = [handler EXCEPT ![n] = "open"]
                            /\ cur' = [cur EXCEPT ![c] = n]
    BY <1>2 DEF Gate!Dial, Gate!Fresh
  <2>2. MainTypes' /\ Lines'
    BY <1>2, <1>a, <2>1 DEF Gate!Dial, MainTypes, Lines, Line
  <2>3. SubTypes'
    BY <1>2, <1>a, <2>1 DEF Gate!Dial, SubTypes
  <2>4. UNCHANGED <<Gate!wireVars, Gate!counters, Gate!history>>
    BY <1>2 DEF Gate!Dial
  <2> QED BY <1>a, <2>2, <2>3, <2>4, WireSame, HistorySame DEF GateTypes
<1>3. CASE Gate!Store(c)
  <2>1. MainTypes' /\ Lines'
    BY <1>3, <1>a DEF Gate!Store, MainTypes, Lines, Line, Gate!subVars
  <2>2. HistoryTypes'
    BY <1>3, <1>a DEF Gate!Store, HistoryTypes, MainTypes
  <2>3. UNCHANGED <<Gate!subVars, Gate!wireVars, Gate!counters>>
    BY <1>3 DEF Gate!Store
  <2> QED BY <1>a, <2>1, <2>2, <2>3, SubSame, WireSame DEF GateTypes
<1>4. CASE Gate!Lost(c)
  <2>1. MainTypes' /\ Lines'
    BY <1>4, <1>a DEF Gate!Lost, MainTypes, Lines, Line, Gate!subVars
  <2>2. UNCHANGED <<Gate!subVars, Gate!wireVars, Gate!counters, Gate!history>>
    BY <1>4 DEF Gate!Lost
  <2> QED BY <1>a, <2>1, <2>2, SubSame, WireSame, HistorySame DEF GateTypes
<1>5. CASE Gate!Retry(c)
  <2>1. MainTypes' /\ Lines'
    BY <1>5, <1>a DEF Gate!Retry, MainTypes, Lines, Gate!subVars
  <2>2. UNCHANGED <<Gate!subVars, Gate!wireVars, Gate!counters, Gate!history>>
    BY <1>5 DEF Gate!Retry
  <2> QED BY <1>a, <2>1, <2>2, SubSame, WireSame, HistorySame DEF GateTypes
<1>6. CASE Gate!MainReceive(c)
  <2>1. cur[c] \in Socket /\ down[cur[c]] \in Seq(DownMessage) /\ down[cur[c]] # <<>>
    BY <1>6, <1>a DEF Gate!MainReceive, Lines, WireTypes
  <2> DEFINE m == Head(down[cur[c]])
  <2>2. m \in DownMessage /\ Tail(down[cur[c]]) \in Seq(DownMessage)
    BY <2>1
  <2> HIDE DEF m
  <2>3. Gate!ModelsAfter(m) \in SUBSET RemoteModel
    BY <1>a, <2>2, DownFields DEF Gate!ModelsAfter, MainTypes
  <2>4. Gate!DevicesAfter(m) \in SUBSET Remote
    BY <1>a, <2>2, DownFields, GenRemote DEF Gate!DevicesAfter, MainTypes
  <2>5. Gate!ShadowAfter(m) \in [Remote -> SubValue \cup {NoValue}]
    <3>1. CASE m.type = "shadow"
      <4>1. \A x \in DOMAIN m.shadow : m.shadow[x] \in SubValue
        BY <2>2, <3>1, DownFields, ShadowTypes
      <4> QED BY <1>a, <3>1, <4>1 DEF Gate!ShadowAfter, MainTypes, Remote
    <3> QED BY <1>a, <3>1 DEF Gate!ShadowAfter, MainTypes
  <2>6. m.type = "report" =>
          [mainShadow EXCEPT ![m.device] = m.value] \in [Remote -> SubValue \cup {NoValue}]
    BY <1>a, <2>2, DownFields DEF MainTypes
  <2>7. MainTypes'
    <3>1. /\ mainModels' = Gate!ModelsAfter(m) /\ mainDevices' = Gate!DevicesAfter(m)
          /\ mainShadow' = IF m.type = "report" /\ m.device \in mainDevices
                           THEN [mainShadow EXCEPT ![m.device] = m.value] ELSE Gate!ShadowAfter(m)
          /\ UNCHANGED <<loop, cur, conn, registering, destroyed>>
      BY <1>6, Zenon DEF Gate!MainReceive, m
    <3> QED BY <1>a, <2>3, <2>4, <2>5, <2>6, <3>1 DEF MainTypes
  <2>8. WireTypes' /\ Lines'
    BY <1>6, <1>a, <2>1, <2>2 DEF Gate!MainReceive, WireTypes, Lines, Gate!counters, Gate!subVars
  <2>9. UNCHANGED <<Gate!subVars, Gate!history>>
    BY <1>6 DEF Gate!MainReceive
  <2> QED BY <1>a, <2>7, <2>8, <2>9, SubSame, HistorySame DEF GateTypes
<1>7. CASE Gate!Register(c)
  <2>1. MainTypes' /\ Lines'
    BY <1>7, <1>a DEF Gate!Register, MainTypes, Lines, Gate!subVars
  <2>2. WireTypes'
    <3>1. conn[c] # NoConn => Gate!Put(up, conn[c], [type |-> "register"]) \in [Socket -> Seq(UpMessage)]
      BY <1>a, UpMessages, PutType DEF MainTypes, WireTypes, Line
    <3> QED BY <1>7, <1>a, <3>1 DEF Gate!Register, WireTypes, Gate!counters
  <2>3. UNCHANGED <<Gate!subVars, Gate!history>>
    BY <1>7 DEF Gate!Register
  <2> QED BY <1>a, <2>1, <2>2, <2>3, SubSame, HistorySame DEF GateTypes
<1>8. CASE Gate!Command(c)
  <2>1. conn[c] \in Socket /\ Len(commands) + 1 \in Nat
    BY <1>8, <1>a DEF Gate!Command, MainTypes, WireTypes, Line
  <2>2. PICK x \in mainDevices :
          /\ commands' = Append(commands, [device |-> x, conn |-> conn[c]])
          /\ up' = Gate!Put(up, conn[c], [type |-> "control", device |-> x, id |-> Len(commands) + 1])
    BY <1>8 DEF Gate!Command
  <2>3. x \in Remote
    BY <1>a DEF MainTypes
  <2>4. up' \in [Socket -> Seq(UpMessage)]
    BY <1>a, <2>1, <2>2, <2>3, UpMessages, PutType DEF WireTypes
  <2>5. WireTypes'
    BY <1>8, <1>a, <2>1, <2>2, <2>3, <2>4 DEF Gate!Command, WireTypes
  <2>6. Lines' /\ UNCHANGED <<Gate!subVars, Gate!mainVars, Gate!history>>
    BY <1>8, <1>a, LinesSame DEF Gate!Command, Gate!mainVars, Gate!subVars
  <2> QED BY <1>a, <2>5, <2>6, SubSame, MainSame, HistorySame DEF GateTypes
<1>9. CASE Gate!Destroy(c)
  <2>1. MainTypes'
    BY <1>9, <1>a DEF Gate!Destroy, MainTypes
  <2>2. WireTypes'
    BY <1>9, <1>a DEF Gate!Destroy, WireTypes, MainTypes
  <2>3. Lines' /\ UNCHANGED <<Gate!subVars, Gate!history>>
    BY <1>9, <1>a, LinesSame DEF Gate!Destroy, Gate!subVars
  <2> QED BY <1>a, <2>1, <2>2, <2>3, SubSame, HistorySame DEF GateTypes
<1> QED BY <1>1, <1>2, <1>3, <1>4, <1>5, <1>6, <1>7, <1>8, <1>9 DEF Gate!Connect


\* A part of the synchronisation keeps the types, whatever of the message it sends.
LEMMA SyncStepTypes ==
    ASSUME GateTypes, NEW n \in Socket, NEW from, NEW to \in {"devices", "take", "none"},
           NEW m \in DownMessage, NEW worth \in BOOLEAN, Gate!SyncStep(n, from, to, m, worth)
    PROVE  /\ job' \in [Socket -> {"none", "respond", "models", "devices", "take", "shadow", "answer"}]
           /\ MainTypes' /\ WireTypes' /\ Lines'
<1>1. mainConn # NoConn => Gate!Put(down, mainConn, m) \in [Socket -> Seq(DownMessage)]
  BY PutType DEF GateTypes, SubTypes, WireTypes, Line
<1>2. down' \in [Socket -> Seq(DownMessage)]
  BY <1>1 DEF Gate!SyncStep, GateTypes, WireTypes
<1>3. WireTypes'
  BY <1>2 DEF Gate!SyncStep, GateTypes, WireTypes, Gate!counters
<1>4. Lines'
  BY LinesSame DEF Gate!SyncStep, GateTypes, Gate!mainVars
<1>5. MainTypes'
  BY MainSame DEF Gate!SyncStep, GateTypes
<1>6. job' \in [Socket -> {"none", "respond", "models", "devices", "take", "shadow", "answer"}]
  BY DEF Gate!SyncStep, GateTypes, SubTypes
<1> QED BY <1>3, <1>4, <1>5, <1>6

LEMMA SyncTypes ==
    ASSUME GateTypes, NEW n \in Socket, Gate!Sync(n)
    PROVE  GateTypes'
<1>a. SubTypes /\ MainTypes /\ WireTypes /\ HistoryTypes /\ Lines
  BY DEF GateTypes
<1>1. CASE Gate!SyncModels(n)
  <2>1. [type |-> "models", models |-> {Gate!GenModel(SubModel[d]) : d \in devices}] \in DownMessage
    BY <1>a, DownMessages DEF SubTypes
  <2>2. PICK m \in DownMessage : Gate!SyncStep(n, "models", "devices", m, devices # {})
    BY <1>1, <2>1, Zenon DEF Gate!SyncModels
  <2>3. /\ job' \in [Socket -> {"none", "respond", "models", "devices", "take", "shadow", "answer"}]
        /\ MainTypes' /\ WireTypes' /\ Lines'
    BY <2>2, SyncStepTypes
  <2>4. SubTypes'
    BY <1>1, <1>a, <2>2, <2>3 DEF Gate!SyncModels, Gate!SyncStep, SubTypes
  <2>5. HistoryTypes'
    BY <1>1, <1>a, <2>2 DEF Gate!SyncModels, Gate!SyncStep, HistoryTypes
  <2> QED BY <2>3, <2>4, <2>5 DEF GateTypes
<1>2. CASE Gate!SyncDevices(n)
  <2>1. [type |-> "devices", devices |-> devices] \in DownMessage
    BY <1>a, DownMessages DEF SubTypes
  <2>2. PICK m \in DownMessage : Gate!SyncStep(n, "devices", "take", m, devices # {})
    BY <1>2, <2>1, Zenon DEF Gate!SyncDevices
  <2>3. /\ job' \in [Socket -> {"none", "respond", "models", "devices", "take", "shadow", "answer"}]
        /\ MainTypes' /\ WireTypes' /\ Lines'
    BY <2>2, SyncStepTypes
  <2>4. SubTypes'
    BY <1>2, <1>a, <2>2, <2>3 DEF Gate!SyncDevices, Gate!SyncStep, SubTypes
  <2>5. HistoryTypes'
    BY <1>2, <1>a, <2>2 DEF Gate!SyncDevices, Gate!SyncStep, HistoryTypes
  <2> QED BY <2>3, <2>4, <2>5 DEF GateTypes
<1>3. CASE Gate!TakeShadow(n)
  <2>1. [d \in devices |-> value[d]] \in SubShadows
    <3>1. [d \in devices |-> value[d]] \in [devices -> SubValue]
      BY <1>a DEF SubTypes
    <3>2. devices \in SUBSET SubDevice
      BY <1>a DEF SubTypes
    <3> QED BY <3>1, <3>2, ShadowTypes, Zenon
  <2>2. SubTypes'
    BY <1>3, <1>a, <2>1 DEF Gate!TakeShadow, SubTypes
  <2>3. Lines' /\ UNCHANGED <<Gate!mainVars, Gate!wireVars, Gate!counters, Gate!history>>
    BY <1>3, <1>a, LinesSame DEF Gate!TakeShadow, Gate!mainVars
  <2> QED BY <1>a, <2>2, <2>3, MainSame, WireSame, HistorySame DEF GateTypes
<1>4. CASE Gate!SyncShadow(n)
  <2> DEFINE copy == taken[n]
             f == [x \in {Gate!GenDevice(d) : d \in DOMAIN copy} |->
                     copy[CHOOSE d \in DOMAIN copy : Gate!GenDevice(d) = x]]
             m == [type |-> "shadow", shadow |-> f]
  <2>1. copy \in SubShadows
    BY <1>a DEF SubTypes
  <2>2. f \in RemoteShadows
    <3> HIDE DEF copy
    <3> QED BY <2>1, CopyType
  <2>3. m \in DownMessage
    <3> HIDE DEF f
    <3> QED BY <2>2, DownMessages
  <2>4. Gate!SyncStep(n, "shadow", "none", m, TRUE)
    BY <1>4, Zenon DEF Gate!SyncShadow
  <2>5. /\ overtaken' \subseteq overtaken \cup DOMAIN copy
        /\ taken' = [taken EXCEPT ![n] = [d \in {} |-> NoValue]]
    BY <1>4 DEF Gate!SyncShadow
  <2> HIDE DEF m, copy
  <2>6. /\ job' \in [Socket -> {"none", "respond", "models", "devices", "take", "shadow", "answer"}]
        /\ MainTypes' /\ WireTypes' /\ Lines'
    BY <2>3, <2>4, SyncStepTypes
  <2>7. SubTypes'
    BY <1>a, <2>4, <2>5, <2>6, NoShadow DEF Gate!SyncStep, SubTypes
  <2>8. DOMAIN copy \subseteq SubDevice
    BY <2>1, ShadowTypes
  <2>9. HistoryTypes'
    BY <1>a, <2>4, <2>5, <2>8 DEF Gate!SyncStep, HistoryTypes
  <2> QED BY <2>6, <2>7, <2>9 DEF GateTypes
<1>5. CASE Gate!SyncPanics(n)
  <2>1. SubTypes' /\ WireTypes'
    BY <1>5, <1>a DEF Gate!SyncPanics, SubTypes, WireTypes, Gate!counters
  <2>2. Lines' /\ UNCHANGED <<Gate!mainVars, Gate!history>>
    BY <1>5, <1>a, LinesSame DEF Gate!SyncPanics, Gate!mainVars
  <2> QED BY <1>a, <2>1, <2>2, MainSame, HistorySame DEF GateTypes
<1> QED BY <1>1, <1>2, <1>3, <1>4, <1>5 DEF Gate!Sync

LEMMA HandlerTypes ==
    ASSUME GateTypes, NEW n \in Socket, Gate!Handle(n)
    PROVE  GateTypes'
<1> USE GateFacts
<1>a. SubTypes /\ MainTypes /\ WireTypes /\ HistoryTypes /\ Lines
  BY DEF GateTypes
<1>1. CASE Gate!ReceiveRegister(n)
  <2>1. SubTypes' /\ WireTypes'
    BY <1>1, <1>a DEF Gate!ReceiveRegister, SubTypes, WireTypes, Gate!counters, Line
  <2>2. HistoryTypes'
    BY <1>1, <1>a DEF Gate!ReceiveRegister, SubTypes, HistoryTypes, WireTypes
  <2>3. Lines' /\ UNCHANGED Gate!mainVars
    BY <1>1, <1>a, LinesSame DEF Gate!ReceiveRegister, Gate!mainVars
  <2> QED BY <1>a, <2>1, <2>2, <2>3, MainSame DEF GateTypes
<1>2. CASE Gate!Respond(n)
  <2>1. Gate!Put(down, n, [type |-> "registered"]) \in [Socket -> Seq(DownMessage)]
    BY <1>a, DownMessages, PutType DEF WireTypes
  <2>2. SubTypes' /\ WireTypes'
    BY <1>2, <1>a, <2>1 DEF Gate!Respond, SubTypes, WireTypes, Gate!counters
  <2>3. Lines' /\ UNCHANGED <<Gate!mainVars, Gate!history>>
    BY <1>2, <1>a, LinesSame DEF Gate!Respond, Gate!mainVars
  <2> QED BY <1>a, <2>2, <2>3, MainSame, HistorySame DEF GateTypes
<1>3. CASE Gate!ReceiveControl(n)
  <2>1. up[n] \in Seq(UpMessage) /\ up[n] # <<>> /\ Head(up[n]).type = "control"
    BY <1>3, <1>a DEF Gate!ReceiveControl, WireTypes
  <2> DEFINE m == Head(up[n])
  <2>2. m.id \in Nat /\ m.device \in Remote
    BY <2>1 DEF UpMessage
  <2>3. performed' = Append(performed, [id |-> m.id, device |-> Gate!ParseDevice(m.device)])
    BY <1>3 DEF Gate!ReceiveControl
  <2> HIDE DEF m
  <2>4. performed' \in Seq([id : Nat, device : SubDevice])
    BY <1>a, <2>2, <2>3, ParseRemote DEF SubTypes
  <2>5. SubTypes'
    BY <1>3, <1>a, <2>4 DEF Gate!ReceiveControl, SubTypes
  <2>6. WireTypes'
    <3>1. Tail(up[n]) \in Seq(UpMessage)
      BY <2>1
    <3>2. /\ up' = [up EXCEPT ![n] = Tail(up[n])] /\ UNCHANGED <<down, commands, moves>>
          /\ broken' = broken \/ broken' = [broken EXCEPT ![n] = TRUE]
      BY <1>3 DEF Gate!ReceiveControl, Gate!counters
    <3> QED BY <1>a, <3>1, <3>2 DEF WireTypes
  <2>7. Lines' /\ UNCHANGED <<Gate!mainVars, Gate!history>>
    BY <1>3, <1>a, LinesSame DEF Gate!ReceiveControl, Gate!mainVars
  <2> QED BY <1>a, <2>5, <2>6, <2>7, MainSame, HistorySame DEF GateTypes
<1>4. CASE Gate!Answer(n)
  <2>1. SubTypes'
    BY <1>4, <1>a DEF Gate!Answer, SubTypes
  <2>2. Lines' /\ UNCHANGED <<Gate!mainVars, Gate!wireVars, Gate!counters, Gate!history>>
    BY <1>4, <1>a, LinesSame DEF Gate!Answer, Gate!mainVars
  <2> QED BY <1>a, <2>1, <2>2, MainSame, WireSame, HistorySame DEF GateTypes
<1>5. CASE Gate!ForgetConn(n) \/ Gate!ForgetKey(n)
  <2>1. SubTypes' /\ HistoryTypes'
    BY <1>5, <1>a DEF Gate!ForgetConn, Gate!ForgetKey, SubTypes, HistoryTypes, Line
  <2>2. Lines' /\ UNCHANGED <<Gate!mainVars, Gate!wireVars, Gate!counters>>
    BY <1>5, <1>a, LinesSame DEF Gate!ForgetConn, Gate!ForgetKey, Gate!mainVars
  <2> QED BY <1>a, <2>1, <2>2, MainSame, WireSame DEF GateTypes
<1> QED BY <1>1, <1>2, <1>3, <1>4, <1>5, SyncTypes DEF Gate!Handle

LEMMA GateTypesStep == GateTypes /\ [Gate!Next]_gatewayVars => GateTypes'
<1> SUFFICES ASSUME GateTypes, [Gate!Next]_gatewayVars PROVE GateTypes'
  OBVIOUS
<1>a. SubTypes /\ MainTypes /\ WireTypes /\ HistoryTypes /\ Lines
  BY DEF GateTypes
<1>1. CASE \E n \in Socket : Gate!Break(n)
  <2>1. WireTypes'
    BY <1>1, <1>a DEF Gate!Break, WireTypes
  <2>2. Lines' /\ UNCHANGED <<Gate!subVars, Gate!mainVars, Gate!history>>
    BY <1>1, <1>a, LinesSame DEF Gate!Break, Gate!mainVars, Gate!subVars
  <2> QED BY <1>a, <2>1, <2>2, SubSame, MainSame, HistorySame DEF GateTypes
<1>2. CASE Gate!ReportCheck
  <2> DEFINE R == [reporter EXCEPT !.stage = "checked"]
  <2>r. /\ R \in [stage : {"idle", "checked", "writing"}, conn : Line] /\ R.stage = "checked"
    <3>1. reporter \in [stage : {"idle", "checked", "writing"}, conn : Line]
      BY <1>a DEF SubTypes
    <3> QED BY <3>1
  <2>s. reports # <<>> /\ Tail(reports) \in Seq(SubReport)
    <3>1. reports \in Seq(SubReport) /\ reports # <<>>
      BY <1>2, <1>a DEF SubTypes, Gate!ReportCheck
    <3> QED BY <3>1
  <2> HIDE DEF R
  <2>p. /\ reporter.stage = "idle"
        /\ \/ reports' = Tail(reports) /\ UNCHANGED reporter
           \/ reporter' = R /\ UNCHANGED reports
        /\ UNCHANGED <<devices, value, mainGateway, mainConn, handler, job, taken, performed, crashed>>
        /\ UNCHANGED <<loop, cur, conn>>
    BY <1>2 DEF Gate!ReportCheck, Gate!mainVars, R
  <2>1. SubTypes' /\ Lines'
    BY <1>a, <2>r, <2>s, <2>p DEF SubTypes, Lines
  <2>2. UNCHANGED <<Gate!mainVars, Gate!wireVars, Gate!counters, Gate!history>>
    BY <1>2 DEF Gate!ReportCheck
  <2> QED BY <1>a, <2>1, <2>2, MainSame, WireSame, HistorySame DEF GateTypes
<1>3. CASE Gate!ReportWrite
  <2> DEFINE R == [stage |-> "writing", conn |-> mainConn]
  <2>r. /\ R \in [stage : {"idle", "checked", "writing"}, conn : Line]
        /\ R.stage = "writing" /\ R.conn = mainConn
    BY <1>a DEF SubTypes
  <2> HIDE DEF R
  <2>p. /\ reporter.stage = "checked" /\ UNCHANGED reports
        /\ \/ crashed' = TRUE /\ UNCHANGED reporter
           \/ mainConn # NoConn /\ UNCHANGED crashed /\ reporter' = R
        /\ UNCHANGED <<devices, value, mainGateway, mainConn, handler, job, taken, performed>>
        /\ UNCHANGED <<loop, cur, conn>>
    BY <1>3 DEF Gate!ReportWrite, Gate!mainVars, R
  <2>1. SubTypes' /\ Lines'
    BY <1>a, <2>r, <2>p DEF SubTypes, Lines, Line
  <2>2. UNCHANGED <<Gate!mainVars, Gate!wireVars, Gate!counters, Gate!history>>
    BY <1>3 DEF Gate!ReportWrite
  <2> QED BY <1>a, <2>1, <2>2, MainSame, WireSame, HistorySame DEF GateTypes
<1>4. CASE Gate!ReportWritten
  <2>1. reports # <<>> /\ reporter.conn \in Socket
    BY <1>4, <1>a DEF Gate!ReportWritten, Lines
  <2>2. Head(reports) \in SubReport
    <3>1. reports \in Seq(SubReport)
      BY <1>a DEF SubTypes
    <3> QED BY <2>1, <3>1
  <2>3. PICK m \in DownMessage : down' = Gate!Put(down, reporter.conn, m)
    <3>1. Gate!GenDevice(Head(reports).device) \in Remote
      BY <2>2, GenRemote DEF SubReport
    <3>2. [type |-> "report", device |-> Gate!GenDevice(Head(reports).device),
           value |-> Head(reports).value] \in DownMessage
      BY <2>2, <3>1, DownMessages DEF SubReport
    <3> QED BY <1>4, <3>2, Zenon DEF Gate!ReportWritten
  <2>4. down' \in [Socket -> Seq(DownMessage)]
    BY <1>a, <2>1, <2>3, PutType DEF WireTypes
  <2>5. WireTypes'
    BY <1>4, <1>a, <2>4 DEF Gate!ReportWritten, WireTypes, Gate!counters
  <2>6. SubTypes' /\ Lines'
    BY <1>4, <1>a, <2>1 DEF Gate!ReportWritten, SubTypes, Lines, Gate!mainVars, Gate!Idle, Line
  <2>7. HistoryTypes' /\ UNCHANGED Gate!mainVars
    BY <1>4, <1>a DEF Gate!ReportWritten, HistoryTypes
  <2> QED BY <1>a, <2>5, <2>6, <2>7, MainSame DEF GateTypes
<1>5. CASE Gate!Change
  <2>1. PICK d \in devices, v \in SubValue : /\ value' = [value EXCEPT ![d] = v]
                                              /\ reports' = Append(reports, [device |-> d, value |-> v])
    BY <1>5 DEF Gate!Change
  <2> DEFINE report == [device |-> d, value |-> v]
  <2>r. d \in SubDevice /\ report \in SubReport
    BY <1>a DEF SubTypes, SubReport
  <2> HIDE DEF report
  <2>p. /\ value' = [value EXCEPT ![d] = v] /\ reports' = Append(reports, report)
        /\ UNCHANGED <<devices, reporter, mainGateway, mainConn, handler, job, taken, performed, crashed>>
        /\ UNCHANGED <<loop, cur, conn>>
    BY <1>5, <2>1 DEF Gate!Change, Gate!mainVars, report
  <2>q. reports' \in Seq(SubReport) /\ reports' # <<>>
    <3>1. reports \in Seq(SubReport)
      BY <1>a DEF SubTypes
    <3> QED BY <2>r, <2>p, <3>1
  <2>2. SubTypes' /\ Lines'
    BY <1>a, <2>r, <2>p, <2>q DEF SubTypes, Lines
  <2>3. WireTypes' /\ UNCHANGED <<Gate!mainVars, Gate!history>>
    BY <1>5, <1>a DEF Gate!Change, WireTypes, Gate!wireVars
  <2> QED BY <1>a, <2>2, <2>3, MainSame, HistorySame DEF GateTypes
<1>6. CASE Gate!AddDevice
  <2>1. SubTypes' /\ WireTypes'
    BY <1>6, <1>a DEF Gate!AddDevice, SubTypes, WireTypes, Gate!wireVars
  <2>2. Lines' /\ UNCHANGED <<Gate!mainVars, Gate!history>>
    BY <1>6, <1>a, LinesSame DEF Gate!AddDevice, Gate!mainVars
  <2> QED BY <1>a, <2>1, <2>2, MainSame, HistorySame DEF GateTypes
<1>7. CASE UNCHANGED gatewayVars
  <2>1. Lines' /\ UNCHANGED <<Gate!subVars, Gate!mainVars, Gate!wireVars, Gate!counters, Gate!history>>
    BY <1>7, <1>a, LinesSame DEF gatewayVars, Gate!subVars, Gate!mainVars, Gate!wireVars, Gate!counters, Gate!history
  <2> QED BY <1>a, <2>1, SubSame, MainSame, WireSame, HistorySame DEF GateTypes
<1> QED BY <1>1, <1>2, <1>3, <1>4, <1>5, <1>6, <1>7, ConnectorTypes, HandlerTypes DEF Gate!Next, Gate!Report

\* The types of both gateways, their wires and what is remembered of them, for any connectors,
\* connections, devices and values (exports/gateway).
THEOREM GatewayTypeCorrect == MCSpec => []GateTypes
<1>1. MCInit => GateTypes
  BY GateTypesInit DEF MCInit
<1>2. GateTypes /\ [MCNext]_<<vars, gatewayVars, triggerVars, part>> => GateTypes'
  BY GateTypesStep DEF MCNext
<1> QED BY <1>1, <1>2, PTL DEF MCSpec


-----------------------------------------------------------------------------
\* A command on its way keeps the device and the connection it was sent with; those of a
\* connection wait in the order they were sent, after those that were carried out.
InTurn(queue, n, i, sent, done) ==
    queue[i].type = "control" =>
        /\ queue[i].id \in 1 .. Len(sent)
        /\ sent[queue[i].id] = [device |-> queue[i].device, conn |-> n]
        /\ \A j \in 1 .. i - 1 : queue[j].type = "control" => queue[j].id < queue[i].id
        /\ \A k \in 1 .. Len(done) : sent[done[k].id].conn = n => done[k].id < queue[i].id

\* A command that was carried out.
Carried(done, i, sent) ==
    /\ done[i].id \in 1 .. Len(sent)
    /\ sent[done[i].id].device = Gate!GenDevice(done[i].device)
    /\ \A j \in 1 .. i - 1 :
           /\ done[j].id # done[i].id
           /\ sent[done[j].id].conn = sent[done[i].id].conn => done[j].id < done[i].id

CommandInv ==
    /\ \A n \in Socket : \A i \in 1 .. Len(up[n]) : InTurn(up[n], n, i, commands, performed)
    /\ \A i \in 1 .. Len(performed) : Carried(performed, i, commands)

LEMMA CommandSame == CommandInv /\ UNCHANGED <<up, commands, performed>> => CommandInv'
BY Zenon DEF CommandInv

\* What is behind the first message of a connection keeps its turn.
LEMMA TailInTurn ==
    ASSUME NEW queue \in Seq(UpMessage), queue # <<>>, NEW n, NEW sent, NEW done,
           \A i \in 1 .. Len(queue) : InTurn(queue, n, i, sent, done),
           NEW i \in 1 .. Len(Tail(queue))
    PROVE  InTurn(Tail(queue), n, i, sent, done)
<1>1. \A j \in 1 .. i : Tail(queue)[j] = queue[j + 1] /\ j + 1 \in 1 .. Len(queue)
  OBVIOUS
<1>2. InTurn(queue, n, i + 1, sent, done) /\ Tail(queue)[i] = queue[i + 1]
  BY <1>1
<1>3. SUFFICES ASSUME queue[i + 1].type = "control"
               PROVE  \A j \in 1 .. i - 1 : Tail(queue)[j].type = "control" => Tail(queue)[j].id < queue[i + 1].id
  BY <1>2, Zenon DEF InTurn
<1>4. \A j \in 1 .. (i + 1) - 1 : queue[j].type = "control" => queue[j].id < queue[i + 1].id
  BY <1>2, <1>3 DEF InTurn
<1>5. \A j \in 1 .. i - 1 : j \in 1 .. i /\ j + 1 \in 1 .. (i + 1) - 1
  OBVIOUS
<1> QED BY <1>1, <1>4, <1>5

\* A message at the end keeps the turn of those before it.
LEMMA AppendInTurn ==
    ASSUME NEW queue \in Seq(UpMessage), NEW m \in UpMessage, NEW n, NEW sent, NEW done,
           NEW i \in 1 .. Len(queue), InTurn(queue, n, i, sent, done)
    PROVE  InTurn(Append(queue, m), n, i, sent, done)
<1>1. \A j \in 1 .. i : Append(queue, m)[j] = queue[j] /\ (j \in 1 .. i - 1 => j \in 1 .. i)
  OBVIOUS
<1>2. i \in 1 .. i /\ \A j \in 1 .. i - 1 : j \in 1 .. i
  OBVIOUS
<1> QED BY <1>1, <1>2, Zenon DEF InTurn


\* One more command that was sent.
LEMMA SentInTurn ==
    ASSUME NEW T, NEW sent \in Seq(T), NEW e \in T, NEW done,
           \A k \in 1 .. Len(done) : done[k].id \in 1 .. Len(sent)
    PROVE  /\ \A queue : \A n, i : InTurn(queue, n, i, sent, done) => InTurn(queue, n, i, Append(sent, e), done)
           /\ \A i \in 1 .. Len(done) : Carried(done, i, sent) => Carried(done, i, Append(sent, e))
<1> DEFINE more == Append(sent, e)
<1>1. \A k \in 1 .. Len(sent) : k \in 1 .. Len(more) /\ more[k] = sent[k]
  OBVIOUS
<1> HIDE DEF more
<1>2. ASSUME NEW queue, NEW n, NEW i, InTurn(queue, n, i, sent, done)
      PROVE  InTurn(queue, n, i, more, done)
  BY <1>1, <1>2, Zenon DEF InTurn
<1>3. ASSUME NEW i \in 1 .. Len(done), Carried(done, i, sent) PROVE Carried(done, i, more)
  <2>1. \A j \in 1 .. i - 1 : more[done[j].id] = sent[done[j].id]
    <3>1. \A j \in 1 .. i - 1 : j \in 1 .. Len(done)
      BY <1>3
    <3> QED BY <1>1, <3>1, Zenon
  <2> QED BY <1>1, <1>3, <2>1, Zenon DEF Carried
<1> QED BY <1>2, <1>3, Zenon DEF more

LEMMA SendInTurn ==
    ASSUME GateTypes, CommandInv, NEW n \in Socket, NEW m \in UpMessage, UNCHANGED performed,
           up' = Gate!Put(up, n, m),
           \/ UNCHANGED commands /\ m.type = "register"
           \/ \E x \in Remote : /\ commands' = Append(commands, [device |-> x, conn |-> n])
                                /\ m = [type |-> "control", device |-> x, id |-> Len(commands) + 1]
    PROVE  CommandInv'
<1>1. \A q \in Socket : up[q] \in Seq(UpMessage)
  BY DEF GateTypes, WireTypes
<1>2. \A q \in Socket : up'[q] = IF q = n /\ ~broken[n] THEN Append(up[n], m) ELSE up[q]
  BY DEF GateTypes, WireTypes, Gate!Put
<1>3. commands \in Seq([device : Remote, conn : Socket]) /\ Len(commands) \in Nat
  BY DEF GateTypes, WireTypes
<1>4. \A k \in 1 .. Len(performed) : performed[k].id \in 1 .. Len(commands)
  BY DEF CommandInv, Carried
<1> DEFINE Kept(sent) ==
             /\ \A q \in Socket : \A i \in 1 .. Len(up[q]) : InTurn(up[q], q, i, sent, performed)
             /\ \A i \in 1 .. Len(performed) : Carried(performed, i, sent)
<1>5. Kept(commands')
  <2>1. CASE UNCHANGED commands
    BY <2>1, Zenon DEF CommandInv
  <2>2. ASSUME NEW x \in Remote, commands' = Append(commands, [device |-> x, conn |-> n])
        PROVE  Kept(commands')
    <3>1. [device |-> x, conn |-> n] \in [device : Remote, conn : Socket]
      OBVIOUS
    <3> QED BY <1>3, <1>4, <2>2, <3>1, SentInTurn, Zenon DEF CommandInv
  <2> QED BY <2>1, <2>2
<1>6. InTurn(Append(up[n], m), n, Len(up[n]) + 1, commands', performed)
  <2> DEFINE L == Len(up[n])
             queue == Append(up[n], m)
  <2>1. L \in Nat /\ queue[L + 1] = m /\ \A j \in 1 .. L : queue[j] = up[n][j]
    BY <1>1
  <2>2. (L + 1) - 1 = L
    BY <2>1
  <2>3. CASE m.type = "register"
    BY <2>1, <2>3 DEF InTurn
  <2>4. ASSUME NEW x \in Remote, commands' = Append(commands, [device |-> x, conn |-> n]),
               m = [type |-> "control", device |-> x, id |-> Len(commands) + 1]
        PROVE  InTurn(Append(up[n], m), n, Len(up[n]) + 1, commands', performed)
    <3>1. /\ Len(commands') = Len(commands) + 1 /\ commands'[Len(commands) + 1] = [device |-> x, conn |-> n]
          /\ Len(commands) + 1 \in 1 .. Len(commands')
      BY <1>3, <2>4
    <3>2. \A j \in 1 .. L : up[n][j].type = "control" => up[n][j].id < Len(commands) + 1
      <4> TAKE j \in 1 .. L
      <4>1. up[n][j].type = "control" => up[n][j].id \in 1 .. Len(commands)
        BY Zenon DEF CommandInv, InTurn
      <4> QED BY <1>3, <4>1
    <3>3. \A k \in 1 .. Len(performed) : performed[k].id < Len(commands) + 1
      BY <1>3, <1>4
    <3>4. m.id = Len(commands) + 1 /\ m.device = x
      BY <2>4
    <3>5. InTurn(queue, n, L + 1, commands', performed)
      <4> HIDE DEF queue, L
      <4> QED BY <2>1, <2>2, <3>1, <3>2, <3>3, <3>4, Zenon DEF InTurn
    <3> QED BY <3>5, Zenon
  <2> QED BY <2>3, <2>4
<1>7. ASSUME NEW q \in Socket, NEW i \in 1 .. Len(up'[q])
      PROVE  InTurn(up'[q], q, i, commands', performed)
  <2>1. CASE q = n /\ ~broken[n]
    <3>1. up'[q] = Append(up[n], m) /\ i \in 1 .. Len(Append(up[n], m))
      BY <1>2, <2>1, Zenon
    <3>4. i \in 1 .. Len(up[n]) \/ i = Len(up[n]) + 1
      <4>1. up[n] \in Seq(UpMessage)
        BY <1>1
      <4> QED BY <3>1, <4>1
    <3>2. CASE i \in 1 .. Len(up[n])
      BY <1>1, <1>5, <2>1, <3>1, <3>2, AppendInTurn, Zenon
    <3>3. CASE i = Len(up[n]) + 1
      BY <1>6, <2>1, <3>1, <3>3, Zenon
    <3> QED BY <3>2, <3>3, <3>4
  <2>2. CASE ~(q = n /\ ~broken[n])
    BY <1>2, <1>5, <2>2, Zenon
  <2> QED BY <2>1, <2>2
<1> QED BY <1>5, <1>7, Zenon DEF CommandInv

LEMMA TakeInTurn ==
    ASSUME GateTypes, CommandInv, NEW n \in Socket, up[n] # <<>>, UNCHANGED commands,
           up' = [up EXCEPT ![n] = Tail(@)],
           \/ UNCHANGED performed
           \/ /\ Head(up[n]).type = "control"
              /\ performed' = Append(performed, [id |-> Head(up[n]).id,
                                                 device |-> Gate!ParseDevice(Head(up[n]).device)])
    PROVE  CommandInv'
<1>1. \A q \in Socket : up[q] \in Seq(UpMessage)
  BY DEF GateTypes, WireTypes
<1>2. \A q \in Socket : up'[q] = IF q = n THEN Tail(up[n]) ELSE up[q]
  BY DEF GateTypes, WireTypes
<1>3. \A q \in Socket : \A i \in 1 .. Len(up'[q]) : InTurn(up'[q], q, i, commands, performed)
  <2> TAKE q \in Socket
  <2>1. CASE q = n
    BY <1>1, <1>2, <2>1, TailInTurn, Zenon DEF CommandInv
  <2>2. CASE q # n
    BY <1>2, <2>2, Zenon DEF CommandInv
  <2> QED BY <2>1, <2>2
<1>4. CASE UNCHANGED performed
  BY <1>3, <1>4, Zenon DEF CommandInv
<1>5. ASSUME Head(up[n]).type = "control",
             performed' = Append(performed, [id |-> Head(up[n]).id,
                                             device |-> Gate!ParseDevice(Head(up[n]).device)])
      PROVE  CommandInv'
  <2> DEFINE h == Head(up[n])
             new == [id |-> h.id, device |-> Gate!ParseDevice(h.device)]
             L == Len(performed)
  <2>1. h = up[n][1] /\ 1 \in 1 .. Len(up[n]) /\ h \in UpMessage /\ h.type = "control"
    BY <1>1, <1>5
  <2>0. performed' = Append(performed, new)
    BY <1>5, Zenon
  <2>c. InTurn(up[n], n, 1, commands, performed)
    BY <2>1, Zenon DEF CommandInv
  <2> HIDE DEF h, L
  <2>2. /\ h.id \in 1 .. Len(commands) /\ commands[h.id] = [device |-> h.device, conn |-> n]
        /\ \A k \in 1 .. L : commands[performed[k].id].conn = n => performed[k].id < h.id
    BY <2>1, <2>c, Zenon DEF InTurn, L
  <2>3. h.device \in Remote
    BY <2>1 DEF UpMessage
  <2>4. new.id = h.id /\ Gate!GenDevice(new.device) = h.device
    BY <2>3, ParseRemote
  <2>5. /\ performed \in Seq([id : Nat, device : SubDevice])
        /\ commands[h.id].device = h.device /\ commands[h.id].conn = n
    BY <2>2 DEF GateTypes, SubTypes
  <2>6. /\ L \in Nat /\ Len(performed') = L + 1 /\ performed'[L + 1] = new
        /\ \A k \in 1 .. L : performed'[k] = performed[k]
    <3>1. performed \in Seq([id : Nat, device : SubDevice]) /\ L = Len(performed)
      BY <2>5 DEF L
    <3> HIDE DEF new
    <3> QED BY <2>0, <3>1
  <2>7. \A i \in 1 .. Len(up'[n]) : up'[n][i].type = "control" => h.id < up'[n][i].id
    <3> TAKE i \in 1 .. Len(up'[n])
    <3>1. up'[n] = Tail(up[n])
      BY <1>2
    <3>2. i \in 1 .. Len(Tail(up[n])) /\ up[n] \in Seq(UpMessage)
      BY <1>1, <3>1, Zenon
    <3>3. Tail(up[n])[i] = up[n][i + 1] /\ i + 1 \in 1 .. Len(up[n]) /\ 1 \in 1 .. (i + 1) - 1
      BY <3>2
    <3>4. InTurn(up[n], n, i + 1, commands, performed)
      BY <3>3, Zenon DEF CommandInv
    <3> QED BY <2>1, <3>1, <3>3, <3>4, Zenon DEF InTurn
  <2> HIDE DEF new, L
  <2>8. ASSUME NEW q \in Socket, NEW i \in 1 .. Len(up'[q])
        PROVE  InTurn(up'[q], q, i, commands, performed')
    <3>1. \A k \in 1 .. L + 1 : k \in 1 .. L \/ k = L + 1
      BY <2>6
    <3>2. InTurn(up'[q], q, i, commands, performed)
      BY <1>3, Zenon
    <3>3. up'[q][i].type = "control" /\ commands[new.id].conn = q => new.id < up'[q][i].id
      BY <2>4, <2>5, <2>7, Zenon
    <3> QED BY <2>6, <3>1, <3>2, <3>3, Zenon DEF InTurn, L
  <2>9. ASSUME NEW i \in 1 .. Len(performed') PROVE Carried(performed', i, commands)
    <3>1. CASE i \in 1 .. L
      <4>1. \A j \in 1 .. i : performed'[j] = performed[j]
        BY <2>6, <3>1
      <4>2. i \in 1 .. i /\ \A j \in 1 .. i - 1 : j \in 1 .. i
        BY <2>6, <3>1
      <4>3. Carried(performed, i, commands)
        BY <3>1, Zenon DEF CommandInv, L
      <4> QED BY <4>1, <4>2, <4>3, Zenon DEF Carried
    <3>2. CASE i = L + 1
      <4>1. \A j \in 1 .. i - 1 : j \in 1 .. L /\ performed'[j] = performed[j]
        BY <2>6, <3>2
      <4>2. ASSUME NEW j \in 1 .. i - 1 PROVE performed[j].id # new.id
        <5> SUFFICES ASSUME performed[j].id = new.id PROVE FALSE
          OBVIOUS
        <5>1. performed[j].id < h.id
          BY <2>2, <2>4, <2>5, <4>1, Zenon
        <5> QED BY <2>2, <2>4, <5>1
      <4>3. \A j \in 1 .. i - 1 : commands[performed[j].id].conn = n => performed[j].id < new.id
        BY <2>2, <2>4, <4>1, Zenon
      <4>4. performed'[i] = new
        BY <2>6, <3>2
      <4>5. /\ new.id \in 1 .. Len(commands) /\ commands[new.id].conn = n
            /\ commands[new.id].device = Gate!GenDevice(new.device)
        BY <2>2, <2>4, <2>5
      <4> QED BY <4>1, <4>2, <4>3, <4>4, <4>5, Zenon DEF Carried
    <3> QED BY <2>6, <3>1, <3>2
  <2> QED BY <2>8, <2>9, Zenon DEF CommandInv
<1> QED BY <1>4, <1>5


LEMMA CommandInvStep == GateTypes /\ CommandInv /\ [Gate!Next]_gatewayVars => CommandInv'
<1> SUFFICES ASSUME GateTypes, CommandInv, [Gate!Next]_gatewayVars PROVE CommandInv'
  OBVIOUS
<1>1. ASSUME NEW c \in MainConnector, Gate!Register(c) PROVE CommandInv'
  <2>1. UNCHANGED <<commands, performed>>
    BY <1>1 DEF Gate!Register, Gate!counters, Gate!subVars
  <2>2. CASE conn[c] = NoConn
    BY <1>1, <2>1, <2>2, CommandSame DEF Gate!Register
  <2>3. CASE conn[c] # NoConn
    <3>1. conn[c] \in Socket
      BY <2>3 DEF GateTypes, MainTypes, Line
    <3>2. up' = Gate!Put(up, conn[c], [type |-> "register"])
      BY <1>1, <2>3 DEF Gate!Register
    <3> QED BY <2>1, <3>1, <3>2, UpMessages, SendInTurn
  <2> QED BY <2>2, <2>3
<1>2. ASSUME NEW c \in MainConnector, Gate!Command(c) PROVE CommandInv'
  <2>1. UNCHANGED performed /\ conn[c] \in Socket /\ Len(commands) + 1 \in Nat
    BY <1>2 DEF Gate!Command, Gate!subVars, GateTypes, MainTypes, WireTypes, Line
  <2>2. PICK x \in Remote :
          /\ commands' = Append(commands, [device |-> x, conn |-> conn[c]])
          /\ up' = Gate!Put(up, conn[c], [type |-> "control", device |-> x, id |-> Len(commands) + 1])
    BY <1>2 DEF Gate!Command, GateTypes, MainTypes
  <2> DEFINE m == [type |-> "control", device |-> x, id |-> Len(commands) + 1]
  <2>3. m \in UpMessage
    BY <2>1, UpMessages
  <2> QED BY <2>1, <2>2, <2>3, SendInTurn
<1>3. ASSUME NEW n \in Socket, Gate!ReceiveRegister(n) PROVE CommandInv'
  <2>1. up[n] # <<>> /\ up' = [up EXCEPT ![n] = Tail(@)] /\ UNCHANGED <<commands, performed>>
    BY <1>3 DEF Gate!ReceiveRegister, Gate!counters
  <2> QED BY <2>1, TakeInTurn
<1>4. ASSUME NEW n \in Socket, Gate!ReceiveControl(n) PROVE CommandInv'
  <2>1. /\ up[n] # <<>> /\ up' = [up EXCEPT ![n] = Tail(@)] /\ UNCHANGED commands
        /\ Head(up[n]).type = "control"
        /\ performed' = Append(performed, [id |-> Head(up[n]).id,
                                           device |-> Gate!ParseDevice(Head(up[n]).device)])
    BY <1>4 DEF Gate!ReceiveControl, Gate!counters
  <2> QED BY <2>1, TakeInTurn
<1>5. CASE \E c \in MainConnector : Gate!Initialize(c) \/ Gate!Dial(c) \/ Gate!Connect(c) \/ Gate!Destroy(c)
  BY <1>5, CommandSame DEF Gate!Initialize, Gate!Dial, Gate!Connect, Gate!Store, Gate!Lost, Gate!Retry,
     Gate!MainReceive, Gate!Destroy, Gate!subVars, Gate!wireVars, Gate!counters
<1>6. CASE \E n \in Socket : Gate!Respond(n) \/ Gate!Answer(n) \/ Gate!ForgetConn(n) \/ Gate!ForgetKey(n) \/ Gate!Break(n)
  BY <1>6, CommandSame DEF Gate!Respond, Gate!Answer, Gate!ForgetConn, Gate!ForgetKey, Gate!Break,
     Gate!subVars, Gate!wireVars, Gate!counters
<1>7. CASE \E n \in Socket : Gate!Sync(n)
  BY <1>7, CommandSame DEF Gate!Sync, Gate!SyncModels, Gate!SyncDevices, Gate!TakeShadow, Gate!SyncShadow,
     Gate!SyncPanics, Gate!SyncStep, Gate!wireVars, Gate!counters
<1>8. CASE Gate!Report \/ Gate!Change \/ Gate!AddDevice \/ UNCHANGED gatewayVars
  BY <1>8, CommandSame DEF Gate!Report, Gate!ReportCheck, Gate!ReportWrite, Gate!ReportWritten, Gate!Change,
     Gate!AddDevice, gatewayVars, Gate!wireVars, Gate!counters
<1> QED BY <1>1, <1>2, <1>3, <1>4, <1>5, <1>6, <1>7, <1>8 DEF Gate!Next, Gate!Handle

LEMMA ServedStep ==
    GateTypes /\ Gate!ServedConnectionLives /\ [Gate!Next]_gatewayVars => Gate!ServedConnectionLives'
<1> SUFFICES ASSUME GateTypes, Gate!ServedConnectionLives, [Gate!Next]_gatewayVars
             PROVE  Gate!ServedConnectionLives'
  OBVIOUS
<1> DEFINE Lives(m, h) == m # NoConn => h[m] \in {"open", "panicked"}
<1>a. /\ Lives(mainConn, handler) /\ mainConn \in Line /\ DOMAIN handler = Socket
      /\ handler \in [Socket -> {"none", "open", "panicked", "forgetting", "closed"}]
  BY DEF GateTypes, SubTypes, Gate!ServedConnectionLives
<1> SUFFICES Lives(mainConn', handler')
  BY DEF Gate!ServedConnectionLives
<1>1. CASE UNCHANGED <<mainConn, handler>>
  BY <1>a, <1>1
<1>2. ASSUME NEW c \in MainConnector, Gate!Dial(c) PROVE Lives(mainConn', handler')
  <2>1. PICK n \in Socket : handler[n] = "none" /\ handler' = [handler EXCEPT ![n] = "open"]
    BY <1>2 DEF Gate!Dial, Gate!Fresh
  <2> QED BY <1>2, <1>a, <2>1 DEF Gate!Dial, Line
<1>3. ASSUME NEW n \in Socket, Gate!ReceiveRegister(n) PROVE Lives(mainConn', handler')
  BY <1>3 DEF Gate!ReceiveRegister, Gate!Serving
<1>4. ASSUME NEW n \in Socket, Gate!ReceiveControl(n) \/ Gate!SyncPanics(n) PROVE Lives(mainConn', handler')
  <2>1. mainConn' = mainConn /\ (handler' = handler \/ handler' = [handler EXCEPT ![n] = "panicked"])
    BY <1>4 DEF Gate!ReceiveControl, Gate!SyncPanics
  <2> QED BY <1>a, <2>1 DEF Line
<1>5. ASSUME NEW n \in Socket, Gate!ForgetConn(n) PROVE Lives(mainConn', handler')
  BY <1>5 DEF Gate!ForgetConn
<1>6. ASSUME NEW n \in Socket, Gate!ForgetKey(n) PROVE Lives(mainConn', handler')
  <2>1. handler[n] = "forgetting" /\ handler' = [handler EXCEPT ![n] = "closed"] /\ mainConn' = mainConn
    BY <1>6 DEF Gate!ForgetKey
  <2> QED BY <1>a, <2>1 DEF Line
<1>7. CASE \E c \in MainConnector : \/ Gate!Initialize(c) \/ Gate!Connect(c) \/ Gate!Destroy(c)
                                    \/ Gate!Register(c) \/ Gate!Command(c)
  <2>1. UNCHANGED <<mainConn, handler>>
    BY <1>7 DEF Gate!Initialize, Gate!Connect, Gate!Store, Gate!Lost, Gate!Retry, Gate!Register, Gate!Command,
       Gate!MainReceive, Gate!Destroy, Gate!subVars
  <2> QED BY <1>1, <2>1
<1>8. CASE \E n \in Socket : Gate!Respond(n) \/ Gate!Answer(n) \/ Gate!Break(n)
  <2>1. UNCHANGED <<mainConn, handler>>
    BY <1>8 DEF Gate!Respond, Gate!Answer, Gate!Break, Gate!subVars
  <2> QED BY <1>1, <2>1
<1>9. CASE \E n \in Socket : \/ Gate!SyncModels(n) \/ Gate!SyncDevices(n) \/ Gate!TakeShadow(n) \/ Gate!SyncShadow(n)
  <2>1. UNCHANGED <<mainConn, handler>>
    BY <1>9 DEF Gate!SyncModels, Gate!SyncDevices, Gate!TakeShadow, Gate!SyncShadow, Gate!SyncStep
  <2> QED BY <1>1, <2>1
<1>10. CASE Gate!Report \/ Gate!Change \/ Gate!AddDevice \/ UNCHANGED gatewayVars
  <2>1. UNCHANGED <<mainConn, handler>>
    BY <1>10 DEF Gate!Report, Gate!ReportCheck, Gate!ReportWrite, Gate!ReportWritten, Gate!Change,
       Gate!AddDevice, gatewayVars
  <2> QED BY <1>1, <2>1
<1> HIDE DEF Lives
<1> QED BY <1>2, <1>3, <1>4, <1>5, <1>6, <1>7, <1>8, <1>9, <1>10 DEF Gate!Next, Gate!Handle, Gate!Sync

\* The sub-gateway serves no connection that is over; and each command is carried out once at
\* most, on the device whose identifier the main gateway uses, after those sent before it over
\* its connection (exports/gateway/ws.go): for any connections, devices and breaks.
THEOREM GatewayAlwaysServes == MCSpec => []GatewayServes
<1> DEFINE Inv == GateTypes /\ CommandInv /\ Gate!ServedConnectionLives
<1>1. MCInit => Inv
  <2> SUFFICES ASSUME Gate!Init PROVE CommandInv /\ Gate!ServedConnectionLives
    BY GateTypesInit DEF MCInit
  <2>1. mainConn = NoConn /\ performed = <<>> /\ \A n \in Socket : up[n] = <<>>
    BY DEF Gate!Init
  <2> QED BY <2>1 DEF CommandInv, Gate!ServedConnectionLives
<1>2. Inv /\ [MCNext]_<<vars, gatewayVars, triggerVars, part>> => Inv'
  BY GateTypesStep, CommandInvStep, ServedStep DEF MCNext
<1>3. Inv => GatewayServes
  <2> SUFFICES ASSUME Inv PROVE Gate!CommandsReachTheirDevices
    BY DEF GatewayServes
  <2> QED BY Zenon DEF CommandInv, Carried, Gate!CommandsReachTheirDevices
<1> QED BY <1>1, <1>2, <1>3, PTL DEF MCSpec


-----------------------------------------------------------------------------
\* The model of a device is on the main gateway, or comes before the i-th message.
ModelComes(d, i, queue, models) ==
    \/ Gate!GenModel(SubModel[d]) \in models
    \/ \E j \in 1 .. Len(queue) : /\ j < i /\ queue[j].type = "models"
                                  /\ Gate!GenModel(SubModel[d]) \in queue[j].models

\* A device is on the main gateway, or comes after its model.
DeviceComes(d, queue, models, remotes) ==
    \/ Gate!GenDevice(d) \in remotes
    \/ \E i \in 1 .. Len(queue) : /\ queue[i].type = "devices" /\ d \in queue[i].devices
                                  /\ ModelComes(d, i, queue, models)

Early == {"respond", "models", "devices"}
Late == {"take", "shadow", "answer", "none"}

\* How far the synchronisation of a connection has come.
Synchronises(n) ==
    /\ job[n] \in Early => mainGateway /\ mainConn = n
    /\ job[n] = "devices" => \A d \in promised[n] : ModelComes(d, Len(down[n]) + 1, down[n], mainModels)
    /\ job[n] \in Late => \A d \in promised[n] : DeviceComes(d, down[n], mainModels, mainDevices)

\* Of the connectors that run all but one are destroyed; without a connection stored too late, a
\* destroyed one reads no connection that works; and one reads whatever connection that works
\* has asked for something.
OneRuns ==
    \A c, o \in MainConnector : c # o /\ loop[c] # "off" /\ loop[o] # "off" => destroyed[c] \/ destroyed[o]

DestroyedReadsNothing ==
    \A c \in MainConnector : ~ghost /\ loop[c] = "read" /\ destroyed[c] => broken[cur[c]]

Asks(n) == up[n] # <<>> \/ job[n] # "none" \/ promised[n] # {}

AskersAreRead ==
    \A n \in Socket : Asks(n) /\ ~broken[n] => \E c \in MainConnector : loop[c] = "read" /\ cur[c] = n

OneReads == OneRuns /\ DestroyedReadsNothing /\ AskersAreRead

ArriveInv ==
    /\ OneReads
    /\ \A n \in Socket : promised[n] \subseteq devices
    /\ ~stolen /\ ~ghost => \A n \in Socket : broken[n] \/ Synchronises(n)

\* One more message takes nothing away.
LEMMA AppendComes ==
    ASSUME NEW queue \in Seq(DownMessage), NEW m \in DownMessage, NEW models, NEW d
    PROVE  /\ \A i : ModelComes(d, i, queue, models) => ModelComes(d, i, Append(queue, m), models)
           /\ ModelComes(d, Len(queue) + 1, queue, models)
              => ModelComes(d, Len(Append(queue, m)) + 1, Append(queue, m), models)
           /\ \A remotes : DeviceComes(d, queue, models, remotes)
                           => DeviceComes(d, Append(queue, m), models, remotes)
<1> DEFINE more == Append(queue, m)
<1>1. /\ Len(queue) \in Nat /\ Len(more) = Len(queue) + 1
      /\ \A i \in 1 .. Len(queue) : i \in 1 .. Len(more) /\ more[i] = queue[i]
  OBVIOUS
<1> HIDE DEF more
<1>2. \A i : ModelComes(d, i, queue, models) => ModelComes(d, i, more, models)
  BY <1>1, Zenon DEF ModelComes
<1>3. ModelComes(d, Len(queue) + 1, queue, models) => ModelComes(d, Len(more) + 1, more, models)
  <2>1. \A j \in 1 .. Len(queue) : j < Len(more) + 1
    BY <1>1
  <2> QED BY <1>1, <2>1, Zenon DEF ModelComes
<1>4. \A remotes : DeviceComes(d, queue, models, remotes) => DeviceComes(d, more, models, remotes)
  BY <1>1, <1>2, Zenon DEF DeviceComes
<1> QED BY <1>2, <1>3, <1>4 DEF more

\* What a message leaves on the main gateway is no longer awaited.
LEMMA TailComes ==
    ASSUME GateTypes, NEW queue \in Seq(DownMessage), queue # <<>>, NEW d \in SubDevice
    PROVE  /\ ModelComes(d, Len(queue) + 1, queue, mainModels)
              => ModelComes(d, Len(Tail(queue)) + 1, Tail(queue), Gate!ModelsAfter(Head(queue)))
           /\ DeviceComes(d, queue, mainModels, mainDevices)
              => DeviceComes(d, Tail(queue), Gate!ModelsAfter(Head(queue)), Gate!DevicesAfter(Head(queue)))
<1> DEFINE h == Head(queue)
           rest == Tail(queue)
           models == Gate!ModelsAfter(h)
           model == Gate!GenModel(SubModel[d])
<1>1. /\ Len(queue) \in Nat /\ Len(queue) >= 1 /\ Len(rest) = Len(queue) - 1 /\ queue[1] = h
      /\ \A i \in 2 .. Len(queue) : i - 1 \in 1 .. Len(rest) /\ rest[i - 1] = queue[i]
  OBVIOUS
<1>2. mainModels \subseteq models /\ (h.type = "models" => h.models \subseteq models)
  BY DEF Gate!ModelsAfter
<1>3. ASSUME NEW i \in 1 .. Len(queue) + 1, ModelComes(d, i, queue, mainModels)
      PROVE  ModelComes(d, i - 1, rest, models)
  <2>1. CASE model \in mainModels
    BY <1>2, <2>1 DEF ModelComes
  <2>2. ASSUME NEW j \in 1 .. Len(queue), j < i, queue[j].type = "models", model \in queue[j].models
        PROVE  ModelComes(d, i - 1, rest, models)
    <3>1. CASE j = 1
      <4>1. model \in models
        BY <1>1, <1>2, <2>2, <3>1
      <4> HIDE DEF models, rest
      <4> QED BY <4>1, Zenon DEF ModelComes
    <3>2. CASE j # 1
      <4>1. j - 1 \in 1 .. Len(rest) /\ rest[j - 1] = queue[j] /\ j - 1 < i - 1
        BY <1>1, <1>3, <2>2, <3>2
      <4> HIDE DEF models, rest
      <4> QED BY <2>2, <4>1, Zenon DEF ModelComes
    <3> QED BY <3>1, <3>2
  <2> QED BY <1>3, <2>1, <2>2, Zenon DEF ModelComes
<1>4. ModelComes(d, Len(queue) + 1, queue, mainModels) => ModelComes(d, Len(rest) + 1, rest, models)
  <2>1. Len(queue) + 1 \in 1 .. Len(queue) + 1 /\ (Len(queue) + 1) - 1 = Len(rest) + 1
    BY <1>1
  <2> HIDE DEF models, rest
  <2> QED BY <1>3, <2>1
<1>5. ASSUME DeviceComes(d, queue, mainModels, mainDevices)
      PROVE  DeviceComes(d, rest, models, Gate!DevicesAfter(h))
  <2>1. CASE Gate!GenDevice(d) \in mainDevices
    BY <2>1, Zenon DEF DeviceComes, Gate!DevicesAfter
  <2>2. ASSUME NEW i \in 1 .. Len(queue), queue[i].type = "devices", d \in queue[i].devices,
               ModelComes(d, i, queue, mainModels)
        PROVE  DeviceComes(d, rest, models, Gate!DevicesAfter(h))
    <3>1. CASE i = 1
      <4>1. ~ \E j \in 1 .. Len(queue) : j < i
        BY <3>1
      <4>2. model \in mainModels
        BY <2>2, <4>1, Zenon DEF ModelComes
      <4>3. h.type = "devices" /\ d \in h.devices
        BY <1>1, <2>2, <3>1
      <4>4. Gate!GenDevice(d) \in Gate!DevicesAfter(h)
        <5> HIDE DEF h
        <5> QED BY <4>2, <4>3, Zenon DEF Gate!DevicesAfter
      <4> HIDE DEF models, rest, h
      <4> QED BY <4>4, Zenon DEF DeviceComes
    <3>2. CASE i # 1
      <4>1. i - 1 \in 1 .. Len(rest) /\ rest[i - 1] = queue[i] /\ i \in 1 .. Len(queue) + 1
        BY <1>1, <2>2, <3>2
      <4>2. ModelComes(d, i - 1, rest, models)
        <5> HIDE DEF models, rest
        <5> QED BY <1>3, <2>2, <4>1
      <4> HIDE DEF models, rest, h
      <4> QED BY <2>2, <4>1, <4>2, Zenon DEF DeviceComes
    <3> QED BY <3>1, <3>2
  <2> QED BY <1>5, <2>1, <2>2, Zenon DEF DeviceComes
<1> QED BY <1>4, <1>5

\* More models and devices on the main gateway take nothing away.
LEMMA MoreComes ==
    ASSUME NEW queue, NEW models, NEW models2, models \subseteq models2,
           NEW remotes, NEW remotes2, remotes \subseteq remotes2, NEW d
    PROVE  /\ \A i : ModelComes(d, i, queue, models) => ModelComes(d, i, queue, models2)
           /\ DeviceComes(d, queue, models, remotes) => DeviceComes(d, queue, models2, remotes2)
<1>1. \A i : ModelComes(d, i, queue, models) => ModelComes(d, i, queue, models2)
  BY Zenon DEF ModelComes
<1> QED BY <1>1, Zenon DEF DeviceComes

LEMMA PutStep ==
    ASSUME GateTypes, NEW m \in DownMessage, NEW q \in Socket, down' = Gate!Put(down, q, m), NEW n \in Socket
    PROVE  /\ down'[n] = down[n] \/ down'[n] = Append(down[n], m)
           /\ n # q => down'[n] = down[n]
           /\ n = q /\ ~broken[n] => down'[n] = Append(down[n], m)
BY DEF GateTypes, WireTypes, Gate!Put

\* A step of somebody else.
LEMMA Unharmed ==
    ASSUME GateTypes, NEW n \in Socket, Synchronises(n),
           job'[n] = job[n] \/ (job[n] \in Late /\ job'[n] \in Late),
           promised'[n] = promised[n],
           job[n] \in Early => mainGateway' /\ mainConn' = n,
           \/ down'[n] = down[n]
           \/ \E m \in DownMessage : down'[n] = Append(down[n], m),
           UNCHANGED <<mainModels, mainDevices>>
    PROVE  Synchronises(n)'
<1>1. down[n] \in Seq(DownMessage)
  BY DEF GateTypes, WireTypes
<1>2. job'[n] \in Early => job[n] \in Early
  BY DEF Early, Late
<1>3. job'[n] = "devices" => job[n] = "devices"
  BY DEF Late
<1>4. job'[n] \in Late => job[n] \in Late
  OBVIOUS
<1>5. ASSUME job'[n] = "devices", NEW d \in promised[n]
      PROVE  ModelComes(d, Len(down'[n]) + 1, down'[n], mainModels)
  <2>1. ModelComes(d, Len(down[n]) + 1, down[n], mainModels)
    BY <1>3, <1>5, Zenon DEF Synchronises
  <2> QED BY <1>1, <2>1, AppendComes, Zenon
<1>6. ASSUME job'[n] \in Late, NEW d \in promised[n]
      PROVE  DeviceComes(d, down'[n], mainModels, mainDevices)
  <2>1. DeviceComes(d, down[n], mainModels, mainDevices)
    BY <1>4, <1>6, Zenon DEF Synchronises
  <2> QED BY <1>1, <2>1, AppendComes, Zenon
<1> QED BY <1>2, <1>5, <1>6, Zenon DEF Synchronises


LEMMA OneRunsStep == GateTypes /\ OneRuns /\ [Gate!Next]_gatewayVars => OneRuns'
<1> SUFFICES ASSUME GateTypes, OneRuns, [Gate!Next]_gatewayVars PROVE OneRuns'
  OBVIOUS
<1>a. MainTypes
  BY DEF GateTypes
<1>1. CASE UNCHANGED <<loop, destroyed>>
  BY <1>1 DEF OneRuns
<1>2. ASSUME NEW c \in MainConnector, loop[c] # "off", NEW there, loop' = [loop EXCEPT ![c] = there], UNCHANGED destroyed
      PROVE  OneRuns'
  BY <1>2, <1>a DEF OneRuns, MainTypes
<1>3. ASSUME NEW c \in MainConnector, Gate!Initialize(c) PROVE OneRuns'
  BY <1>3, <1>a DEF Gate!Initialize, OneRuns, MainTypes
<1>4. ASSUME NEW c \in MainConnector, Gate!Dial(c) \/ Gate!Store(c) \/ Gate!Lost(c) \/ Gate!Retry(c) PROVE OneRuns'
  <2>1. loop[c] # "off" /\ UNCHANGED destroyed /\ \E there : loop' = [loop EXCEPT ![c] = there]
    BY <1>4, Zenon DEF Gate!Dial, Gate!Store, Gate!Lost, Gate!Retry
  <2> QED BY <1>2, <2>1
<1>5. ASSUME NEW c \in MainConnector, Gate!Destroy(c) PROVE OneRuns'
  BY <1>5, <1>a DEF Gate!Destroy, OneRuns, MainTypes
<1>6. CASE \E c \in MainConnector : Gate!MainReceive(c) \/ Gate!Register(c) \/ Gate!Command(c)
  <2>1. UNCHANGED <<loop, destroyed>>
    BY <1>6 DEF Gate!MainReceive, Gate!Register, Gate!Command, Gate!mainVars
  <2> QED BY <1>1, <2>1
<1>7. CASE \E n \in Socket : Gate!Handle(n) \/ Gate!Break(n)
  <2>1. UNCHANGED Gate!mainVars
    BY <1>7 DEF Gate!Handle, Gate!Break, Gate!ReceiveRegister, Gate!Respond, Gate!ReceiveControl, Gate!Answer, Gate!Sync,
       Gate!SyncModels, Gate!SyncDevices, Gate!TakeShadow, Gate!SyncShadow, Gate!SyncPanics, Gate!SyncStep,
       Gate!ForgetConn, Gate!ForgetKey
  <2> QED BY <1>1, <2>1 DEF Gate!mainVars
<1>8. CASE Gate!Report \/ Gate!Change \/ Gate!AddDevice \/ UNCHANGED gatewayVars
  <2>1. UNCHANGED Gate!mainVars
    BY <1>8 DEF Gate!Report, Gate!ReportCheck, Gate!ReportWrite, Gate!ReportWritten, Gate!Change, Gate!AddDevice,
       gatewayVars, Gate!mainVars
  <2> QED BY <1>1, <2>1 DEF Gate!mainVars
<1> QED BY <1>3, <1>4, <1>5, <1>6, <1>7, <1>8 DEF Gate!Next, Gate!Connect

\* Nothing closed works again, and the sub-gateway does not touch the connectors.
LEMMA BrokenStays ==
    GateTypes /\ [Gate!Next]_gatewayVars => \A n \in Socket : broken[n] => broken'[n]
<1> SUFFICES ASSUME GateTypes, [Gate!Next]_gatewayVars, NEW n \in Socket, broken[n] PROVE broken'[n]
  OBVIOUS
<1>a. broken \in [Socket -> BOOLEAN]
  BY DEF GateTypes, WireTypes
<1>1. CASE \E c \in MainConnector : Gate!Destroy(c)
  BY <1>1 DEF Gate!Destroy
<1>2. ASSUME NEW q \in Socket, broken' = [broken EXCEPT ![q] = TRUE] PROVE broken'[n]
  BY <1>2, <1>a
<1>3. CASE \E c \in MainConnector : \/ Gate!Initialize(c) \/ Gate!Dial(c) \/ Gate!Connect(c)
                                    \/ Gate!Register(c) \/ Gate!Command(c)
  BY <1>3 DEF Gate!Initialize, Gate!Dial, Gate!Connect, Gate!Store, Gate!Lost, Gate!Retry, Gate!MainReceive,
     Gate!Register, Gate!Command, Gate!wireVars
<1>4. CASE \E q \in Socket : Gate!Handle(q) \/ Gate!Break(q)
  <2>1. broken' = broken \/ \E q \in Socket : broken' = [broken EXCEPT ![q] = TRUE]
    BY <1>4, Zenon DEF Gate!Handle, Gate!Break, Gate!ReceiveRegister, Gate!Respond, Gate!ReceiveControl, Gate!Answer, Gate!Sync,
       Gate!SyncModels, Gate!SyncDevices, Gate!TakeShadow, Gate!SyncShadow, Gate!SyncPanics, Gate!SyncStep,
       Gate!ForgetConn, Gate!ForgetKey, Gate!wireVars
  <2> QED BY <1>2, <2>1
<1>5. CASE Gate!Report \/ Gate!Change \/ Gate!AddDevice \/ UNCHANGED gatewayVars
  BY <1>5 DEF Gate!Report, Gate!ReportCheck, Gate!ReportWrite, Gate!ReportWritten, Gate!Change, Gate!AddDevice,
     gatewayVars, Gate!wireVars
<1> QED BY <1>1, <1>3, <1>4, <1>5 DEF Gate!Next

LEMMA DestroyedStep ==
    GateTypes /\ DestroyedReadsNothing /\ [Gate!Next]_gatewayVars => DestroyedReadsNothing'
<1> SUFFICES ASSUME GateTypes, DestroyedReadsNothing, [Gate!Next]_gatewayVars PROVE DestroyedReadsNothing'
  OBVIOUS
<1>a. MainTypes /\ Lines /\ WireTypes
  BY DEF GateTypes
<1>b. \A n \in Socket : broken[n] => broken'[n]
  BY BrokenStays
<1>c. \A c \in MainConnector : loop[c] = "read" => cur[c] \in Socket
  BY <1>a DEF Lines
<1>1. ASSUME UNCHANGED <<loop, destroyed, cur, ghost>> PROVE DestroyedReadsNothing'
  BY <1>1, <1>b, <1>c DEF DestroyedReadsNothing
<1>2. ASSUME NEW c \in MainConnector, NEW there, NEW line, there # "read",
             loop' = [loop EXCEPT ![c] = there], cur' = cur \/ cur' = [cur EXCEPT ![c] = line], UNCHANGED <<destroyed, ghost>>
      PROVE  DestroyedReadsNothing'
  BY <1>2, <1>a, <1>b, <1>c DEF DestroyedReadsNothing, MainTypes
<1>3. ASSUME NEW c \in MainConnector, Gate!Initialize(c) \/ Gate!Retry(c) PROVE DestroyedReadsNothing'
  BY <1>2, <1>3 DEF Gate!Initialize, Gate!Retry, Gate!history
<1>4. ASSUME NEW c \in MainConnector, Gate!Dial(c) PROVE DestroyedReadsNothing'
  <2>1. PICK n \in Socket : cur' = [cur EXCEPT ![c] = n]
    BY <1>4 DEF Gate!Dial, Gate!Fresh
  <2> QED BY <1>2, <1>4, <2>1 DEF Gate!Dial, Gate!history
<1>5. ASSUME NEW c \in MainConnector, Gate!Lost(c) PROVE DestroyedReadsNothing'
  <2>1. PICK there : there # "read" /\ loop' = [loop EXCEPT ![c] = there]
    BY <1>5 DEF Gate!Lost
  <2>2. cur' = [cur EXCEPT ![c] = NoConn] /\ UNCHANGED <<destroyed, ghost>>
    BY <1>5 DEF Gate!Lost, Gate!history
  <2> QED BY <1>2, <2>1, <2>2
<1>6. ASSUME NEW c \in MainConnector, Gate!Store(c) PROVE DestroyedReadsNothing'
  <2>1. /\ loop' = [loop EXCEPT ![c] = "read"] /\ ghost' = (ghost \/ destroyed[c])
        /\ UNCHANGED <<cur, destroyed>>
    BY <1>6 DEF Gate!Store
  <2> QED BY <1>a, <1>b, <1>c, <2>1 DEF DestroyedReadsNothing, MainTypes
<1>7. ASSUME NEW c \in MainConnector, Gate!Destroy(c) PROVE DestroyedReadsNothing'
  <2>1. /\ destroyed' = [destroyed EXCEPT ![c] = TRUE] /\ UNCHANGED <<loop, cur, ghost>>
        /\ broken' = [n \in Socket |-> broken[n] \/ n = conn[c]]
    BY <1>7 DEF Gate!Destroy, Gate!history
  <2> QED BY <1>a, <1>b, <1>c, <2>1 DEF DestroyedReadsNothing, MainTypes, Lines
<1>8. CASE \E c \in MainConnector : Gate!MainReceive(c) \/ Gate!Register(c) \/ Gate!Command(c)
  BY <1>1, <1>8 DEF Gate!MainReceive, Gate!Register, Gate!Command, Gate!mainVars, Gate!history
<1>9. CASE \E n \in Socket : Gate!Handle(n) \/ Gate!Break(n)
  <2>1. UNCHANGED <<Gate!mainVars, ghost>>
    BY <1>9 DEF Gate!Handle, Gate!Break, Gate!ReceiveRegister, Gate!Respond, Gate!ReceiveControl, Gate!Answer, Gate!Sync,
       Gate!SyncModels, Gate!SyncDevices, Gate!TakeShadow, Gate!SyncShadow, Gate!SyncPanics, Gate!SyncStep,
       Gate!ForgetConn, Gate!ForgetKey, Gate!history
  <2> QED BY <1>1, <2>1 DEF Gate!mainVars
<1>10. CASE Gate!Report \/ Gate!Change \/ Gate!AddDevice \/ UNCHANGED gatewayVars
  <2>1. UNCHANGED <<Gate!mainVars, ghost>>
    BY <1>10 DEF Gate!Report, Gate!ReportCheck, Gate!ReportWrite, Gate!ReportWritten, Gate!Change, Gate!AddDevice,
       gatewayVars, Gate!mainVars, Gate!history
  <2> QED BY <1>1, <2>1 DEF Gate!mainVars
<1> QED BY <1>3, <1>4, <1>5, <1>6, <1>7, <1>8, <1>9, <1>10 DEF Gate!Next, Gate!Connect

LEMMA AskersStep == GateTypes /\ AskersAreRead /\ [Gate!Next]_gatewayVars => AskersAreRead'
<1> SUFFICES ASSUME GateTypes, AskersAreRead, [Gate!Next]_gatewayVars PROVE AskersAreRead'
  OBVIOUS
<1> DEFINE Read(n) == \E c \in MainConnector : loop[c] = "read" /\ cur[c] = n
<1>a. MainTypes /\ Lines /\ WireTypes /\ SubTypes /\ HistoryTypes
  BY DEF GateTypes
<1>b. \A n \in Socket : broken[n] => broken'[n]
  BY BrokenStays
<1>c. /\ \A n \in Socket : Asks(n) /\ ~broken[n] => Read(n)
      /\ DOMAIN loop = MainConnector /\ DOMAIN cur = MainConnector
  BY <1>a DEF AskersAreRead, MainTypes
<1>1. ASSUME NEW n \in Socket, ~broken'[n], Read(n) PROVE Read(n)'
  <2>1. PICK c \in MainConnector : loop[c] = "read" /\ cur[c] = n /\ ~broken[cur[c]]
    BY <1>1, <1>b
  <2>2. CASE UNCHANGED <<loop, cur>>
    BY <2>1, <2>2
  <2>3. ASSUME NEW o \in MainConnector, Gate!Initialize(o) \/ Gate!Dial(o) \/ Gate!Store(o) \/ Gate!Lost(o) \/ Gate!Retry(o)
        PROVE  Read(n)'
    <3>1. o # c
      BY <2>1, <2>3 DEF Gate!Initialize, Gate!Dial, Gate!Store, Gate!Lost, Gate!Retry
    <3>2. loop'[c] = loop[c] /\ cur'[c] = cur[c]
      BY <1>c, <2>3, <3>1 DEF Gate!Initialize, Gate!Dial, Gate!Store, Gate!Lost, Gate!Retry
    <3> QED BY <2>1, <3>2
  <2>4. CASE \E o \in MainConnector : Gate!MainReceive(o) \/ Gate!Register(o) \/ Gate!Command(o) \/ Gate!Destroy(o)
    BY <2>2, <2>4 DEF Gate!MainReceive, Gate!Register, Gate!Command, Gate!Destroy, Gate!mainVars
  <2>5. CASE \E q \in Socket : Gate!Handle(q) \/ Gate!Break(q)
    <3>1. UNCHANGED Gate!mainVars
      BY <2>5 DEF Gate!Handle, Gate!Break, Gate!ReceiveRegister, Gate!Respond, Gate!ReceiveControl, Gate!Answer, Gate!Sync,
         Gate!SyncModels, Gate!SyncDevices, Gate!TakeShadow, Gate!SyncShadow, Gate!SyncPanics, Gate!SyncStep,
         Gate!ForgetConn, Gate!ForgetKey
    <3> QED BY <2>2, <3>1 DEF Gate!mainVars
  <2>6. CASE Gate!Report \/ Gate!Change \/ Gate!AddDevice \/ UNCHANGED gatewayVars
    <3>1. UNCHANGED Gate!mainVars
      BY <2>6 DEF Gate!Report, Gate!ReportCheck, Gate!ReportWrite, Gate!ReportWritten, Gate!Change, Gate!AddDevice,
         gatewayVars, Gate!mainVars
    <3> QED BY <2>2, <3>1 DEF Gate!mainVars
  <2> HIDE DEF Read
  <2> QED BY <2>3, <2>4, <2>5, <2>6 DEF Gate!Next, Gate!Connect
<1>2. ASSUME NEW n \in Socket, ~broken'[n], Asks(n)' PROVE Read(n)
  <2>1. CASE Asks(n)
    BY <1>2, <1>b, <1>c, <2>1
  <2>2. CASE UNCHANGED <<up[n], job[n], promised[n]>>
    BY <1>2, <2>1, <2>2 DEF Asks
  <2>3. ASSUME NEW c \in MainConnector, Gate!Register(c) \/ Gate!Command(c) PROVE Read(n)
    <3>1. UNCHANGED <<job, promised>>
      BY <2>3 DEF Gate!Register, Gate!Command, Gate!subVars, Gate!history
    <3>2. CASE conn[c] = n
      BY <1>a, <1>2, <3>2, GateFacts DEF Lines, MainTypes
    <3>3. CASE conn[c] # n
      <4>1. up'[n] = up[n]
        BY <1>a, <2>3, <3>3 DEF Gate!Register, Gate!Command, Gate!Put, WireTypes
      <4> QED BY <2>2, <3>1, <4>1
    <3> QED BY <3>2, <3>3
  <2>4. CASE \E c \in MainConnector : Gate!Initialize(c) \/ Gate!Dial(c) \/ Gate!Connect(c) \/ Gate!Destroy(c)
    <3>1. UNCHANGED <<up, job, promised>>
      BY <2>4 DEF Gate!Initialize, Gate!Dial, Gate!Connect, Gate!Store, Gate!Lost, Gate!Retry, Gate!MainReceive,
         Gate!Destroy, Gate!subVars, Gate!wireVars, Gate!history
    <3> QED BY <2>2, <3>1
  <2>5. ASSUME NEW q \in Socket, Gate!Handle(q) \/ Gate!Break(q) PROVE Read(n)
    <3>1. CASE q = n
      <4>1. Asks(n) \/ UNCHANGED <<up, job, promised>>
        BY <2>5, <3>1 DEF Asks, Gate!Handle, Gate!Break, Gate!ReceiveRegister, Gate!Respond, Gate!ReceiveControl,
           Gate!Answer, Gate!Sync, Gate!SyncModels, Gate!SyncDevices, Gate!TakeShadow, Gate!SyncShadow,
           Gate!SyncPanics, Gate!SyncStep, Gate!ForgetConn, Gate!ForgetKey, Gate!wireVars, Gate!subVars, Gate!history
      <4> QED BY <2>1, <2>2, <4>1
    <3>2. CASE q # n
      <4>1. /\ up' = up \/ \E x : up' = [up EXCEPT ![q] = x]
            /\ job' = job \/ \E x : job' = [job EXCEPT ![q] = x]
            /\ promised' = promised \/ \E x : promised' = [promised EXCEPT ![q] = x]
        BY <2>5, Zenon DEF Gate!Handle, Gate!Break, Gate!ReceiveRegister, Gate!Respond, Gate!ReceiveControl,
           Gate!Answer, Gate!Sync, Gate!SyncModels, Gate!SyncDevices, Gate!TakeShadow, Gate!SyncShadow,
           Gate!SyncPanics, Gate!SyncStep, Gate!ForgetConn, Gate!ForgetKey, Gate!wireVars, Gate!subVars, Gate!history
      <4>2. UNCHANGED <<up[n], job[n], promised[n]>>
        BY <1>a, <3>2, <4>1 DEF WireTypes, SubTypes, HistoryTypes
      <4> QED BY <2>2, <4>2
    <3> QED BY <3>1, <3>2
  <2>6. CASE Gate!Report \/ Gate!Change \/ Gate!AddDevice \/ UNCHANGED gatewayVars
    <3>1. UNCHANGED <<up, job, promised>>
      BY <2>6 DEF Gate!Report, Gate!ReportCheck, Gate!ReportWrite, Gate!ReportWritten, Gate!Change, Gate!AddDevice,
         gatewayVars, Gate!wireVars, Gate!history
    <3> QED BY <2>2, <3>1
  <2> HIDE DEF Read
  <2> QED BY <2>3, <2>4, <2>5, <2>6 DEF Gate!Next
<1> QED BY <1>1, <1>2 DEF AskersAreRead


\* The message of a synchronisation reaches the connection that synchronises.
LEMMA SyncSends ==
    ASSUME GateTypes, NEW n \in Socket, Synchronises(n), ~broken[n], NEW from \in Early, NEW to,
           NEW m \in DownMessage, NEW worth, Gate!SyncStep(n, from, to, m, worth)
    PROVE  /\ job[n] = from /\ job'[n] = to /\ mainGateway' /\ mainConn' = n
           /\ UNCHANGED <<mainModels, mainDevices, promised>>
           /\ worth => down'[n] = Append(down[n], m)
           /\ ~worth => down'[n] = down[n]
<1>1. job[n] = from /\ job'[n] = to /\ UNCHANGED <<mainGateway, mainConn, mainModels, mainDevices, promised>>
  BY DEF Gate!SyncStep, GateTypes, SubTypes, Gate!mainVars
<1>2. mainGateway /\ mainConn = n
  BY <1>1 DEF Synchronises
<1>3. n # NoConn
  BY GateFacts
<1>4. worth => down' = Gate!Put(down, n, m)
  BY <1>2, <1>3 DEF Gate!SyncStep
<1>5. ~worth => down' = down
  BY DEF Gate!SyncStep
<1>6. worth => down'[n] = Append(down[n], m)
  BY <1>4, PutStep
<1> QED BY <1>1, <1>2, <1>5, <1>6

LEMMA SyncArrives ==
    ASSUME GateTypes, NEW n \in Socket, Synchronises(n), ~broken'[n], ~broken[n], promised[n] \subseteq devices,
           Gate!Sync(n)
    PROVE  Synchronises(n)'
<1>a. SubTypes /\ WireTypes /\ HistoryTypes
  BY DEF GateTypes
<1>b. down[n] \in Seq(DownMessage) /\ Len(down[n]) \in Nat
  BY <1>a DEF WireTypes
<1>c. ASSUME NEW m \in DownMessage
      PROVE  /\ Len(down[n]) + 1 \in 1 .. Len(Append(down[n], m))
             /\ Append(down[n], m)[Len(down[n]) + 1] = m
             /\ Len(down[n]) + 1 < Len(Append(down[n], m)) + 1
  BY <1>b
<1>1. CASE Gate!SyncModels(n)
  <2> DEFINE m == [type |-> "models", models |-> {Gate!GenModel(SubModel[d]) : d \in devices}]
  <2>1. m \in DownMessage /\ m.type = "models" /\ \A d \in devices : Gate!GenModel(SubModel[d]) \in m.models
    BY <1>a, DownMessages DEF SubTypes
  <2>2. Gate!SyncStep(n, "models", "devices", m, devices # {})
    BY <1>1, Zenon DEF Gate!SyncModels
  <2> HIDE DEF m
  <2>3. /\ job'[n] = "devices" /\ mainGateway' /\ mainConn' = n /\ UNCHANGED <<mainModels, promised>>
        /\ devices # {} => down'[n] = Append(down[n], m)
    BY <2>1, <2>2, SyncSends DEF Early
  <2>4. ASSUME NEW d \in promised[n] PROVE ModelComes(d, Len(down'[n]) + 1, down'[n], mainModels)
    <3>1. d \in devices /\ down'[n] = Append(down[n], m)
      BY <2>3, <2>4
    <3> QED BY <1>c, <2>1, <3>1, Zenon DEF ModelComes
  <2> QED BY <2>3, <2>4 DEF Synchronises, Late
<1>2. CASE Gate!SyncDevices(n)
  <2> DEFINE m == [type |-> "devices", devices |-> devices]
  <2>1. m \in DownMessage /\ m.type = "devices" /\ m.devices = devices
    BY <1>a, DownMessages DEF SubTypes
  <2>2. Gate!SyncStep(n, "devices", "take", m, devices # {})
    BY <1>2, Zenon DEF Gate!SyncDevices
  <2> HIDE DEF m
  <2>3. /\ job[n] = "devices" /\ job'[n] = "take" /\ mainGateway' /\ mainConn' = n
        /\ UNCHANGED <<mainModels, mainDevices, promised>>
        /\ devices # {} => down'[n] = Append(down[n], m)
    BY <2>1, <2>2, SyncSends DEF Early
  <2>4. ASSUME NEW d \in promised[n] PROVE DeviceComes(d, down'[n], mainModels, mainDevices)
    <3>1. d \in devices /\ down'[n] = Append(down[n], m)
      BY <2>3, <2>4
    <3>2. ModelComes(d, Len(down[n]) + 1, down[n], mainModels)
      BY <2>3, <2>4, Zenon DEF Synchronises
    <3>3. ModelComes(d, Len(down[n]) + 1, Append(down[n], m), mainModels)
      BY <1>b, <2>1, <3>2, AppendComes, Zenon
    <3> QED BY <1>c, <2>1, <3>1, <3>3, Zenon DEF DeviceComes
  <2> QED BY <2>3, <2>4 DEF Synchronises, Early
<1>3. CASE Gate!TakeShadow(n)
  <2>1. /\ job[n] = "take" /\ job'[n] = "shadow"
        /\ UNCHANGED <<down, promised, mainModels, mainDevices>>
    BY <1>3, <1>a DEF Gate!TakeShadow, SubTypes, Gate!wireVars, Gate!history, Gate!mainVars
  <2> QED BY <2>1, Unharmed DEF Early, Late
<1>4. CASE Gate!SyncShadow(n)
  <2> DEFINE copy == taken[n]
             f == [x \in {Gate!GenDevice(d) : d \in DOMAIN copy} |->
                     copy[CHOOSE d \in DOMAIN copy : Gate!GenDevice(d) = x]]
             m == [type |-> "shadow", shadow |-> f]
  <2>1. copy \in SubShadows
    BY <1>a DEF SubTypes
  <2>2. f \in RemoteShadows
    <3> HIDE DEF copy
    <3> QED BY <2>1, CopyType
  <2>3. m \in DownMessage
    <3> HIDE DEF f
    <3> QED BY <2>2, DownMessages
  <2>4. Gate!SyncStep(n, "shadow", "none", m, TRUE)
    BY <1>4, Zenon DEF Gate!SyncShadow
  <2> HIDE DEF m
  <2>5. /\ job[n] = "shadow" /\ job'[n] = "none" /\ UNCHANGED <<promised, mainModels, mainDevices>>
        /\ \/ down' = down
           \/ down' = Gate!Put(down, mainConn, m) /\ mainConn # NoConn
    BY <1>a, <2>4 DEF Gate!SyncStep, SubTypes, Gate!mainVars
  <2>6. down'[n] = down[n] \/ down'[n] = Append(down[n], m)
    BY <1>a, <2>3, <2>5, PutStep DEF SubTypes, Line
  <2> QED BY <2>3, <2>5, <2>6, Unharmed DEF Early, Late
<1>5. CASE Gate!SyncPanics(n)
  BY <1>5, <1>a DEF Gate!SyncPanics, WireTypes
<1> QED BY <1>1, <1>2, <1>3, <1>4, <1>5 DEF Gate!Sync

\* The synchronisation of another connection.
LEMMA SyncElsewhere ==
    ASSUME GateTypes, NEW n \in Socket, Synchronises(n), NEW q \in Socket, q # n, Gate!Sync(q)
    PROVE  Synchronises(n)'
<1>a. SubTypes
  BY DEF GateTypes
<1>1. job'[n] = job[n]
  BY <1>a DEF Gate!Sync, Gate!SyncModels, Gate!SyncDevices, Gate!TakeShadow, Gate!SyncShadow, Gate!SyncPanics,
     Gate!SyncStep, SubTypes
<1>2. UNCHANGED <<promised, mainGateway, mainConn, mainModels, mainDevices>>
  BY DEF Gate!Sync, Gate!SyncModels, Gate!SyncDevices, Gate!TakeShadow, Gate!SyncShadow, Gate!SyncPanics,
     Gate!SyncStep, Gate!mainVars, Gate!history
<1>3. \/ down' = down
      \/ mainConn # NoConn /\ \E m : m \in DownMessage /\ down' = Gate!Put(down, mainConn, m)
  <2>1. CASE Gate!SyncModels(q)
    <3>1. [type |-> "models", models |-> {Gate!GenModel(SubModel[d]) : d \in devices}] \in DownMessage
      BY <1>a, DownMessages DEF SubTypes
    <3> QED BY <2>1, <3>1, Zenon DEF Gate!SyncModels, Gate!SyncStep
  <2>2. CASE Gate!SyncDevices(q)
    <3>1. [type |-> "devices", devices |-> devices] \in DownMessage
      BY <1>a, DownMessages DEF SubTypes
    <3> QED BY <2>2, <3>1, Zenon DEF Gate!SyncDevices, Gate!SyncStep
  <2>3. CASE Gate!TakeShadow(q) \/ Gate!SyncPanics(q)
    BY <2>3 DEF Gate!TakeShadow, Gate!SyncPanics, Gate!wireVars
  <2>4. CASE Gate!SyncShadow(q)
    <3> DEFINE copy == taken[q]
               f == [x \in {Gate!GenDevice(d) : d \in DOMAIN copy} |->
                       copy[CHOOSE d \in DOMAIN copy : Gate!GenDevice(d) = x]]
               m == [type |-> "shadow", shadow |-> f]
    <3>1. copy \in SubShadows
      BY <1>a DEF SubTypes
    <3>2. f \in RemoteShadows
      <4> HIDE DEF copy
      <4> QED BY <3>1, CopyType
    <3>3. m \in DownMessage
      <4> HIDE DEF f
      <4> QED BY <3>2, DownMessages
    <3>4. Gate!SyncStep(q, "shadow", "none", m, TRUE)
      BY <2>4, Zenon DEF Gate!SyncShadow
    <3> HIDE DEF m
    <3> QED BY <3>3, <3>4, Zenon DEF Gate!SyncStep
  <2> QED BY <2>1, <2>2, <2>3, <2>4 DEF Gate!Sync
<1>4. down'[n] = down[n] \/ \E m \in DownMessage : down'[n] = Append(down[n], m)
  <2>1. CASE down' = down
    BY <2>1
  <2>2. ASSUME mainConn # NoConn, NEW m \in DownMessage, down' = Gate!Put(down, mainConn, m)
        PROVE  down'[n] = down[n] \/ down'[n] = Append(down[n], m)
    <3>1. mainConn \in Socket
      BY <1>a, <2>2 DEF SubTypes, Line
    <3> QED BY <2>2, <3>1, PutStep
  <2> QED BY <1>3, <2>1, <2>2
<1>5. job[n] \in Early => mainGateway' /\ mainConn' = n
  BY <1>2, Zenon DEF Synchronises
<1> QED BY <1>1, <1>2, <1>4, <1>5, Unharmed


\* The newest registration, in the middle of which no other can be on a connection that works.
LEMMA RegisterArrives ==
    ASSUME GateTypes, ArriveInv, NEW n \in Socket, ~broken'[n], ~stolen', ~ghost',
           NEW q \in Socket, Gate!ReceiveRegister(q)
    PROVE  Synchronises(n)'
<1>a. SubTypes /\ HistoryTypes /\ WireTypes
  BY DEF GateTypes
<1>1. /\ up[q] # <<>> /\ mainGateway' = TRUE /\ mainConn' = q /\ job' = [job EXCEPT ![q] = "respond"]
      /\ stolen' = (broken[q] /\ (stolen \/ mainConn \notin {q, NoConn}))
      /\ promised' = [promised EXCEPT ![q] = devices]
      /\ UNCHANGED <<down, broken, mainModels, mainDevices, ghost>>
  BY DEF Gate!ReceiveRegister, Gate!mainVars
<1>2. ~broken[n] /\ ~ghost
  BY <1>1
<1>3. CASE q = n
  BY <1>a, <1>1, <1>3 DEF Synchronises, SubTypes, Late
<1>4. CASE q # n /\ ~broken[q]
  <2>1. ~Asks(n)
    <3> SUFFICES ASSUME Asks(n) PROVE FALSE
      OBVIOUS
    <3>1. PICK c \in MainConnector : loop[c] = "read" /\ cur[c] = n
      BY <1>2 DEF ArriveInv, OneReads, AskersAreRead
    <3>2. PICK o \in MainConnector : loop[o] = "read" /\ cur[o] = q
      BY <1>1, <1>4 DEF ArriveInv, OneReads, AskersAreRead, Asks
    <3>3. destroyed[c] \/ destroyed[o]
      BY <1>4, <3>1, <3>2 DEF ArriveInv, OneReads, OneRuns
    <3> QED BY <1>2, <1>4, <3>1, <3>2, <3>3 DEF ArriveInv, OneReads, DestroyedReadsNothing
  <2>2. job'[n] = "none" /\ promised'[n] = {}
    BY <1>a, <1>1, <1>4, <2>1 DEF Asks, SubTypes, HistoryTypes
  <2> QED BY <2>2, Zenon DEF Synchronises, Early
<1>5. CASE q # n /\ broken[q]
  <2>1. ~stolen /\ mainConn \in {q, NoConn}
    BY <1>1, <1>5
  <2>2. Synchronises(n)
    BY <1>2, <2>1 DEF ArriveInv
  <2>3. job[n] \notin Early
    BY <1>5, <2>1, <2>2, GateFacts DEF Synchronises
  <2>4. job'[n] = job[n] /\ promised'[n] = promised[n]
    BY <1>a, <1>1, <1>5 DEF SubTypes, HistoryTypes
  <2> QED BY <1>1, <2>2, <2>3, <2>4, Unharmed
<1> QED BY <1>3, <1>4, <1>5

\* The end of a connection, which takes the registration of no other when nothing is stolen.
LEMMA ForgetArrives ==
    ASSUME GateTypes, NEW n \in Socket, Synchronises(n), ~broken[n], ~stolen',
           NEW q \in Socket, Gate!ForgetConn(q) \/ Gate!ForgetKey(q)
    PROVE  Synchronises(n)'
<1>1. UNCHANGED <<job, promised, down, mainModels, mainDevices>>
  BY DEF Gate!ForgetConn, Gate!ForgetKey, Gate!mainVars, Gate!wireVars
<1>2. mainConn # n
  BY GateFacts DEF Gate!ForgetConn, Gate!ForgetKey
<1>3. job[n] \notin Early
  BY <1>2 DEF Synchronises
<1> QED BY <1>1, <1>3, Unharmed

\* A message is read by the main gateway.
LEMMA ReceiveArrives ==
    ASSUME GateTypes, NEW n \in Socket, Synchronises(n), NEW c \in MainConnector, Gate!MainReceive(c)
    PROVE  Synchronises(n)'
<1>a. WireTypes /\ SubTypes /\ HistoryTypes /\ Lines
  BY DEF GateTypes
<1>1. cur[c] \in Socket /\ down[cur[c]] \in Seq(DownMessage) /\ down[cur[c]] # <<>>
  BY <1>a DEF Gate!MainReceive, Lines, WireTypes
<1> DEFINE h == Head(down[cur[c]])
<1>2. /\ mainModels' = Gate!ModelsAfter(h) /\ mainDevices' = Gate!DevicesAfter(h)
      /\ down' = [down EXCEPT ![cur[c]] = Tail(@)]
      /\ UNCHANGED <<job, promised, mainGateway, mainConn>>
  BY Zenon DEF Gate!MainReceive, Gate!subVars, Gate!history
<1>3. mainModels \subseteq Gate!ModelsAfter(h) /\ mainDevices \subseteq Gate!DevicesAfter(h)
  BY DEF Gate!ModelsAfter, Gate!DevicesAfter
<1>p. \A d \in promised[n] : d \in SubDevice
  BY <1>a DEF HistoryTypes
<1>4. CASE cur[c] = n
  <2>1. down'[n] = Tail(down[n]) /\ h = Head(down[n])
    BY <1>a, <1>2, <1>4 DEF WireTypes
  <2>2. ASSUME NEW d \in promised[n]
        PROVE  /\ ModelComes(d, Len(down[n]) + 1, down[n], mainModels)
                  => ModelComes(d, Len(down'[n]) + 1, down'[n], mainModels')
               /\ DeviceComes(d, down[n], mainModels, mainDevices)
                  => DeviceComes(d, down'[n], mainModels', mainDevices')
    <3>1. d \in SubDevice
      BY <1>p, <2>2
    <3> HIDE DEF h
    <3> QED BY <1>1, <1>2, <1>4, <2>1, <3>1, TailComes, Zenon DEF h
  <2> QED BY <1>2, <2>2, Zenon DEF Synchronises
<1>5. CASE cur[c] # n
  <2>1. down'[n] = down[n]
    BY <1>a, <1>2, <1>5 DEF WireTypes
  <2>2. ASSUME NEW d
        PROVE  /\ ModelComes(d, Len(down[n]) + 1, down[n], mainModels)
                  => ModelComes(d, Len(down[n]) + 1, down[n], mainModels')
               /\ DeviceComes(d, down[n], mainModels, mainDevices)
                  => DeviceComes(d, down[n], mainModels', mainDevices')
    <3> HIDE DEF h
    <3> QED BY <1>2, <1>3, MoreComes, Zenon
  <2> QED BY <1>2, <2>1, <2>2, Zenon DEF Synchronises
<1> QED BY <1>4, <1>5

LEMMA ArriveStep == GateTypes /\ ArriveInv /\ [Gate!Next]_gatewayVars => ArriveInv'
<1> SUFFICES ASSUME GateTypes, ArriveInv, [Gate!Next]_gatewayVars PROVE ArriveInv'
  OBVIOUS
<1>a. SubTypes /\ MainTypes /\ WireTypes /\ HistoryTypes /\ Lines
  BY DEF GateTypes
<1>1. OneReads'
  BY OneRunsStep, DestroyedStep, AskersStep DEF ArriveInv, OneReads
<1>2. \A n \in Socket : promised'[n] \subseteq devices'
  <2> SUFFICES ASSUME NEW n \in Socket PROVE promised'[n] \subseteq devices'
    OBVIOUS
  <2>1. promised[n] \subseteq devices
    BY DEF ArriveInv
  <2>2. devices \subseteq devices' /\ (promised' = promised \/ \E q \in Socket : promised' = [promised EXCEPT ![q] = devices])
    <3>1. CASE \E q \in Socket : Gate!Handle(q) \/ Gate!Break(q)
      BY <3>1 DEF Gate!Handle, Gate!Break, Gate!ReceiveRegister, Gate!Respond, Gate!ReceiveControl,
         Gate!Answer, Gate!Sync, Gate!SyncModels, Gate!SyncDevices, Gate!TakeShadow, Gate!SyncShadow,
         Gate!SyncPanics, Gate!SyncStep, Gate!ForgetConn, Gate!ForgetKey, Gate!subVars, Gate!history
    <3>2. CASE \E c \in MainConnector : \/ Gate!Initialize(c) \/ Gate!Dial(c) \/ Gate!Connect(c)
                                        \/ Gate!Register(c) \/ Gate!Command(c) \/ Gate!Destroy(c)
      BY <3>2 DEF Gate!Initialize, Gate!Dial, Gate!Connect, Gate!Store, Gate!Lost, Gate!Retry, Gate!MainReceive,
         Gate!Register, Gate!Command, Gate!Destroy, Gate!subVars, Gate!history
    <3>3. CASE Gate!Report \/ Gate!Change \/ Gate!AddDevice \/ UNCHANGED gatewayVars
      BY <3>3 DEF Gate!Report, Gate!ReportCheck, Gate!ReportWrite, Gate!ReportWritten, Gate!Change, Gate!AddDevice,
         gatewayVars, Gate!history
    <3> QED BY <3>1, <3>2, <3>3 DEF Gate!Next
  <2> QED BY <1>a, <2>1, <2>2 DEF HistoryTypes
<1>3. ASSUME NEW n \in Socket, ~broken'[n], ~stolen', ~ghost' PROVE Synchronises(n)'
  <2>1. ~broken[n]
    BY <1>3, BrokenStays
  <2>2. ASSUME NEW q \in Socket, Gate!ReceiveRegister(q) PROVE Synchronises(n)'
    BY <1>3, <2>2, RegisterArrives
  <2>3. ASSUME UNCHANGED <<stolen, ghost>> PROVE Synchronises(n)
    BY <1>3, <2>1, <2>3 DEF ArriveInv
  <2>4. ASSUME UNCHANGED <<stolen, ghost, promised, mainGateway, mainConn, mainModels, mainDevices>>,
               \/ UNCHANGED down
               \/ \E q \in Socket : \E m \in DownMessage : down' = Gate!Put(down, q, m),
               job'[n] = job[n] \/ (job[n] \in Late /\ job'[n] \in Late)
        PROVE  Synchronises(n)'
    <3>1. Synchronises(n)
      BY <2>3, <2>4
    <3>2. down'[n] = down[n] \/ \E m \in DownMessage : down'[n] = Append(down[n], m)
      BY <2>4, PutStep
    <3>3. job[n] \in Early => mainGateway' /\ mainConn' = n
      BY <2>4, <3>1, Zenon DEF Synchronises
    <3> QED BY <2>4, <3>1, <3>2, <3>3, Unharmed
  <2>5. ASSUME NEW q \in Socket, Gate!Respond(q) PROVE Synchronises(n)'
    <3>1. /\ down' = Gate!Put(down, q, [type |-> "registered"]) /\ job[q] = "respond"
          /\ job' = [job EXCEPT ![q] = "models"]
          /\ UNCHANGED <<stolen, ghost, promised, mainGateway, mainConn, mainModels, mainDevices>>
      BY <2>5 DEF Gate!Respond, Gate!mainVars, Gate!history
    <3>2. CASE q = n
      <4>1. Synchronises(n) /\ job[n] = "respond" /\ job'[n] = "models"
        BY <1>a, <2>3, <3>1, <3>2 DEF SubTypes
      <4> QED BY <3>1, <4>1 DEF Synchronises, Early, Late
    <3>3. CASE q # n
      <4>1. job'[n] = job[n]
        BY <1>a, <3>1, <3>3 DEF SubTypes
      <4> QED BY <2>4, <3>1, <4>1, DownMessages
    <3> QED BY <3>2, <3>3
  <2>6. ASSUME NEW q \in Socket, Gate!ReceiveControl(q) \/ Gate!Answer(q) PROVE Synchronises(n)'
    <3>1. /\ UNCHANGED <<stolen, ghost, promised, mainGateway, mainConn, mainModels, mainDevices, down>>
          /\ job[q] \in {"none", "answer"}
          /\ job' = job \/ \E to \in {"none", "answer"} : job' = [job EXCEPT ![q] = to]
      BY <2>6 DEF Gate!ReceiveControl, Gate!Answer, Gate!Serving, Gate!mainVars, Gate!wireVars, Gate!history
    <3>2. job'[n] = job[n] \/ (job[n] \in Late /\ job'[n] \in Late)
      BY <1>a, <3>1 DEF SubTypes, Late
    <3> QED BY <2>4, <3>1, <3>2
  <2>7. ASSUME NEW q \in Socket, Gate!Sync(q) PROVE Synchronises(n)'
    <3>1. UNCHANGED <<stolen, ghost>>
      BY <2>7 DEF Gate!Sync, Gate!SyncModels, Gate!SyncDevices, Gate!TakeShadow, Gate!SyncShadow,
         Gate!SyncPanics, Gate!SyncStep, Gate!history
    <3>2. Synchronises(n) /\ promised[n] \subseteq devices
      BY <2>3, <3>1 DEF ArriveInv
    <3> QED BY <1>3, <2>1, <2>7, <3>2, SyncArrives, SyncElsewhere
  <2>8. ASSUME NEW q \in Socket, Gate!ForgetConn(q) \/ Gate!ForgetKey(q) PROVE Synchronises(n)'
    <3>1. /\ stolen' = (stolen \/ mainConn \notin {q, NoConn}) \/ stolen' = (stolen \/ mainConn # NoConn)
          /\ UNCHANGED ghost
      BY <2>8, Zenon DEF Gate!ForgetConn, Gate!ForgetKey
    <3>3. ~stolen /\ ~ghost
      BY <1>3, <1>a, <3>1 DEF HistoryTypes
    <3>2. Synchronises(n)
      BY <2>1, <3>3 DEF ArriveInv
    <3> QED BY <1>3, <2>1, <2>8, <3>2, ForgetArrives
  <2>9. ASSUME NEW c \in MainConnector, Gate!MainReceive(c) PROVE Synchronises(n)'
    <3>1. UNCHANGED <<stolen, ghost>>
      BY <2>9 DEF Gate!MainReceive, Gate!history
    <3> QED BY <2>3, <2>9, <3>1, ReceiveArrives
  <2>10. ASSUME NEW c \in MainConnector,
                \/ Gate!Initialize(c) \/ Gate!Dial(c) \/ Gate!Lost(c) \/ Gate!Retry(c) \/ Gate!Register(c)
                \/ Gate!Command(c) \/ Gate!Destroy(c)
         PROVE  Synchronises(n)'
    <3>1. UNCHANGED <<stolen, ghost, promised, mainGateway, mainConn, mainModels, mainDevices, down, job>>
      BY <2>10 DEF Gate!Initialize, Gate!Dial, Gate!Lost, Gate!Retry, Gate!Register, Gate!Command, Gate!Destroy,
         Gate!subVars, Gate!mainVars, Gate!wireVars, Gate!history
    <3> QED BY <2>4, <3>1
  <2>11. ASSUME NEW c \in MainConnector, Gate!Store(c) PROVE Synchronises(n)'
    <3>1. /\ UNCHANGED <<stolen, promised, mainGateway, mainConn, mainModels, mainDevices, down, job>>
          /\ ghost' = (ghost \/ destroyed[c])
      BY <2>11 DEF Gate!Store, Gate!subVars, Gate!wireVars
    <3>2. UNCHANGED ghost
      BY <1>3, <1>a, <3>1 DEF HistoryTypes
    <3> QED BY <2>4, <3>1, <3>2
  <2>12. CASE Gate!ReportWritten
    <3>1. /\ reports # <<>> /\ reporter.conn \in Socket /\ reports \in Seq(SubReport)
      BY <2>12, <1>a DEF Gate!ReportWritten, Lines, SubTypes
    <3>2. Head(reports) \in SubReport
      BY <3>1
    <3>3. Gate!GenDevice(Head(reports).device) \in Remote /\ Head(reports).value \in SubValue
      BY <3>2, GenRemote DEF SubReport
    <3>4. \E m \in DownMessage : down' = Gate!Put(down, reporter.conn, m)
      BY <2>12, <3>3, DownMessages, Zenon DEF Gate!ReportWritten
    <3>5. UNCHANGED <<stolen, ghost, promised, mainGateway, mainConn, mainModels, mainDevices, job>>
      BY <2>12 DEF Gate!ReportWritten, Gate!mainVars
    <3> QED BY <2>4, <3>1, <3>4, <3>5
  <2>13. CASE \/ Gate!ReportCheck \/ Gate!ReportWrite \/ Gate!Change \/ Gate!AddDevice \/ UNCHANGED gatewayVars
              \/ \E q \in Socket : Gate!Break(q)
    <3>1. UNCHANGED <<stolen, ghost, promised, mainGateway, mainConn, mainModels, mainDevices, down, job>>
      BY <2>13 DEF Gate!ReportCheck, Gate!ReportWrite, Gate!Change, Gate!AddDevice, Gate!Break, gatewayVars,
         Gate!subVars, Gate!mainVars, Gate!wireVars, Gate!history
    <3> QED BY <2>4, <3>1
  <2> QED BY <2>2, <2>5, <2>6, <2>7, <2>8, <2>9, <2>10, <2>11, <2>12, <2>13
          DEF Gate!Next, Gate!Handle, Gate!Connect, Gate!Report
<1> QED BY <1>1, <1>2, <1>3 DEF ArriveInv

LEMMA ArriveInit == Gate!Init => ArriveInv
<1> SUFFICES ASSUME Gate!Init PROVE ArriveInv
  OBVIOUS
<1>1. /\ \A n \in Socket : up[n] = <<>> /\ job[n] = "none" /\ promised[n] = {}
      /\ \A c \in MainConnector : loop[c] = "off"
  BY DEF Gate!Init
<1>2. \A n \in Socket : Synchronises(n)
  BY <1>1, Zenon DEF Synchronises, Early
<1> QED BY <1>1, <1>2 DEF ArriveInv, OneReads, OneRuns, DestroyedReadsNothing, AskersAreRead, Asks

\* A connection that has been synchronised has brought every device there was when it
\* registered, each after its model, unless a registration was undone or taken over or a
\* destroyed connector went on (exports/gateway/ws.go, internal/plugin/connector.go), for any
\* connectors, connections and devices.
THEOREM DevicesAlwaysArrive == MCSpec => []EveryDeviceArrives
<1> DEFINE Inv == GateTypes /\ ArriveInv
<1>1. MCInit => Inv
  BY GateTypesInit, ArriveInit DEF MCInit
<1>2. Inv /\ [MCNext]_<<vars, gatewayVars, triggerVars, part>> => Inv'
  BY GateTypesStep, ArriveStep DEF MCNext
<1>3. Inv => EveryDeviceArrives
  <2> SUFFICES ASSUME Inv, NEW c \in MainConnector, loop[c] = "read", ~broken[cur[c]], job[cur[c]] = "none",
                      down[cur[c]] = <<>>, ~stolen, ~ghost, NEW d \in promised[cur[c]]
               PROVE  Gate!GenDevice(d) \in mainDevices
    BY DEF EveryDeviceArrives, Gate!EveryDeviceArrives
  <2>1. cur[c] \in Socket
    BY DEF GateTypes, Lines
  <2>2. DeviceComes(d, <<>>, mainModels, mainDevices)
    BY <2>1 DEF ArriveInv, Synchronises, Late
  <2>3. ~ \E i \in 1 .. Len(<<>>) : TRUE
    OBVIOUS
  <2> QED BY <2>2, <2>3, Zenon DEF DeviceComes
<1> QED BY <1>1, <1>2, <1>3, PTL DEF MCSpec

-----------------------------------------------------------------------------
(***************************************************************************)
(* The results of runs                                                     *)
(***************************************************************************)
\* Of the first n actions of a run, some are counted, some are points a device has still to
\* take, and one is neither if a device has failed.  What is read of the counter is not more.
Account(n, sucCount, todo, adding, failed) ==
    \E done \in SUBSET (1 .. n), of \in [Device -> SUBSET (1 .. n)] :
        /\ \A d \in Device : of[d] \cap done = {} /\ \A e \in Device \ {d} : of[d] \cap of[e] = {}
        /\ \A d \in Device : Cardinality(of[d]) = todo[d] /\ adding[d] <= Cardinality(done)
        /\ sucCount <= Cardinality(done)
        /\ failed => \E i \in 1 .. n : i \notin done /\ \A d \in Device : i \notin of[d]

Accounted(run) == Account(run.next - 1, run.sucCount, run.todo, run.adding, run.failed)

Fresh(run) ==
    /\ run.next = 1 /\ run.sucCount = 0 /\ run.todo = NoPoints /\ run.adding = NotAdding
    /\ ~run.did /\ ~run.failed

Working(run) ==
    /\ run.next <= Len(run.conf.actions) + 1
    /\ run.at = "act" => run.adding = NotAdding /\ ~run.did
    /\ run.at = "writing" => run.next = Len(run.conf.actions) + 1
    /\ run.did => run.sucCount > 0 \/ \E d \in Device : run.adding[d] # -1
    /\ \A d \in Device : run.adding[d] # -1 => run.todo[d] > 0
    /\ OnePointEach(run.conf) => Accounted(run)

RunOK(run) ==
    /\ run.at \in {"idle", "look"} => Fresh(run)
    /\ run.at \in {"act", "writing"} => Working(run)

ResultInv == \A p \in Runner : RunOK(runs[p])

LEMMA FreshOK == RunOK(IdleRun)
BY DEF RunOK, IdleRun, Fresh

\* A subset of the actions that have been passed.
LEMMA PassedFacts ==
    ASSUME NEW n \in Nat, NEW S \in SUBSET (1 .. n)
    PROVE  /\ IsFiniteSet(S) /\ Cardinality(S) \in Nat /\ Cardinality(S) <= n
           /\ Cardinality(S) = n => S = 1 .. n
           /\ n + 1 \notin S /\ IsFiniteSet(S \cup {n + 1}) /\ Cardinality(S \cup {n + 1}) = Cardinality(S) + 1
<1>1. IsFiniteSet(1 .. n) /\ Cardinality(1 .. n) = n
  BY FS_Interval
<1>2. IsFiniteSet(S) /\ Cardinality(S) <= n /\ (n = Cardinality(S) => 1 .. n = S)
  BY <1>1, FS_Subset
<1>3. Cardinality(S) \in Nat
  BY <1>2, FS_CardinalityType
<1>4. n + 1 \notin S
  OBVIOUS
<1>5. IsFiniteSet(S \cup {n + 1}) /\ Cardinality(S \cup {n + 1}) = Cardinality(S) + 1
  BY <1>2, <1>4, FS_AddElement
<1> QED BY <1>2, <1>3, <1>4, <1>5

\* How a run comes to have another action behind it, or a device less to write.
Collects(run, new, k) ==
    /\ new.next = run.next + 1 /\ new.sucCount = run.sucCount /\ new.adding = run.adding
    /\ new.failed = run.failed
    /\ \A d \in Device : new.todo[d] = IF d = k THEN run.todo[d] + 1 ELSE run.todo[d]

ReadsCount(run, new, k) ==
    /\ new.next = run.next /\ new.sucCount = run.sucCount /\ new.todo = run.todo /\ new.failed = run.failed
    /\ \A d \in Device : new.adding[d] = IF d = k THEN run.sucCount ELSE run.adding[d]

Adds(run, new, k) ==
    /\ new.next = run.next /\ new.failed = run.failed
    /\ run.adding[k] # -1 /\ new.sucCount = run.adding[k] + run.todo[k]
    /\ \A d \in Device : /\ new.todo[d] = IF d = k THEN 0 ELSE run.todo[d]
                         /\ new.adding[d] = IF d = k THEN -1 ELSE run.adding[d]

Drops(run, new, k) ==
    /\ new.next = run.next /\ new.sucCount = run.sucCount /\ new.adding = run.adding /\ new.failed
    /\ run.todo[k] > 0
    /\ \A d \in Device : new.todo[d] = IF d = k THEN 0 ELSE run.todo[d]

\* An action that counts at once.
LEMMA CountedOK ==
    ASSUME NEW n \in Nat, NEW suc \in Nat, NEW todo \in [Device -> Nat],
           NEW adding \in [Device -> Nat \cup {-1}], NEW failed, Account(n, suc, todo, adding, failed)
    PROVE  Account(n + 1, suc + 1, todo, adding, failed)
<1>1. PICK done \in SUBSET (1 .. n), of \in [Device -> SUBSET (1 .. n)] :
        /\ \A d \in Device : of[d] \cap done = {} /\ \A e \in Device \ {d} : of[d] \cap of[e] = {}
        /\ \A d \in Device : Cardinality(of[d]) = todo[d] /\ adding[d] <= Cardinality(done)
        /\ suc <= Cardinality(done)
        /\ failed => \E i \in 1 .. n : i \notin done /\ \A d \in Device : i \notin of[d]
  BY DEF Account
<1> DEFINE more == done \cup {n + 1}
<1>2. Cardinality(more) = Cardinality(done) + 1 /\ Cardinality(done) \in Nat
  BY PassedFacts
<1>3. \A d \in Device : n + 1 \notin of[d]
  OBVIOUS
<1>4. more \in SUBSET (1 .. n + 1) /\ of \in [Device -> SUBSET (1 .. n + 1)]
  OBVIOUS
<1>5. \A d \in Device : of[d] \cap more = {} /\ \A e \in Device \ {d} : of[d] \cap of[e] = {}
  BY <1>1, <1>3
<1>6. \A d \in Device : Cardinality(of[d]) = todo[d] /\ adding[d] <= Cardinality(more)
  BY <1>1, <1>2
<1>7. suc + 1 <= Cardinality(more)
  BY <1>1, <1>2
<1>8. failed => \E i \in 1 .. n + 1 : i \notin more /\ \A d \in Device : i \notin of[d]
  BY <1>1
<1> HIDE DEF more
<1> QED BY <1>4, <1>5, <1>6, <1>7, <1>8 DEF Account

\* A point that is collected for its device.
LEMMA CollectedOK ==
    ASSUME NEW run \in RunType, NEW new, NEW k \in Device, Collects(run, new, k), Accounted(run)
    PROVE  Accounted(new)
<1> DEFINE n == run.next - 1
           suc == run.sucCount
           todo == run.todo
           adding == run.adding
           failed == run.failed
           left == new.todo
<1>a. /\ n \in Nat /\ suc \in Nat /\ todo \in [Device -> Nat] /\ adding \in [Device -> Nat \cup {-1}]
      /\ Account(n, suc, todo, adding, failed)
      /\ \A d \in Device : left[d] = IF d = k THEN todo[d] + 1 ELSE todo[d]
  BY DEF RunType, Accounted, Collects
<1>b. Account(n + 1, suc, left, adding, failed) => Accounted(new)
  <2>1. new.next - 1 = n + 1
    BY DEF Collects, RunType
  <2>2. n + 1 = new.next - 1 /\ new.sucCount = suc /\ new.adding = adding /\ new.failed = failed
    BY <2>1 DEF Collects
  <2> QED BY <2>2, Zenon DEF Accounted
<1> HIDE DEF n, suc, todo, adding, failed, left
<1> USE <1>a
<1>1. PICK done \in SUBSET (1 .. n), of \in [Device -> SUBSET (1 .. n)] :
        /\ \A d \in Device : of[d] \cap done = {} /\ \A e \in Device \ {d} : of[d] \cap of[e] = {}
        /\ \A d \in Device : Cardinality(of[d]) = todo[d] /\ adding[d] <= Cardinality(done)
        /\ suc <= Cardinality(done)
        /\ failed => \E i \in 1 .. n : i \notin done /\ \A d \in Device : i \notin of[d]
  BY DEF Account
<1> DEFINE more == [of EXCEPT ![k] = @ \cup {n + 1}]
<1>2. Cardinality(more[k]) = Cardinality(of[k]) + 1
  <2>1. of[k] \in SUBSET (1 .. n) /\ more[k] = of[k] \cup {n + 1}
    OBVIOUS
  <2> QED BY <2>1, PassedFacts
<1>3. n + 1 \notin done /\ \A d \in Device : n + 1 \notin of[d]
  OBVIOUS
<1>4. done \in SUBSET (1 .. n + 1) /\ more \in [Device -> SUBSET (1 .. n + 1)]
  OBVIOUS
<1>5. \A d \in Device : more[d] \cap done = {} /\ \A e \in Device \ {d} : more[d] \cap more[e] = {}
  BY <1>1, <1>3
<1>6. \A d \in Device : Cardinality(more[d]) = left[d] /\ adding[d] <= Cardinality(done)
  BY <1>1, <1>2
<1>7. failed => \E i \in 1 .. n + 1 : i \notin done /\ \A d \in Device : i \notin more[d]
  BY <1>1
<1> HIDE DEF more
<1>q. Account(n + 1, suc, left, adding, failed)
  BY <1>1, <1>4, <1>5, <1>6, <1>7 DEF Account
<1> QED BY <1>b, <1>q

\* A device that takes its points: the counter is read, and later written.
LEMMA WrittenOK ==
    ASSUME NEW run \in RunType, NEW new, NEW k \in Device, ReadsCount(run, new, k), Accounted(run)
    PROVE  Accounted(new)
<1> DEFINE n == run.next - 1
           suc == run.sucCount
           todo == run.todo
           adding == run.adding
           failed == run.failed
           read == new.adding
<1>a. /\ n \in Nat /\ suc \in Nat /\ todo \in [Device -> Nat] /\ adding \in [Device -> Nat \cup {-1}]
      /\ Account(n, suc, todo, adding, failed)
      /\ \A d \in Device : read[d] = IF d = k THEN suc ELSE adding[d]
  BY DEF RunType, Accounted, ReadsCount
<1>b. Account(n, suc, todo, read, failed) => Accounted(new)
  BY <1>a DEF Accounted, ReadsCount
<1> HIDE DEF n, suc, todo, adding, failed, read
<1> USE <1>a
<1>1. PICK done \in SUBSET (1 .. n), of \in [Device -> SUBSET (1 .. n)] :
        /\ \A d \in Device : of[d] \cap done = {} /\ \A e \in Device \ {d} : of[d] \cap of[e] = {}
        /\ \A d \in Device : Cardinality(of[d]) = todo[d] /\ adding[d] <= Cardinality(done)
        /\ suc <= Cardinality(done)
        /\ failed => \E i \in 1 .. n : i \notin done /\ \A d \in Device : i \notin of[d]
  BY DEF Account
<1>2. \A d \in Device : Cardinality(of[d]) = todo[d] /\ read[d] <= Cardinality(done)
  BY <1>1
<1>q. Account(n, suc, todo, read, failed)
  BY <1>1, <1>2 DEF Account
<1> QED BY <1>b, <1>q

LEMMA AddedOK ==
    ASSUME NEW run \in RunType, NEW new, NEW k \in Device, Adds(run, new, k), Accounted(run)
    PROVE  Accounted(new)
<1> DEFINE n == run.next - 1
           suc == run.sucCount
           todo == run.todo
           adding == run.adding
           failed == run.failed
           sum == new.sucCount
           left == new.todo
           read == new.adding
<1>a. /\ n \in Nat /\ suc \in Nat /\ todo \in [Device -> Nat] /\ adding \in [Device -> Nat \cup {-1}]
      /\ Account(n, suc, todo, adding, failed)
      /\ adding[k] # -1 /\ sum = adding[k] + todo[k] /\ \A d \in Device : left[d] = (IF d = k THEN 0 ELSE todo[d]) /\ read[d] = (IF d = k THEN -1 ELSE adding[d])
  BY DEF RunType, Accounted, Adds
<1>b. Account(n, sum, left, read, failed) => Accounted(new)
  BY <1>a DEF Accounted, Adds
<1> HIDE DEF n, suc, todo, adding, failed, sum, left, read
<1> USE <1>a
<1>1. PICK done \in SUBSET (1 .. n), of \in [Device -> SUBSET (1 .. n)] :
        /\ \A d \in Device : of[d] \cap done = {} /\ \A e \in Device \ {d} : of[d] \cap of[e] = {}
        /\ \A d \in Device : Cardinality(of[d]) = todo[d] /\ adding[d] <= Cardinality(done)
        /\ suc <= Cardinality(done)
        /\ failed => \E i \in 1 .. n : i \notin done /\ \A d \in Device : i \notin of[d]
  BY DEF Account
<1> DEFINE more == done \cup of[k]
           less == [of EXCEPT ![k] = {}]
<1>2. IsFiniteSet(done) /\ IsFiniteSet(of[k]) /\ Cardinality(done) \in Nat /\ Cardinality(of[k]) \in Nat
  BY PassedFacts
<1>3. Cardinality(more) = Cardinality(done) + Cardinality(of[k])
  <2>1. Cardinality(more) = Cardinality(done) + Cardinality(of[k]) - Cardinality(done \cap of[k])
    BY <1>2, FS_Union
  <2>2. done \cap of[k] = {}
    BY <1>1
  <2>3. Cardinality(done \cap of[k]) = 0
    BY <2>2, FS_EmptySet, Zenon
  <2> QED BY <1>2, <2>1, <2>3
<1>4. more \in SUBSET (1 .. n) /\ less \in [Device -> SUBSET (1 .. n)]
  OBVIOUS
<1>5. \A d \in Device : less[d] \cap more = {} /\ \A e \in Device \ {d} : less[d] \cap less[e] = {}
  <2> TAKE d \in Device
  <2>1. CASE d = k
    BY <2>1
  <2>2. CASE d # k
    <3>1. less[d] = of[d] /\ of[d] \cap done = {} /\ of[d] \cap of[k] = {}
      BY <1>1, <2>2
    <3>2. \A e \in Device \ {d} : of[d] \cap less[e] = {}
      BY <1>1
    <3> QED BY <3>1, <3>2
  <2> QED BY <2>1, <2>2
<1>6. \A d \in Device : Cardinality(less[d]) = left[d] /\ read[d] <= Cardinality(more)
  <2> TAKE d \in Device
  <2>1. Cardinality(less[d]) = left[d]
    BY <1>1, FS_EmptySet
  <2>2. read[d] \in {adding[d], -1} /\ adding[d] \in Int
    OBVIOUS
  <2> QED BY <1>1, <1>2, <1>3, <2>1, <2>2
<1>7. sum <= Cardinality(more)
  <2>1. adding[k] \in Int /\ adding[k] <= Cardinality(done) /\ todo[k] = Cardinality(of[k])
    BY <1>1
  <2> QED BY <1>2, <1>3, <2>1
<1>8. failed => \E i \in 1 .. n : i \notin more /\ \A d \in Device : i \notin less[d]
  BY <1>1
<1> HIDE DEF more, less
<1>q. Account(n, sum, left, read, failed)
  BY <1>4, <1>5, <1>6, <1>7, <1>8 DEF Account
<1> QED BY <1>b, <1>q

\* A device that does not.
LEMMA NotWrittenOK ==
    ASSUME NEW run \in RunType, NEW new, NEW k \in Device, Drops(run, new, k), Accounted(run)
    PROVE  Accounted(new)
<1> DEFINE n == run.next - 1
           suc == run.sucCount
           todo == run.todo
           adding == run.adding
           failed == run.failed
           left == new.todo
<1>a. /\ n \in Nat /\ suc \in Nat /\ todo \in [Device -> Nat] /\ adding \in [Device -> Nat \cup {-1}]
      /\ Account(n, suc, todo, adding, failed)
      /\ todo[k] > 0 /\ \A d \in Device : left[d] = IF d = k THEN 0 ELSE todo[d]
  BY DEF RunType, Accounted, Drops
<1>b. Account(n, suc, left, adding, TRUE) => Accounted(new)
  BY <1>a DEF Accounted, Drops
<1> HIDE DEF n, suc, todo, adding, failed, left
<1> USE <1>a
<1>1. PICK done \in SUBSET (1 .. n), of \in [Device -> SUBSET (1 .. n)] :
        /\ \A d \in Device : of[d] \cap done = {} /\ \A e \in Device \ {d} : of[d] \cap of[e] = {}
        /\ \A d \in Device : Cardinality(of[d]) = todo[d] /\ adding[d] <= Cardinality(done)
        /\ suc <= Cardinality(done)
        /\ failed => \E i \in 1 .. n : i \notin done /\ \A d \in Device : i \notin of[d]
  BY DEF Account
<1> DEFINE less == [of EXCEPT ![k] = {}]
<1>2. PICK i \in of[k] : TRUE
  <2>1. Cardinality(of[k]) # 0
    BY <1>1
  <2>2. of[k] # {}
    BY <2>1, FS_EmptySet
  <2> QED BY <2>2
<1>3. i \in 1 .. n /\ i \notin done /\ \A d \in Device : i \notin less[d]
  <2>1. i \notin done
    BY <1>1
  <2>2. \A d \in Device \ {k} : of[k] \cap of[d] = {}
    BY <1>1
  <2> QED BY <2>1, <2>2
<1>4. less \in [Device -> SUBSET (1 .. n)]
  OBVIOUS
<1>5. \A d \in Device : less[d] \cap done = {} /\ \A e \in Device \ {d} : less[d] \cap less[e] = {}
  BY <1>1
<1>6. \A d \in Device : Cardinality(less[d]) = left[d] /\ adding[d] <= Cardinality(done)
  BY <1>1, FS_EmptySet
<1> HIDE DEF less
<1>q. Account(n, suc, left, adding, TRUE)
  BY <1>1, <1>3, <1>4, <1>5, <1>6 DEF Account
<1> QED BY <1>b, <1>q

-----------------------------------------------------------------------------
LEMMA RunKeeps ==
    ASSUME TypeInv, ResultInv, NEW p \in Runner, NEW run, RunOK(run), Becomes(p, run)
    PROVE  ResultInv'
<1>1. \A q \in Runner : runs'[q] = IF q = p THEN run ELSE runs[q]
  BY DEF Becomes, TypeInv, TypeOK
<1> QED BY <1>1 DEF ResultInv

\* A run that has passed another action, or goes on writing.
LEMMA WorkingOK ==
    ASSUME NEW run \in RunType, RunOK(run), run.at \in {"act", "writing"},
           NEW new, new.at = run.at, new.conf = run.conf,
           new.next <= Len(run.conf.actions) + 1, run.at = "writing" => new.next = run.next,
           run.at = "act" => new.adding = run.adding /\ new.did = run.did,
           new.did => new.sucCount > 0 \/ \E d \in Device : new.adding[d] # -1,
           \A d \in Device : new.adding[d] # -1 => new.todo[d] > 0,
           OnePointEach(run.conf) => (Accounted(run) => Accounted(new))
    PROVE  RunOK(new)
<1>1. Working(run)
  BY DEF RunOK
<1>2. Working(new)
  BY <1>1 DEF Working
<1> QED BY <1>2 DEF RunOK

LEMMA RunStepResult ==
    ASSUME TypeInv, ResultInv, NEW p \in Runner, Starts(p) \/ RunStep(p)
    PROVE  ResultInv'
<1> DEFINE run == runs[p]
<1>1. run \in RunType /\ RunOK(run)
  BY DEF TypeInv, TypeOK, ResultInv
<1>2. run.conf.actions \in Seq(Action)
  BY <1>1 DEF RunType, ConfigType
<1>e. Ends(p) => ResultInv'
  BY FreshOK, RunKeeps DEF Ends
<1>3. ASSUME NEW r \in Rule, Trigger(p, r) PROVE ResultInv'
  <2>1. RunOK([IdleRun EXCEPT !.at = "look", !.rule = r, !.top = TRUE])
    BY DEF RunOK, IdleRun, Fresh
  <2> QED BY <1>3, <2>1, RunKeeps DEF Trigger
<1>4. ASSUME NEW conf \in Preview, Execute(p, conf) PROVE ResultInv'
  <2>1. RunOK([IdleRun EXCEPT !.at = "look", !.conf = conf])
    BY DEF RunOK, IdleRun, Fresh
  <2> QED BY <1>4, <2>1, RunKeeps DEF Execute
<1>5. CASE Refused(p)
  BY <1>5, <1>e DEF Refused
<1>6. CASE Accepted(p)
  <2> DEFINE new == [run EXCEPT !.at = "act", !.conf = Conf(p)]
  <2>1. run.at = "look" /\ Fresh(run)
    BY <1>1, <1>6 DEF Accepted, RunOK
  <2>2. Conf(p) \in ConfigType
    <3>1. TypeOK /\ HasConf(p)
      BY <1>6 DEF Accepted, TypeInv
    <3> QED BY <3>1, RunConfOK
  <2>3. /\ new.at = "act" /\ new.conf = Conf(p) /\ new.next = 1 /\ new.sucCount = 0 /\ new.todo = NoPoints
        /\ new.adding = NotAdding /\ ~new.did /\ ~new.failed
    BY <1>1, <2>1 DEF RunType, Fresh
  <2>4. Len(new.conf.actions) \in Nat
    BY <2>2, <2>3 DEF ConfigType
  <2>5. Accounted(new)
    <3> DEFINE none == [d \in Device |-> {}]
    <3>1. Cardinality({}) = 0
      BY FS_EmptySet
    <3>2. {} \in SUBSET (1 .. new.next - 1) /\ none \in [Device -> SUBSET (1 .. new.next - 1)]
      OBVIOUS
    <3>3. \A d \in Device : Cardinality(none[d]) = new.todo[d] /\ new.adding[d] <= Cardinality({})
      BY <2>3, <3>1 DEF NoPoints, NotAdding
    <3>4. new.sucCount <= Cardinality({})
      BY <2>3, <3>1
    <3>5. \A d \in Device : none[d] \cap {} = {} /\ \A e \in Device \ {d} : none[d] \cap none[e] = {}
      OBVIOUS
    <3> HIDE DEF new, none
    <3> QED BY <2>3, <3>2, <3>3, <3>4, <3>5 DEF Accounted, Account
  <2>6. Working(new)
    <3> HIDE DEF new
    <3> QED BY <2>3, <2>4, <2>5 DEF Working, NotAdding
  <2>7. RunOK(new)
    BY <2>3, <2>6 DEF RunOK
  <2> QED BY <1>6, <2>7, RunKeeps DEF Accepted
<1>a. Acting(p) => RunOK(Counted(p))
  <2> SUFFICES ASSUME Acting(p) PROVE RunOK(Counted(p))
    OBVIOUS
  <2>1. /\ Counted(p).at = "act" /\ Counted(p).next = run.next + 1 /\ Counted(p).sucCount = run.sucCount + 1
        /\ Counted(p).todo = run.todo /\ Counted(p).adding = run.adding /\ Counted(p).did = run.did
        /\ Counted(p).failed = run.failed /\ Counted(p).conf = run.conf
        /\ run.next \in Nat \ {0} /\ run.sucCount \in Nat /\ run.todo \in [Device -> Nat]
        /\ run.adding \in [Device -> Nat \cup {-1}] /\ Len(run.conf.actions) \in Nat
        /\ run.at = "act" /\ run.next <= Len(run.conf.actions)
    BY <1>1, <1>2 DEF Counted, Acting, RunType
  <2>2. Accounted(run) => Accounted(Counted(p))
    <3>1. run.next - 1 \in Nat /\ Counted(p).next - 1 = run.next - 1 + 1
      BY <2>1
    <3> QED BY <2>1, <3>1, CountedOK DEF Accounted
  <2>3. Working(run)
    BY <1>1, <2>1 DEF RunOK
  <2>4. Counted(p).next <= Len(run.conf.actions) + 1 /\ ~Counted(p).did /\ \A d \in Device : Counted(p).adding[d] = -1
    BY <2>1, <2>3 DEF Working, NotAdding
  <2> QED BY <1>1, <2>1, <2>2, <2>4, WorkingOK
<1>7. CASE Skip(p)
  BY <1>7, <1>a, RunKeeps DEF Skip
<1>8. CASE Collect(p)
  <2> DEFINE action == run.conf.actions[run.next]
  <2>1. run.at = "act" /\ run.next <= Len(run.conf.actions) /\ action.type = "point"
    BY <1>8 DEF Collect, Acting
  <2>2. action \in Action
    BY <1>1, <1>2, <2>1 DEF RunType
  <2>3. action.dev \in Device /\ action.points \in Nat
    BY <2>1, <2>2 DEF Action
  <2>4. RunOK([run EXCEPT !.next = @ + 1, !.todo[action.dev] = @ + action.points])
    <3> DEFINE new == [run EXCEPT !.next = @ + 1, !.todo[action.dev] = @ + action.points]
    <3>1. /\ new.at = "act" /\ new.next = run.next + 1 /\ new.sucCount = run.sucCount
          /\ new.todo = [run.todo EXCEPT ![action.dev] = @ + action.points]
          /\ new.adding = run.adding /\ new.did = run.did /\ new.failed = run.failed /\ new.conf = run.conf
          /\ run.next \in Nat \ {0} /\ run.sucCount \in Nat /\ run.todo \in [Device -> Nat]
          /\ run.adding \in [Device -> Nat \cup {-1}] /\ Len(run.conf.actions) \in Nat
      BY <1>1, <1>2, <2>1 DEF RunType
    <3> HIDE DEF new
    <3>2. ASSUME OnePointEach(run.conf), Accounted(run) PROVE Accounted(new)
      <4>1. run.next \in DOMAIN run.conf.actions
        BY <1>2, <2>1, <3>1
      <4>2. action.points = 1
        BY <2>1, <3>2, <4>1 DEF OnePointEach
      <4>3. new.todo = [run.todo EXCEPT ![action.dev] = @ + 1]
        BY <3>1, <4>2
      <4>4. \A d \in Device : new.todo[d] = IF d = action.dev THEN run.todo[d] + 1 ELSE run.todo[d]
        BY <3>1, <4>3
      <4>5. Collects(run, new, action.dev)
        BY <3>1, <4>4 DEF Collects
      <4> QED BY <1>1, <2>3, <3>2, <4>5, CollectedOK
    <3>3. Working(run)
      <4>1. RunOK(run) /\ run.at = "act"
        BY <1>1, <2>1
      <4> HIDE DEF run
      <4> QED BY <4>1 DEF RunOK
    <3>4. new.next <= Len(run.conf.actions) + 1 /\ ~new.did /\ \A d \in Device : new.adding[d] = -1
      <4>1. run.at = "act" /\ run.next <= Len(run.conf.actions)
        BY <2>1
      <4> HIDE DEF run, action
      <4>2. run.adding = NotAdding /\ ~run.did
        BY <3>3, <4>1 DEF Working
      <4>3. new.next <= Len(run.conf.actions) + 1
        BY <3>1, <4>1
      <4> QED BY <3>1, <4>2, <4>3 DEF NotAdding
    <3>5. RunOK(new)
      BY <1>1, <2>1, <3>1, <3>2, <3>4, WorkingOK
    <3> QED BY <3>5 DEF new
  <2> QED BY <1>8, <2>4, RunKeeps DEF Collect
<1>9. ASSUME NEW q \in Runner, Spawn(p, q) PROVE ResultInv'
  <2>1. RunOK(Counted(p))
    BY <1>9, <1>a DEF Spawn
  <2>2. CASE NextDepth(p) > MaxDepth
    BY <1>9, <2>1, <2>2, RunKeeps DEF Spawn
  <2>3. CASE ~(NextDepth(p) > MaxDepth)
    <3> DEFINE nested == [IdleRun EXCEPT !.at = "look", !.rule = runs[p].conf.actions[runs[p].next].rule,
                                         !.depth = NextDepth(p)]
    <3>1. RunOK(nested)
      BY DEF RunOK, IdleRun, Fresh
    <3>2. runs' = [runs EXCEPT ![p] = Counted(p), ![q] = nested]
      BY <1>9, <2>3 DEF Spawn
    <3> HIDE DEF nested
    <3>3. \A o \in Runner : runs'[o] \in {Counted(p), nested, runs[o]}
      BY <3>2 DEF TypeInv, TypeOK
    <3> QED BY <2>1, <3>1, <3>3 DEF ResultInv
  <2> QED BY <2>2, <2>3
<1>10. CASE BeginWriting(p)
  <2> DEFINE new == [run EXCEPT !.at = "writing"]
  <2>1. Working(run) /\ run.at = "act" /\ run.next > Len(run.conf.actions)
    BY <1>1, <1>2, <1>10 DEF RunOK, BeginWriting, Acting, RunType
  <2>2. /\ new.at = "writing" /\ new.conf = run.conf /\ new.next = run.next /\ new.sucCount = run.sucCount
        /\ new.todo = run.todo /\ new.adding = run.adding /\ new.did = run.did /\ new.failed = run.failed
        /\ run.next \in Nat /\ Len(run.conf.actions) \in Nat
    BY <1>1, <1>2 DEF RunType
  <2>3. Accounted(run) => Accounted(new)
    <3> HIDE DEF new
    <3> QED BY <2>2 DEF Accounted
  <2>4. Working(new)
    <3> HIDE DEF new
    <3> QED BY <2>1, <2>2, <2>3 DEF Working
  <2>5. RunOK(new)
    BY <2>2, <2>4 DEF RunOK
  <2> QED BY <1>10, <2>5, RunKeeps DEF BeginWriting
<1>11. ASSUME NEW d \in Device, WritePoints(p, d) PROVE ResultInv'
  <2>1. RunOK([run EXCEPT !.adding[d] = run.sucCount, !.did = TRUE])
    <3>1. run.at = "writing" /\ run.todo[d] > 0
      BY <1>11 DEF WritePoints, Pending
    <3> DEFINE new == [run EXCEPT !.adding[d] = run.sucCount, !.did = TRUE]
    <3>2. /\ new.at = "writing" /\ new.next = run.next /\ new.conf = run.conf
          /\ new.sucCount = run.sucCount /\ new.todo = run.todo /\ new.failed = run.failed
          /\ new.adding = [run.adding EXCEPT ![d] = run.sucCount] /\ new.did
          /\ run.next \in Nat \ {0} /\ run.sucCount \in Nat /\ run.todo \in [Device -> Nat]
          /\ run.adding \in [Device -> Nat \cup {-1}] /\ Len(run.conf.actions) \in Nat
      BY <1>1, <1>2, <3>1 DEF RunType
    <3> HIDE DEF new
    <3>3. Accounted(run) => Accounted(new)
      <4>1. \A e \in Device : new.adding[e] = IF e = d THEN run.sucCount ELSE run.adding[e]
        BY <3>2
      <4>2. ReadsCount(run, new, d)
        BY <3>1, <3>2, <4>1 DEF ReadsCount
      <4> QED BY <1>1, <4>2, WrittenOK
    <3>4. Working(run)
      BY <1>1, <3>1 DEF RunOK
    <3>5. /\ new.next <= Len(run.conf.actions) + 1
          /\ \A e \in Device : new.adding[e] # -1 => new.todo[e] > 0
          /\ new.did => new.sucCount > 0 \/ \E e \in Device : new.adding[e] # -1
      BY <3>1, <3>2, <3>4 DEF Working
    <3>6. RunOK(new)
      BY <1>1, <3>1, <3>2, <3>3, <3>5, WorkingOK
    <3> QED BY <3>6 DEF new
  <2> QED BY <1>11, <2>1, RunKeeps DEF WritePoints
<1>12. ASSUME NEW d \in Device, AddPoints(p, d) PROVE ResultInv'
  <2>a. run.adding[d] # -1
    BY <1>12 DEF AddPoints
  <2>1. CASE run.at = "writing"
    <3>1. RunOK([run EXCEPT !.sucCount = run.adding[d] + run.todo[d], !.todo[d] = 0, !.adding[d] = -1])
    <4> DEFINE new == [run EXCEPT !.sucCount = run.adding[d] + run.todo[d], !.todo[d] = 0, !.adding[d] = -1]
      <4>2. /\ new.at = "writing" /\ new.next = run.next /\ new.conf = run.conf
            /\ new.sucCount = run.adding[d] + run.todo[d] /\ new.failed = run.failed /\ new.did = run.did
            /\ new.todo = [run.todo EXCEPT ![d] = 0] /\ new.adding = [run.adding EXCEPT ![d] = -1]
            /\ run.next \in Nat \ {0} /\ run.sucCount \in Nat /\ run.todo \in [Device -> Nat]
            /\ run.adding \in [Device -> Nat \cup {-1}] /\ Len(run.conf.actions) \in Nat
        BY <1>1, <1>2, <2>1, <2>a DEF RunType
      <4> HIDE DEF new
      <4>3. Accounted(run) => Accounted(new)
        <5>1. \A e \in Device : /\ new.todo[e] = IF e = d THEN 0 ELSE run.todo[e]
                                /\ new.adding[e] = IF e = d THEN -1 ELSE run.adding[e]
          BY <4>2
        <5>2. Adds(run, new, d)
          BY <2>a, <4>2, <5>1 DEF Adds
        <5> QED BY <1>1, <5>2, AddedOK
      <4>4. Working(run)
        BY <1>1, <2>1, <2>a DEF RunOK
      <4>5. /\ new.next <= Len(run.conf.actions) + 1
            /\ \A e \in Device : new.adding[e] # -1 => new.todo[e] > 0
            /\ new.did => new.sucCount > 0 \/ \E e \in Device : new.adding[e] # -1
        BY <2>1, <2>a, <4>2, <4>4 DEF Working
      <4>6. RunOK(new)
        BY <1>1, <2>1, <2>a, <4>2, <4>3, <4>5, WorkingOK
      <4> QED BY <4>6 DEF new
    <3> QED BY <1>12, <3>1, RunKeeps DEF AddPoints, Added
  <2>2. CASE run.at # "writing"
    <3>1. run.at \in {"get", "put"}
      BY <1>1, <1>12, <2>2 DEF AddPoints, RunOK, Fresh, Working, NotAdding, RunType
    <3>2. RunOK([run EXCEPT !.sucCount = run.adding[d] + run.todo[d], !.todo[d] = 0, !.adding[d] = -1])
      BY <1>1, <3>1 DEF RunOK, RunType
    <3> QED BY <1>12, <3>2, RunKeeps DEF AddPoints, Added
  <2> QED BY <2>1, <2>2
<1>13. ASSUME NEW d \in Device, NotWritten(p, d) PROVE ResultInv'
  <2>1. run.adding[d] = -1
    BY <1>13 DEF NotWritten, Pending
  <2>2. RunOK([run EXCEPT !.todo[d] = 0, !.failed = TRUE])
    <3>1. run.at = "writing" /\ run.todo[d] > 0
      BY <1>13 DEF NotWritten, Pending
    <3> DEFINE new == [run EXCEPT !.todo[d] = 0, !.failed = TRUE]
    <3>2. /\ new.at = "writing" /\ new.next = run.next /\ new.conf = run.conf
          /\ new.sucCount = run.sucCount /\ new.failed /\ new.did = run.did
          /\ new.todo = [run.todo EXCEPT ![d] = 0] /\ new.adding = run.adding
          /\ run.next \in Nat \ {0} /\ run.sucCount \in Nat /\ run.todo \in [Device -> Nat]
          /\ run.adding \in [Device -> Nat \cup {-1}] /\ Len(run.conf.actions) \in Nat
      BY <1>1, <1>2, <2>1, <3>1 DEF RunType
    <3> HIDE DEF new
    <3>3. Accounted(run) => Accounted(new)
      <4>1. \A e \in Device : new.todo[e] = IF e = d THEN 0 ELSE run.todo[e]
        BY <3>2
      <4>2. Drops(run, new, d)
        BY <3>1, <3>2, <4>1 DEF Drops
      <4> QED BY <1>1, <4>2, NotWrittenOK
    <3>4. Working(run)
      BY <1>1, <2>1, <3>1 DEF RunOK
    <3>5. /\ new.next <= Len(run.conf.actions) + 1
          /\ \A e \in Device : new.adding[e] # -1 => new.todo[e] > 0
          /\ new.did => new.sucCount > 0 \/ \E e \in Device : new.adding[e] # -1
      BY <2>1, <3>1, <3>2, <3>4 DEF Working
    <3>6. RunOK(new)
      BY <1>1, <2>1, <3>1, <3>2, <3>3, <3>5, WorkingOK
    <3> QED BY <3>6 DEF new
  <2> QED BY <1>13, <2>2, RunKeeps DEF NotWritten
<1>14. CASE Report(p)
  <2>1. RunOK([IdleRun EXCEPT !.at = "get", !.rule = runs[p].rule])
    BY DEF RunOK, IdleRun
  <2> QED BY <1>14, <1>e, <2>1, RunKeeps DEF Report
<1>15. CASE GetAgain(p)
  <2>1. RunOK([runs[p] EXCEPT !.at = "put", !.conf = ConfOf(runs[p].rule)])
    BY <1>1 DEF RunOK, RunType
  <2> QED BY <1>15, <1>e, <2>1, RunKeeps DEF GetAgain
<1>16. CASE PutBack(p)
  BY <1>16, <1>e DEF PutBack
<1> QED BY <1>3, <1>4, <1>5, <1>6, <1>7, <1>8, <1>9, <1>10, <1>11, <1>12, <1>13, <1>14, <1>15, <1>16
       DEF Starts, RunStep

LEMMA ResultStep == TypeInv /\ ResultInv /\ [Next]_vars => ResultInv'
<1> SUFFICES ASSUME TypeInv, ResultInv, [Next]_vars PROVE ResultInv'
  OBVIOUS
<1>1. UNCHANGED runs => ResultInv'
  BY DEF ResultInv
<1>2. runs' = [p \in Runner |-> IdleRun] => ResultInv'
  BY FreshOK DEF ResultInv
<1>3. CASE \E c \in Client : ClientStep(c)
  BY <1>1, <1>3 DEF ClientStep, Create, Delete, Update, CreateFile, CannotCreateFile, WriteFile, CannotWriteFile,
       Register, Undo, Remove, NothingToRemove, CannotRemove, StopSchedule
<1>4. CASE \E p \in Runner : Starts(p) \/ RunStep(p)
  BY <1>4, RunStepResult
<1>5. CASE \E r \in Rule : Get(r) \/ SilenceEnds(r)
  BY <1>1, <1>5 DEF Get, SilenceEnds
<1>6. CASE Restart \/ CannotLoad \/ CannotRegister
  BY <1>2, <1>6 DEF Restart, CannotLoad, CannotRegister, Stops
<1>7. CASE UNCHANGED vars
  BY <1>1, <1>7 DEF vars
<1> QED BY <1>3, <1>4, <1>5, <1>6, <1>7 DEF Next

LEMMA ResultInit == Init => ResultInv
BY FreshOK DEF Init, ResultInv

LEMMA InvImpliesResult == TypeInv /\ ResultInv => ResultIsTrue
<1> SUFFICES ASSUME TypeInv, ResultInv, NEW p \in Runner, Reports(p), OnePointEach(runs[p].conf)
             PROVE  /\ Result(p) = "success" => ~runs[p].failed
                    /\ Result(p) = "fail" => ~runs[p].did
  BY DEF ResultIsTrue
<1> DEFINE run == runs[p]
           n == run.next - 1
<1>1. run \in RunType /\ Working(run) /\ Accounted(run) /\ run.at = "writing"
  BY DEF TypeInv, TypeOK, ResultInv, RunOK, Reports, Working
<1>2. n \in Nat /\ n = Len(run.conf.actions) /\ run.sucCount \in Nat
  BY <1>1 DEF RunType, ConfigType, Working
<1>3. \A d \in Device : run.todo[d] = 0
  BY DEF Reports
<1>4. Result(p) = "success" => run.sucCount = n
  BY <1>2 DEF Result
<1>5. ASSUME run.sucCount = n PROVE ~run.failed
  <2>1. PICK done \in SUBSET (1 .. n), of \in [Device -> SUBSET (1 .. n)] :
          /\ run.sucCount <= Cardinality(done)
          /\ run.failed => \E i \in 1 .. n : i \notin done /\ \A d \in Device : i \notin of[d]
    BY <1>1 DEF Accounted, Account
  <2>2. Cardinality(done) \in Nat /\ Cardinality(done) <= n /\ (Cardinality(done) = n => done = 1 .. n)
    BY <1>2, PassedFacts
  <2>3. done = 1 .. n
    BY <1>2, <1>5, <2>1, <2>2
  <2> QED BY <2>1, <2>3
<1>6. ASSUME run.sucCount = 0 PROVE ~run.did
  BY <1>1, <1>3, <1>6 DEF Working
<1>7. Result(p) = "fail" => run.sucCount = 0
  BY DEF Result
<1> QED BY <1>4, <1>5, <1>6, <1>7

-----------------------------------------------------------------------------
(***************************************************************************)
(* Triggers                                                                *)
(***************************************************************************)
\* The triggers of the rule, one by one.
OneTrigger == UNION {{ts[i] : i \in DOMAIN ts} : ts \in Triggers}
WalkerType == [at : {"idle", "walk"}, value : Reported \cup {Missing}, walked : Seq(OneTrigger), i : Nat, all : BOOLEAN]

TriggerTypes ==
    /\ clock \in Nat /\ triggers \in Seq(OneTrigger)
    /\ start \in Seq(Nat) /\ Len(start) = Len(triggers)
    /\ since \in Seq(Nat) /\ Len(since) = Len(triggers)
    /\ walker \in [Reporter -> WalkerType]
    /\ \A r \in Reporter : walker[r].at = "walk" => walker[r].i > 0
    /\ overlapped \in BOOLEAN /\ crossed \in BOOLEAN /\ alive \in BOOLEAN

\* A value has failed a trigger, and its walk has not come to it.
Failing(i) ==
    \E r \in Reporter :
        /\ walker[r].at = "walk" /\ walker[r].all /\ walker[r].i <= i
        /\ ~Cond!Satisfies(triggers[i].sym, triggers[i].want, walker[r].value)

Undisturbed == ~overlapped /\ ~crossed

TriggerInv ==
    /\ TriggerTypes
    /\ ~crossed => \A r \in Reporter : walker[r].at = "walk" => walker[r].walked = triggers
    /\ ~overlapped => \A r \in Reporter : \A q \in Reporter \ {r} : walker[r].at = "idle" \/ walker[q].at = "idle"
    /\ Undisturbed => \A i \in 1 .. Len(triggers) :
          /\ since[i] <= clock /\ start[i] <= clock
          /\ start[i] # 0 => triggers[i].duration > 0 /\ (since[i] <= start[i] \/ Failing(i))
    /\ Cond!HeldLongEnough

LEMMA TriggerFacts ==
    /\ \A t \in OneTrigger : t.duration \in Nat
    /\ \A ts \in Triggers : ts \in Seq(OneTrigger)
<1> SUFFICES ASSUME NEW ts \in Triggers
             PROVE  ts \in Seq(OneTrigger) /\ \A i \in DOMAIN ts : ts[i].duration \in Nat
  BY DEF OneTrigger
<1>1. ts \in Seq({ts[i] : i \in DOMAIN ts}) /\ \A i \in DOMAIN ts : ts[i].duration \in Nat
  BY ConditionsAreConfigured
<1>2. {ts[i] : i \in DOMAIN ts} \subseteq OneTrigger
  BY DEF OneTrigger
<1> QED BY <1>1, <1>2

LEMMA IdleWalker == Cond!Idle \in WalkerType /\ Cond!Idle.at = "idle"
BY DEF Cond!Idle, WalkerType

LEMMA TriggerInit == Cond!Init => TriggerInv
<1> SUFFICES ASSUME Cond!Init PROVE TriggerInv
  OBVIOUS
<1>1. /\ clock = 1 /\ triggers \in Seq(OneTrigger) /\ start = [i \in 1 .. Len(triggers) |-> 0]
      /\ since = [i \in 1 .. Len(triggers) |-> 0] /\ walker = [r \in Reporter |-> Cond!Idle]
      /\ ~overlapped /\ ~crossed /\ alive /\ fired = Cond!NotFired
      /\ overlapped \in BOOLEAN /\ crossed \in BOOLEAN /\ alive \in BOOLEAN
  <2>1. triggers \in Seq(OneTrigger)
    BY TriggerFacts DEF Cond!Init
  <2>2. DOMAIN triggers = 1 .. Len(triggers)
    BY <2>1
  <2>3. alive = TRUE /\ overlapped = FALSE /\ crossed = FALSE
    BY DEF Cond!Init
  <2>4. start = [i \in DOMAIN triggers |-> 0] /\ since = [i \in DOMAIN triggers |-> 0]
    BY DEF Cond!Init
  <2> QED BY <2>1, <2>2, <2>3, <2>4 DEF Cond!Init
<1>2. \A r \in Reporter : walker[r].at = "idle"
  BY <1>1, IdleWalker
<1>3. TriggerTypes
  BY <1>1, <1>2, IdleWalker DEF TriggerTypes
<1>4. \A i \in 1 .. Len(triggers) : since[i] <= clock /\ start[i] <= clock /\ start[i] = 0
  BY <1>1
<1>5. Cond!HeldLongEnough
  BY <1>1 DEF Cond!HeldLongEnough
<1> QED BY <1>2, <1>3, <1>4, <1>5 DEF TriggerInv

LEMMA ReportTriggers ==
    ASSUME TriggerInv, NEW r \in Reporter, NEW v \in Reported, NEW all \in BOOLEAN, Cond!Report(r, v, all)
    PROVE  TriggerInv'
<1> DEFINE h == [at |-> "walk", value |-> v, walked |-> triggers, i |-> 1, all |-> all]
           fails(i) == ~Cond!Satisfies(triggers[i].sym, triggers[i].want, v)
<1>1. /\ alive /\ walker[r].at = "idle" /\ walker' = [walker EXCEPT ![r] = h]
      /\ overlapped' = (overlapped \/ Cond!Walking)
      /\ since' = [i \in DOMAIN triggers |-> IF all /\ fails(i) THEN clock ELSE since[i]]
      /\ UNCHANGED <<asked, clock, triggers, start, updates, fired, crossed, alive>>
  BY DEF Cond!Report
<1>2. TriggerTypes
  BY DEF TriggerInv
<1>3. h \in WalkerType
  BY <1>2 DEF WalkerType, TriggerTypes
<1>4. \A q \in Reporter : walker'[q] = IF q = r THEN h ELSE walker[q]
  BY <1>1, <1>2 DEF TriggerTypes
<1>5. since' \in Seq(Nat) /\ Len(since') = Len(triggers)
  BY <1>1, <1>2 DEF TriggerTypes
<1>6. TriggerTypes'
  <2>1. walker' \in [Reporter -> WalkerType] /\ overlapped' \in BOOLEAN
    BY <1>1, <1>2, <1>3 DEF TriggerTypes
  <2>2. \A q \in Reporter : walker'[q].at = "walk" => walker'[q].i > 0
    <3>1. h.i = 1
      OBVIOUS
    <3> HIDE DEF h
    <3> QED BY <1>2, <1>4, <3>1 DEF TriggerTypes
  <2> QED BY <1>1, <1>2, <1>5, <2>1, <2>2 DEF TriggerTypes
<1>7. ~crossed' => \A q \in Reporter : walker'[q].at = "walk" => walker'[q].walked = triggers'
  BY <1>1, <1>4 DEF TriggerInv
<1>8. ~overlapped' => ~overlapped /\ \A q \in Reporter : walker[q].at = "idle"
  BY <1>1 DEF Cond!Walking
<1>9. Undisturbed' => \A i \in 1 .. Len(triggers') :
          /\ since'[i] <= clock' /\ start'[i] <= clock'
          /\ start'[i] # 0 => triggers'[i].duration > 0 /\ (since'[i] <= start'[i] \/ Failing(i)')
  <2> SUFFICES ASSUME Undisturbed', NEW i \in 1 .. Len(triggers)
               PROVE  /\ since'[i] <= clock /\ start[i] <= clock
                      /\ start[i] # 0 => triggers[i].duration > 0 /\ (since'[i] <= start[i] \/ Failing(i)')
    BY <1>1
  <2>1. Undisturbed /\ \A q \in Reporter : walker[q].at = "idle"
    BY <1>1, <1>8 DEF Undisturbed
  <2>2. ~Failing(i)
    BY <2>1 DEF Failing
  <2>3. /\ since[i] <= clock /\ start[i] <= clock
        /\ start[i] # 0 => triggers[i].duration > 0 /\ since[i] <= start[i]
    BY <2>1, <2>2 DEF TriggerInv
  <2>4. since'[i] = IF all /\ fails(i) THEN clock ELSE since[i]
    <3>1. i \in DOMAIN triggers
      BY <1>2 DEF TriggerTypes
    <3> HIDE DEF fails
    <3> QED BY <1>1, <3>1
  <2>5. clock \in Nat /\ since[i] \in Nat
    BY <1>2 DEF TriggerTypes
  <2>6. CASE all /\ fails(i)
    <3>1. walker'[r] = h
      BY <1>4
    <3>2. Failing(i)'
      BY <1>1, <2>6, <3>1 DEF Failing
    <3> HIDE DEF fails, h
    <3> QED BY <2>3, <2>4, <2>5, <2>6, <3>2
  <2>7. CASE ~(all /\ fails(i))
    <3> HIDE DEF fails
    <3> QED BY <2>3, <2>4, <2>5, <2>7
  <2> QED BY <2>6, <2>7
<1>10. Cond!HeldLongEnough'
  <2>1. Cond!HeldLongEnough
    BY DEF TriggerInv
  <2>2. ~overlapped' => ~overlapped
    BY <1>8
  <2> QED BY <1>1, <2>1, <2>2 DEF Cond!HeldLongEnough
<1>11. ~overlapped' => \A q \in Reporter : \A o \in Reporter \ {q} : walker'[q].at = "idle" \/ walker'[o].at = "idle"
  BY <1>4, <1>8
<1> QED BY <1>6, <1>7, <1>9, <1>10, <1>11 DEF TriggerInv

LEMMA WalkTriggers ==
    ASSUME TriggerInv, NEW r \in Reporter, Cond!Walk(r)
    PROVE  TriggerInv'
<1> DEFINE h == walker[r]
           c == h.walked[h.i]
           satisfied == Cond!Satisfies(c.sym, c.want, h.value)
<1>1. /\ alive /\ h.at = "walk" /\ h.i <= Len(h.walked)
      /\ walker' = [walker EXCEPT ![r].i = @ + 1]
      /\ UNCHANGED <<asked, clock, triggers, updates, since, overlapped, crossed>>
      /\ \/ h.all # (c.duration > 0) /\ UNCHANGED <<start, fired, alive>>
         \/ h.all /\ c.duration > 0 /\ Cond!WalkDuration(r, h.i, c, satisfied)
         \/ ~h.all /\ ~(c.duration > 0) /\ Cond!WalkAtOnce(r, c, satisfied)
  BY DEF Cond!Walk
<1>2. TriggerTypes
  BY DEF TriggerInv
<1>3. /\ h \in WalkerType /\ h.i \in Nat \ {0} /\ h.walked \in Seq(OneTrigger)
      /\ clock \in Nat /\ triggers \in Seq(OneTrigger) /\ Len(triggers) \in Nat
      /\ start \in Seq(Nat) /\ Len(start) = Len(triggers) /\ since \in Seq(Nat) /\ Len(since) = Len(triggers)
      /\ overlapped \in BOOLEAN /\ crossed \in BOOLEAN
  BY <1>1, <1>2 DEF TriggerTypes, WalkerType
<1>4. \A q \in Reporter : /\ q # r => walker'[q] = walker[q]
                          /\ walker'[q].at = walker[q].at /\ walker'[q].all = walker[q].all
                          /\ walker'[q].walked = walker[q].walked /\ walker'[q].value = walker[q].value
                          /\ walker'[q].i = IF q = r THEN h.i + 1 ELSE walker[q].i
  BY <1>1, <1>2 DEF TriggerTypes, WalkerType
<1>5. walker' \in [Reporter -> WalkerType]
  <2>1. [h EXCEPT !.i = @ + 1] \in WalkerType
    <3>1. h \in WalkerType
      BY <1>3
    <3> QED BY <3>1 DEF WalkerType
  <2> QED BY <1>1, <1>2, <2>1 DEF TriggerTypes
<1>6. ~crossed => h.walked = triggers
  BY <1>1 DEF TriggerInv
<1>7. ~overlapped => \A q \in Reporter \ {r} : walker[q].at = "idle"
  BY <1>1 DEF TriggerInv
\* The starting times that a turn of the loop leaves.
<1>8. \/ UNCHANGED <<start, fired, alive>> /\ h.all # (c.duration > 0)
      \/ UNCHANGED <<start, alive>> /\ ~h.all /\ ~(c.duration > 0)
           /\ (UNCHANGED fired
                 \/ (satisfied /\ fired' = [at |-> clock, trigger |-> c, since |-> clock, value |-> h.value]))
      \/ alive' = FALSE /\ UNCHANGED <<start, fired>> /\ h.i > Len(triggers)
      \/ /\ h.all /\ c.duration > 0 /\ h.i <= Len(triggers) /\ UNCHANGED alive
         /\ start' = [start EXCEPT ![h.i] = start'[h.i]]
         /\ \/ ~satisfied /\ start'[h.i] = 0
            \/ satisfied /\ start'[h.i] \in {clock, start[h.i]}
         /\ \/ UNCHANGED fired
            \/ /\ satisfied /\ start[h.i] # 0 /\ clock - start[h.i] >= c.duration
               /\ fired' = [at |-> clock, trigger |-> c, since |-> since[h.i], value |-> h.value]
  <2>1. CASE h.all # (c.duration > 0) /\ UNCHANGED <<start, fired, alive>>
    BY <2>1
  <2>2. CASE ~h.all /\ ~(c.duration > 0) /\ Cond!WalkAtOnce(r, c, satisfied)
    <3>1. /\ UNCHANGED <<start, alive>>
          /\ IF satisfied THEN fired' = [at |-> clock, trigger |-> c, since |-> clock, value |-> h.value]
             ELSE UNCHANGED fired
      BY <2>2 DEF Cond!WalkAtOnce, Cond!Fire
    <3> HIDE DEF satisfied, c, h
    <3> QED BY <2>2, <3>1, Zenon
  <2>3. CASE h.all /\ c.duration > 0 /\ Cond!WalkDuration(r, h.i, c, satisfied)
    <3>1. CASE h.i > Len(triggers)
      BY <2>3, <3>1 DEF Cond!WalkDuration
    <3>2. CASE ~(h.i > Len(triggers))
      <4> DEFINE long == start[h.i] # 0 /\ clock - start[h.i] >= c.duration
                 new == Cond!NewStart(satisfied, long, start[h.i])
      <4>1. /\ start' = [start EXCEPT ![h.i] = new] /\ UNCHANGED alive
            /\ \/ UNCHANGED fired
               \/ satisfied /\ long /\ fired' = [at |-> clock, trigger |-> c, since |-> since[h.i], value |-> h.value]
        BY <2>3, <3>2 DEF Cond!WalkDuration, Cond!Fire
      <4>2. IF satisfied THEN new \in {clock, start[h.i]} ELSE new = 0
        <5> HIDE DEF satisfied, long
        <5> QED BY DEF Cond!NewStart
      <4>3. h.i <= Len(triggers)
        BY <1>3, <3>2
      <4>a. h.i \in DOMAIN start
        <5>1. h.i \in Nat \ {0} /\ start \in Seq(Nat) /\ Len(start) = Len(triggers) /\ Len(triggers) \in Nat
          BY <1>3
        <5> QED BY <4>3, <5>1
      <4> HIDE DEF satisfied, new
      <4>4. start'[h.i] = new
        BY <4>1, <4>a
      <4> QED BY <2>3, <4>1, <4>2, <4>3, <4>4
    <3> QED BY <3>1, <3>2
  <2> QED BY <1>1, <2>1, <2>2, <2>3
<1>9. TriggerTypes'
  <2>1. start' \in Seq(Nat) /\ Len(start') = Len(triggers)
    <3>1. CASE UNCHANGED start
      BY <1>3, <3>1
    <3>2. CASE start' = [start EXCEPT ![h.i] = start'[h.i]] /\ start'[h.i] \in Nat /\ h.i \in 1 .. Len(start)
      <4> DEFINE k == h.i
                 new == start'[h.i]
      <4>1. start' = [start EXCEPT ![k] = new] /\ new \in Nat
        BY <3>2
      <4>2. start \in Seq(Nat) /\ Len(start) = Len(triggers)
        BY <1>3
      <4>3. k \in 1 .. Len(start)
        BY <3>2
      <4> HIDE DEF k, new
      <4> QED BY <4>3, <4>1, <4>2, ExceptSeq
    <3>3. satisfied /\ start'[h.i] \in {clock, start[h.i]} /\ h.i <= Len(triggers) => start'[h.i] \in Nat
      <4>1. h.i \in Nat \ {0} /\ start \in Seq(Nat) /\ Len(start) = Len(triggers) /\ clock \in Nat
        BY <1>3
      <4> HIDE DEF h, satisfied
      <4> QED BY <4>1
    <3>4. h.i <= Len(triggers) => h.i \in 1 .. Len(start)
      BY <1>3
    <3> HIDE DEF satisfied, c, h
    <3> QED BY <1>8, <3>1, <3>2, <3>3, <3>4
  <2>2. \A q \in Reporter : walker'[q].at = "walk" => walker'[q].i > 0
    <3>1. h.i \in Nat \ {0} /\ \A q \in Reporter : walker[q].at = "walk" => walker[q].i > 0
      BY <1>2, <1>3 DEF TriggerTypes
    <3> HIDE DEF h
    <3> QED BY <1>4, <3>1
  <2>3. alive' \in BOOLEAN
    <3> HIDE DEF satisfied, c, h
    <3> QED BY <1>2, <1>8 DEF TriggerTypes
  <2> QED BY <1>1, <1>2, <1>5, <2>1, <2>2, <2>3 DEF TriggerTypes
<1>10. ~crossed' => \A q \in Reporter : walker'[q].at = "walk" => walker'[q].walked = triggers'
  BY <1>1, <1>4 DEF TriggerInv
<1>11. ~overlapped' => \A q \in Reporter : \A o \in Reporter \ {q} : walker'[q].at = "idle" \/ walker'[o].at = "idle"
  BY <1>1, <1>4 DEF TriggerInv
<1>12. c \in OneTrigger /\ c.duration \in Nat
  <2>1. h.i \in Nat \ {0} /\ h.walked \in Seq(OneTrigger) /\ h.i <= Len(h.walked)
    BY <1>1, <1>3
  <2>2. c \in OneTrigger
    BY <2>1
  <2> QED BY <2>2, TriggerFacts
<1>13. Undisturbed => c = triggers[h.i]
  BY <1>6 DEF Undisturbed
\* Of the turns to come, the one for a trigger that fails is a turn of this walk.
<1>14. ASSUME Undisturbed, NEW i \in 1 .. Len(triggers), Failing(i)
       PROVE  h.all /\ h.i <= i /\ (i = h.i => ~satisfied) /\ (i # h.i => Failing(i)')
  <2>1. PICK q \in Reporter : /\ walker[q].at = "walk" /\ walker[q].all /\ walker[q].i <= i
                              /\ ~Cond!Satisfies(triggers[i].sym, triggers[i].want, walker[q].value)
    BY <1>14 DEF Failing
  <2>2. q = r
    BY <1>7, <1>14, <2>1 DEF Undisturbed
  <2>3. h.all /\ h.i <= i /\ ~Cond!Satisfies(triggers[i].sym, triggers[i].want, h.value)
    BY <2>1, <2>2
  <2>4. i = h.i => ~satisfied
    BY <1>13, <1>14, <2>3
  <2>5. ASSUME i # h.i PROVE Failing(i)'
    <3>1. walker'[r].i <= i
      <4>1. h.i \in Nat /\ i \in Nat /\ walker'[r].i = h.i + 1
        BY <1>3, <1>4
      <4> QED BY <2>3, <2>5, <4>1
    <3>2. walker'[r].at = "walk" /\ walker'[r].all /\ walker'[r].value = h.value /\ triggers' = triggers
      BY <1>1, <1>4, <2>3
    <3> QED BY <2>3, <3>1, <3>2 DEF Failing
  <2> QED BY <2>3, <2>4, <2>5
<1>15. Undisturbed' => \A i \in 1 .. Len(triggers') :
          /\ since'[i] <= clock' /\ start'[i] <= clock'
          /\ start'[i] # 0 => triggers'[i].duration > 0 /\ (since'[i] <= start'[i] \/ Failing(i)')
  <2> SUFFICES ASSUME Undisturbed', NEW i \in 1 .. Len(triggers)
               PROVE  /\ since[i] <= clock /\ start'[i] <= clock
                      /\ start'[i] # 0 => triggers[i].duration > 0 /\ (since[i] <= start'[i] \/ Failing(i)')
    BY <1>1
  <2>1. Undisturbed
    BY <1>1 DEF Undisturbed
  <2>2. /\ since[i] <= clock /\ start[i] <= clock
        /\ start[i] # 0 => triggers[i].duration > 0 /\ (since[i] <= start[i] \/ Failing(i))
    BY <2>1 DEF TriggerInv
  <2>3. CASE start'[i] = start[i] /\ i # h.i
    BY <1>14, <2>1, <2>2, <2>3
  <2>4. CASE i = h.i
    <3>1. c = triggers[i] /\ ~(h.i > Len(triggers)) /\ clock \in Nat /\ start[i] \in Nat /\ since[i] \in Nat
      <4>1. start \in Seq(Nat) /\ since \in Seq(Nat) /\ Len(start) = Len(triggers) /\ Len(since) = Len(triggers)
        BY <1>3
      <4>2. start[i] \in Nat /\ since[i] \in Nat
        BY <4>1
      <4> QED BY <1>3, <1>13, <2>1, <2>4, <4>2
    <3>2. Failing(i) => h.all /\ ~satisfied
      BY <1>14, <2>1, <2>4
    <3>3. h.all \in BOOLEAN /\ h.i = i
      BY <1>3, <2>4 DEF WalkerType
    <3> HIDE DEF c, satisfied, h
    <3>4. CASE UNCHANGED start /\ h.all # (c.duration > 0)
      BY <2>2, <3>1, <3>2, <3>3, <3>4
    <3>5. CASE UNCHANGED start /\ ~(c.duration > 0)
      BY <2>2, <3>1, <3>5
    <3>6. CASE ~satisfied /\ start'[i] = 0
      BY <2>2, <3>1, <3>6
    <3>7. CASE satisfied /\ start'[i] \in {clock, start[i]} /\ c.duration > 0
      BY <2>2, <3>1, <3>2, <3>7
    <3> QED BY <1>8, <3>1, <3>3, <3>4, <3>5, <3>6, <3>7
  <2>5. i # h.i => start'[i] = start[i]
    <3>1. start \in Seq(Nat) /\ Len(start) = Len(triggers)
      BY <1>3
    <3> HIDE DEF c, satisfied, h
    <3>2. start' = [start EXCEPT ![h.i] = start'[h.i]] => (i # h.i => start'[i] = start[i])
      BY <3>1
    <3> QED BY <1>8, <3>2
  <2> QED BY <2>3, <2>4, <2>5
<1>16. Cond!HeldLongEnough'
  <2>1. Cond!HeldLongEnough
    BY DEF TriggerInv
  <2>2. ~alive' => crossed'
    <3>1. ~crossed => h.i <= Len(triggers) /\ h.i \in Nat /\ Len(triggers) \in Nat
      BY <1>1, <1>3, <1>6
    <3>2. alive /\ crossed' = crossed
      BY <1>1
    <3> HIDE DEF c, satisfied, h
    <3>3. UNCHANGED alive \/ h.i > Len(triggers)
      BY <1>8, Zenon
    <3>4. ~crossed => ~(h.i > Len(triggers))
      BY <3>1
    <3> QED BY <3>2, <3>3, <3>4, Zenon
  <2>3. ASSUME Undisturbed, ~ UNCHANGED fired
        PROVE  fired'.at - fired'.since >= fired'.trigger.duration /\ satisfied
               /\ fired'.trigger = c /\ fired'.value = h.value
    <3>1. CASE ~(c.duration > 0) /\ satisfied
               /\ fired' = [at |-> clock, trigger |-> c, since |-> clock, value |-> h.value]
      <4>1. clock \in Nat /\ c.duration \in Nat
        BY <1>3, <1>12
      <4> HIDE DEF c, satisfied, h
      <4> QED BY <3>1, <4>1
    <3>2. CASE /\ satisfied /\ start[h.i] # 0 /\ clock - start[h.i] >= c.duration /\ h.i <= Len(triggers)
               /\ fired' = [at |-> clock, trigger |-> c, since |-> since[h.i], value |-> h.value]
      <4>1. h.i \in 1 .. Len(triggers)
        BY <1>3, <3>2
      <4>2. /\ clock \in Nat /\ c.duration \in Nat /\ start[h.i] \in Nat /\ since[h.i] \in Nat
        <5>1. start \in Seq(Nat) /\ since \in Seq(Nat) /\ Len(start) = Len(triggers) /\ Len(since) = Len(triggers)
          BY <1>3
        <5> HIDE DEF c, satisfied, h
        <5>2. start[h.i] \in Nat /\ since[h.i] \in Nat
          BY <4>1, <5>1
        <5> QED BY <1>3, <1>12, <5>2
      <4>3. since[h.i] <= start[h.i] \/ Failing(h.i)
        BY <2>3, <3>2, <4>1 DEF TriggerInv
      <4>4. ~Failing(h.i)
        BY <1>14, <2>3, <3>2, <4>1
      <4> HIDE DEF c, satisfied, h
      <4> QED BY <3>2, <4>2, <4>3, <4>4
    <3> HIDE DEF c, satisfied, h
    <3> QED BY <1>8, <2>3, <3>1, <3>2
  <2>4. ASSUME fired' # Cond!NotFired, ~overlapped', ~crossed'
        PROVE  /\ fired'.at - fired'.since >= fired'.trigger.duration
               /\ Cond!Satisfies(fired'.trigger.sym, fired'.trigger.want, fired'.value)
    <3>1. Undisturbed
      BY <1>1, <2>4 DEF Undisturbed
    <3>2. CASE UNCHANGED fired
      BY <2>1, <2>4, <3>1, <3>2 DEF Cond!HeldLongEnough, Undisturbed
    <3>3. CASE ~ UNCHANGED fired
      BY <2>3, <3>1, <3>3
    <3> QED BY <3>2, <3>3
  <2> QED BY <2>2, <2>4 DEF Cond!HeldLongEnough, Cond!NotFired
<1> QED BY <1>9, <1>10, <1>11, <1>15, <1>16 DEF TriggerInv

LEMMA EndWalkTriggers ==
    ASSUME TriggerInv, NEW r \in Reporter, Cond!EndWalk(r)
    PROVE  TriggerInv'
<1>1. /\ walker[r].at = "walk" /\ walker[r].i > Len(walker[r].walked) /\ walker' = [walker EXCEPT ![r] = Cond!Idle]
      /\ UNCHANGED <<asked, clock, triggers, start, updates, fired, since, overlapped, crossed, alive>>
  BY DEF Cond!EndWalk
<1>2. TriggerTypes
  BY DEF TriggerInv
<1>3. \A q \in Reporter : walker'[q] = IF q = r THEN Cond!Idle ELSE walker[q]
  BY <1>1, <1>2 DEF TriggerTypes
<1>4. TriggerTypes'
  <2>1. walker' \in [Reporter -> WalkerType]
    BY <1>1, <1>2, IdleWalker DEF TriggerTypes
  <2>2. \A q \in Reporter : walker'[q].at = "walk" => walker'[q].i > 0
    BY <1>2, <1>3, IdleWalker DEF TriggerTypes
  <2> QED BY <1>1, <1>2, <2>1, <2>2 DEF TriggerTypes
<1>5. ~crossed' => \A q \in Reporter : walker'[q].at = "walk" => walker'[q].walked = triggers'
  BY <1>1, <1>3, IdleWalker DEF TriggerInv
<1>6. ~overlapped' => \A q \in Reporter : \A o \in Reporter \ {q} : walker'[q].at = "idle" \/ walker'[o].at = "idle"
  BY <1>1, <1>3, IdleWalker DEF TriggerInv
<1>7. Undisturbed' => \A i \in 1 .. Len(triggers') :
          /\ since'[i] <= clock' /\ start'[i] <= clock'
          /\ start'[i] # 0 => triggers'[i].duration > 0 /\ (since'[i] <= start'[i] \/ Failing(i)')
  <2> SUFFICES ASSUME Undisturbed, NEW i \in 1 .. Len(triggers)
               PROVE  /\ since[i] <= clock /\ start[i] <= clock
                      /\ start[i] # 0 => triggers[i].duration > 0 /\ (since[i] <= start[i] \/ Failing(i)')
    BY <1>1 DEF Undisturbed
  <2>1. /\ since[i] <= clock /\ start[i] <= clock
        /\ start[i] # 0 => triggers[i].duration > 0 /\ (since[i] <= start[i] \/ Failing(i))
    BY DEF TriggerInv
  <2>2. ASSUME Failing(i) PROVE Failing(i)'
    <3>1. PICK q \in Reporter : /\ walker[q].at = "walk" /\ walker[q].all /\ walker[q].i <= i
                                /\ ~Cond!Satisfies(triggers[i].sym, triggers[i].want, walker[q].value)
      BY <2>2 DEF Failing
    <3>2. q # r
      <4>1. walker[r].walked = triggers
        BY <1>1 DEF TriggerInv, Undisturbed
      <4>2. walker[r].i \in Nat /\ Len(triggers) \in Nat
        BY <1>2 DEF TriggerTypes, WalkerType
      <4> QED BY <1>1, <3>1, <4>1, <4>2
    <3> QED BY <1>1, <1>3, <3>1, <3>2 DEF Failing
  <2> QED BY <2>1, <2>2
<1>8. Cond!HeldLongEnough'
  BY <1>1 DEF TriggerInv, Cond!HeldLongEnough
<1> QED BY <1>4, <1>5, <1>6, <1>7, <1>8 DEF TriggerInv

\* A rule that is deleted, and registered again.
LEMMA ChangeTriggers ==
    ASSUME TriggerInv, Cond!Delete \/ Cond!registerTrigger
    PROVE  TriggerInv'
<1>1. /\ crossed' = (crossed \/ Cond!Walking)
      /\ UNCHANGED <<asked, clock, walker, fired, overlapped, alive>>
      /\ \/ triggers' = <<>> /\ start' = <<>> /\ since' = <<>>
         \/ /\ \E ts \in Triggers : /\ triggers # ts /\ Cond!IsPrefix(triggers, ts)
                                    /\ triggers' = Append(triggers, ts[Len(triggers) + 1])
            /\ start' = Append(start, 0) /\ since' = Append(since, clock)
  BY DEF Cond!Delete, Cond!registerTrigger
<1>2. TriggerTypes
  BY DEF TriggerInv
<1>3. ~crossed' => ~crossed /\ \A q \in Reporter : walker[q].at = "idle"
  BY <1>1 DEF Cond!Walking
<1>4. CASE triggers' = <<>> /\ start' = <<>> /\ since' = <<>>
  <2>1. /\ triggers' \in Seq(OneTrigger) /\ start' \in Seq(Nat) /\ since' \in Seq(Nat)
        /\ Len(triggers') = 0 /\ Len(start') = 0 /\ Len(since') = 0
    BY <1>4
  <2>2. TriggerTypes'
    BY <1>1, <1>2, <2>1 DEF TriggerTypes
  <2>3. 1 .. Len(triggers') = {}
    BY <2>1
  <2> QED BY <1>1, <1>3, <2>2, <2>3 DEF TriggerInv, Cond!HeldLongEnough
<1>5. CASE /\ \E ts \in Triggers : /\ triggers # ts /\ Cond!IsPrefix(triggers, ts)
                                   /\ triggers' = Append(triggers, ts[Len(triggers) + 1])
           /\ start' = Append(start, 0) /\ since' = Append(since, clock)
  <2>1. PICK ts \in Triggers : /\ triggers # ts /\ Cond!IsPrefix(triggers, ts)
                               /\ triggers' = Append(triggers, ts[Len(triggers) + 1])
    BY <1>5
  <2> DEFINE n == Len(triggers)
  <2>2. /\ ts \in Seq(OneTrigger) /\ triggers \in Seq(OneTrigger) /\ n \in Nat /\ start \in Seq(Nat) /\ Len(start) = n
        /\ since \in Seq(Nat) /\ Len(since) = n /\ clock \in Nat
    BY <1>2, TriggerFacts DEF TriggerTypes
  <2>3. n < Len(ts)
    <3>1. n <= Len(ts) /\ SubSeq(triggers, 1, n) = SubSeq(ts, 1, n)
      BY <2>1 DEF Cond!IsPrefix
    <3>2. SubSeq(triggers, 1, n) = triggers
      BY <2>2
    <3>3. Len(ts) = n => SubSeq(ts, 1, n) = ts
      BY <2>2
    <3>4. Len(ts) # n
      BY <2>1, <3>1, <3>2, <3>3, Zenon
    <3>5. Len(ts) \in Nat
      BY <2>2
    <3> QED BY <2>2, <3>1, <3>4, <3>5
  <2>4. ts[n + 1] \in OneTrigger
    BY <2>2, <2>3
  <2> DEFINE t == ts[n + 1]
  <2>5. triggers' = Append(triggers, t) /\ start' = Append(start, 0) /\ since' = Append(since, clock)
    BY <1>5, <2>1
  <2> HIDE DEF t
  <2>6. /\ triggers' \in Seq(OneTrigger) /\ Len(triggers') = n + 1
        /\ start' \in Seq(Nat) /\ Len(start') = n + 1 /\ since' \in Seq(Nat) /\ Len(since') = n + 1
        /\ \A i \in 1 .. n : triggers'[i] = triggers[i] /\ start'[i] = start[i] /\ since'[i] = since[i]
        /\ start'[n + 1] = 0 /\ since'[n + 1] = clock
    <3>1. t \in OneTrigger
      BY <2>4 DEF t
    <3> HIDE DEF n
    <3>2. triggers' \in Seq(OneTrigger) /\ Len(triggers') = n + 1 /\ \A i \in 1 .. n : triggers'[i] = triggers[i]
      BY <2>2, <2>5, <3>1, AppendProperties DEF n
    <3>3. start' \in Seq(Nat) /\ Len(start') = n + 1 /\ (\A i \in 1 .. n : start'[i] = start[i]) /\ start'[n + 1] = 0
      BY <2>2, <2>5, AppendProperties
    <3>4. since' \in Seq(Nat) /\ Len(since') = n + 1 /\ (\A i \in 1 .. n : since'[i] = since[i]) /\ since'[n + 1] = clock
      BY <2>2, <2>5, AppendProperties
    <3> QED BY <3>2, <3>3, <3>4
  <2>7. TriggerTypes'
    BY <1>1, <1>2, <2>6 DEF TriggerTypes
  <2>8. ASSUME ~overlapped', ~crossed', NEW i \in 1 .. n + 1
        PROVE  /\ since'[i] <= clock /\ start'[i] <= clock
               /\ start'[i] # 0 => triggers'[i].duration > 0 /\ since'[i] <= start'[i]
    <3>1. CASE i = n + 1
      BY <2>2, <2>6, <3>1
    <3>2. CASE i \in 1 .. n
      <4>1. ~Failing(i)
        BY <1>3, <2>8 DEF Failing
      <4>2. /\ since[i] <= clock /\ start[i] <= clock
            /\ start[i] # 0 => triggers[i].duration > 0 /\ since[i] <= start[i]
        BY <1>1, <1>3, <2>8, <3>2, <4>1 DEF TriggerInv, Undisturbed
      <4> HIDE DEF n
      <4> QED BY <2>6, <3>2, <4>2
    <3> QED BY <2>2, <3>1, <3>2
  <2>9. Undisturbed' => \A i \in 1 .. Len(triggers') :
          /\ since'[i] <= clock' /\ start'[i] <= clock'
          /\ start'[i] # 0 => triggers'[i].duration > 0 /\ (since'[i] <= start'[i] \/ Failing(i)')
    BY <1>1, <2>6, <2>8 DEF Undisturbed
  <2>10. Cond!HeldLongEnough'
    BY <1>1, <1>3 DEF TriggerInv, Cond!HeldLongEnough
  <2>11. ~overlapped' => \A q \in Reporter : \A o \in Reporter \ {q} : walker'[q].at = "idle" \/ walker'[o].at = "idle"
    BY <1>1 DEF TriggerInv
  <2>12. ~crossed' => \A q \in Reporter : walker'[q].at = "walk" => walker'[q].walked = triggers'
    BY <1>1, <1>3
  <2> QED BY <2>7, <2>9, <2>10, <2>11, <2>12 DEF TriggerInv
<1> QED BY <1>1, <1>4, <1>5

LEMMA TickTriggers == TriggerInv /\ Cond!Tick => TriggerInv'
<1> SUFFICES ASSUME TriggerInv, Cond!Tick PROVE TriggerInv'
  OBVIOUS
<1>1. clock' = clock + 1 /\ UNCHANGED <<asked, triggers, start, walker, updates, fired, since, overlapped, crossed, alive>>
  BY DEF Cond!Tick
<1>2. TriggerTypes
  BY DEF TriggerInv
<1>3. TriggerTypes'
  BY <1>1, <1>2 DEF TriggerTypes
<1>4. Undisturbed' => \A i \in 1 .. Len(triggers') :
          /\ since'[i] <= clock' /\ start'[i] <= clock'
          /\ start'[i] # 0 => triggers'[i].duration > 0 /\ (since'[i] <= start'[i] \/ Failing(i)')
  <2> SUFFICES ASSUME Undisturbed, NEW i \in 1 .. Len(triggers)
               PROVE  /\ since[i] <= clock + 1 /\ start[i] <= clock + 1
                      /\ start[i] # 0 => triggers[i].duration > 0 /\ (since[i] <= start[i] \/ Failing(i)')
    BY <1>1 DEF Undisturbed
  <2>1. /\ since[i] <= clock /\ start[i] <= clock
        /\ start[i] # 0 => triggers[i].duration > 0 /\ (since[i] <= start[i] \/ Failing(i))
    BY DEF TriggerInv
  <2>2. clock \in Nat /\ since[i] \in Nat /\ start[i] \in Nat
    BY <1>2 DEF TriggerTypes
  <2>3. Failing(i) => Failing(i)'
    BY <1>1 DEF Failing
  <2> QED BY <2>1, <2>2, <2>3
<1>5. Cond!HeldLongEnough'
  BY <1>1 DEF TriggerInv, Cond!HeldLongEnough
<1> QED BY <1>1, <1>3, <1>4, <1>5 DEF TriggerInv

LEMMA TriggerStep == TriggerInv /\ [Cond!Next]_triggerVars => TriggerInv'
<1> SUFFICES ASSUME TriggerInv, [Cond!Next]_triggerVars PROVE TriggerInv'
  OBVIOUS
<1>1. CASE UNCHANGED triggerVars
  BY <1>1 DEF triggerVars, TriggerInv, TriggerTypes, Undisturbed, Failing, Cond!HeldLongEnough
<1>2. CASE Cond!Next
  BY <1>2, WalkTriggers, EndWalkTriggers, ReportTriggers, ChangeTriggers, TickTriggers DEF Cond!Next
<1> QED BY <1>1, <1>2

-----------------------------------------------------------------------------
(***************************************************************************)
(* Conditions                                                              *)
(***************************************************************************)
\* What has been asked is a list of conditions, a moment and a reading that there are.
AskedOK == asked \in [list : Lists, date : Dates, reading : Readings]

LEMMA DayOfYear ==
    ASSUME NEW y \in Nat, NEW m \in 1 .. 12, NEW d \in Nat
    PROVE  Cond!YearDay(y, m, d) \in d .. d + 335
<1>1. Cond!DaysBefore[m] \in 0 .. 334
  BY DEF Cond!DaysBefore
<1> DEFINE leap == IF Cond!Leap(y) /\ m > 2 THEN 1 ELSE 0
<1>2. leap \in {0, 1}
  OBVIOUS
<1>3. Cond!YearDay(y, m, d) = Cond!DaysBefore[m] + d + leap
  BY DEF Cond!YearDay
<1> HIDE DEF leap
<1> QED BY <1>1, <1>2, <1>3

LEMMA ParsedDay ==
    ASSUME NEW y \in Nat, NEW day \in (1 .. 12) \X Nat
    PROVE  Cond!ParseDate(y, day) \in Nat
<1> DEFINE md == IF day = <<2, 29>> /\ y % 4 # 0 THEN <<2, 28>> ELSE day
<1>1. md[1] \in 1 .. 12 /\ md[2] \in Nat
  OBVIOUS
<1>2. Cond!ParseDate(y, day) = Cond!YearDay(y, md[1], md[2]) \/ Cond!ParseDate(y, day) = Cond!NoDay
  BY DEF Cond!ParseDate
<1>3. Cond!NoDay \in Nat
  BY DEF Cond!NoDay
<1> HIDE DEF md
<1>4. Cond!YearDay(y, md[1], md[2]) \in Nat
  <2> DEFINE m == md[1]
             d == md[2]
  <2>1. m \in 1 .. 12 /\ d \in Nat
    BY <1>1
  <2> HIDE DEF m, d
  <2>2. Cond!YearDay(y, m, d) \in d .. d + 335
    BY <2>1, DayOfYear
  <2>3. Cond!YearDay(y, m, d) \in Nat
    BY <2>1, <2>2
  <2> QED BY <2>3 DEF m, d
<1> QED BY <1>2, <1>3, <1>4

\* A condition that is not checked strangely stops the walk when it does not hold.
LEMMA PlainCheck ==
    ASSUME AskedOK, NEW i \in DOMAIN asked.list,
           ~Cond!Strange(asked.list[i], asked.date, asked.reading)
    PROVE  Cond!CheckCondition(asked.list[i], asked.date, asked.reading)
             = IF Cond!Holds(asked.list[i], asked.date, asked.reading) THEN "next" ELSE "error"
<1> DEFINE c == asked.list[i]
           t == asked.date
           p == asked.reading
           check == Cond!CheckCondition(c, t, p)
           holds == Cond!Holds(c, t, p)
<1>1. asked.list \in Lists /\ t \in Dates /\ p \in Readings
  BY DEF AskedOK
<1>2. /\ c.type = "devicePoint" => c.want = NotANumber \/ c.want \in Nat
      /\ c.type = "executeTime" => c.begin \in Nat /\ c.end \in Nat
      /\ t.ms \in Nat /\ Exact \in Nat
      /\ p # Missing => p.str \/ p.v = NotANumber \/ p.v \in Nat
  BY <1>1, ConditionsAreConfigured
<1>3. ~Cond!Strange(c, t, p)
  OBVIOUS
<1> SUFFICES check = IF holds THEN "next" ELSE "error"
  OBVIOUS
<1> HIDE DEF c, t, p
<1>4. c.type \notin {"dateInterval", "times"}
  BY <1>3 DEF Cond!Strange
<1>5. CASE c.type = "devicePoint"
  <2>1. check = IF c.complete /\ p # Missing /\ Cond!Satisfies(c.sym, c.want, p) THEN "next" ELSE "error"
    BY <1>5, Zenon DEF Cond!CheckCondition, Cond!Verdict
  <2>2. holds <=> /\ c.complete /\ p # Missing
                  /\ IF p.str THEN c.sym \in {"=", "!="} /\ (c.sym = "=" <=> c.want = p.v)
                     ELSE NotANumber \notin {c.want, p.v} /\ Cond!Compare(c.sym, p.v, c.want)
    BY <1>5 DEF Cond!Holds
  <2>3. ASSUME p # Missing
        PROVE  Cond!Satisfies(c.sym, c.want, p)
                 <=> IF p.str THEN c.sym \in {"=", "!="} /\ (c.sym = "=" <=> c.want = p.v)
                     ELSE NotANumber \notin {c.want, p.v} /\ Cond!Compare(c.sym, p.v, c.want)
    <3>1. CASE p.str
      BY <3>1 DEF Cond!Satisfies
    <3>2. CASE ~p.str
      <4>1. Cond!Satisfies(c.sym, c.want, p)
              <=> NotANumber \notin {p.v, c.want} /\ Cond!Compare(c.sym, Cond!Float(p.v), Cond!Float(c.want))
        BY <3>2 DEF Cond!Satisfies
      <4>2. ASSUME NotANumber \notin {p.v, c.want}
            PROVE  Cond!Float(p.v) = p.v /\ Cond!Float(c.want) = c.want
        <5>1. p.v \in Nat /\ c.want \in Nat
          BY <1>2, <1>5, <2>3, <3>2, <4>2
        <5>2. ~(p.v >= Exact) /\ ~(c.want >= Exact)
          BY <1>3, <1>5, <2>3, <3>2, <4>2 DEF Cond!Strange
        <5>3. p.v < Exact /\ c.want < Exact
          BY <1>2, <5>1, <5>2
        <5> QED BY <5>3 DEF Cond!Float
      <4> QED BY <3>2, <4>1, <4>2
    <3> QED BY <3>1, <3>2
  <2> HIDE DEF check, holds
  <2> QED BY <2>1, <2>2, <2>3
<1>6. CASE c.type = "executeTime"
  <2>1. check = IF c.begin <= t.ms /\ t.ms <= c.end THEN "next" ELSE "error"
    BY <1>6, Zenon DEF Cond!CheckCondition, Cond!Verdict
  <2>2. holds <=> t.ms \in c.begin .. c.end
    BY <1>6, Zenon DEF Cond!Holds
  <2> HIDE DEF check, holds
  <2> QED BY <1>2, <1>6, <2>1, <2>2
<1>7. CASE c.type = "field"
  <2>1. check = IF t[c.field] \in c.list THEN "next" ELSE "error"
    BY <1>7, Zenon DEF Cond!CheckCondition, Cond!Verdict
  <2>2. holds <=> t[c.field] \in c.list
    BY <1>7, Zenon DEF Cond!Holds
  <2> QED BY <2>1, <2>2
<1>8. CASE c.type \notin {"devicePoint", "executeTime", "field"}
  <2>1. check = "next"
    BY <1>4, <1>8 DEF Cond!CheckCondition
  <2>2. holds
    BY <1>4, <1>8 DEF Cond!Holds
  <2> QED BY <2>1, <2>2
<1> QED BY <1>5, <1>6, <1>7, <1>8

\* An interval of days, of two or more, ends the walk either way.
LEMMA IntervalCheck ==
    ASSUME AskedOK, NEW i \in DOMAIN asked.list, asked.list[i].type = "dateInterval",
           Cond!ParseDate(asked.date.year, asked.list[i].begin) # Cond!ParseDate(asked.date.year, asked.list[i].end)
    PROVE  Cond!CheckCondition(asked.list[i], asked.date, asked.reading)
             = IF Cond!Holds(asked.list[i], asked.date, asked.reading) THEN "ok" ELSE "error"
<1> DEFINE c == asked.list[i]
           t == asked.date
           begin == Cond!ParseDate(t.year, c.begin)
           end == Cond!ParseDate(t.year, c.end)
           today == Cond!YearDay(t.year, t.month, t.day)
<1>1. asked.list \in Lists /\ t \in Dates
  BY DEF AskedOK
<1>2. c.begin \in (1 .. 12) \X Nat /\ c.end \in (1 .. 12) \X Nat
  BY <1>1, ConditionsAreConfigured
<1>3. t.year \in Nat /\ t.month \in 1 .. 12 /\ t.day \in 1 .. 31
  BY <1>1, ConditionsAreConfigured
<1>4. begin \in Nat /\ end \in Nat
  BY <1>2, <1>3, ParsedDay
<1>5. today \in 1 .. 366
  <2>1. t.year \in Nat /\ t.month \in 1 .. 12 /\ t.day \in Nat /\ t.day \in 1 .. 31
    BY <1>3
  <2> HIDE DEF t
  <2>2. today \in t.day .. t.day + 335
    BY <2>1, DayOfYear
  <2> HIDE DEF today
  <2> QED BY <2>1, <2>2
<1>6. Cond!CheckCondition(c, t, asked.reading) = IF c.open \/ Cond!WithinDates(c, t) THEN "ok" ELSE "error"
  BY Zenon DEF Cond!CheckCondition
<1>7. Cond!WithinDates(c, t) <=> /\ Cond!NoDay \notin {begin, end}
                                 /\ today \in (IF end > begin THEN begin .. end ELSE 1 .. end \union begin .. 366)
  BY DEF Cond!WithinDates
<1>8. Cond!Holds(c, t, asked.reading)
        <=> \/ c.open
            \/ /\ Cond!NoDay \notin {begin, end}
               /\ (begin <= today /\ today <= end) \/ (end < begin /\ (today >= begin \/ today <= end))
  BY DEF Cond!Holds
<1>9. begin # end
  OBVIOUS
<1>10. (today \in (IF end > begin THEN begin .. end ELSE 1 .. end \union begin .. 366))
         <=> (begin <= today /\ today <= end) \/ (end < begin /\ (today >= begin \/ today <= end))
  <2> HIDE DEF begin, end, today
  <2>1. CASE end > begin
    BY <1>4, <1>5, <2>1
  <2>2. CASE end < begin
    BY <1>4, <1>5, <2>2
  <2> QED BY <1>4, <1>9, <2>1, <2>2
<1> HIDE DEF c, t, begin, end, today
<1>11. Cond!Holds(c, t, asked.reading) <=> c.open \/ Cond!WithinDates(c, t)
  BY <1>7, <1>8, <1>10
<1> QED BY <1>6, <1>11 DEF c, t

\* The first condition that does not let the walk go on decides.
LEMMA FirstDecides ==
    ASSUME NEW list, NEW n \in Nat, DOMAIN list = 1 .. n, NEW t, NEW p
    PROVE  Cond!checkConditions(list, t, p)
             <=> \/ \A i \in 1 .. n : Cond!CheckCondition(list[i], t, p) = "next"
                 \/ \E i \in 1 .. n : /\ Cond!CheckCondition(list[i], t, p) = "ok"
                                      /\ \A j \in 1 .. i - 1 : Cond!CheckCondition(list[j], t, p) = "next"
<1> DEFINE outcomes == [i \in DOMAIN list |-> Cond!CheckCondition(list[i], t, p)]
           first == Cond!SelectInSeq(outcomes, LAMBDA o : o # "next")
           stops == {i \in 1 .. n : outcomes[i] # "next"}
<1>1. Cond!checkConditions(list, t, p) <=> first = 0 \/ outcomes[first] = "ok"
  BY DEF Cond!checkConditions
<1>2. Len(outcomes) = n
  OBVIOUS
<1>3. first = IF stops # {} THEN Cond!Min(stops) ELSE 0
  BY <1>2 DEF Cond!SelectInSeq
<1>4. \A i \in 1 .. n : outcomes[i] = Cond!CheckCondition(list[i], t, p)
  OBVIOUS
<1> HIDE DEF outcomes, first
<1>5. CASE stops = {}
  <2>1. \A i \in 1 .. n : Cond!CheckCondition(list[i], t, p) = "next"
    BY <1>4, <1>5
  <2> QED BY <1>1, <1>3, <1>5, <2>1
<1>6. CASE stops # {}
  <2>1. \E x \in stops : \A y \in stops : x <= y
    <3>1. stops \in SUBSET Nat
      OBVIOUS
    <3> HIDE DEF stops
    <3> QED BY <1>6, <3>1, LeastNat
  <2>2. first \in stops /\ \A y \in stops : first <= y
    BY <1>3, <1>6, <2>1 DEF Cond!Min
  <2>3. first \in 1 .. n /\ outcomes[first] # "next"
    BY <2>2
  <2>4. \A j \in 1 .. first - 1 : outcomes[j] = "next"
    BY <2>2, <2>3
  <2>5. \A i \in 1 .. n : (\A j \in 1 .. i - 1 : outcomes[j] = "next") /\ outcomes[i] # "next" => i = first
    <3> SUFFICES ASSUME NEW i \in 1 .. n, \A j \in 1 .. i - 1 : outcomes[j] = "next", outcomes[i] # "next"
                 PROVE  i = first
      OBVIOUS
    <3>1. first <= i
      BY <2>2
    <3>2. ~(first < i)
      BY <2>3
    <3> QED BY <2>3, <3>1, <3>2
  <2> HIDE DEF stops
  <2>6. first # 0
    BY <2>3
  <2> QED BY <1>1, <1>4, <2>3, <2>4, <2>5, <2>6
<1> QED BY <1>5, <1>6

LEMMA AskedConditionsHold == AskedOK => Cond!AllConditionsHold
<1> DEFINE list == asked.list
           t == asked.date
           p == asked.reading
           Day(date) == Cond!ParseDate(t.year, date)
           Fair(i) == \/ ~Cond!Strange(list[i], t, p)
                      \/ list[i].type = "dateInterval" /\ i = Len(list) /\ Day(list[i].begin) # Day(list[i].end)
           check(i) == Cond!CheckCondition(list[i], t, p)
           holds(i) == Cond!Holds(list[i], t, p)
           n == Len(list)
<1> SUFFICES ASSUME AskedOK, \A i \in DOMAIN list : Fair(i)
             PROVE  Cond!checkConditions(list, t, p) <=> \A i \in DOMAIN list : holds(i)
  BY DEF Cond!AllConditionsHold
<1>1. n \in Nat /\ DOMAIN list = 1 .. n
  <2>1. list \in Lists
    BY DEF AskedOK
  <2>2. list \in Seq({list[i] : i \in DOMAIN list})
    BY <2>1, ConditionsAreConfigured
  <2> QED BY <2>2
<1>2. \A i \in 1 .. n : \/ check(i) = IF holds(i) THEN "next" ELSE "error"
                        \/ i = n /\ check(i) = IF holds(i) THEN "ok" ELSE "error"
  <2> TAKE i \in 1 .. n
  <2>1. i \in DOMAIN list /\ Fair(i)
    BY <1>1
  <2>2. CASE ~Cond!Strange(list[i], t, p)
    BY <2>1, <2>2, PlainCheck
  <2>3. CASE list[i].type = "dateInterval" /\ i = Len(list) /\ Day(list[i].begin) # Day(list[i].end)
    BY <2>1, <2>3, IntervalCheck
  <2> QED BY <2>1, <2>2, <2>3
<1>3. Cond!checkConditions(list, t, p)
        <=> \/ \A i \in 1 .. n : check(i) = "next"
            \/ \E i \in 1 .. n : check(i) = "ok" /\ \A j \in 1 .. i - 1 : check(j) = "next"
  <2> HIDE DEF list, t, p, n
  <2> QED BY <1>1, FirstDecides
<1> HIDE DEF list, t, p, check, holds, n
<1>4. ASSUME \A i \in 1 .. n : holds(i)
      PROVE  Cond!checkConditions(list, t, p)
  <2>1. \A i \in 1 .. n : check(i) = "next" \/ (i = n /\ check(i) = "ok")
    BY <1>2, <1>4
  <2> QED BY <1>1, <1>3, <2>1
<1>5. ASSUME Cond!checkConditions(list, t, p), NEW i \in 1 .. n
      PROVE  holds(i)
  <2>1. CASE check(i) = "next"
    BY <1>2, <2>1
  <2>2. CASE check(i) # "next"
    <3>1. PICK k \in 1 .. n : check(k) = "ok" /\ \A j \in 1 .. k - 1 : check(j) = "next"
      BY <1>3, <1>5, <2>2
    <3>2. k = n
      BY <1>2, <3>1
    <3>3. k = i
      BY <1>1, <2>2, <3>1, <3>2
    <3> QED BY <1>2, <3>1, <3>3
  <2> QED BY <2>1, <2>2
<1> QED BY <1>1, <1>4, <1>5

\* The result a run reports is true, however the goroutines that write its devices interleave; a
\* rule runs when all its conditions hold, whatever their kinds and order; and a trigger starts
\* its rule only after no report has failed it for its duration (exports/linkedge: triggerLinkEdge,
\* checkConditions, devicePointTriggerHandler), for any rules, conditions, triggers and reports.
THEOREM RulesAlwaysDoAsTheySay == MCSpec => []RulesDoAsTheySay
<1> DEFINE Inv == TypeInv /\ ResultInv /\ TriggerInv /\ AskedOK
<1>1. MCInit => Inv
  BY InitTypes, ResultInit, TriggerInit DEF MCInit, AskedOK, Cond!Init
<1>2. Inv /\ [MCNext]_<<vars, gatewayVars, triggerVars, part>> => Inv'
  <2> SUFFICES ASSUME Inv, [MCNext]_<<vars, gatewayVars, triggerVars, part>> PROVE Inv'
    OBVIOUS
  <2>1. [Next]_vars /\ [Cond!Next]_triggerVars
    BY DEF MCNext
  <2>2. TypeInv' /\ ResultInv' /\ TriggerInv'
    BY <2>1, StepTypes, ResultStep, TriggerStep
  <2>3. UNCHANGED asked
    BY <2>1 DEF triggerVars, Cond!Next, Cond!Walk, Cond!EndWalk, Cond!Report, Cond!Delete, Cond!registerTrigger,
       Cond!Tick
  <2> QED BY <2>2, <2>3 DEF AskedOK
<1>3. Inv => RulesDoAsTheySay
  BY InvImpliesResult, AskedConditionsHold DEF RulesDoAsTheySay, TriggerInv
<1> QED BY <1>1, <1>2, <1>3, PTL DEF MCSpec
=============================================================================
