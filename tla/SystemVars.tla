----------------------------- MODULE SystemVars -----------------------------
(***************************************************************************)
(* The MySQL system variables (systemVar.c): the global values in a shared *)
(* hash table, behind a spinlock whose entry the first user creates, and   *)
(* each session's copies, filled from the table base_variables when the    *)
(* session first touches a variable.                                       *)
(*                                                                         *)
(* A step is what a backend does between two accesses to shared memory.    *)
(* An error (elog(ERROR)) takes the backend back to its idle loop, and     *)
(* leaves a spinlock that was held as it is.                               *)
(***************************************************************************)
EXTENDS Integers

CONSTANTS
    Session,
    Vars,           \* variables base_variables may have a row for
    Row,            \* its place in the table, type, fromGlobal and readWrite
    Late,           \* rows that may be inserted while sessions run
    Switch,         \* optimizer_switch, whose values are parsed as they are set
    NoDefault,      \* last_insert_id
    Checked,        \* variables whose values applySystemVarValue may refuse
    Listed,         \* variables whose values rectifySystemVarValue may refuse
    NoLookup,       \* query_cache_size, which it does not look up
    Values,
    Empty,          \* the empty string
    BaseValue,      \* varDefValue and varConfValue of every row
    Statements,     \* the SETs and SELECT @@s that clients send: see Ops
    MaxCommands     \* bound: statements and new connections

Absent == -1        \* no entry in the hash table
Half == -2          \* an entry that is being written
NoCell == 0
Cells == 1 .. 4     \* elements of the free list of globalSystemVarsLock
NoOp == [do |-> "none"]

Settable(v) == Row[v].type \in {0, 1} /\ Row[v].readWrite  \* by SET GLOBAL
Ours(v) == Row[v].type # 1 /\ Row[v].readWrite             \* by SET SESSION
Copied(v) == Row[v].type = 1 /\ Row[v].fromGlobal

Ops ==
    [do : {"set"}, session : BOOLEAN, var : Vars, val : Values] \cup
    [do : {"null", "default", "get"}, session : BOOLEAN, var : Vars]

(* optimizer_switch is both a global and a session variable, and may be    *)
(* set: its row is one of those aux_mysql--1.3--1.4.sql inserts.           *)
ASSUME SysVarsAssumption ==
    /\ Row \in [Vars -> [no : Nat, type : 0 .. 3, fromGlobal : BOOLEAN, readWrite : BOOLEAN]]
    /\ Late \subseteq Vars /\ Switch \subseteq Vars /\ Checked \subseteq Vars
    /\ NoDefault \subseteq Vars /\ Listed \subseteq Vars /\ NoLookup \subseteq Vars
    /\ \A v \in Switch : Row[v].type = 0 /\ Row[v].readWrite
    /\ Values \subseteq Nat /\ BaseValue \in Values /\ Empty \in Values
    /\ Statements \subseteq Ops
    /\ MaxCommands \in Nat

VARIABLES
    rows,           \* variables with a row in base_variables
    linked, freeHead, mutex,    \* globalSystemVarsLock, as in UuidShort
    initFlag,       \* global_system_vars_init_flag is in globalSystemVars
    globals,        \* globalSystemVars: varConfValue
    me,             \* where each backend is in its statement: see Idle
    held,           \* the backends between lock and unlock
    base,           \* baseSystemVars
    copy,           \* sessionSystemVars: varConfValue
    inited,         \* the backends whose sessionSystemVars is not NULL
    result,         \* what the statement read
    commands,
    seen,           \* history: see Events
    stale           \* history: copies that another session's SET made old

table == <<linked, freeHead>>
tables == <<table, initFlag>>
shared == <<tables, mutex, globals>>
own == <<base, copy, inited>>
history == <<commands, seen, stale>>
vars == <<rows, shared, me, held, own, result, history>>

(* The locals of a statement: goal is where lockGlobalSystemVars returns   *)
(* to, cell globalSystemVarsMutex and val varValue.                        *)
Idle == [pc |-> "idle", op |-> NoOp, goal |-> "idle", cell |-> NoCell,
         val |-> BaseValue]

Labels ==
    {"idle", "readBase", "start", "lookup", "pop", "link", "spininit", "acquire",
     "init", "readDefault", "setSession", "setGlobal", "writeGlobal", "copyOwn",
     "getGlobal", "dynRead", "dynEnter", "dynFill", "dynCopy"}

(* Things that happened to this life of the shared memory:                 *)
(*  overlapped   a lock was looked up while its entry was being created    *)
(*  escaped      an error left the spinlock taken                          *)
(*  unlockedAdd  a global entry was added without the spinlock             *)
(*  setLost      SET GLOBAL added the entry, and set the value elsewhere   *)
Events == {"overlapped", "escaped", "unlockedAdd", "setLost"}

NoCopies == [v \in Vars |-> Absent]

(* GlobalSystemVariablesShmemInit, and backends that have done nothing.    *)
Fresh ==
    [linked |-> NoCell, freeHead |-> 1, mutex |-> [c \in Cells |-> 0],
     globals |-> NoCopies,
     me |-> [p \in Session |-> Idle],
     base |-> [p \in Session |-> {}],
     copy |-> [p \in Session |-> NoCopies],
     result |-> [p \in Session |-> BaseValue]]

Init ==
    /\ rows \in {Vars, Vars \ Late}
    /\ linked = Fresh.linked /\ freeHead = Fresh.freeHead /\ mutex = Fresh.mutex
    /\ initFlag = FALSE /\ globals = Fresh.globals
    /\ me = Fresh.me /\ held = {}
    /\ base = Fresh.base /\ copy = Fresh.copy /\ inited = {}
    /\ result = Fresh.result
    /\ commands = 0 /\ seen = {} /\ stale = {}

At(p, l) == me[p].pc = l
Var(p) == me[p].op.var
Goto(p, to) == me' = [me EXCEPT ![p].pc = to]

(* The statement ends, with an answer or an error.                         *)
End(p) == me' = [me EXCEPT ![p] = Idle]

(* elog(ERROR).                                                            *)
Raise(p) ==
    /\ End(p)
    /\ seen' = seen \cup IF p \in held THEN {"escaped"} ELSE {}
    /\ held' = held \ {p}

(* lockGlobalSystemVars, to go on at g.                                    *)
Lock(p, g) == me' = [me EXCEPT ![p].pc = "lookup", ![p].goal = g]

(* unlockGlobalSystemVars, and on, or out of the statement.                *)
Unlock(p, to) ==
    /\ mutex' = [mutex EXCEPT ![me[p].cell] = 0]
    /\ held' = held \ {p}
    /\ IF to = "idle" THEN End(p) ELSE Goto(p, to)

-----------------------------------------------------------------------------
(* A row is inserted into base_variables.                                  *)
InsertRow ==
    /\ rows # Vars
    /\ rows' = Vars
    /\ UNCHANGED <<shared, me, held, own, result, history>>

(* SET and SELECT @@.                                                      *)
Command(p, o) ==
    /\ At(p, "idle") /\ commands < MaxCommands
    /\ commands' = commands + 1
    /\ me' = [me EXCEPT ![p].op = o,
                        ![p].pc = IF p \in inited THEN "start" ELSE "readBase"]
    /\ result' = [result EXCEPT ![p] = BaseValue]
    /\ UNCHANGED <<rows, shared, held, own, seen, stale>>

(* A client leaves and another one connects.                               *)
Reconnect(p) ==
    /\ At(p, "idle") /\ p \in inited /\ commands < MaxCommands
    /\ commands' = commands + 1
    /\ inited' = inited \ {p}
    /\ copy' = [copy EXCEPT ![p] = NoCopies]
    /\ base' = [base EXCEPT ![p] = {}]
    /\ stale' = {x \in stale : x[1] # p}
    /\ result' = [result EXCEPT ![p] = BaseValue]
    /\ UNCHANGED <<rows, shared, me, held, seen>>

(* initBaseSystemVars: the table is read, or cannot be.                    *)
ReadBase(p) ==
    /\ At(p, "readBase")
    /\ \/ /\ base' = [base EXCEPT ![p] = rows]
          /\ Lock(p, "init")
          /\ UNCHANGED <<held, seen>>
       \/ Raise(p) /\ UNCHANGED base
    /\ UNCHANGED <<rows, shared, copy, inited, result, commands, stale>>

-----------------------------------------------------------------------------
(* lockGlobalSystemVars: hash_search(HASH_ENTER) ...                       *)
Creating(p) == me[p].pc \in {"pop", "link", "spininit"}

Lookup(p) ==
    /\ At(p, "lookup")
    /\ me' = [me EXCEPT ![p].cell = linked,
                        ![p].pc = IF linked = NoCell THEN "pop" ELSE "acquire"]
    /\ seen' = seen \cup IF \E q \in Session : Creating(q) THEN {"overlapped"} ELSE {}
    /\ UNCHANGED <<rows, shared, held, own, result, commands, stale>>

(* ... which takes an element of the free list when there is no entry ...  *)
PopFree(p) ==
    /\ At(p, "pop") /\ freeHead \in Cells
    /\ me' = [me EXCEPT ![p].cell = freeHead, ![p].pc = "link"]
    /\ UNCHANGED <<rows, shared, held, own, result, history>>

Link(p) ==
    /\ At(p, "link")
    /\ freeHead' = me[p].cell + 1
    /\ linked' = me[p].cell
    /\ Goto(p, "spininit")
    /\ UNCHANGED <<rows, mutex, initFlag, globals, held, own, result, history>>

(* ... SpinLockInit ...                                                    *)
SpinInit(p) ==
    /\ At(p, "spininit")
    /\ mutex' = [mutex EXCEPT ![me[p].cell] = 0]
    /\ Goto(p, "acquire")
    /\ UNCHANGED <<rows, tables, globals, held, own, result, history>>

(* ... and SpinLockAcquire.                                                *)
SpinAcquire(p) ==
    /\ At(p, "acquire") /\ mutex[me[p].cell] = 0
    /\ mutex' = [mutex EXCEPT ![me[p].cell] = 1]
    /\ held' = held \cup {p}
    /\ Goto(p, me[p].goal)
    /\ UNCHANGED <<rows, tables, globals, own, result, history>>

(* Somebody has the lock and does not wait for a table with it.            *)
InUse(c) == \E q \in held : me[q].cell = c /\ ~At(q, "dynRead")

(* A backend has died: all end and the shared memory is created anew.      *)
Restart ==
    /\ linked' = Fresh.linked /\ freeHead' = Fresh.freeHead /\ mutex' = Fresh.mutex
    /\ initFlag' = FALSE /\ globals' = Fresh.globals
    /\ me' = Fresh.me /\ held' = {}
    /\ base' = Fresh.base /\ copy' = Fresh.copy /\ inited' = {}
    /\ result' = Fresh.result
    /\ seen' = {} /\ stale' = {}
    /\ UNCHANGED <<rows, commands>>

(* Mutant: the waiter never gives up.                                      *)
StuckNever(p) == FALSE /\ UNCHANGED vars

(* s_lock_stuck: the lock was not released for a minute, because nobody    *)
(* has it or the one who has it waits for a table.  A PANIC.               *)
Stuck(p) ==
    /\ At(p, "acquire") /\ mutex[me[p].cell] = 1 /\ ~InUse(me[p].cell)
    /\ Restart

-----------------------------------------------------------------------------
(* The session has copies of S; some are not the global values.            *)
InitCopies(p, S) ==
    /\ copy' = [copy EXCEPT ![p] =
                  [v \in Vars |-> IF v \in S THEN BaseValue ELSE Absent]]
    /\ stale' = stale \cup {<<p, v>> : v \in {w \in S : globals'[w] # BaseValue}}

(* initGlobalSystemVars, once, and initSessionSystemVars, both with the    *)
(* lock held; a row whose value cannot be applied ends them in an error.   *)
InitVars(p) ==
    /\ At(p, "init")
    /\ initFlag' = TRUE
    /\ globals' = [v \in Vars |->
                     IF ~initFlag /\ v \in base[p] /\ globals[v] = Absent
                     THEN BaseValue ELSE globals[v]]
    /\ inited' = inited \cup {p}
    /\ \/ /\ InitCopies(p, base[p])
          /\ Unlock(p, "start")
          /\ UNCHANGED seen
       \/ /\ \E v \in base[p] \cap Checked :
               InitCopies(p, {w \in base[p] : Row[w].no <= Row[v].no})
          /\ Raise(p)
          /\ UNCHANGED mutex
    /\ UNCHANGED <<rows, table, base, result, commands>>

(* The value to store, if it is not the global one.                        *)
NewValue(o) ==
    CASE o.do = "set" -> o.val [] o.do = "null" -> Empty [] OTHER -> BaseValue

(* setSystemVariableValue, rectifySystemVarValue and getDefaultValue.  The *)
(* session's copy is looked up, but not for NULL or query_cache_size.      *)
StartSet(p) ==
    LET o == me[p].op
        known == CASE o.do = "default" /\ ~o.session -> o.var \in base[p]
                   [] o.do = "null" \/ (o.do = "set" /\ o.var \in NoLookup) -> TRUE
                   [] OTHER -> copy[p][o.var] # Absent
        refused == ~known \/ (o.do = "default" /\ o.var \in NoDefault)
        to == CASE ~o.session -> "setGlobal"
                [] o.do = "default" /\ Row[o.var].fromGlobal -> "readDefault"
                [] OTHER -> "setSession"
    IN  /\ At(p, "start") /\ o.do # "get"
        /\ \/ (refused \/ (o.do = "set" /\ o.var \in Listed)) /\ End(p)
           \/ /\ ~refused
              /\ me' = [me EXCEPT ![p] =
                   [@ EXCEPT !.val = NewValue(o),
                             !.pc = IF to = "setSession" THEN to ELSE "lookup",
                             !.goal = to]]
        /\ UNCHANGED <<rows, shared, held, own, result, history>>

(* Mutant: the entry is used without a look at found.                      *)
ReadDefaultNotFound(p) ==
    /\ At(p, "readDefault")
    /\ mutex' = [mutex EXCEPT ![me[p].cell] = 0]
    /\ held' = held \ {p}
    /\ me' = [me EXCEPT ![p].pc = "setSession", ![p].val = globals[Var(p)]]
    /\ result' = [result EXCEPT ![p] = globals[Var(p)]]
    /\ UNCHANGED <<rows, tables, globals, own, history>>

(* getDefaultValue of a session variable: the global value.                *)
ReadDefault(p) ==
    LET g == globals[Var(p)]
    IN  /\ At(p, "readDefault")
        /\ mutex' = [mutex EXCEPT ![me[p].cell] = 0]
        /\ held' = held \ {p}
        /\ IF g = Absent
           THEN End(p) /\ UNCHANGED result
           ELSE /\ me' = [me EXCEPT ![p].pc = "setSession", ![p].val = g]
                /\ result' = [result EXCEPT ![p] = g]
        /\ UNCHANGED <<rows, tables, globals, own, history>>

(* A NULL is stored as an empty string, but the parser of optimizer_switch *)
(* and applySystemVarValue, which SET SESSION calls, read the string.      *)
ReadsNull(p) ==
    LET o == me[p].op
    IN  o.do = "null" /\ (o.var \in Switch \/ (o.session /\ o.var \in Checked))

(* SET SESSION: the copy is not there, set, or refused for its type.  A    *)
(* value that cannot be applied has been stored all the same, and the      *)
(* items of an optimizer_switch before a bad one.                          *)
SetSession(p) ==
    LET v == Var(p)
        found == copy[p][v] # Absent
    IN  /\ At(p, "setSession")
        /\ \/ ~found /\ Goto(p, "dynRead") /\ UNCHANGED copy
           \/ /\ found /\ Ours(v) /\ ~ReadsNull(p)
              /\ copy' = [copy EXCEPT ![p][v] = me[p].val]
              /\ End(p)
           \/ /\ found /\ (~Ours(v) \/ (v \in Switch /\ ~ReadsNull(p)))
              /\ End(p)
              /\ UNCHANGED copy
        /\ UNCHANGED <<rows, shared, held, base, inited, result, history>>

(* Mutant: a variable of the wrong kind is refused with the lock held.     *)
SetGlobalKeepsLock(p) ==
    LET v == Var(p)
        found == globals[v] # Absent
    IN  /\ At(p, "setGlobal")
        /\ \/ /\ ~found
              /\ Goto(p, "dynRead")
              /\ UNCHANGED <<globals, held>>
           \/ /\ found /\ ~Settable(v)
              /\ End(p) /\ held' = held \ {p}
              /\ UNCHANGED globals
           \/ /\ found /\ Settable(v)
              /\ globals' = [globals EXCEPT ![v] = Half]
              /\ Goto(p, "writeGlobal")
              /\ UNCHANGED held
        /\ UNCHANGED <<rows, tables, mutex, own, result, history>>

(* SET GLOBAL with the lock held: not there, refused, or written, byte by  *)
(* byte; an unknown optimizer_switch is an error after the ones before it  *)
(* were written.                                                           *)
SetGlobal(p) ==
    LET v == Var(p)
        found == globals[v] # Absent
    IN  /\ At(p, "setGlobal")
        /\ \/ /\ ~found
              /\ Goto(p, "dynRead")
              /\ UNCHANGED <<mutex, globals, held, seen>>
           \/ /\ found /\ ~Settable(v)
              /\ Unlock(p, "idle")
              /\ UNCHANGED <<globals, seen>>
           \/ /\ found /\ Settable(v) /\ ~ReadsNull(p)
              /\ globals' = [globals EXCEPT ![v] = Half]
              /\ Goto(p, "writeGlobal")
              /\ UNCHANGED <<mutex, held, seen>>
           \/ /\ found /\ v \in Switch /\ ~ReadsNull(p)
              /\ globals' \in {globals, [globals EXCEPT ![v] = me[p].val]}
              /\ Raise(p)
              /\ UNCHANGED mutex
        /\ UNCHANGED <<rows, tables, own, result, commands, stale>>

WriteGlobal(p) ==
    LET v == Var(p)
    IN  /\ At(p, "writeGlobal")
        /\ globals' = [globals EXCEPT ![v] = me[p].val]
        /\ Unlock(p, IF Copied(v) THEN "copyOwn" ELSE "idle")
        /\ stale' = (stale \ {<<p, v>>}) \cup {<<q, v>> : q \in inited \ {p}}
        /\ UNCHANGED <<rows, tables, own, result, commands, seen>>

(* Mutant: the session that sets the variable keeps its old copy.          *)
CopyOwnForgotten(p) ==
    /\ At(p, "copyOwn")
    /\ End(p)
    /\ UNCHANGED <<rows, shared, held, own, result, history>>

(* The copy of a global variable, if the session has one.                  *)
CopyOwn(p) ==
    /\ At(p, "copyOwn")
    /\ copy' = [copy EXCEPT ![p][Var(p)] = IF @ = Absent THEN @ ELSE me[p].val]
    /\ End(p)
    /\ UNCHANGED <<rows, shared, held, base, inited, result, history>>

-----------------------------------------------------------------------------
(* Mutant: a global value that is there is read without the lock.          *)
StartGetNoLock(p) ==
    LET o == me[p].op
        c == IF o.session THEN copy[p][o.var] ELSE globals[o.var]
    IN  /\ At(p, "start") /\ o.do = "get"
        /\ \/ /\ c # Absent
              /\ result' = [result EXCEPT ![p] = c]
              /\ End(p)
           \/ o.session /\ c = Absent /\ Goto(p, "dynRead") /\ UNCHANGED result
           \/ ~o.session /\ c = Absent /\ Lock(p, "getGlobal") /\ UNCHANGED result
        /\ UNCHANGED <<rows, shared, held, own, history>>

(* getSystemVariableValueImpl: a session's copy, or a variable it does not *)
(* know; a global value, after the lock.                                   *)
StartGet(p) ==
    LET o == me[p].op
        c == copy[p][o.var]
    IN  /\ At(p, "start") /\ o.do = "get"
        /\ \/ /\ o.session /\ c # Absent
              /\ result' = [result EXCEPT ![p] = c]
              /\ End(p)
           \/ o.session /\ c = Absent /\ Goto(p, "dynRead") /\ UNCHANGED result
           \/ ~o.session /\ Lock(p, "getGlobal") /\ UNCHANGED result
        /\ UNCHANGED <<rows, shared, held, own, history>>

(* SELECT @@GLOBAL with the lock held.                                     *)
GetGlobal(p) ==
    LET v == Var(p)
    IN  /\ At(p, "getGlobal")
        /\ \/ /\ globals[v] = Absent
              /\ Goto(p, "dynRead")
              /\ UNCHANGED <<mutex, held, result>>
           \/ /\ globals[v] # Absent
              /\ Unlock(p, "idle")
              /\ IF Row[v].type = 2 THEN UNCHANGED result
                 ELSE result' = [result EXCEPT ![p] = globals[v]]
        /\ UNCHANGED <<rows, tables, globals, own, history>>

-----------------------------------------------------------------------------
(* dynAddSystemVar: the table is read again, with the lock held if the     *)
(* caller has it; the scan may wait, be cancelled or fail.                 *)
DynRead(p) ==
    LET v == Var(p)
    IN  /\ At(p, "dynRead")
        /\ \/ /\ v \in rows
              /\ base' = [base EXCEPT ![p] = @ \cup {v}]
              /\ Goto(p, "dynEnter")
              /\ UNCHANGED <<mutex, held, seen>>
           \/ /\ v \notin rows
              /\ IF p \in held THEN Unlock(p, "idle")
                               ELSE End(p) /\ UNCHANGED <<mutex, held>>
              /\ UNCHANGED <<base, seen>>
           \/ Raise(p) /\ UNCHANGED <<mutex, base>>
        /\ UNCHANGED <<rows, tables, globals, copy, inited, result, commands, stale>>

(* add2GlobalSystemVars: the entry is entered ...                          *)
DynEnter(p) ==
    LET v == Var(p)
    IN  /\ At(p, "dynEnter")
        /\ IF globals[v] = Absent
           THEN /\ globals' = [globals EXCEPT ![v] = Half]
                /\ Goto(p, "dynFill")
                /\ seen' = seen \cup IF p \in held THEN {} ELSE {"unlockedAdd"}
           ELSE Goto(p, "dynCopy") /\ UNCHANGED <<globals, seen>>
        /\ UNCHANGED <<rows, tables, mutex, held, own, result, commands, stale>>

(* ... and filled.                                                         *)
DynFill(p) ==
    /\ At(p, "dynFill")
    /\ globals' = [globals EXCEPT ![Var(p)] = BaseValue]
    /\ Goto(p, "dynCopy")
    /\ UNCHANGED <<rows, tables, mutex, held, own, result, history>>

(* The caller of dynAddSystemVar sets the variable it has added.           *)
Sets(o) == o.do # "get" /\ IF o.session THEN Ours(o.var) ELSE Settable(o.var)

(* add2SessionSystemVars, which may refuse the value, and the caller goes  *)
(* on with the entry of baseSystemVars: a value that is set is set there,  *)
(* and may be refused as well.                                             *)
DynCopy(p) ==
    LET o == me[p].op
        sets == Sets(o)
    IN  /\ At(p, "dynCopy")
        /\ copy' = [copy EXCEPT ![p][o.var] = IF @ = Absent THEN BaseValue ELSE @]
        /\ stale' = stale \cup
             IF copy[p][o.var] = Absent /\ globals[o.var] # BaseValue
             THEN {<<p, o.var>>} ELSE {}
        /\ \/ /\ o.var \in Checked \/ (sets /\ o.var \in Switch /\ ~ReadsNull(p))
              /\ Raise(p)
              /\ UNCHANGED <<mutex, result>>
           \/ /\ ~(sets /\ ReadsNull(p))
              /\ IF p \in held
                 THEN Unlock(p, IF sets /\ Copied(o.var) THEN "copyOwn" ELSE "idle")
                 ELSE End(p) /\ UNCHANGED <<mutex, held>>
              /\ IF o.do = "get" /\ (o.session \/ Row[o.var].type # 2)
                 THEN result' = [result EXCEPT ![p] = BaseValue]
                 ELSE UNCHANGED result
              /\ seen' = seen \cup IF sets /\ ~o.session THEN {"setLost"} ELSE {}
        /\ UNCHANGED <<rows, tables, globals, base, inited, commands>>

(* The backend reads from address 0, and takes the others with it.         *)
NullRead(p) ==
    LET o == me[p].op
    IN  /\ ReadsNull(p)
        /\ \/ At(p, "setSession") /\ copy[p][o.var] # Absent /\ Ours(o.var)
           \/ At(p, "setGlobal") /\ globals[o.var] # Absent /\ Settable(o.var)
           \/ At(p, "dynCopy") /\ Sets(o)
        /\ Restart

-----------------------------------------------------------------------------
Step(p) ==
    \/ ReadBase(p) \/ Lookup(p) \/ PopFree(p) \/ Link(p) \/ SpinInit(p)
    \/ SpinAcquire(p) \/ Stuck(p) \/ InitVars(p)
    \/ StartSet(p) \/ ReadDefault(p) \/ SetSession(p) \/ SetGlobal(p)
    \/ WriteGlobal(p) \/ CopyOwn(p) \/ StartGet(p) \/ GetGlobal(p)
    \/ DynRead(p) \/ DynEnter(p) \/ DynFill(p) \/ DynCopy(p) \/ NullRead(p)

Next ==
    \/ InsertRow
    \/ \E p \in Session : (\E o \in Statements : Command(p, o)) \/ Reconnect(p) \/ Step(p)

Spec == Init /\ [][Next]_vars

(* A backend goes on with its statement.                                   *)
FairSpec == Spec /\ \A p \in Session : WF_vars(Step(p))

-----------------------------------------------------------------------------
(* Every variable has its type: no reader takes an entry that is not there *)
(* for a value (the tests of found in systemVar.c).                        *)
TypeOK ==
    /\ rows \subseteq Vars
    /\ linked \in Cells \cup {NoCell} /\ freeHead \in Nat
    /\ mutex \in [Cells -> {0, 1}]
    /\ initFlag \in BOOLEAN
    /\ globals \in [Vars -> Values \cup {Absent, Half}]
    /\ me \in [Session -> [pc : Labels, op : Statements \cup {NoOp}, goal : Labels,
                          cell : Cells \cup {NoCell}, val : Values \cup {Half}]]
    /\ held \subseteq Session /\ inited \subseteq Session
    /\ base \in [Session -> SUBSET Vars]
    /\ copy \in [Session -> [Vars -> Values \cup {Absent, Half}]]
    /\ result \in [Session -> Values \cup {Half}]
    /\ commands \in 0 .. MaxCommands
    /\ seen \subseteq Events
    /\ stale \subseteq Session \X Vars

(* The spinlock is taken exactly while one backend is between              *)
(* lockGlobalSystemVars and unlockGlobalSystemVars: every early return and *)
(* refusal of a SET or SELECT releases it.  What breaks this is an error   *)
(* raised inside, and the first use of the lock by two backends at once.   *)
LockHasOneHolder ==
    seen \cap {"escaped", "overlapped"} = {} =>
        /\ \A p, q \in held : p = q
        /\ \A c \in Cells : mutex[c] = 1 <=> \E p \in held : me[p].cell = c

(* The rule of spin.h, that nothing interrupts a holder: a taken spinlock  *)
(* is held by a backend that will release it.  SET GLOBAL optimizer_switch *)
(* with an unknown name raises its error between lock and unlock.          *)
TakenIsHeld ==
    "overlapped" \notin seen =>
        \A c \in Cells : mutex[c] = 1 => \E p \in held : me[p].cell = c

(* A value read from the global table is one that somebody set or the      *)
(* table gave, never an entry that is being written, unless entries were   *)
(* added without the lock or two backends have created it.                 *)
ReadsWhole ==
    seen \cap {"overlapped", "unlockedAdd"} = {} =>
        \A p \in Session : result[p] # Half /\ me[p].val # Half

(* A session reads a global variable (type 1) through its copy.  The copy  *)
(* has the global value, except while the session itself is writing it,    *)
(* after another session has set it, or in a session that began after it   *)
(* was set.                                                                *)
CopyCurrent ==
    seen \cap {"overlapped", "unlockedAdd", "setLost"} = {} =>
        \A p \in inited, v \in Vars :
            \/ ~Copied(v) \/ copy[p][v] = Absent
            \/ globals[v] \in {Absent, Half} \/ <<p, v>> \in stale
            \/ At(p, "copyOwn")
            \/ copy[p][v] = globals[v]

(* Every SET and SELECT ends, also when the lock it waits for was left     *)
(* taken: the wait ends in a PANIC and a restart.                          *)
EveryStatementEnds ==
    \A p \in Session : []<>At(p, "idle")
=============================================================================
