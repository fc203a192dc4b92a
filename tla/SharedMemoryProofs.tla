------------------------- MODULE SharedMemoryProofs -------------------------
(***************************************************************************)
(* Proofs about the two parts of the MySQL layer that backends share       *)
(* behind a spinlock whose entry the first of them creates: the system     *)
(* variables (SystemVars) and the counter of uuid_short() (UuidShort).     *)
(*                                                                         *)
(* SystemVars for any number of backends, any rows and any statements: the *)
(* variables have their types, the spinlock of the global variables has    *)
(* one holder, no half-written value is read, and a session's copy of a    *)
(* variable that is global only is current, each up to the events its      *)
(* definition names.                                                       *)
(*                                                                         *)
(* UuidShort for any number of backends, any base and any bound:           *)
(* uuid_short() is mutually exclusive and hands out consecutive values as  *)
(* long as no call overlapped the creation of the lock entry.              *)
(***************************************************************************)
EXTENDS SystemVars, UuidShort, SequenceTheorems, TLAPS

(* Where a backend holds the lock, and where it may.                       *)
Inside == {"init", "readDefault", "setGlobal", "writeGlobal", "getGlobal"}
Dyn == {"dynRead", "dynEnter", "dynFill", "dynCopy"}
Locking == {"lookup", "pop", "link", "spininit", "acquire"}
Goals == Inside \ {"writeGlobal"}
Outside == Labels \ (Inside \cup (Locking \ {"lookup"}))

(* A statement is under way except at idle; the lock leads to where it is  *)
(* needed, and is held exactly there.                                      *)
Control ==
    \A p \in Session :
        /\ me[p].pc # "idle" => me[p].op \in Statements
        /\ me[p].pc \in Locking => me[p].goal \in Goals
        /\ p \in held => me[p].pc \in Inside \cup Dyn
        /\ me[p].pc \in Inside => p \in held
        /\ me[p].pc \in {"link", "spininit", "acquire"} => me[p].cell \in Cells
        /\ p \in held => me[p].cell \in Cells

(* One backend creates the lock before anybody waits for it; afterwards    *)
(* there is one lock, taken by at most one backend.                        *)
OneLock ==
    "overlapped" \notin seen =>
        /\ \A p, q \in Session : Creating(p) /\ Creating(q) => p = q
        /\ \A p \in Session :
             /\ me[p].pc \in {"pop", "link"} => linked = NoCell
             /\ me[p].pc = "spininit" => linked = me[p].cell
             /\ Creating(p) => held = {} /\ \A q \in Session : me[q].pc # "acquire"
             /\ me[p].pc = "acquire" \/ p \in held =>
                  linked # NoCell /\ me[p].cell = linked
             /\ p \in held => mutex[me[p].cell] = 1
        /\ \A p, q \in held : p = q
        /\ \A c \in Cells : mutex[c] = 1 => c = linked
        /\ "escaped" \notin seen => \A c \in Cells : mutex[c] = 1 => held # {}

(* Whoever writes an entry has the lock, and nobody has seen it half done. *)
Whole ==
    seen \cap {"overlapped", "unlockedAdd"} = {} =>
        /\ \A v \in Vars : globals[v] = Half =>
             \E p \in held : me[p].op.var = v /\ me[p].pc \in {"writeGlobal", "dynFill"}
        /\ \A p \in Session :
             /\ result[p] # Half /\ me[p].val # Half
             /\ \A v \in Vars : copy[p][v] # Half

(* A statement runs in a backend that has its copies.                      *)
Prepared ==
    \A p \in Session :
        \/ me[p].pc \in {"idle", "readBase", "init"}
        \/ me[p].pc \in Locking /\ me[p].goal = "init"
        \/ p \in inited

Writing(p, v) == At(p, "copyOwn") /\ Var(p) = v
Filling(p, v) == At(p, "dynFill") /\ Var(p) = v

(* Nobody has set v: all copies have the value of base_variables.          *)
Untouched(v) ==
    \A p \in Session : copy[p][v] \in {Absent, BaseValue} /\ ~Writing(p, v)

(* The copies of v are current: CopyCurrent, and what makes them so when   *)
(* the entry is added, filled or copied.                                   *)
Current(v) ==
    /\ globals[v] = Absent => Untouched(v)
    /\ \A p \in Session : Filling(p, v) => Untouched(v)
    /\ \A p \in Session : Writing(p, v) =>
         globals[v] = Half \/ <<p, v>> \in stale \/ globals[v] = me[p].val
    /\ \A p \in inited :
         \/ copy[p][v] = Absent \/ globals[v] \in {Absent, Half}
         \/ <<p, v>> \in stale \/ Writing(p, v) \/ copy[p][v] = globals[v]

Regular == seen \cap {"overlapped", "unlockedAdd", "setLost"} = {}

Copies ==
    Regular =>
        /\ \A p \in Session : At(p, "dynFill") => p \in held
        /\ \A p \in Session : At(p, "copyOwn") => Copied(Var(p))
        /\ \A v \in Vars : Copied(v) => Current(v)

(* The invariant of the theorems.                                          *)
IInv == TypeOK /\ Control /\ OneLock /\ Whole /\ Prepared /\ Copies

-----------------------------------------------------------------------------
(* What a step of p does to the locals and to the lock.                    *)
MeType ==
    [Session -> [pc : Labels, op : Statements \cup {NoOp}, goal : Labels,
                 cell : Cells \cup {NoCell}, val : Values \cup {Half}]]

Others(p) == \A q \in Session : q # p => me'[q] = me[q]

Ended(p) == me' \in MeType /\ Others(p) /\ me'[p] = Idle

Moved(p, L) ==
    /\ me' \in MeType /\ Others(p)
    /\ me'[p].pc \in L
    /\ me'[p].op = me[p].op /\ me'[p].cell = me[p].cell
    /\ me'[p].pc = "lookup" => me'[p].goal \in Goals

SameEvents == \A e \in {"overlapped", "escaped"} : e \in seen' <=> e \in seen

Quiet(p) ==
    /\ p \notin held /\ me[p].pc # "lookup" /\ UNCHANGED <<held, mutex, linked>>
    /\ SameEvents
    /\ Ended(p) \/ (Moved(p, Outside \ {"idle"}) /\ me[p].pc # "idle")

Holds(p) ==
    /\ p \in held /\ UNCHANGED <<held, mutex, linked>>
    /\ SameEvents
    /\ Moved(p, {"writeGlobal"} \cup Dyn)

Releases(p) ==
    /\ p \in held /\ held' = held \ {p}
    /\ mutex' = [mutex EXCEPT ![me[p].cell] = 0] /\ UNCHANGED linked
    /\ SameEvents
    /\ Ended(p) \/ Moved(p, {"start", "setSession", "copyOwn"})

Escapes(p) ==
    /\ p \in held /\ held' = held \ {p} /\ UNCHANGED <<mutex, linked>>
    /\ "escaped" \in seen' /\ ("overlapped" \in seen' <=> "overlapped" \in seen)
    /\ Ended(p)

(* Most steps below are first-order; the others name their prover.         *)
USE Zenon

(* The fields of a statement.                                              *)
LEMMA OpFields ==
    \A o \in Statements : /\ o.var \in Vars
                          /\ o.session \in BOOLEAN
                          /\ o.do \in {"set", "null", "default", "get"}
                          /\ o.do = "set" => o.val \in Values
<1> SUFFICES ASSUME NEW o \in Ops
             PROVE  /\ o.var \in Vars /\ o.session \in BOOLEAN
                    /\ o.do \in {"set", "null", "default", "get"}
                    /\ o.do = "set" => o.val \in Values
    BY SysVarsAssumption
<1>1. CASE o \in [do : {"set"}, session : BOOLEAN, var : Vars, val : Values]
    BY <1>1
<1>2. CASE o \in [do : {"null", "default", "get"}, session : BOOLEAN, var : Vars]
    BY <1>2
<1> QED
    BY <1>1, <1>2 DEF Ops

(* The value a SET begins with.                                            *)
LEMMA NewValueType == \A o \in Statements : NewValue(o) \in Values
  BY OpFields, SysVarsAssumption DEF NewValue

(* End leaves the backend idle.                                            *)
LEMMA EndEffect ==
    ASSUME NEW p \in Session, me \in MeType, End(p)
    PROVE  Ended(p)
<1>1. Idle \in [pc : Labels, op : Statements \cup {NoOp}, goal : Labels,
                cell : Cells \cup {NoCell}, val : Values \cup {Half}]
    BY SysVarsAssumption DEF Idle, Labels
<1> QED
    BY <1>1 DEF End, MeType, Ended, Others

(* Goto changes the place only.                                            *)
LEMMA GotoEffect ==
    ASSUME NEW p \in Session, me \in MeType, NEW to \in Labels \ {"lookup"}, Goto(p, to)
    PROVE  Moved(p, {to}) /\ me'[p].val = me[p].val /\ me'[p].goal = me[p].goal
BY DEF Goto, MeType, Moved, Others

(* Lock leads to its goal.                                                 *)
LEMMA LockEffect ==
    ASSUME NEW p \in Session, me \in MeType, NEW g \in Goals, Lock(p, g)
    PROVE  Moved(p, {"lookup"}) /\ me'[p].val = me[p].val /\ me'[p].goal = g
<1>1. g \in Labels /\ "lookup" \in Labels
    BY DEF Goals, Inside, Labels
<1> DEFINE R == [me[p] EXCEPT !.pc = "lookup", !.goal = g]
<1>2. me' = [me EXCEPT ![p] = R]
    BY DEF Lock, MeType
<1>3. R \in [pc : Labels, op : Statements \cup {NoOp}, goal : Labels,
             cell : Cells \cup {NoCell}, val : Values \cup {Half}]
    BY <1>1 DEF MeType
<1>4. me' \in MeType
    BY <1>2, <1>3 DEF MeType
<1>5. me'[p] = R /\ \A q \in Session : q # p => me'[q] = me[q]
    BY <1>2 DEF MeType
<1>6. /\ R.pc = "lookup" /\ R.goal = g
      /\ R.op = me[p].op /\ R.cell = me[p].cell /\ R.val = me[p].val
    BY DEF MeType
<1> HIDE DEF R
<1> QED
    BY <1>4, <1>5, <1>6 DEF Moved, Others

(* Unlock releases the lock and goes on or ends.                           *)
LEMMA UnlockEffect ==
    ASSUME NEW p \in held, p \in Session, me \in MeType,
           NEW to \in {"idle", "start", "setSession", "copyOwn"}, Unlock(p, to)
    PROVE  /\ held' = held \ {p}
           /\ mutex' = [mutex EXCEPT ![me[p].cell] = 0]
           /\ to = "idle" => Ended(p)
           /\ to # "idle" => Moved(p, {to}) /\ me'[p].val = me[p].val
<1>1. CASE to = "idle"
    BY <1>1, EndEffect DEF Unlock
<1>2. CASE to # "idle"
    BY <1>2, GotoEffect DEF Unlock, Labels
<1> QED
    BY <1>1, <1>2

(* An error with the lock held leaves it taken.                            *)
LEMMA RaiseEffect ==
    ASSUME NEW p \in Session, me \in MeType, Raise(p), UNCHANGED <<mutex, linked>>,
           me[p].pc # "lookup"
    PROVE  Ended(p) /\ (Escapes(p) \/ Quiet(p))
BY EndEffect DEF Raise, Escapes, Quiet, SameEvents

(* The steps that do not take the lock are of one of the four kinds.       *)
LEMMA StepKinds ==
    ASSUME TypeOK, Control, NEW p \in Session,
           \/ ReadBase(p) \/ InitVars(p) \/ StartSet(p) \/ ReadDefault(p)
           \/ SetSession(p) \/ SetGlobal(p) \/ WriteGlobal(p) \/ CopyOwn(p)
           \/ StartGet(p) \/ GetGlobal(p) \/ DynRead(p) \/ DynEnter(p)
           \/ DynFill(p) \/ DynCopy(p)
    PROVE  Quiet(p) \/ Holds(p) \/ Releases(p) \/ Escapes(p)
<1>m. me \in MeType
    BY DEF TypeOK, MeType
<1>l. \A l \in Labels : l \in Outside <=> l \notin Inside \cup (Locking \ {"lookup"})
    BY DEF Outside
<1>1. CASE ReadBase(p)
  <2>1. me[p].pc = "readBase" /\ p \notin held /\ UNCHANGED <<mutex, linked>>
    BY <1>1 DEF ReadBase, At, Control, Inside, Dyn, shared, tables, table
  <2>2. CASE Raise(p)
    BY <2>1, <2>2, <1>m, RaiseEffect
  <2>3. CASE Lock(p, "init") /\ UNCHANGED <<held, seen>>
    <3>1. Moved(p, {"lookup"})
      BY <2>3, <1>m, LockEffect DEF Goals, Inside
    <3> QED
      BY <3>1, <2>1, <2>3 DEF Quiet, SameEvents, Moved, Outside, Inside, Locking, Labels
  <2> QED
    BY <1>1, <2>2, <2>3 DEF ReadBase
<1>2. CASE InitVars(p)
  <2>1. me[p].pc = "init" /\ p \in held /\ UNCHANGED linked
    BY <1>2 DEF InitVars, At, Control, Inside, table
  <2>2. CASE Raise(p) /\ UNCHANGED mutex
    BY <2>1, <2>2, <1>m, RaiseEffect
  <2>3. CASE Unlock(p, "start") /\ UNCHANGED seen
    BY <2>1, <2>3, <1>m, UnlockEffect DEF Releases, SameEvents, Moved
  <2> QED
    BY <1>2, <2>2, <2>3 DEF InitVars
<1>3. CASE StartSet(p)
  <2>1. /\ me[p].pc = "start" /\ p \notin held /\ me[p].op \in Statements
        /\ UNCHANGED <<held, mutex, linked, seen>>
    BY <1>3 DEF StartSet, At, Control, Inside, Dyn, shared, tables, table, history
  <2>2. CASE End(p)
    BY <2>1, <2>2, <1>m, EndEffect DEF Quiet, SameEvents
  <2>3. ASSUME NEW to \in {"setGlobal", "readDefault", "setSession"},
               NEW w \in Values,
               NEW l \in {"lookup", "setSession"}, l = "lookup" => to # "setSession",
               me' = [me EXCEPT ![p] = [@ EXCEPT !.val = w, !.pc = l, !.goal = to]]
        PROVE  Quiet(p)
    <3>0. to \in Labels /\ l \in Labels /\ (l = "lookup" => to \in Goals)
      BY <2>3 DEF Labels, Goals, Inside
    <3> DEFINE R == [me[p] EXCEPT !.val = w, !.pc = l, !.goal = to]
    <3>1. me' = [me EXCEPT ![p] = R]
      BY <2>3
    <3>2. /\ R \in [pc : Labels, op : Statements \cup {NoOp}, goal : Labels,
                    cell : Cells \cup {NoCell}, val : Values \cup {Half}]
          /\ R.pc = l /\ R.goal = to /\ R.op = me[p].op /\ R.cell = me[p].cell
      BY <3>0, <1>m DEF MeType
    <3>4. me' \in MeType /\ me'[p] = R /\ Others(p)
      BY <3>1, <3>2, <1>m DEF MeType, Others
    <3>3. Moved(p, Outside \ {"idle"})
      BY <3>0, <3>2, <3>4 DEF Moved, Outside, Inside, Locking, Labels
    <3> QED
      BY <3>3, <2>1 DEF Quiet, SameEvents
  <2>4. NewValue(me[p].op) \in Values
    BY <2>1, NewValueType
  <2>5. CASE \E to \in {"setGlobal", "readDefault", "setSession"} :
               me' = [me EXCEPT ![p] =
                   [@ EXCEPT !.val = NewValue(me[p].op),
                             !.pc = IF to = "setSession" THEN to ELSE "lookup",
                             !.goal = to]]
    BY <2>5, <2>3, <2>4
  <2> QED
    BY <1>3, <2>2, <2>5 DEF StartSet
<1>4. CASE ReadDefault(p)
  <2>1. /\ me[p].pc = "readDefault" /\ p \in held /\ me[p].op \in Statements
        /\ held' = held \ {p} /\ mutex' = [mutex EXCEPT ![me[p].cell] = 0]
        /\ UNCHANGED <<linked, seen>>
    BY <1>4 DEF ReadDefault, At, Control, Inside, tables, table, history
  <2>2. CASE End(p)
    BY <2>1, <2>2, <1>m, EndEffect DEF Releases, SameEvents
  <2>3. ASSUME NEW w \in Values \cup {Half},
               me' = [me EXCEPT ![p].pc = "setSession", ![p].val = w]
        PROVE  Releases(p)
    <3> DEFINE R == [me[p] EXCEPT !.pc = "setSession", !.val = w]
    <3>1. "setSession" \in Labels /\ me' = [me EXCEPT ![p] = R]
      BY <2>3, <1>m DEF MeType, Labels
    <3>2. me' \in MeType /\ me'[p] = R /\ Others(p)
      BY <3>1, <1>m DEF MeType, Others
    <3>3. Moved(p, {"setSession"})
      BY <3>2, <1>m DEF Moved, MeType
    <3> QED
      BY <3>3, <2>1 DEF Releases, SameEvents, Moved
  <2>4. globals[Var(p)] # Absent => globals[Var(p)] \in Values \cup {Half}
    BY <2>1, OpFields DEF TypeOK, Var
  <2> QED
    BY <1>4, <2>2, <2>3, <2>4 DEF ReadDefault
<1>5. CASE SetSession(p) \/ CopyOwn(p)
  <2>1. /\ me[p].pc \in {"setSession", "copyOwn"} /\ p \notin held
        /\ End(p) \/ Goto(p, "dynRead")
        /\ UNCHANGED <<held, mutex, linked, seen>>
    BY <1>5 DEF SetSession, CopyOwn, At, Control, Inside, Dyn, shared, tables,
        table, history
  <2>2. CASE End(p)
    BY <2>1, <2>2, <1>m, EndEffect DEF Quiet, SameEvents
  <2>3. CASE Goto(p, "dynRead")
    <3>1. Moved(p, {"dynRead"})
      BY <2>3, <1>m, GotoEffect DEF Labels
    <3> QED
      BY <3>1, <2>1 DEF Quiet, SameEvents, Moved, Outside, Inside, Locking, Labels
  <2> QED
    BY <2>1, <2>2, <2>3
<1>6. CASE SetGlobal(p)
  <2>1. me[p].pc = "setGlobal" /\ p \in held /\ UNCHANGED linked
    BY <1>6 DEF SetGlobal, At, Control, Inside, tables, table
  <2>2. ASSUME NEW to \in {"dynRead", "writeGlobal"}, Goto(p, to),
               UNCHANGED <<mutex, held, seen>>
        PROVE  Holds(p)
    BY <2>1, <2>2, <1>m, GotoEffect DEF Holds, SameEvents, Moved, Dyn, Labels
  <2>3. CASE Unlock(p, "idle") /\ UNCHANGED seen
    BY <2>1, <2>3, <1>m, UnlockEffect DEF Releases, SameEvents, Moved
  <2>4. CASE Raise(p) /\ UNCHANGED mutex
    BY <2>1, <2>4, <1>m, RaiseEffect
  <2> QED
    BY <1>6, <2>2, <2>3, <2>4 DEF SetGlobal
<1>7. CASE WriteGlobal(p)
  <2>1. me[p].pc = "writeGlobal" /\ p \in held /\ UNCHANGED <<linked, seen>>
    BY <1>7 DEF WriteGlobal, At, Control, Inside, tables, table
  <2>2. ASSUME NEW to \in {"copyOwn", "idle"}, Unlock(p, to)  PROVE Releases(p)
    BY <2>1, <2>2, <1>m, UnlockEffect DEF Releases, SameEvents, Moved
  <2> QED
    BY <1>7, <2>2 DEF WriteGlobal
<1>8. CASE StartGet(p)
  <2>1. /\ me[p].pc = "start" /\ p \notin held
        /\ UNCHANGED <<held, mutex, linked, seen>>
    BY <1>8 DEF StartGet, At, Control, Inside, Dyn, shared, tables, table, history
  <2>2. CASE End(p)
    BY <2>1, <2>2, <1>m, EndEffect DEF Quiet, SameEvents
  <2>3. CASE Goto(p, "dynRead")
    <3>1. Moved(p, {"dynRead"})
      BY <2>3, <1>m, GotoEffect DEF Labels
    <3> QED
      BY <3>1, <2>1 DEF Quiet, SameEvents, Moved, Outside, Inside, Locking, Labels
  <2>4. CASE Lock(p, "getGlobal")
    <3>1. Moved(p, {"lookup"})
      BY <2>4, <1>m, LockEffect DEF Goals, Inside
    <3> QED
      BY <3>1, <2>1 DEF Quiet, SameEvents, Moved, Outside, Inside, Locking, Labels
  <2> QED
    BY <1>8, <2>2, <2>3, <2>4 DEF StartGet
<1>9. CASE GetGlobal(p)
  <2>1. me[p].pc = "getGlobal" /\ p \in held /\ UNCHANGED <<linked, seen>>
    BY <1>9 DEF GetGlobal, At, Control, Inside, tables, table, history
  <2>2. CASE Goto(p, "dynRead") /\ UNCHANGED <<mutex, held>>
    BY <2>1, <2>2, <1>m, GotoEffect DEF Holds, SameEvents, Moved, Dyn, Labels
  <2>3. CASE Unlock(p, "idle")
    BY <2>1, <2>3, <1>m, UnlockEffect DEF Releases, SameEvents, Moved
  <2> QED
    BY <1>9, <2>2, <2>3 DEF GetGlobal
<1>10. CASE DynRead(p) \/ DynEnter(p) \/ DynFill(p)
  <2>1. me[p].pc \in Dyn /\ UNCHANGED linked
    BY <1>10 DEF DynRead, DynEnter, DynFill, At, Dyn, tables, table
  <2>2. ASSUME NEW to \in {"dynEnter", "dynFill", "dynCopy"}, Goto(p, to),
               UNCHANGED <<mutex, held>>, SameEvents
        PROVE  Quiet(p) \/ Holds(p)
    <3>1. Moved(p, {to})
      BY <2>2, <1>m, GotoEffect DEF Labels
    <3> QED
      BY <3>1, <2>1, <2>2 DEF Quiet, Holds, Moved, Outside, Inside, Locking, Labels, Dyn
  <2>3. CASE p \in held /\ Unlock(p, "idle") /\ UNCHANGED seen
    BY <2>1, <2>3, <1>m, UnlockEffect DEF Releases, SameEvents, Moved
  <2>4. CASE p \notin held /\ End(p) /\ UNCHANGED <<mutex, held, seen>>
    BY <2>1, <2>4, <1>m, EndEffect DEF Quiet, SameEvents, Dyn
  <2>5. CASE Raise(p) /\ UNCHANGED mutex
    BY <2>1, <2>5, <1>m, RaiseEffect DEF Dyn
  <2>6. CASE DynRead(p)
    BY <2>6, <2>2, <2>3, <2>4, <2>5 DEF DynRead, SameEvents
  <2>7. CASE DynEnter(p) \/ DynFill(p)
    BY <2>7, <2>2 DEF DynEnter, DynFill, SameEvents, history
  <2> QED
    BY <1>10, <2>6, <2>7
<1>11. CASE DynCopy(p)
  <2>1. me[p].pc = "dynCopy" /\ UNCHANGED linked
    BY <1>11 DEF DynCopy, At, tables, table
  <2>2. CASE Raise(p) /\ UNCHANGED mutex
    BY <2>1, <2>2, <1>m, RaiseEffect
  <2>3. ASSUME NEW to \in {"copyOwn", "idle"}, p \in held, Unlock(p, to), SameEvents
        PROVE  Releases(p)
    BY <2>1, <2>3, <1>m, UnlockEffect DEF Releases, Moved
  <2>4. CASE p \notin held /\ End(p) /\ UNCHANGED <<mutex, held>> /\ SameEvents
    BY <2>1, <2>4, <1>m, EndEffect DEF Quiet
  <2> QED
    BY <1>11, <2>2, <2>3, <2>4 DEF DynCopy, SameEvents
<1> QED
    BY <1>1, <1>2, <1>3, <1>4, <1>5, <1>6, <1>7, <1>8, <1>9, <1>10, <1>11

(* A step that creates or takes the lock; the backend's statement and goal *)
(* stay.                                                                   *)
Locks(p, to, c) ==
    /\ me' \in MeType /\ Others(p)
    /\ me'[p].pc = to /\ me'[p].cell = c
    /\ me'[p].op = me[p].op /\ me'[p].goal = me[p].goal /\ me'[p].val = me[p].val

(* What the five steps of lockGlobalSystemVars do to the locals.           *)
LEMMA LockSteps ==
    ASSUME TypeOK, Control, NEW p \in Session
    PROVE  /\ Lookup(p) =>
                Locks(p, IF linked = NoCell THEN "pop" ELSE "acquire", linked)
           /\ PopFree(p) => Locks(p, "link", freeHead)
           /\ Link(p) => Locks(p, "spininit", me[p].cell)
           /\ SpinInit(p) => Locks(p, "acquire", me[p].cell)
           /\ SpinAcquire(p) => Locks(p, me[p].goal, me[p].cell) /\ me[p].goal \in Goals
<1>m. me \in MeType
    BY DEF TypeOK, MeType
<1>1. ASSUME NEW to \in Labels, NEW c \in Cells \cup {NoCell},
             me' = [me EXCEPT ![p].cell = c, ![p].pc = to]
      PROVE  Locks(p, to, c)
    BY <1>1, <1>m DEF MeType, Locks, Others
<1>2. ASSUME Lookup(p)
      PROVE  Locks(p, IF linked = NoCell THEN "pop" ELSE "acquire", linked)
  <2>1. linked \in Cells \cup {NoCell} /\ "pop" \in Labels /\ "acquire" \in Labels
    BY DEF TypeOK, Labels
  <2> QED
    BY <1>1, <1>2, <2>1 DEF Lookup
<1>3. ASSUME PopFree(p)  PROVE Locks(p, "link", freeHead)
  <2>1. "link" \in Labels
    BY DEF Labels
  <2> QED
    BY <1>1, <1>3, <2>1 DEF PopFree
<1>4. ASSUME NEW to \in Labels \ {"lookup"}, Goto(p, to)
      PROVE  Locks(p, to, me[p].cell)
    BY <1>4, <1>m, GotoEffect DEF Moved, Locks
<1>5. ASSUME SpinAcquire(p)
      PROVE  Locks(p, me[p].goal, me[p].cell) /\ me[p].goal \in Goals
  <2>1. me[p].goal \in Goals /\ Goto(p, me[p].goal)
    BY <1>5 DEF SpinAcquire, At, Control, Locking
  <2>2. Goals \subseteq Labels \ {"lookup"}
    BY DEF Goals, Inside, Labels
  <2> QED
    BY <1>4, <2>1, <2>2
<1>6. {"spininit", "acquire"} \subseteq Labels \ {"lookup"}
    BY DEF Labels
<1> QED
    BY <1>2, <1>3, <1>4, <1>5, <1>6 DEF Link, SpinInit

(* Command puts the statement in place.                                    *)
LEMMA CommandEffect ==
    ASSUME me \in MeType, NEW p \in Session, NEW o \in Statements, Command(p, o)
    PROVE  /\ me' \in MeType /\ Others(p)
           /\ me'[p].pc \in {"start", "readBase"} /\ me'[p].op = o
           /\ me'[p].cell = me[p].cell /\ me'[p].val = me[p].val
           /\ me'[p].pc = "start" => p \in inited
<1>1. {"start", "readBase"} \subseteq Labels
    BY DEF Labels
<1> DEFINE l == IF p \in inited THEN "start" ELSE "readBase"
           R == [me[p] EXCEPT !.op = o, !.pc = l]
<1>2. me' = [me EXCEPT ![p] = R]
    BY DEF Command, MeType
<1>3. l \in {"start", "readBase"} /\ (l = "start" => p \in inited)
    BY SMT
<1> HIDE DEF l
<1>4. R \in [pc : Labels, op : Statements \cup {NoOp}, goal : Labels,
             cell : Cells \cup {NoCell}, val : Values \cup {Half}]
    BY <1>1, <1>3 DEF MeType
<1>5. R.pc = l /\ R.op = o /\ R.cell = me[p].cell /\ R.val = me[p].val
    BY DEF MeType
<1> HIDE DEF R
<1> QED
    BY <1>2, <1>3, <1>4, <1>5 DEF MeType, Others

(* A backend dies, and all start over.                                     *)
Dies(p) == Stuck(p) \/ NullRead(p)

LEMMA DiesEffect ==
    ASSUME NEW p \in Session, Dies(p)
    PROVE  Restart /\ me' \in MeType /\ \A q \in Session : me'[q] = Idle
<1>1. Idle \in [pc : Labels, op : Statements \cup {NoOp}, goal : Labels,
                cell : Cells \cup {NoCell}, val : Values \cup {Half}]
    BY SysVarsAssumption DEF Idle, Labels
<1> QED
    BY <1>1 DEF Dies, Stuck, NullRead, Restart, Fresh, MeType

(* A step of Next is one of these.                                         *)
LEMMA NextCases ==
    ASSUME TypeOK, Control, [Next]_vars
    PROVE  \/ UNCHANGED <<me, held, mutex, linked, seen>>
           \/ \E p \in Session :
                \/ \E o \in Statements : Command(p, o)
                \/ Quiet(p) \/ Holds(p) \/ Releases(p) \/ Escapes(p)
                \/ Lookup(p) \/ PopFree(p) \/ Link(p) \/ SpinInit(p)
                \/ SpinAcquire(p) \/ Dies(p)
<1>1. CASE UNCHANGED vars \/ InsertRow \/ \E p \in Session : Reconnect(p)
    BY <1>1 DEF vars, InsertRow, Reconnect, shared, tables, table, history
<1>2. ASSUME NEW p \in Session, Step(p)
      PROVE  \/ Quiet(p) \/ Holds(p) \/ Releases(p) \/ Escapes(p)
             \/ Lookup(p) \/ PopFree(p) \/ Link(p) \/ SpinInit(p)
             \/ SpinAcquire(p) \/ Dies(p)
    BY <1>2, StepKinds DEF Step, Dies
<1> QED
    BY <1>1, <1>2 DEF Next

(* Every step keeps Control, and the type of me.                           *)
LEMMA ControlStep ==
    ASSUME TypeOK, Control, [Next]_vars
    PROVE  Control' /\ me' \in MeType
<1>m. me \in MeType
    BY DEF TypeOK, MeType
<1> DEFINE C(m, h, q) ==
        /\ m.pc # "idle" => m.op \in Statements
        /\ m.pc \in Locking => m.goal \in Goals
        /\ q \in h => m.pc \in Inside \cup Dyn
        /\ m.pc \in Inside => q \in h
        /\ m.pc \in {"link", "spininit", "acquire"} => m.cell \in Cells
        /\ q \in h => m.cell \in Cells
<1>c. \A q \in Session : C(me[q], held, q)
    BY DEF Control
<1>d. ASSUME \A q \in Session : C(me'[q], held', q)  PROVE Control'
    BY <1>d DEF Control
<1>o. ASSUME NEW p \in Session, Others(p), held' \in {held, held \cup {p}, held \ {p}},
             C(me'[p], held', p)
      PROVE  Control'
    BY <1>c, <1>d, <1>o DEF Others
<1>1. CASE UNCHANGED <<me, held, mutex, linked, seen>>
    BY <1>1, <1>c, <1>d, <1>m
<1>2. ASSUME NEW p \in Session, NEW o \in Statements, Command(p, o)
      PROVE  Control' /\ me' \in MeType
  <2>1. held' = held /\ p \notin held
    BY <1>2, <1>c DEF Command, At, Inside, Dyn
  <2>2. C(me'[p], held', p)
    BY <2>1, <1>2, <1>m, CommandEffect DEF Locking, Inside
  <2> QED
    BY <2>1, <2>2, <1>o, <1>2, <1>m, CommandEffect
<1>3. ASSUME NEW p \in Session, Quiet(p) \/ Holds(p) \/ Releases(p) \/ Escapes(p)
      PROVE  Control' /\ me' \in MeType
  <2>0. Others(p) /\ me' \in MeType /\ held' \in {held, held \cup {p}, held \ {p}}
    BY <1>3 DEF Quiet, Holds, Releases, Escapes, Ended, Moved
  <2>5. C(me'[p], held', p)
    <3>1. CASE Ended(p) /\ p \notin held'
      BY <3>1, SMT DEF Ended, Idle, Locking, Inside
    <3>2. CASE Quiet(p) /\ Moved(p, Outside \ {"idle"}) /\ me[p].pc # "idle"
      BY <3>2, <1>c DEF Quiet, Moved, Outside, Locking, Inside, Labels
    <3>3. CASE Holds(p)
      BY <3>3, <1>c DEF Holds, Moved, Locking, Inside, Dyn
    <3>4. CASE Releases(p) /\ Moved(p, {"start", "setSession", "copyOwn"})
      BY <3>4, <1>c DEF Releases, Moved, Locking, Inside, Dyn
    <3> QED
      BY <1>3, <3>1, <3>2, <3>3, <3>4 DEF Quiet, Releases, Escapes
  <2> QED
    BY <2>0, <2>5, <1>o
<1>4. ASSUME NEW p \in Session, Lookup(p)  PROVE Control' /\ me' \in MeType
  <2>1. held' = held /\ p \notin held /\ me[p].pc = "lookup"
    BY <1>4, <1>c DEF Lookup, At, Inside, Dyn
  <2>2. Locks(p, IF linked = NoCell THEN "pop" ELSE "acquire", linked)
    BY <1>4, LockSteps
  <2>3. linked # NoCell => linked \in Cells
    BY DEF TypeOK
  <2>4. C(me'[p], held', p)
    BY <2>1, <2>2, <2>3, <1>c DEF Locks, Locking, Inside
  <2> QED
    BY <2>1, <2>2, <2>4, <1>o DEF Locks
<1>5. ASSUME NEW p \in Session, PopFree(p) \/ Link(p) \/ SpinInit(p)
      PROVE  Control' /\ me' \in MeType
  <2>1. held' = held /\ p \notin held /\ me[p].pc \in {"pop", "link", "spininit"}
    BY <1>5, <1>c DEF PopFree, Link, SpinInit, At, Inside, Dyn
  <2>2. \E c \in Cells : Locks(p, "link", c) \/ Locks(p, "spininit", c) \/ Locks(p, "acquire", c)
    BY <1>5, <1>c, LockSteps DEF PopFree, Link, SpinInit, At
  <2>3. C(me'[p], held', p)
    BY <2>1, <2>2, <1>c DEF Locks, Locking, Inside
  <2> QED
    BY <2>1, <2>2, <2>3, <1>o DEF Locks
<1>6. ASSUME NEW p \in Session, SpinAcquire(p)  PROVE Control' /\ me' \in MeType
  <2>1. held' = held \cup {p} /\ me[p].pc = "acquire"
    BY <1>6 DEF SpinAcquire, At
  <2>2. Locks(p, me[p].goal, me[p].cell) /\ me[p].goal \in Goals
    BY <1>6, LockSteps
  <2>3. C(me'[p], held', p)
    BY <2>1, <2>2, <1>c DEF Locks, Goals, Locking, Inside
  <2> QED
    BY <2>1, <2>2, <2>3, <1>o DEF Locks
<1>7. ASSUME NEW p \in Session, Dies(p)  PROVE Control' /\ me' \in MeType
  <2>1. held' = {} /\ me' \in MeType /\ \A q \in Session : me'[q] = Idle
    BY <1>7, DiesEffect DEF Restart
  <2> QED
    BY <2>1, <1>d, SMT DEF Idle, Locking, Inside
<1> QED
    BY <1>1, <1>2, <1>3, <1>4, <1>5, <1>6, <1>7, NextCases

(* Every step keeps OneLock: a step of p changes what it says of p, and    *)
(* taking the lock finds it free.                                          *)
LEMMA OneLockStep ==
    ASSUME TypeOK, Control, OneLock, [Next]_vars
    PROVE  OneLock'
<1>m. mutex \in [Cells -> {0, 1}] /\ linked \in Cells \cup {NoCell} /\ NoCell \notin Cells
    BY SMT DEF TypeOK, Cells, NoCell
<1>1. CASE UNCHANGED <<me, held, mutex, linked, seen>>
    BY <1>1 DEF OneLock, Creating
<1>2. ASSUME NEW p \in Session, NEW o \in Statements, Command(p, o)
      PROVE  OneLock'
  <2>1. /\ UNCHANGED <<held, mutex, linked, seen>> /\ p \notin held
    BY <1>2 DEF Command, At, Control, Inside, Dyn, shared, tables, table
  <2>2. Others(p) /\ me'[p].pc \in {"start", "readBase"}
    BY <1>2, CommandEffect DEF TypeOK, MeType
  <2> QED
    BY <2>1, <2>2 DEF OneLock, Creating, Others
<1>3. ASSUME NEW p \in Session, Quiet(p)  PROVE OneLock'
  <2>1. Others(p) /\ ~Creating(p)' /\ me'[p].pc # "acquire"
    BY <1>3, SMT DEF Quiet, Ended, Moved, Idle, Outside, Locking, Creating
  <2> QED
    BY <1>3, <2>1 DEF Quiet, SameEvents, OneLock, Creating, Others
<1>4. ASSUME NEW p \in Session, Holds(p)  PROVE OneLock'
  <2>1. Others(p) /\ ~Creating(p)' /\ me'[p].pc # "acquire" /\ me'[p].cell = me[p].cell
    BY <1>4 DEF Holds, Moved, Dyn, Creating
  <2> QED
    BY <1>4, <2>1, SMT DEF Holds, SameEvents, OneLock, Creating, Others
<1>5. ASSUME NEW p \in Session, Releases(p)  PROVE OneLock'
  <2>1. Others(p) /\ ~Creating(p)' /\ me'[p].pc # "acquire"
    BY <1>5, SMT DEF Releases, Ended, Moved, Idle, Creating
  <2>2. me[p].cell \in Cells /\ \A c \in Cells :
            mutex'[c] = IF c = me[p].cell THEN 0 ELSE mutex[c]
    BY <1>5, <1>m DEF Releases, Control
  <2> QED
    BY <1>5, <1>m, <2>1, <2>2, SMT DEF Releases, SameEvents, OneLock, Creating, Others
<1>6. ASSUME NEW p \in Session, Escapes(p)  PROVE OneLock'
  <2>1. Others(p) /\ ~Creating(p)' /\ me'[p].pc # "acquire"
    BY <1>6, SMT DEF Escapes, Ended, Idle, Creating
  <2> QED
    BY <1>6, <2>1 DEF Escapes, OneLock, Creating, Others
<1>7. ASSUME NEW p \in Session, Lookup(p)  PROVE OneLock'
  <2>1. /\ UNCHANGED <<held, mutex, linked>> /\ p \notin held /\ me[p].pc = "lookup"
        /\ ("overlapped" \notin seen' => \A q \in Session : ~Creating(q))
        /\ (\A e \in {"overlapped", "escaped"} : e \notin seen' => e \notin seen)
    BY <1>7 DEF Lookup, At, Control, Inside, Dyn, shared, tables, table
  <2>2. Locks(p, IF linked = NoCell THEN "pop" ELSE "acquire", linked)
    BY <1>7, LockSteps
  <2>3. CASE linked = NoCell
    <3>1. Others(p) /\ me'[p].pc = "pop"
      BY <2>2, <2>3 DEF Locks
    <3>2. ASSUME "overlapped" \notin seen'
          PROVE  held = {} /\ \A q \in Session : me[q].pc # "acquire" /\ ~Creating(q)
      BY <2>1, <2>3, <3>2 DEF OneLock, TypeOK
    <3> QED
      BY <2>1, <2>3, <3>1, <3>2, SMT DEF OneLock, Creating, Others
  <2>4. CASE linked # NoCell
    <3>1. Others(p) /\ me'[p].pc = "acquire" /\ me'[p].cell = linked
      BY <2>2, <2>4 DEF Locks
    <3> QED
      BY <2>1, <2>4, <3>1, SMT DEF OneLock, Creating, Others
  <2> QED
    BY <2>3, <2>4
<1>8. ASSUME NEW p \in Session, PopFree(p)  PROVE OneLock'
  <2>1. UNCHANGED <<held, mutex, linked, seen>> /\ me[p].pc = "pop"
    BY <1>8 DEF PopFree, At, shared, tables, table, history
  <2>2. Others(p) /\ me'[p].pc = "link"
    BY <1>8, LockSteps DEF Locks
  <2> QED
    BY <2>1, <2>2, SMT DEF OneLock, Creating, Others
<1>9. ASSUME NEW p \in Session, Link(p)  PROVE OneLock'
  <2>1. UNCHANGED <<held, mutex, seen>> /\ linked' = me[p].cell /\ me[p].pc = "link"
    BY <1>9 DEF Link, At, history
  <2>2. Others(p) /\ me'[p].pc = "spininit" /\ me'[p].cell = me[p].cell
    BY <1>9, LockSteps DEF Locks
  <2>3. ASSUME "overlapped" \notin seen  PROVE \A c \in Cells : mutex[c] # 1
    BY <1>m, <2>1, <2>3 DEF OneLock
  <2> QED
    BY <2>1, <2>2, <2>3, SMT DEF OneLock, Creating, Others
<1>10. ASSUME NEW p \in Session, SpinInit(p)  PROVE OneLock'
  <2>1. /\ UNCHANGED <<held, linked, seen>> /\ me[p].pc = "spininit"
        /\ me[p].cell \in Cells
        /\ \A c \in Cells : mutex'[c] = IF c = me[p].cell THEN 0 ELSE mutex[c]
    BY <1>10, <1>m DEF SpinInit, At, tables, table, history, Control
  <2>2. Others(p) /\ me'[p].pc = "acquire" /\ me'[p].cell = me[p].cell
    BY <1>10, LockSteps DEF Locks
  <2> QED
    BY <2>1, <2>2, <1>m, SMT DEF OneLock, Creating, Others
<1>11. ASSUME NEW p \in Session, SpinAcquire(p)  PROVE OneLock'
  <2>1. /\ UNCHANGED <<linked, seen>> /\ me[p].pc = "acquire" /\ held' = held \cup {p}
        /\ me[p].cell \in Cells /\ mutex[me[p].cell] = 0
        /\ \A c \in Cells : mutex'[c] = IF c = me[p].cell THEN 1 ELSE mutex[c]
    BY <1>11, <1>m DEF SpinAcquire, At, tables, table, history, Control
  <2>2. Others(p) /\ ~Creating(p)' /\ me'[p].pc # "acquire" /\ me'[p].cell = me[p].cell
    BY <1>11, LockSteps DEF Locks, Goals, Inside, Creating
  <2>3. ASSUME "overlapped" \notin seen
        PROVE  held = {} /\ me[p].cell = linked /\ \A q \in Session : ~Creating(q)
    BY <2>1, <2>3, SMT DEF OneLock, TypeOK
  <2> QED
    BY <2>1, <2>2, <2>3, <1>m, SMT DEF OneLock, Creating, Others
<1>12. ASSUME NEW p \in Session, Dies(p)  PROVE OneLock'
  <2>3. Restart /\ \A q \in Session : me'[q] = Idle
    BY <1>12, DiesEffect
  <2>1. held' = {} /\ \A q \in Session : me'[q].pc = "idle"
    BY <2>3, SMT DEF Restart, Idle
  <2>2. \A c \in Cells : mutex'[c] = 0
    BY <2>3 DEF Restart, Fresh
  <2> QED
    BY <2>1, <2>2, SMT DEF OneLock, Creating
<1> QED
    BY <1>1, <1>2, <1>3, <1>4, <1>5, <1>6, <1>7, <1>8, <1>9, <1>10, <1>11, <1>12,
        NextCases

(* The types of everything but the locals.                                 *)
RestType ==
    /\ rows \subseteq Vars
    /\ linked \in Cells \cup {NoCell} /\ freeHead \in Nat
    /\ mutex \in [Cells -> {0, 1}]
    /\ initFlag \in BOOLEAN
    /\ globals \in [Vars -> Values \cup {Absent, Half}]
    /\ held \subseteq Session /\ inited \subseteq Session
    /\ base \in [Session -> SUBSET Vars]
    /\ copy \in [Session -> [Vars -> Values \cup {Absent, Half}]]
    /\ result \in [Session -> Values \cup {Half}]
    /\ commands \in 0 .. MaxCommands
    /\ seen \subseteq Events
    /\ stale \subseteq Session \X Vars

(* Every step keeps the types.                                             *)
LEMMA TypeStep ==
    ASSUME TypeOK, Control, [Next]_vars
    PROVE  TypeOK'
<1>m. me \in MeType /\ me' \in MeType /\ RestType
    BY ControlStep DEF TypeOK, MeType, RestType
<1>a. BaseValue \in Values /\ MaxCommands \in Nat
    BY SysVarsAssumption
<1>s. \A p \in Session : /\ me[p].val \in Values \cup {Half}
                         /\ me[p].cell \in Cells \cup {NoCell}
                         /\ me[p].pc # "idle" => me[p].op.var \in Vars
    BY <1>m, OpFields DEF MeType, Control
<1>n. Cells \subseteq Nat
    BY SMT DEF Cells
<1>1. ASSUME NEW p \in Session, NEW o \in Statements, Command(p, o)  PROVE RestType'
    BY <1>1, <1>m, <1>a, SMT DEF Command, RestType, shared, tables, table, own
<1>2. ASSUME NEW p \in Session, Reconnect(p)  PROVE RestType'
    BY <1>2, <1>m, <1>a, SMT DEF Reconnect, NoCopies, RestType, shared, tables, table
<1>3. ASSUME InsertRow  PROVE RestType'
    BY <1>3, <1>m DEF InsertRow, RestType, shared, tables, table, own, history
<1>u. ASSUME UNCHANGED vars  PROVE RestType'
    BY <1>u, <1>m DEF vars, RestType, shared, tables, table, own, history
<1>4. ASSUME NEW p \in Session, ReadBase(p)  PROVE RestType'
    BY <1>4, <1>m, <1>a, <1>s, <1>n DEF ReadBase, Raise, shared, tables, table, At,
        RestType, Events
<1>5. ASSUME NEW p \in Session, Lookup(p)  PROVE RestType'
    BY <1>5, <1>m, <1>a, <1>s, <1>n DEF Lookup, shared, tables, table, own, At,
        RestType, Events
<1>6. ASSUME NEW p \in Session, PopFree(p)  PROVE RestType'
    BY <1>6, <1>m, <1>a, <1>s, <1>n DEF PopFree, shared, tables, table, own,
        history, At, RestType, Events
<1>7. ASSUME NEW p \in Session, Link(p)  PROVE RestType'
  <2>1. me[p].cell \in Cells /\ me[p].cell + 1 \in Nat
    BY <1>7, SMT DEF Link, At, Control, Cells
  <2> QED
    BY <2>1, <1>7, <1>m, <1>n DEF Link, own, history, RestType
<1>8. ASSUME NEW p \in Session, SpinInit(p)  PROVE RestType'
    BY <1>8, <1>m, <1>a, <1>s, <1>n DEF SpinInit, tables, table, own, history, At,
        RestType, Events
<1>9. ASSUME NEW p \in Session, SpinAcquire(p)  PROVE RestType'
    BY <1>9, <1>m, <1>a, <1>s, <1>n DEF SpinAcquire, tables, table, own, history,
        At, RestType, Events
<1>10. ASSUME NEW p \in Session, Dies(p)  PROVE RestType'
  <2>1. Restart
    BY <1>10, DiesEffect
  <2> QED
    BY <2>1, <1>m, <1>a, <1>n DEF Restart, Fresh, NoCopies, RestType, Events
<1>11. ASSUME NEW p \in Session, InitVars(p)  PROVE RestType'
  <2>1. globals' \in [Vars -> Values \cup {Absent, Half}]
    BY <1>11, <1>m, <1>a DEF InitVars, RestType
  <2>2. ASSUME NEW S \in SUBSET Vars, InitCopies(p, S)
        PROVE  /\ copy' \in [Session -> [Vars -> Values \cup {Absent, Half}]]
               /\ stale' \subseteq Session \X Vars
    BY <2>2, <1>m, <1>a, SMT DEF InitCopies, RestType
  <2>3. /\ base[p] \subseteq Vars
        /\ \A v : {w \in base[p] : Row[w].no <= Row[v].no} \subseteq Vars
    BY <1>m DEF RestType
  <2>4. /\ copy' \in [Session -> [Vars -> Values \cup {Absent, Half}]]
        /\ stale' \subseteq Session \X Vars
    BY <1>11, <2>2, <2>3 DEF InitVars
  <2>5. held' \subseteq Session /\ seen' \subseteq Events /\ mutex' \in [Cells -> {0, 1}]
    BY <1>11, <1>m DEF InitVars, Unlock, Raise, RestType, Events
  <2> QED
    BY <1>11, <1>m, <2>1, <2>4, <2>5 DEF InitVars, RestType, table
<1>12. ASSUME NEW p \in Session, StartSet(p)  PROVE RestType'
    BY <1>12, <1>m, <1>a, <1>s, <1>n DEF StartSet, shared, tables, table, own,
        history, At, RestType, Events
<1>13. ASSUME NEW p \in Session, ReadDefault(p)  PROVE RestType'
    BY <1>13, <1>m, <1>a, <1>s, <1>n DEF ReadDefault, Var, tables, table, own,
        history, At, RestType, Events
<1>14. ASSUME NEW p \in Session, SetSession(p)  PROVE RestType'
  <2>0. me[p].op.var \in Vars /\ me[p].val \in Values \cup {Half}
    BY <1>14, <1>s DEF SetSession, At
  <2>2. copy' = copy \/ copy' = [copy EXCEPT ![p][me[p].op.var] = me[p].val]
    BY <1>14 DEF SetSession, Var
  <2>1. copy' \in [Session -> [Vars -> Values \cup {Absent, Half}]]
    <3> DEFINE f == [copy[p] EXCEPT ![me[p].op.var] = me[p].val]
    <3>1. copy' = copy \/ copy' = [copy EXCEPT ![p] = f]
      BY <2>2, <1>m DEF RestType
    <3>2. copy[p] \in [Vars -> Values \cup {Absent, Half}]
      BY <1>m DEF RestType
    <3>3. f \in [Vars -> Values \cup {Absent, Half}]
      BY <2>0, <3>2
    <3> HIDE DEF f
    <3> QED
      BY <3>1, <3>3, <1>m DEF RestType
  <2> QED
    BY <2>1, <1>14, <1>m DEF SetSession, RestType, shared, tables, table, history
<1>15. ASSUME NEW p \in Session, SetGlobal(p)  PROVE RestType'
    BY <1>15, <1>m, <1>a, <1>s, <1>n DEF SetGlobal, Unlock, Raise, Var, tables,
        table, own, At, RestType, Events
<1>16. ASSUME NEW p \in Session, WriteGlobal(p)  PROVE RestType'
  <2>1. me[p].op.var \in Vars
    BY <1>16, <1>s DEF WriteGlobal, At
  <2>2. stale' \subseteq Session \X Vars
    BY <1>16, <1>m, <2>1, SMT DEF WriteGlobal, Var, RestType
  <2>3. /\ globals' \in [Vars -> Values \cup {Absent, Half}]
        /\ mutex' \in [Cells -> {0, 1}] /\ held' \subseteq Session
    BY <1>16, <1>m, <1>s, <2>1 DEF WriteGlobal, Unlock, Var, RestType
  <2> QED
    BY <2>2, <2>3, <1>16, <1>m DEF WriteGlobal, tables, table, own, RestType
<1>17. ASSUME NEW p \in Session, CopyOwn(p)  PROVE RestType'
    BY <1>17, <1>m, <1>a, <1>s, <1>n DEF CopyOwn, Var, shared, tables, table,
        history, At, RestType, Events
<1>18. ASSUME NEW p \in Session, StartGet(p)  PROVE RestType'
  <2>1. me[p].op.var \in Vars
    BY <1>18, <1>s DEF StartGet, At
  <2>2. copy[p][me[p].op.var] \in Values \cup {Absent, Half}
    BY <2>1, <1>m, SMT DEF RestType
  <2>3. \/ UNCHANGED result
        \/ /\ copy[p][me[p].op.var] # Absent
           /\ result' = [result EXCEPT ![p] = copy[p][me[p].op.var]]
    BY <1>18 DEF StartGet
  <2>4. result' \in [Session -> Values \cup {Half}]
    BY <2>2, <2>3, <1>m DEF RestType
  <2> QED
    BY <2>4, <1>18, <1>m DEF StartGet, shared, tables, table, own, history, RestType
<1>19. ASSUME NEW p \in Session, GetGlobal(p)  PROVE RestType'
  <2>1. mutex' \in [Cells -> {0, 1}] /\ held' \subseteq Session
    BY <1>19, <1>m DEF GetGlobal, Unlock, RestType
  <2>2. me[p].op.var \in Vars
    BY <1>19, <1>s DEF GetGlobal, At
  <2>3. globals[me[p].op.var] \in Values \cup {Absent, Half}
    BY <2>2, <1>m DEF RestType
  <2>4. result' \in [Session -> Values \cup {Half}]
    BY <2>3, <1>19, <1>m DEF GetGlobal, Var, RestType
  <2> QED
    BY <2>1, <2>4, <1>19, <1>m DEF GetGlobal, tables, table, own, history, RestType
<1>20. ASSUME NEW p \in Session, DynRead(p)  PROVE RestType'
  <2>1. base' \in [Session -> SUBSET Vars]
    BY <1>20, <1>m, <1>s, SMT DEF DynRead, Var, At, RestType
  <2>2. held' \subseteq Session /\ seen' \subseteq Events /\ mutex' \in [Cells -> {0, 1}]
    BY <1>20, <1>m DEF DynRead, Unlock, Raise, RestType, Events
  <2> QED
    BY <2>1, <2>2, <1>20, <1>m DEF DynRead, tables, table, RestType
<1>21. ASSUME NEW p \in Session, DynEnter(p)  PROVE RestType'
    BY <1>21, <1>m, <1>a, <1>s, <1>n DEF DynEnter, Var, tables, table, own, At,
        RestType, Events
<1>22. ASSUME NEW p \in Session, DynFill(p)  PROVE RestType'
    BY <1>22, <1>m, <1>a, <1>s, <1>n DEF DynFill, Var, tables, table, own, history,
        At, RestType, Events
<1>23. ASSUME NEW p \in Session, DynCopy(p)  PROVE RestType'
  <2>0. me[p].op.var \in Vars
    BY <1>23, <1>s DEF DynCopy, At
  <2>1. copy' \in [Session -> [Vars -> Values \cup {Absent, Half}]]
    <3> DEFINE v == me[p].op.var
               x == IF copy[p][v] = Absent THEN BaseValue ELSE copy[p][v]
    <3>1. copy' = [copy EXCEPT ![p] = [copy[p] EXCEPT ![v] = x]]
      BY <1>23, <1>m DEF DynCopy, RestType
    <3>2. copy[p] \in [Vars -> Values \cup {Absent, Half}]
      BY <1>m DEF RestType
    <3>3. x \in Values \cup {Absent, Half}
      BY <3>2, <1>a, <2>0
    <3> HIDE DEF x, v
    <3>4. [copy[p] EXCEPT ![v] = x] \in [Vars -> Values \cup {Absent, Half}]
      BY <3>2, <3>3
    <3> QED
      BY <3>1, <3>4, <1>m DEF RestType
  <2>2. stale' \subseteq Session \X Vars
    <3>1. stale' \in {stale, stale \cup {<<p, me[p].op.var>>}}
      BY <1>23 DEF DynCopy
    <3> QED
      BY <3>1, <1>m, <2>0, SMT DEF RestType
  <2>3. held' \subseteq Session /\ seen' \subseteq Events
    BY <1>23, <1>m DEF DynCopy, Unlock, Raise, RestType, Events
  <2>4. mutex' \in [Cells -> {0, 1}]
    BY <1>23, <1>m DEF DynCopy, Unlock, RestType
  <2>5. result' \in [Session -> Values \cup {Half}]
    BY <1>23, <1>m, <1>a DEF DynCopy, RestType
  <2> QED
    BY <2>1, <2>2, <2>3, <2>4, <2>5, <1>23, <1>m DEF DynCopy, tables, table, RestType
<1> QED
  <2>1. RestType'
    BY <1>u, <1>1, <1>2, <1>3, <1>4, <1>5, <1>6, <1>7, <1>8, <1>9, <1>10, <1>11,
        <1>12, <1>13, <1>14, <1>15, <1>16, <1>17, <1>18, <1>19, <1>20, <1>21, <1>22,
        <1>23 DEF Next, Step, Dies
  <2> QED
    BY <2>1, <1>m DEF TypeOK, MeType, RestType

(* A step leaves varValue alone, takes it from the statement or the rows,  *)
(* or reads it with the lock held.                                         *)
LEMMA ValStep ==
    ASSUME TypeOK, Control, [Next]_vars, NEW q \in Session
    PROVE  \/ me'[q].val = me[q].val \/ me'[q].val \in Values
           \/ ReadDefault(q) /\ me'[q].val = globals[me[q].op.var]
                             /\ globals[me[q].op.var] # Absent
<1>m. me \in MeType
    BY DEF TypeOK, MeType
<1>i. Idle.val \in Values
    BY SysVarsAssumption DEF Idle
<1> DEFINE Kept == me'[q].val = me[q].val \/ me'[q].val \in Values
<1>e. ASSUME NEW p \in Session, End(p)  PROVE Kept
    BY <1>e, <1>m, <1>i DEF End, MeType
<1>g. ASSUME NEW p \in Session, NEW l \in Labels, Goto(p, l)  PROVE Kept
    BY <1>g, <1>m DEF Goto, MeType
<1>l. ASSUME NEW p \in Session, NEW l \in Labels, Lock(p, l)  PROVE Kept
    BY <1>l, <1>m DEF Lock, MeType
<1>k. ASSUME NEW p \in Session, NEW l \in Labels, Unlock(p, l)  PROVE Kept
    BY <1>k, <1>e, <1>g DEF Unlock
<1>1. CASE UNCHANGED me
    BY <1>1
<1>2. ASSUME NEW p \in Session, NEW o \in Statements, Command(p, o)  PROVE Kept
    BY <1>2, <1>m, CommandEffect DEF Others
<1>3. ASSUME NEW p \in Session,
             Lookup(p) \/ PopFree(p) \/ Link(p) \/ SpinInit(p) \/ SpinAcquire(p)
      PROVE  Kept
    BY <1>3, LockSteps DEF Locks, Others
<1>4. ASSUME NEW p \in Session, Dies(p)  PROVE Kept
    BY <1>4, <1>i, DiesEffect
<1>5. ASSUME NEW p \in Session, StartSet(p)  PROVE Kept
  <2>1. me[p].op \in Statements
    BY <1>5 DEF StartSet, At, Control
  <2>2. NewValue(me[p].op) \in Values
    BY <2>1, NewValueType
  <2>3. ASSUME NEW w \in Values, NEW l \in {"lookup", "setSession"},
               NEW to \in {"setGlobal", "readDefault", "setSession"},
               me' = [me EXCEPT ![p] = [@ EXCEPT !.val = w, !.pc = l, !.goal = to]]
        PROVE  Kept
    BY <2>3, <1>m DEF MeType
  <2>4. CASE \E to \in {"setGlobal", "readDefault", "setSession"} :
               me' = [me EXCEPT ![p] =
                   [@ EXCEPT !.val = NewValue(me[p].op),
                             !.pc = IF to = "setSession" THEN to ELSE "lookup",
                             !.goal = to]]
    BY <2>2, <2>3, <2>4
  <2> QED
    BY <1>5, <1>e, <2>4 DEF StartSet
<1>6. ASSUME NEW p \in Session, ReadDefault(p)
      PROVE  \/ Kept
             \/ ReadDefault(q) /\ me'[q].val = globals[me[q].op.var]
                               /\ globals[me[q].op.var] # Absent
  <2>1. ASSUME me' = [me EXCEPT ![p].pc = "setSession", ![p].val = globals[me[p].op.var]]
        PROVE  IF q = p THEN me'[q].val = globals[me[q].op.var] ELSE Kept
    BY <2>1, <1>m DEF MeType
  <2> QED
    BY <1>6, <1>e, <2>1 DEF ReadDefault, Var
<1>7. ASSUME NEW p \in Session,
             \/ ReadBase(p) \/ InitVars(p) \/ SetSession(p) \/ SetGlobal(p)
             \/ WriteGlobal(p) \/ CopyOwn(p) \/ StartGet(p) \/ GetGlobal(p)
             \/ DynRead(p) \/ DynEnter(p) \/ DynFill(p) \/ DynCopy(p)
      PROVE  Kept
  <2>1. CASE ReadBase(p)
    BY <2>1, <1>e, <1>l DEF Labels, ReadBase, Raise
  <2>2. CASE InitVars(p)
    BY <2>2, <1>e, <1>k DEF Labels, InitVars, Raise
  <2>3. CASE SetSession(p) \/ CopyOwn(p)
    BY <2>3, <1>e, <1>g DEF Labels, SetSession, CopyOwn
  <2>4. CASE SetGlobal(p)
    BY <2>4, <1>e, <1>g, <1>k DEF Labels, SetGlobal, Raise
  <2>5. CASE WriteGlobal(p)
    <3>1. ASSUME NEW l \in {"copyOwn", "idle"}, Unlock(p, l)  PROVE Kept
      BY <3>1, <1>k DEF Labels
    <3> QED
      BY <2>5, <3>1 DEF WriteGlobal
  <2>6. CASE StartGet(p)
    BY <2>6, <1>e, <1>g, <1>l DEF Labels, StartGet
  <2>7. CASE GetGlobal(p)
    BY <2>7, <1>g, <1>k DEF Labels, GetGlobal
  <2>8. CASE DynRead(p)
    BY <2>8, <1>e, <1>g, <1>k DEF Labels, DynRead, Raise
  <2>9. CASE DynEnter(p) \/ DynFill(p)
    BY <2>9, <1>g DEF Labels, DynEnter, DynFill
  <2>10. CASE DynCopy(p)
    <3>1. ASSUME NEW l \in {"copyOwn", "idle"}, Unlock(p, l)  PROVE Kept
      BY <3>1, <1>k DEF Labels
    <3> QED
      BY <2>10, <3>1, <1>e DEF DynCopy, Raise
  <2> QED
    BY <1>7, <2>1, <2>2, <2>3, <2>4, <2>5, <2>6, <2>7, <2>8, <2>9, <2>10
<1>8. CASE InsertRow \/ UNCHANGED vars \/ \E p \in Session : Reconnect(p)
    BY <1>8, <1>1 DEF InsertRow, vars, Reconnect
<1> QED
    BY <1>2, <1>3, <1>4, <1>5, <1>6, <1>7, <1>8 DEF Next, Step, Dies

(* Only a restart forgets what happened.                                   *)
LEMMA SeenGrows ==
    ASSUME [Next]_vars, ~\E p \in Session : Dies(p)
    PROVE  seen \subseteq seen'
<1>1. CASE UNCHANGED vars \/ InsertRow
    BY <1>1 DEF vars, InsertRow, history
<1>2. ASSUME NEW p \in Session,
             (\E o \in Statements : Command(p, o)) \/ Reconnect(p)
      PROVE  UNCHANGED seen
    BY <1>2 DEF Command, Reconnect
<1>3. ASSUME NEW p \in Session,
             \/ PopFree(p) \/ Link(p) \/ SpinInit(p) \/ SpinAcquire(p)
             \/ StartSet(p) \/ ReadDefault(p) \/ SetSession(p) \/ WriteGlobal(p)
             \/ CopyOwn(p) \/ StartGet(p) \/ GetGlobal(p) \/ DynFill(p)
      PROVE  UNCHANGED seen
    BY <1>3 DEF PopFree, Link, SpinInit, SpinAcquire, StartSet, ReadDefault, SetSession,
        WriteGlobal, CopyOwn, StartGet, GetGlobal, DynFill, history
<1>4. ASSUME NEW p \in Session, ReadBase(p) \/ InitVars(p) \/ SetGlobal(p) \/ DynRead(p)
      PROVE  seen \subseteq seen'
    BY <1>4 DEF ReadBase, InitVars, SetGlobal, DynRead, Raise
<1>5. ASSUME NEW p \in Session, Lookup(p) \/ DynEnter(p) \/ DynCopy(p)
      PROVE  seen \subseteq seen'
    BY <1>5 DEF Lookup, DynEnter, DynCopy, Raise
<1> QED
    BY <1>1, <1>2, <1>3, <1>4, <1>5 DEF Next, Step, Dies

(* Every step keeps Whole: a reader has the lock, so the writer of a half  *)
(* entry, who has it too, would be the reader.                             *)
LEMMA WholeStep ==
    ASSUME TypeOK, Control, OneLock, Whole, [Next]_vars
    PROVE  Whole'
<1> DEFINE Plain(S) == S \cap {"overlapped", "unlockedAdd"} = {}
<1> DEFINE Writes(m, v) == m.op.var = v /\ m.pc \in {"writeGlobal", "dynFill"}
<1>b. BaseValue # Half /\ Half \notin Values /\ Absent # Half
    BY SysVarsAssumption, SMT DEF Half, Absent
<1>t. /\ globals \in [Vars -> Values \cup {Absent, Half}]
      /\ copy \in [Session -> [Vars -> Values \cup {Absent, Half}]]
      /\ result \in [Session -> Values \cup {Half}]
      /\ held \subseteq Session
      /\ \A p \in Session : me[p].pc # "idle" => me[p].op.var \in Vars
    BY OpFields DEF TypeOK, Control
<1>1. CASE \E p \in Session : Dies(p)
  <2>1. PICK p \in Session : Dies(p)
    BY <1>1
  <2>2. /\ \A v \in Vars : globals'[v] # Half
        /\ \A q \in Session : /\ result'[q] # Half /\ me'[q].val # Half
                              /\ \A v \in Vars : copy'[q][v] # Half
    <3>1. Restart /\ \A q \in Session : me'[q] = Idle
      BY <2>1, DiesEffect
    <3> QED
      BY <3>1, <1>b DEF Restart, Fresh, NoCopies, Idle
  <2> QED
    BY <2>2 DEF Whole
<1>2. CASE ~\E p \in Session : Dies(p)
  <2>s. seen \subseteq seen'
    BY <1>2, SeenGrows
  <2> SUFFICES ASSUME Plain(seen'), Plain(seen)
               PROVE  /\ \A v \in Vars : globals'[v] = Half =>
                           \E q \in held' : Writes(me'[q], v)
                      /\ \A q \in Session :
                           /\ result'[q] # Half /\ me'[q].val # Half
                           /\ \A v \in Vars : copy'[q][v] # Half
    BY <2>s DEF Whole
  <2>w. /\ \A v \in Vars : globals[v] = Half => \E q \in held : Writes(me[q], v)
        /\ \A q \in Session : /\ result[q] # Half /\ me[q].val # Half
                              /\ \A v \in Vars : copy[q][v] # Half
    BY DEF Whole
  <2>o. \A q, r \in held : q = r
    BY DEF OneLock
  <2>r. ASSUME NEW p \in held, me[p].pc \notin {"writeGlobal", "dynFill"}
        PROVE  \A v \in Vars : globals[v] # Half
    BY <2>w, <2>o, <2>r, SMT
  <2>1. \A v \in Vars : globals'[v] = Half => \E q \in held' : Writes(me'[q], v)
    <3>1. ASSUME UNCHANGED globals, NEW p \in Session, Others(p), held \ {p} \subseteq held',
                 me[p].pc \notin {"writeGlobal", "dynFill"}
          PROVE  \A v \in Vars : globals'[v] = Half => \E q \in held' : Writes(me'[q], v)
      BY <3>1, <2>w, <1>t, SMT DEF Others
    <3>2. CASE UNCHANGED vars \/ InsertRow \/ \E p \in Session : Reconnect(p)
      BY <3>2, <2>w, SMT DEF vars, InsertRow, Reconnect, shared
    <3>3. ASSUME NEW p \in Session, NEW o \in Statements, Command(p, o)
          PROVE  \A v \in Vars : globals'[v] = Half => \E q \in held' : Writes(me'[q], v)
      BY <3>1, <3>3, CommandEffect DEF Command, At, shared, TypeOK, MeType
    <3>4. ASSUME NEW p \in Session,
                 Lookup(p) \/ PopFree(p) \/ Link(p) \/ SpinInit(p) \/ SpinAcquire(p)
          PROVE  \A v \in Vars : globals'[v] = Half => \E q \in held' : Writes(me'[q], v)
      <4>1. Others(p)
        BY <3>4, LockSteps DEF Locks
      <4>2. /\ UNCHANGED globals /\ held \subseteq held'
            /\ me[p].pc \notin {"writeGlobal", "dynFill"}
        BY <3>4 DEF Lookup, PopFree, Link, SpinInit, SpinAcquire, At, shared
      <4> QED
        BY <3>1, <4>1, <4>2
    <3>k. ASSUME NEW p \in Session, Quiet(p) \/ Holds(p) \/ Releases(p) \/ Escapes(p)
          PROVE  Others(p) /\ held \ {p} \subseteq held'
      BY <3>k DEF Quiet, Holds, Releases, Escapes, Ended, Moved
    <3>5. ASSUME NEW p \in Session,
                 \/ ReadBase(p) \/ StartSet(p) \/ ReadDefault(p) \/ SetSession(p)
                 \/ CopyOwn(p) \/ StartGet(p) \/ GetGlobal(p) \/ DynRead(p) \/ DynCopy(p)
          PROVE  \A v \in Vars : globals'[v] = Half => \E q \in held' : Writes(me'[q], v)
      <4>1. Others(p) /\ held \ {p} \subseteq held'
        BY <3>5, <3>k, StepKinds
      <4>2. UNCHANGED globals /\ me[p].pc \notin {"writeGlobal", "dynFill"}
        BY <3>5 DEF ReadBase, StartSet, ReadDefault, SetSession, CopyOwn, StartGet,
            GetGlobal, DynRead, DynCopy, At, shared
      <4> QED
        BY <3>1, <4>1, <4>2
    <3>6. ASSUME NEW p \in Session, InitVars(p)  PROVE \A v \in Vars : globals'[v] # Half
      <4>1. p \in held /\ me[p].pc = "init"
        BY <3>6 DEF InitVars, At, Control, Inside
      <4> QED
        BY <4>1, <2>r, <1>b, <3>6 DEF InitVars
    <3>7. ASSUME NEW p \in Session, SetGlobal(p)
          PROVE  \A v \in Vars : globals'[v] = Half => \E q \in held' : Writes(me'[q], v)
      <4>1. p \in held /\ me[p].pc = "setGlobal" /\ me[p].op.var \in Vars
        BY <3>7, <1>t DEF SetGlobal, At, Control, Inside
      <4>2. \A v \in Vars : globals[v] # Half
        BY <4>1, <2>r
      <4>3. CASE /\ globals' = [globals EXCEPT ![me[p].op.var] = Half]
                 /\ Goto(p, "writeGlobal") /\ UNCHANGED held
        <5>1. Moved(p, {"writeGlobal"})
          BY <4>3, GotoEffect DEF TypeOK, MeType, Labels
        <5> QED
          BY <4>1, <4>2, <4>3, <5>1, <1>t DEF Moved
      <4>4. CASE globals' \in {globals, [globals EXCEPT ![me[p].op.var] = me[p].val]}
        BY <4>1, <4>2, <4>4, <2>w, <1>t, SMT
      <4> QED
        BY <3>7, <4>3, <4>4 DEF SetGlobal, Var
    <3>8. ASSUME NEW p \in Session, WriteGlobal(p)  PROVE \A v \in Vars : globals'[v] # Half
      <4>1. p \in held /\ me[p].pc = "writeGlobal" /\ me[p].op.var \in Vars
        BY <3>8, <1>t DEF WriteGlobal, At, Control, Inside
      <4>2. \A v \in Vars : v # me[p].op.var => globals[v] # Half
        BY <4>1, <2>w, <2>o, SMT
      <4> QED
        BY <4>1, <4>2, <2>w, <1>t, <3>8 DEF WriteGlobal, Var
    <3>9. ASSUME NEW p \in Session, DynEnter(p)
          PROVE  \A v \in Vars : globals'[v] = Half => \E q \in held' : Writes(me'[q], v)
      <4>1. me[p].pc = "dynEnter" /\ me[p].op.var \in Vars /\ held' = held
        BY <3>9, <1>t DEF DynEnter, At
      <4>2. CASE globals[me[p].op.var] # Absent
        <5>1. UNCHANGED globals /\ Others(p)
          BY <3>9, <4>2, <3>k, StepKinds DEF DynEnter, Var
        <5> QED
          BY <3>1, <4>1, <5>1
      <4>3. CASE globals[me[p].op.var] = Absent
        <5>1. /\ p \in held /\ Goto(p, "dynFill")
              /\ globals' = [globals EXCEPT ![me[p].op.var] = Half]
          BY <3>9, <4>3 DEF DynEnter, Var
        <5>2. Moved(p, {"dynFill"})
          BY <5>1, GotoEffect DEF TypeOK, MeType, Labels
        <5>3. \A v \in Vars : globals[v] # Half
          BY <5>1, <4>1, <2>r
        <5> QED
          BY <4>1, <5>1, <5>2, <5>3, <1>t DEF Moved
      <4> QED
        BY <4>2, <4>3
    <3>10. ASSUME NEW p \in Session, DynFill(p)
           PROVE  \A v \in Vars : globals'[v] = Half => \E q \in held' : Writes(me'[q], v)
      <4>1. /\ me[p].op.var \in Vars /\ held' = held
            /\ globals' = [globals EXCEPT ![me[p].op.var] = BaseValue]
        BY <3>10, <1>t DEF DynFill, At, Var
      <4>2. Others(p)
        BY <3>10, <3>k, StepKinds
      <4> QED
        BY <4>1, <4>2, <2>w, <1>b, <1>t, SMT DEF Others
    <3> QED
      BY <1>2, <3>2, <3>3, <3>4, <3>5, <3>6, <3>7, <3>8, <3>9, <3>10
          DEF Next, Step, Dies
  <2>2. \A q \in Session : me'[q].val # Half
    <3>1. ASSUME NEW q \in Session, ReadDefault(q)  PROVE globals[me[q].op.var] # Half
      <4>1. q \in held /\ me[q].pc = "readDefault" /\ me[q].op.var \in Vars
        BY <3>1, <1>t DEF ReadDefault, At, Control, Inside
      <4> QED
        BY <4>1, <2>r
    <3> QED
      BY <3>1, <2>w, <1>b, ValStep, SMT
  <2>3. \A q \in Session : result'[q] # Half
    <3>1. ASSUME UNCHANGED result  PROVE \A q \in Session : result'[q] # Half
      BY <3>1, <2>w
    <3>2. ASSUME NEW p \in Session, NEW x, x # Half, result' = [result EXCEPT ![p] = x]
          PROVE  \A q \in Session : result'[q] # Half
      BY <3>2, <2>w, <1>t
    <3>3. CASE UNCHANGED vars \/ InsertRow
      BY <3>1, <3>3 DEF vars, InsertRow
    <3>4. ASSUME NEW p \in Session,
                 (\E o \in Statements : Command(p, o)) \/ Reconnect(p)
          PROVE  \A q \in Session : result'[q] # Half
      BY <3>2, <3>4, <1>b DEF Command, Reconnect
    <3>5. ASSUME NEW p \in Session,
                 \/ ReadBase(p) \/ Lookup(p) \/ PopFree(p) \/ Link(p) \/ SpinInit(p)
                 \/ SpinAcquire(p) \/ InitVars(p) \/ StartSet(p) \/ SetSession(p)
                 \/ SetGlobal(p) \/ WriteGlobal(p) \/ CopyOwn(p) \/ DynRead(p)
                 \/ DynEnter(p) \/ DynFill(p)
          PROVE  UNCHANGED result
      BY <3>5 DEF ReadBase, Lookup, PopFree, Link, SpinInit, SpinAcquire, InitVars,
          StartSet, SetSession, SetGlobal, WriteGlobal, CopyOwn, DynRead, DynEnter, DynFill
    <3>6. ASSUME NEW p \in Session, ReadDefault(p) \/ GetGlobal(p)
          PROVE  \A q \in Session : result'[q] # Half
      <4>1. /\ p \in held /\ me[p].pc \in {"readDefault", "getGlobal"}
            /\ me[p].op.var \in Vars
        BY <3>6, <1>t DEF ReadDefault, GetGlobal, At, Control, Inside
      <4>2. globals[me[p].op.var] # Half
        BY <4>1, <2>r
      <4>3. UNCHANGED result \/ result' = [result EXCEPT ![p] = globals[me[p].op.var]]
        BY <3>6 DEF ReadDefault, GetGlobal, Var
      <4> QED
        BY <3>1, <3>2, <4>2, <4>3
    <3>7. ASSUME NEW p \in Session, StartGet(p)
          PROVE  \A q \in Session : result'[q] # Half
      <4>1. me[p].op.var \in Vars
        BY <3>7, <1>t DEF StartGet, At
      <4>2. UNCHANGED result \/ result' = [result EXCEPT ![p] = copy[p][me[p].op.var]]
        BY <3>7 DEF StartGet
      <4> QED
        <5>1. copy[p][me[p].op.var] # Half
          BY <4>1, <2>w
        <5> QED
          BY <3>1, <3>2, <4>2, <5>1
    <3>8. ASSUME NEW p \in Session, DynCopy(p)
          PROVE  \A q \in Session : result'[q] # Half
      <4>1. UNCHANGED result \/ result' = [result EXCEPT ![p] = BaseValue]
        BY <3>8 DEF DynCopy
      <4> QED
        BY <3>1, <3>2, <4>1, <1>b
    <3> QED
      BY <1>2, <3>1, <3>3, <3>4, <3>5, <3>6, <3>7, <3>8 DEF Next, Step, Dies
  <2>4. \A q \in Session, v \in Vars : copy'[q][v] # Half
    <3>1. ASSUME UNCHANGED copy  PROVE \A q \in Session, v \in Vars : copy'[q][v] # Half
      BY <3>1, <2>w
    <3>2. ASSUME NEW p \in Session, NEW f, \A v \in Vars : f[v] # Half,
                 copy' = [copy EXCEPT ![p] = f]
          PROVE  \A q \in Session, v \in Vars : copy'[q][v] # Half
      BY <3>2, <2>w, <1>t
    <3>3. CASE UNCHANGED vars \/ InsertRow
      BY <3>1, <3>3 DEF vars, InsertRow, own
    <3>4. ASSUME NEW p \in Session, Reconnect(p)
          PROVE  \A q \in Session, v \in Vars : copy'[q][v] # Half
      <4>1. \A v \in Vars : NoCopies[v] # Half
        BY <1>b DEF NoCopies
      <4> QED
        BY <3>2, <3>4, <4>1 DEF Reconnect
    <3>5. ASSUME NEW p \in Session,
                 \/ \E o \in Statements : Command(p, o)
                 \/ ReadBase(p) \/ Lookup(p) \/ PopFree(p) \/ Link(p) \/ SpinInit(p)
                 \/ SpinAcquire(p) \/ StartSet(p) \/ ReadDefault(p)
                 \/ SetGlobal(p) \/ WriteGlobal(p) \/ StartGet(p) \/ GetGlobal(p)
                 \/ DynRead(p) \/ DynEnter(p) \/ DynFill(p)
          PROVE  UNCHANGED copy
      BY <3>5 DEF Command, ReadBase, Lookup, PopFree, Link, SpinInit, SpinAcquire,
          StartSet, ReadDefault, SetGlobal, WriteGlobal, StartGet, GetGlobal, DynRead,
          DynEnter, DynFill, own
    <3>6. ASSUME NEW p \in Session, InitVars(p)
          PROVE  \A q \in Session, v \in Vars : copy'[q][v] # Half
      <4>1. PICK S : InitCopies(p, S)
        BY <3>6 DEF InitVars
      <4> DEFINE f == [v \in Vars |-> IF v \in S THEN BaseValue ELSE Absent]
      <4>2. \A v \in Vars : f[v] # Half
        BY <1>b
      <4>3. copy' = [copy EXCEPT ![p] = f]
        BY <4>1 DEF InitCopies
      <4> HIDE DEF f
      <4> QED
        BY <3>2, <4>2, <4>3
    <3>7. ASSUME NEW p \in Session, SetSession(p) \/ CopyOwn(p) \/ DynCopy(p)
          PROVE  \A q \in Session, v \in Vars : copy'[q][v] # Half
      <4>1. me[p].op.var \in Vars
        BY <3>7, <1>t DEF SetSession, CopyOwn, DynCopy, At
      <4>2. \/ UNCHANGED copy
            \/ \E x \in {copy[p][me[p].op.var], me[p].val, BaseValue} :
                 copy' = [copy EXCEPT ![p][me[p].op.var] = x]
        BY <3>7 DEF SetSession, CopyOwn, DynCopy, Var
      <4>3. ASSUME NEW x, x # Half, copy' = [copy EXCEPT ![p][me[p].op.var] = x]
            PROVE  \A q \in Session, v \in Vars : copy'[q][v] # Half
        BY <4>1, <4>3, <2>w, <1>t, SMT
      <4>4. /\ copy[p][me[p].op.var] # Half /\ me[p].val # Half /\ BaseValue # Half
        BY <4>1, <2>w, <1>b, SMT
      <4>5. CASE \E x \in {copy[p][me[p].op.var], me[p].val, BaseValue} :
                   copy' = [copy EXCEPT ![p][me[p].op.var] = x]
        <5>1. PICK x \in {copy[p][me[p].op.var], me[p].val, BaseValue} :
                   copy' = [copy EXCEPT ![p][me[p].op.var] = x]
          BY <4>5
        <5>2. x # Half
          BY <5>1, <4>4
        <5> QED
          BY <5>1, <5>2, <4>3
      <4> QED
        BY <3>1, <4>2, <4>5
    <3> QED
      BY <1>2, <3>1, <3>3, <3>4, <3>5, <3>6, <3>7 DEF Next, Step, Dies
  <2> QED
    BY <2>1, <2>2, <2>3, <2>4
<1> QED
    BY <1>1, <1>2

(* A step of p leaves the other backends where they are.                   *)
LEMMA StepOthers ==
    ASSUME TypeOK, Control, NEW p \in Session, Step(p), ~Dies(p)
    PROVE  Others(p) /\ held \ {p} \subseteq held'
<1>1. CASE Lookup(p) \/ PopFree(p) \/ Link(p) \/ SpinInit(p) \/ SpinAcquire(p)
  <2>1. Others(p)
    BY <1>1, LockSteps DEF Locks
  <2>2. held \subseteq held'
    BY <1>1 DEF Lookup, PopFree, Link, SpinInit, SpinAcquire
  <2> QED
    BY <2>1, <2>2
<1>2. CASE Quiet(p) \/ Holds(p) \/ Releases(p) \/ Escapes(p)
    BY <1>2 DEF Quiet, Holds, Releases, Escapes, Ended, Moved
<1> QED
    BY <1>1, <1>2, StepKinds DEF Step, Dies

(* Every step keeps Prepared.                                              *)
LEMMA PreparedStep ==
    ASSUME TypeOK, Control, Prepared, [Next]_vars
    PROVE  Prepared'
<1> DEFINE P(m, q, I) == \/ m.pc \in {"idle", "readBase", "init"}
                         \/ m.pc \in Locking /\ m.goal = "init"
                         \/ q \in I
<1>m. me \in MeType
    BY DEF TypeOK, MeType
<1> SUFFICES \A q \in Session : P(me'[q], q, inited')
    BY DEF Prepared
<1>p. \A q \in Session : P(me[q], q, inited)
    BY DEF Prepared
<1>i. Idle.pc = "idle"
    BY DEF Idle
<1>1. CASE \E p \in Session : Dies(p)
    BY <1>1, <1>i, DiesEffect
<1>2. CASE UNCHANGED vars \/ InsertRow
    BY <1>2, <1>p DEF vars, InsertRow, own
<1>3. ASSUME NEW p \in Session, Reconnect(p)
      PROVE  \A q \in Session : P(me'[q], q, inited')
    BY <1>3, <1>p DEF Reconnect, At
<1>4. ASSUME NEW p \in Session, Others(p), inited \subseteq inited',
             P(me'[p], p, inited')
      PROVE  \A q \in Session : P(me'[q], q, inited')
    BY <1>4, <1>p DEF Others
<1> HIDE DEF P
<1>5. ASSUME NEW p \in Session, NEW o \in Statements, Command(p, o)
      PROVE  \A q \in Session : P(me'[q], q, inited')
  <2>1. /\ Others(p) /\ me'[p].pc \in {"start", "readBase"} /\ inited' = inited
        /\ me'[p].pc = "start" => p \in inited
    BY <1>m, <1>5, CommandEffect DEF Command, own
  <2>2. P(me'[p], p, inited')
    BY <2>1 DEF P
  <2> QED
    BY <1>4, <2>1, <2>2
<1>6. ASSUME NEW p \in Session, Step(p), ~Dies(p)
      PROVE  \A q \in Session : P(me'[q], q, inited')
  <2>1. Others(p)
    BY <1>6, StepOthers
  <2>2. CASE ReadBase(p)
    <3>1. me[p].pc = "readBase" /\ inited' = inited
      BY <2>2 DEF ReadBase, At
    <3>2. CASE Raise(p)
      <4>1. P(me'[p], p, inited')
        BY <3>2, <1>m, <1>i, EndEffect DEF Raise, Ended, P
      <4> QED
        BY <1>4, <2>1, <3>1, <4>1
    <3>3. CASE Lock(p, "init")
      <4>1. me'[p].pc = "lookup" /\ me'[p].goal = "init"
        BY <3>3, <1>m, LockEffect DEF Moved, Goals, Inside
      <4>2. P(me'[p], p, inited')
        BY <4>1 DEF P, Locking
      <4> QED
        BY <1>4, <2>1, <3>1, <4>2
    <3> QED
      BY <2>2, <3>2, <3>3 DEF ReadBase
  <2>3. CASE Lookup(p) \/ PopFree(p) \/ Link(p) \/ SpinInit(p) \/ SpinAcquire(p)
    <3>1. inited' = inited /\ me[p].pc \in Locking
      BY <2>3 DEF Lookup, PopFree, Link, SpinInit, SpinAcquire, own, At, Locking
    <3>2. me[p].goal = "init" \/ p \in inited
      BY <3>1, <1>p DEF P, Locking
    <3>3. me'[p].goal = me[p].goal /\ (me'[p].pc \in Locking \/ me'[p].pc = me[p].goal)
      BY <2>3, LockSteps DEF Locks, Locking
    <3>4. P(me'[p], p, inited')
      BY <3>1, <3>2, <3>3 DEF P
    <3> QED
      BY <1>4, <2>1, <3>1, <3>4
  <2>4. CASE InitVars(p)
    <3>1. inited' = inited \cup {p}
      BY <2>4 DEF InitVars
    <3>2. P(me'[p], p, inited')
      BY <3>1 DEF P
    <3> QED
      BY <1>4, <2>1, <3>1, <3>2
  <2>5. CASE \/ StartSet(p) \/ ReadDefault(p) \/ SetSession(p) \/ SetGlobal(p)
             \/ WriteGlobal(p) \/ CopyOwn(p) \/ StartGet(p) \/ GetGlobal(p)
             \/ DynRead(p) \/ DynEnter(p) \/ DynFill(p) \/ DynCopy(p)
    <3>1. /\ inited' = inited
          /\ me[p].pc \in {"start", "readDefault", "setSession", "setGlobal",
                           "writeGlobal", "copyOwn", "getGlobal"} \cup Dyn
      BY <2>5 DEF StartSet, ReadDefault, SetSession, SetGlobal, WriteGlobal, CopyOwn,
          StartGet, GetGlobal, DynRead, DynEnter, DynFill, DynCopy, own, At, Dyn
    <3>2. p \in inited
      BY <3>1, <1>p DEF P, Locking, Dyn
    <3>3. P(me'[p], p, inited')
      BY <3>1, <3>2 DEF P
    <3> QED
      BY <1>4, <2>1, <3>1, <3>3
  <2> QED
    BY <1>6, <2>2, <2>3, <2>4, <2>5 DEF Step, Dies
<1> QED
    BY <1>1, <1>2, <1>3, <1>5, <1>6 DEF Next

(* What keeps the copies of v current: a step of p that does not touch v.  *)
LEMMA SameCopies ==
    ASSUME NEW v \in Vars, NEW p \in Session, Current(v), Others(p),
           globals'[v] = globals[v], \A q \in Session : copy'[q][v] = copy[q][v],
           \A q \in Session : <<q, v>> \in stale => <<q, v>> \in stale',
           inited' \subseteq inited, inited \subseteq Session,
           ~Writing(p, v), ~Writing(p, v)', ~Filling(p, v)'
    PROVE  Current(v)'
<1>1. \A q \in Session : /\ q # p => me'[q] = me[q]
                         /\ Writing(q, v)' => Writing(q, v)
                         /\ Writing(q, v) => Writing(q, v)' /\ q # p
                         /\ Filling(q, v)' => Filling(q, v)
    BY SMT DEF Others, Writing, Filling, At, Var
<1>2. Untouched(v) => Untouched(v)'
    BY <1>1 DEF Untouched
<1>3. globals'[v] = Absent => Untouched(v)'
    BY <1>2 DEF Current
<1>4. \A q \in Session : Filling(q, v)' => Untouched(v)'
    BY <1>1, <1>2 DEF Current
<1>5. \A q \in Session : Writing(q, v)' =>
         globals'[v] = Half \/ <<q, v>> \in stale' \/ globals'[v] = me'[q].val
    BY <1>1 DEF Current
<1>6. \A q \in inited' :
         \/ copy'[q][v] = Absent \/ globals'[v] \in {Absent, Half}
         \/ <<q, v>> \in stale' \/ Writing(q, v)' \/ copy'[q][v] = globals'[v]
    BY <1>1, SMT DEF Current
<1> QED
    BY <1>3, <1>4, <1>5, <1>6 DEF Current

(* Every step keeps Copies.                                                *)
LEMMA CopiesStep ==
    ASSUME TypeOK, Control, OneLock, Prepared, Copies, [Next]_vars
    PROVE  Copies'
<1>m. me \in MeType
    BY DEF TypeOK, MeType
<1>b. /\ BaseValue # Half /\ BaseValue # Absent /\ Absent # Half
      /\ Values \cap {Absent, Half} = {}
    BY SysVarsAssumption, SMT DEF Half, Absent
<1>t. /\ globals \in [Vars -> Values \cup {Absent, Half}]
      /\ copy \in [Session -> [Vars -> Values \cup {Absent, Half}]]
      /\ held \subseteq Session /\ inited \subseteq Session
      /\ \A p \in Session : me[p].pc # "idle" => Var(p) \in Vars
    BY OpFields DEF TypeOK, Control, Var
<1>i. Idle.pc = "idle"
    BY DEF Idle
<1>1. CASE \E p \in Session : Dies(p)
  <2>1. PICK p \in Session : Dies(p)
    BY <1>1
  <2>2. /\ \A q \in Session : me'[q].pc = "idle"
        /\ globals' = NoCopies /\ inited' = {}
        /\ \A q \in Session, v \in Vars : copy'[q][v] = Absent
    <3>1. Restart /\ \A q \in Session : me'[q] = Idle
      BY <2>1, DiesEffect
    <3> QED
      BY <3>1, <1>i DEF Restart, Fresh, NoCopies
  <2> QED
    BY <2>2 DEF Copies, Current, Untouched, Writing, Filling, At
<1>2. CASE ~\E p \in Session : Dies(p)
  <2> SUFFICES ASSUME Regular, Regular'
               PROVE  /\ \A p \in Session : At(p, "dynFill")' => p \in held'
                      /\ \A p \in Session : At(p, "copyOwn")' => Copied(Var(p))'
                      /\ \A v \in Vars : Copied(v) => Current(v)'
    <3>1. seen \subseteq seen'
      BY <1>2, SeenGrows
    <3>2. Regular' => Regular
      BY <3>1 DEF Regular
    <3>3. \A v \in Vars : Copied(v)' <=> Copied(v)
      BY DEF Copied
    <3> QED
      BY <3>2, <3>3 DEF Copies
  <2>c. /\ \A p \in Session : At(p, "dynFill") => p \in held
        /\ \A p \in Session : At(p, "copyOwn") => Copied(Var(p))
        /\ \A v \in Vars : Copied(v) => Current(v)
    BY DEF Copies
  <2>o. \A q, r \in held : q = r
    BY DEF OneLock, Regular
  <2>f. ASSUME NEW p \in held, NEW q \in Session, At(q, "dynFill")  PROVE q = p
    BY <2>c, <2>o, <2>f
  <2> DEFINE Goal == /\ \A p \in Session : At(p, "dynFill")' => p \in held'
                     /\ \A p \in Session : At(p, "copyOwn")' => Copied(Var(p))'
                     /\ \A v \in Vars : Copied(v) => Current(v)'
  (* The first two parts concern p only. *)
  <2>g. ASSUME NEW p \in Session, Others(p), held \ {p} \subseteq held',
               At(p, "dynFill")' => p \in held',
               At(p, "copyOwn")' => Copied(Var(p))',
               \A v \in Vars : Copied(v) => Current(v)'
        PROVE  Goal
    <3>1. ASSUME NEW q \in Session, q # p
          PROVE  /\ At(q, "dynFill")' => q \in held'
                 /\ At(q, "copyOwn")' => Copied(Var(q))'
      <4>1. me'[q] = me[q]
        BY <2>g, <3>1 DEF Others
      <4>2. At(q, "dynFill") => q \in held
        BY <2>c
      <4>3. At(q, "copyOwn") => Copied(Var(q))
        BY <2>c
      <4> QED
        BY <4>1, <4>2, <4>3, <2>g, <3>1 DEF At, Var, Copied
    <3> QED
      BY <2>g, <3>1
  <2>1. CASE UNCHANGED vars \/ InsertRow
    <3>1. UNCHANGED <<globals, copy, stale, inited, me, held>>
      BY <2>1 DEF vars, InsertRow, shared, own, history
    <3>2. \A v \in Vars : Current(v) => Current(v)'
      BY <3>1 DEF Current, Untouched, Writing, Filling, At, Var
    <3> QED
      BY <3>1, <3>2, <2>c DEF At, Var, Copied
  <2>2. ASSUME NEW p \in Session, Reconnect(p)  PROVE Goal
    <3>1. /\ me' = me /\ held' = held /\ globals' = globals /\ inited' = inited \ {p}
          /\ copy' = [copy EXCEPT ![p] = NoCopies] /\ At(p, "idle")
          /\ stale' = {x \in stale : x[1] # p}
      BY <2>2 DEF Reconnect, shared
    <3>2. ASSUME NEW v \in Vars, Copied(v)  PROVE Current(v)'
      <4>1. /\ \A q \in Session : q # p => copy'[q][v] = copy[q][v]
            /\ copy'[p][v] = Absent
        BY <3>1, <1>t DEF NoCopies
      <4>2. \A q \in Session : /\ Writing(q, v)' <=> Writing(q, v)
                               /\ Filling(q, v)' <=> Filling(q, v)
                               /\ Writing(q, v) => q # p
        BY <3>1 DEF Writing, Filling, At, Var
      <4>3. \A q \in Session : q # p => (<<q, v>> \in stale => <<q, v>> \in stale')
        BY <3>1, SMT
      <4>c. Current(v)
        BY <3>2, <2>c
      <4>4. Untouched(v) => Untouched(v)'
        BY <4>1, <4>2 DEF Untouched
      <4>5. \A q \in Session : Writing(q, v)' =>
                globals'[v] = Half \/ <<q, v>> \in stale' \/ globals'[v] = me'[q].val
        BY <4>c, <4>2, <4>3, <3>1 DEF Current
      <4>6. \A q \in inited' :
                \/ copy'[q][v] = Absent \/ globals'[v] \in {Absent, Half}
                \/ <<q, v>> \in stale' \/ Writing(q, v)' \/ copy'[q][v] = globals'[v]
        BY <4>c, <4>1, <4>2, <4>3, <3>1, <1>t, SMT DEF Current
      <4> QED
        BY <4>c, <4>2, <4>4, <4>5, <4>6, <3>1 DEF Current
    <3> QED
      BY <3>1, <3>2, <2>c DEF At, Var, Copied
  (* The steps that do not touch the copies or entries of a copied variable. *)
  <2>s. ASSUME NEW p \in Session, Others(p), held \ {p} \subseteq held',
               me'[p].pc \notin {"copyOwn", "dynFill"}, me[p].pc # "copyOwn",
               UNCHANGED <<stale, inited>>,
               \A v \in Vars : Copied(v) =>
                   globals'[v] = globals[v] /\ \A q \in Session : copy'[q][v] = copy[q][v]
        PROVE  Goal
    <3>1. ASSUME NEW v \in Vars, Copied(v)  PROVE Current(v)'
      <4>1. ~Writing(p, v) /\ ~Writing(p, v)' /\ ~Filling(p, v)'
        BY <2>s DEF Writing, Filling, At
      <4>2. /\ Current(v) /\ globals'[v] = globals[v]
            /\ \A q \in Session : copy'[q][v] = copy[q][v]
        BY <3>1, <2>c, <2>s
      <4>3. /\ \A q \in Session : <<q, v>> \in stale => <<q, v>> \in stale'
            /\ inited' \subseteq inited
        BY <2>s
      <4> QED
        BY <4>1, <4>2, <4>3, <2>s, <1>t, SameCopies
    <3> QED
      BY <3>1, <2>g, <2>s DEF At
  (* The steps that touch one variable. *)
  <2>v. ASSUME NEW p \in Session, NEW x \in Vars, x = Var(p), Others(p),
               held \ {p} \subseteq held',
               At(p, "dynFill")' => p \in held',
               At(p, "copyOwn")' => Copied(Var(p))',
               \A v \in Vars \ {x} : /\ globals'[v] = globals[v]
                                     /\ \A q \in Session : copy'[q][v] = copy[q][v]
                                     /\ \A q \in Session : <<q, v>> \in stale => <<q, v>> \in stale',
               inited' = inited, me'[p].op = me[p].op \/ me'[p].pc = "idle",
               Copied(x) => Current(x)'
        PROVE  Goal
    <3>1. ASSUME NEW v \in Vars, Copied(v), v # x  PROVE Current(v)'
      <4>1. ~Writing(p, v) /\ ~Writing(p, v)' /\ ~Filling(p, v)'
        BY <2>v, <3>1 DEF Writing, Filling, At, Var
      <4>2. Current(v)
        BY <3>1, <2>c
      <4> QED
        BY <4>1, <4>2, <2>v, <3>1, <1>t, SameCopies
    <3> QED
      BY <3>1, <2>g, <2>v
  <2>3. ASSUME NEW p \in Session, NEW o \in Statements, Command(p, o)  PROVE Goal
    <3>1. Others(p) /\ me'[p].pc \in {"start", "readBase"}
      BY <1>m, <2>3, CommandEffect
    <3>2. UNCHANGED <<globals, copy, stale, inited, held>> /\ me[p].pc = "idle"
      BY <2>3 DEF Command, At, own, shared
    <3> QED
      BY <3>1, <3>2, <2>s
  <2>4. ASSUME NEW p \in Session, Step(p)  PROVE Goal
    <3>k. Others(p) /\ held \ {p} \subseteq held'
      BY <1>2, <2>4, StepOthers
    <3>e. End(p) => me'[p].pc = "idle"
      BY <1>m, <1>i, EndEffect DEF Ended
    <3>u. ASSUME NEW to \in Labels \ {"lookup"}, Goto(p, to)
          PROVE  me'[p].pc = to /\ me'[p].op = me[p].op /\ me'[p].val = me[p].val
      BY <1>m, <3>u, GotoEffect DEF Moved
    <3>l. ASSUME NEW g \in Goals, Lock(p, g)  PROVE me'[p].pc = "lookup"
      BY <1>m, <3>l, LockEffect DEF Moved
    <3>n. {"start", "writeGlobal", "copyOwn", "dynRead", "dynEnter", "dynFill", "dynCopy"}
             \subseteq Labels \ {"lookup"}
      BY DEF Labels
    <3>1. CASE Lookup(p) \/ PopFree(p) \/ Link(p) \/ SpinInit(p) \/ SpinAcquire(p)
      <4>1. me'[p].pc \in Locking \cup Goals
        BY <3>1, LockSteps DEF Locks, Locking
      <4>2. UNCHANGED <<globals, copy, stale, inited>> /\ me[p].pc # "copyOwn"
        BY <3>1 DEF Lookup, PopFree, Link, SpinInit, SpinAcquire, own, shared, history, At
      <4> QED
        BY <4>1, <4>2, <3>k, <2>s DEF Locking, Goals, Inside
    <3>2. CASE ReadBase(p) \/ StartGet(p) \/ GetGlobal(p) \/ DynRead(p)
      <4>1. UNCHANGED <<globals, copy, stale, inited>> /\ me[p].pc # "copyOwn"
        BY <3>2 DEF ReadBase, StartGet, GetGlobal, DynRead, own, shared, history, At
      <4>2. \/ End(p) \/ \E g \in {"init", "getGlobal"} : Lock(p, g)
            \/ \E to \in {"dynRead", "dynEnter"} : Goto(p, to)
        BY <3>2 DEF ReadBase, StartGet, GetGlobal, DynRead, Raise, Unlock
      <4>3. {"init", "getGlobal"} \subseteq Goals
        BY DEF Goals, Inside
      <4>4. me'[p].pc \notin {"copyOwn", "dynFill"}
        BY <4>2, <4>3, <3>e, <3>l, <3>u, <3>n
      <4> QED
        BY <4>1, <4>4, <3>k, <2>s
    <3>3. CASE StartSet(p)
      <4>1. UNCHANGED <<globals, copy, stale, inited>> /\ me[p].pc # "copyOwn"
        BY <3>3 DEF StartSet, own, shared, history, At
      <4>2. ASSUME NEW w, NEW l \in {"lookup", "setSession"}, NEW to,
                   me' = [me EXCEPT ![p] = [@ EXCEPT !.val = w, !.pc = l, !.goal = to]]
            PROVE  me'[p].pc = l
        BY <4>2, <1>m DEF MeType
      <4>3. \/ End(p)
            \/ \E w, to : \E l \in {"lookup", "setSession"} :
                 me' = [me EXCEPT ![p] = [@ EXCEPT !.val = w, !.pc = l, !.goal = to]]
        BY <3>3 DEF StartSet
      <4>4. me'[p].pc \notin {"copyOwn", "dynFill"}
        BY <4>2, <4>3, <3>e
      <4> QED
        BY <4>1, <4>4, <3>k, <2>s
    <3>4. CASE ReadDefault(p)
      <4>1. UNCHANGED <<globals, copy, stale, inited>> /\ me[p].pc # "copyOwn"
        BY <3>4 DEF ReadDefault, own, history, At
      <4>2. ASSUME NEW w, me' = [me EXCEPT ![p].pc = "setSession", ![p].val = w]
            PROVE  me'[p].pc = "setSession"
        BY <4>2, <1>m DEF MeType
      <4>4. me'[p].pc \notin {"copyOwn", "dynFill"}
        BY <4>2, <3>4, <3>e DEF ReadDefault
      <4> QED
        BY <4>1, <4>4, <3>k, <2>s
    <3>5. CASE SetSession(p)
      <4>1. /\ UNCHANGED <<globals, stale, inited>> /\ me[p].pc = "setSession"
            /\ End(p) \/ Goto(p, "dynRead")
        BY <3>5 DEF SetSession, shared, history, At
      <4>2. ASSUME NEW v \in Vars, Copied(v), NEW q \in Session
            PROVE  copy'[q][v] = copy[q][v]
        <5>1. Var(p) = v => UNCHANGED copy
          BY <3>5, <4>2 DEF SetSession, Copied, Ours
        <5>2. UNCHANGED copy \/ copy' = [copy EXCEPT ![p][Var(p)] = me[p].val]
          BY <3>5 DEF SetSession
        <5> QED
          BY <5>1, <5>2, <1>t, SMT
      <4>3. me'[p].pc \in {"idle", "dynRead"}
        BY <4>1, <3>e, <3>u, <3>n
      <4> QED
        BY <4>1, <4>2, <4>3, <3>k, <2>s
    <3>6. CASE SetGlobal(p)
      <4>1. /\ UNCHANGED <<copy, stale, inited>> /\ me[p].pc = "setGlobal" /\ p \in held
            /\ Var(p) \in Vars
        BY <3>6, <1>t DEF SetGlobal, own, At, Control, Inside
      <4>x. PICK x \in Vars : x = Var(p)
        BY <4>1
      <4>2. CASE UNCHANGED globals /\ (Goto(p, "dynRead") \/ End(p))
        <5>1. me'[p].pc \in {"idle", "dynRead"}
          BY <4>2, <3>e, <3>u, <3>n
        <5> QED
          BY <4>1, <4>2, <5>1, <3>k, <2>s
      <4>3. CASE /\ Var(p) \in Switch /\ End(p)
                 /\ globals' \in {globals, [globals EXCEPT ![Var(p)] = me[p].val]}
        <5>1. ~Copied(Var(p))
          BY <4>3, SysVarsAssumption, SMT DEF Copied
        <5>2. \A v \in Vars : Copied(v) => globals'[v] = globals[v]
          BY <4>3, <5>1, <1>t
        <5> QED
          BY <4>1, <4>3, <5>2, <3>e, <3>k, <2>s
      <4>4. CASE /\ globals' = [globals EXCEPT ![Var(p)] = Half]
                 /\ Goto(p, "writeGlobal")
        <5>1. me'[p].pc = "writeGlobal" /\ me'[p].op = me[p].op
          BY <4>4, <3>u, <3>n
        <5>2. globals'[x] = Half /\ \A v \in Vars \ {x} : globals'[v] = globals[v]
          BY <4>x, <4>4, <1>t
        <5>3. \A q \in Session : ~Filling(q, x)'
          <6>1. \A q \in Session : q # p => me'[q] = me[q] /\ ~At(q, "dynFill")
            BY <4>1, <2>f, <3>k DEF Others
          <6> QED
            BY <6>1, <5>1 DEF Filling, At
        <5>4. Current(x)'
          BY <5>2, <5>3, <4>x, <1>b DEF Current
        <5> QED
          BY <5>1, <5>2, <5>4, <4>x, <4>1, <3>k, <2>v DEF At
      <4> QED
        BY <3>6, <4>2, <4>3, <4>4 DEF SetGlobal, Unlock, Raise
    <3>7. CASE WriteGlobal(p)
      <4>1. /\ me[p].pc = "writeGlobal" /\ p \in held /\ Var(p) \in Vars
            /\ inited' = inited /\ copy' = copy
            /\ globals' = [globals EXCEPT ![Var(p)] = me[p].val]
            /\ stale' = (stale \ {<<p, Var(p)>>}) \cup {<<q, Var(p)>> : q \in inited \ {p}}
        BY <3>7, <1>t DEF WriteGlobal, own, At, Control, Inside
      <4>x. PICK x \in Vars : x = Var(p)
        BY <4>1
      <4>2. \/ End(p) /\ ~Copied(x)
            \/ Goto(p, "copyOwn") /\ Copied(x)
        BY <3>7, <4>x DEF WriteGlobal, Unlock
      <4>3. /\ me'[p].pc \in {"idle", "copyOwn"}
            /\ me'[p].pc = "copyOwn" =>
                 Copied(x) /\ me'[p].op = me[p].op /\ me'[p].val = me[p].val
            /\ Copied(x) => me'[p].pc = "copyOwn"
        BY <4>2, <3>e, <3>u, <3>n
      <4>4. globals'[x] = me[p].val /\ \A v \in Vars \ {x} : globals'[v] = globals[v]
        BY <4>x, <4>1, <1>t
      <4>5. /\ \A q \in inited \ {p} : <<q, x>> \in stale'
            /\ \A v \in Vars \ {x}, q \in Session : <<q, v>> \in stale => <<q, v>> \in stale'
        BY <4>x, <4>1, SMT
      <4>6. ASSUME Copied(x)  PROVE Current(x)'
        <5>1. globals'[x] # Absent
          BY <4>4, <1>m, <1>b DEF MeType
        <5>2. \A q \in Session : q # p => me'[q] = me[q] /\ ~At(q, "dynFill")
          BY <4>1, <2>f, <3>k DEF Others
        <5>3. \A q \in Session : ~Filling(q, x)'
          BY <5>2, <4>3 DEF Filling, At
        <5>4. Writing(p, x)' /\ globals'[x] = me'[p].val
          BY <4>x, <4>3, <4>4, <4>6 DEF Writing, At, Var
        <5>5. ASSUME NEW q \in Session, q # p, Writing(q, x)'  PROVE <<q, x>> \in stale'
          <6>1. me[q].pc = "copyOwn"
            BY <5>2, <5>5 DEF Writing, At
          <6>2. q \in inited
            BY <6>1 DEF Prepared, Locking
          <6> QED
            BY <6>2, <5>5, <4>5
        <5>6. \A q \in inited' : Writing(q, x)' \/ <<q, x>> \in stale'
          BY <4>1, <4>5, <5>4
        <5> QED
          BY <5>1, <5>3, <5>4, <5>5, <5>6 DEF Current
      <4>7. At(p, "copyOwn")' => Copied(Var(p))'
        BY <4>x, <4>3 DEF At, Var, Copied
      <4> QED
        BY <4>x, <4>1, <4>3, <4>4, <4>5, <4>6, <4>7, <3>k, <2>v DEF At
    <3>8. CASE CopyOwn(p)
      <4>1. /\ me[p].pc = "copyOwn" /\ Var(p) \in Vars /\ End(p) /\ Copied(Var(p))
            /\ UNCHANGED <<inited, globals, stale, held>>
            /\ copy' = [copy EXCEPT ![p][Var(p)] = IF @ = Absent THEN @ ELSE me[p].val]
        BY <3>8, <1>t, <2>c DEF CopyOwn, shared, history, At
      <4>x. PICK x \in Vars : x = Var(p)
        BY <4>1
      <4>2. /\ \A q \in Session, v \in Vars : q # p \/ v # x => copy'[q][v] = copy[q][v]
            /\ copy'[p][x] = IF copy[p][x] = Absent THEN Absent ELSE me[p].val
        BY <4>x, <4>1, <1>t, SMT
      <4>3. me'[p].pc = "idle"
        BY <4>1, <3>e
      <4>4. Writing(p, x) /\ Current(x)
        BY <4>x, <4>1, <2>c DEF Writing, At
      <4>5. \A q \in Session :
              /\ ~Writing(p, x)' /\ ~Filling(p, x)'
              /\ q # p => /\ Writing(q, x)' <=> Writing(q, x)
                          /\ Filling(q, x)' <=> Filling(q, x)
                          /\ me'[q] = me[q]
        BY <4>3, <3>k DEF Others, Writing, Filling, At, Var
      <4>6. Current(x)'
        <5>1. ~Untouched(x)
          BY <4>4 DEF Untouched
        <5>2. globals'[x] # Absent /\ \A q \in Session : ~Filling(q, x)'
          BY <5>1, <4>1, <4>4, <4>5 DEF Current
        <5>3. \A q \in Session : Writing(q, x)' =>
                 globals'[x] = Half \/ <<q, x>> \in stale' \/ globals'[x] = me'[q].val
          BY <4>1, <4>4, <4>5 DEF Current
        <5>4. \A q \in inited' : q # p =>
                 \/ copy'[q][x] = Absent \/ globals'[x] \in {Absent, Half}
                 \/ <<q, x>> \in stale' \/ Writing(q, x)' \/ copy'[q][x] = globals'[x]
          <6> SUFFICES ASSUME NEW q \in inited, q # p
                       PROVE  \/ copy'[q][x] = Absent
                              \/ globals'[x] \in {Absent, Half}
                              \/ <<q, x>> \in stale' \/ Writing(q, x)'
                              \/ copy'[q][x] = globals'[x]
            BY <4>1
          <6>1. q \in Session
            BY <1>t
          <6>2. copy'[q][x] = copy[q][x] /\ (Writing(q, x)' <=> Writing(q, x))
            BY <6>1, <4>2, <4>5
          <6> QED
            BY <6>2, <4>1, <4>4 DEF Current
        <5>5. \/ copy'[p][x] = Absent \/ globals'[x] = Half
              \/ <<p, x>> \in stale' \/ copy'[p][x] = globals'[x]
          BY <4>1, <4>2, <4>4 DEF Current
        <5> QED
          BY <5>2, <5>3, <5>4, <5>5, <4>1 DEF Current
      <4> QED
        BY <4>x, <4>1, <4>2, <4>3, <4>6, <3>k, <2>v DEF At
    <3>9. CASE DynEnter(p)
      <4>1. /\ me[p].pc = "dynEnter" /\ Var(p) \in Vars
            /\ UNCHANGED <<inited, copy, stale, held>>
        BY <3>9, <1>t DEF DynEnter, own, At
      <4>x. PICK x \in Vars : x = Var(p)
        BY <4>1
      <4>2. CASE Goto(p, "dynCopy") /\ UNCHANGED globals
        <5>1. me'[p].pc = "dynCopy"
          BY <4>2, <3>u, <3>n
        <5> QED
          BY <4>1, <4>2, <5>1, <3>k, <2>s
      <4>3. CASE /\ globals[Var(p)] = Absent /\ Goto(p, "dynFill")
                 /\ globals' = [globals EXCEPT ![Var(p)] = Half]
                 /\ seen' = seen \cup IF p \in held THEN {} ELSE {"unlockedAdd"}
        <5>1. p \in held'
          BY <4>1, <4>3 DEF Regular
        <5>2. me'[p].pc = "dynFill" /\ me'[p].op = me[p].op
          BY <4>3, <3>u, <3>n
        <5>3. globals'[x] = Half /\ \A v \in Vars \ {x} : globals'[v] = globals[v]
          BY <4>x, <4>3, <1>t
        <5>4. ASSUME Copied(x)  PROVE Current(x)'
          <6>1. Untouched(x)
            BY <4>x, <4>3, <5>4, <2>c DEF Current
          <6>2. \A q \in Session : ~Writing(q, x)'
            BY <6>1, <5>2, <3>k DEF Untouched, Others, Writing, At, Var
          <6>3. Untouched(x)'
            BY <6>1, <6>2, <4>1 DEF Untouched
          <6> QED
            BY <6>2, <6>3, <5>3, <1>b DEF Current
        <5> QED
          BY <4>x, <4>1, <5>1, <5>2, <5>3, <5>4, <3>k, <2>v DEF At
      <4> QED
        BY <3>9, <4>2, <4>3 DEF DynEnter
    <3>10. CASE DynFill(p)
      <4>1. /\ me[p].pc = "dynFill" /\ Var(p) \in Vars /\ Goto(p, "dynCopy")
            /\ UNCHANGED <<inited, copy, stale, held>>
            /\ globals' = [globals EXCEPT ![Var(p)] = BaseValue]
        BY <3>10, <1>t DEF DynFill, own, history, At
      <4>x. PICK x \in Vars : x = Var(p)
        BY <4>1
      <4>2. me'[p].pc = "dynCopy" /\ me'[p].op = me[p].op
        BY <4>1, <3>u, <3>n
      <4>3. globals'[x] = BaseValue /\ \A v \in Vars \ {x} : globals'[v] = globals[v]
        BY <4>x, <4>1, <1>t
      <4>4. ASSUME Copied(x)  PROVE Current(x)'
        <5>1. Untouched(x) /\ p \in held
          BY <4>x, <4>1, <4>4, <2>c DEF Current, Filling, At
        <5>2. \A q \in Session : q # p => me'[q] = me[q] /\ ~At(q, "dynFill")
          BY <5>1, <2>f, <3>k DEF Others
        <5>3. \A q \in Session : ~Filling(q, x)' /\ ~Writing(q, x)'
          BY <5>1, <5>2, <4>2 DEF Untouched, Filling, Writing, At, Var
        <5>4. \A q \in inited' : copy'[q][x] = Absent \/ copy'[q][x] = globals'[x]
          BY <5>1, <4>1, <4>3, <1>t DEF Untouched
        <5> QED
          BY <5>3, <5>4, <4>3, <1>b DEF Current
      <4> QED
        BY <4>x, <4>1, <4>2, <4>3, <4>4, <3>k, <2>v DEF At
    <3>11. CASE DynCopy(p)
      <4>1. /\ me[p].pc = "dynCopy" /\ Var(p) \in Vars
            /\ UNCHANGED <<inited, globals>>
            /\ copy' = [copy EXCEPT ![p][Var(p)] = IF @ = Absent THEN BaseValue ELSE @]
            /\ stale' = stale \cup
                 IF copy[p][Var(p)] = Absent /\ globals[Var(p)] # BaseValue
                 THEN {<<p, Var(p)>>} ELSE {}
        BY <3>11, <1>t DEF DynCopy, At, Var
      <4>x. PICK x \in Vars : x = Var(p)
        BY <4>1
      <4>2. /\ \A q \in Session, v \in Vars : q # p \/ v # x => copy'[q][v] = copy[q][v]
            /\ copy'[p][x] = IF copy[p][x] = Absent THEN BaseValue ELSE copy[p][x]
        BY <4>x, <4>1, <1>t, SMT
      <4>3. /\ stale \subseteq stale'
            /\ copy[p][x] = Absent /\ globals[x] # BaseValue => <<p, x>> \in stale'
        BY <4>x, <4>1
      <4>4. me'[p].pc = "idle"
        <5>1. CASE Raise(p)
          BY <5>1, <3>e DEF Raise
        <5>2. CASE /\ IF p \in held
                      THEN Unlock(p, IF Sets(me[p].op) /\ Copied(me[p].op.var)
                                     THEN "copyOwn" ELSE "idle")
                      ELSE End(p) /\ UNCHANGED <<mutex, held>>
                   /\ seen' = seen \cup IF Sets(me[p].op) /\ ~me[p].op.session
                                        THEN {"setLost"} ELSE {}
          <6>1. ~(Sets(me[p].op) /\ Copied(me[p].op.var))
            BY <5>2 DEF Regular, Sets, Ours, Copied
          <6>2. End(p)
            BY <5>2, <6>1 DEF Unlock
          <6> QED
            BY <6>2, <3>e
        <5> QED
          BY <3>11, <5>1, <5>2 DEF DynCopy
      <4>5. \A q \in Session :
              /\ ~Writing(p, x)' /\ ~Filling(p, x)' /\ ~Writing(p, x)
              /\ q # p => /\ Writing(q, x)' <=> Writing(q, x)
                          /\ Filling(q, x)' <=> Filling(q, x)
                          /\ me'[q] = me[q]
        BY <4>1, <4>4, <3>k DEF Others, Writing, Filling, At, Var
      <4>6. ASSUME Copied(x)  PROVE Current(x)'
        <5>1. Current(x)
          BY <4>6, <2>c
        <5>2. Untouched(x) => Untouched(x)'
          BY <4>2, <4>5, SMT DEF Untouched
        <5>3. \A q \in Session : Filling(q, x)' => Filling(q, x)
          BY <4>5
        <5>4. \A q \in Session : Writing(q, x)' =>
                 globals'[x] = Half \/ <<q, x>> \in stale' \/ globals'[x] = me'[q].val
          BY <5>1, <4>1, <4>3, <4>5 DEF Current
        <5>5. \A q \in inited' : q # p =>
                 \/ copy'[q][x] = Absent \/ globals'[x] \in {Absent, Half}
                 \/ <<q, x>> \in stale' \/ Writing(q, x)' \/ copy'[q][x] = globals'[x]
          <6> SUFFICES ASSUME NEW q \in inited, q # p
                       PROVE  \/ copy'[q][x] = Absent
                              \/ globals'[x] \in {Absent, Half}
                              \/ <<q, x>> \in stale' \/ Writing(q, x)'
                              \/ copy'[q][x] = globals'[x]
            BY <4>1
          <6>1. q \in Session
            BY <1>t
          <6>2. copy'[q][x] = copy[q][x] /\ (Writing(q, x)' <=> Writing(q, x))
            BY <6>1, <4>2, <4>5
          <6> QED
            BY <6>2, <5>1, <4>1, <4>3 DEF Current
        <5>6. p \in inited' =>
                 \/ copy'[p][x] = Absent \/ globals'[x] \in {Absent, Half}
                 \/ <<p, x>> \in stale' \/ copy'[p][x] = globals'[x]
          BY <5>1, <4>1, <4>2, <4>3, <4>5, SMT DEF Current
        <5> QED
          BY <5>1, <5>2, <5>3, <5>4, <5>5, <5>6, <4>1 DEF Current
      <4> QED
        BY <4>x, <4>1, <4>2, <4>3, <4>4, <4>6, <3>k, <2>v DEF At
    <3>12. CASE InitVars(p)
      <4>1. /\ me[p].pc = "init" /\ p \in held
            /\ \A v \in Vars : \/ globals'[v] = globals[v]
                               \/ globals[v] = Absent /\ globals'[v] = BaseValue
            /\ inited' = inited \cup {p}
        BY <3>12, <1>t DEF InitVars, At, Control, Inside
      <4>2. PICK S : InitCopies(p, S)
        BY <3>12 DEF InitVars
      <4>3. ASSUME NEW v \in Vars
            PROVE  /\ \A q \in Session : q # p => copy'[q][v] = copy[q][v]
                   /\ \/ copy'[p][v] = Absent
                      \/ copy'[p][v] = BaseValue /\ (globals'[v] # BaseValue => <<p, v>> \in stale')
                   /\ stale \subseteq stale'
        BY <4>2, <4>3, <1>t, SMT DEF InitCopies
      <4>4. me'[p].pc \in {"idle", "start"}
        BY <3>12, <3>e, <3>u, <3>n DEF InitVars, Unlock, Raise
      <4>5. \A q \in Session : q # p => me'[q] = me[q] /\ ~At(q, "dynFill")
        BY <4>1, <2>f, <3>k DEF Others
      <4>6. ASSUME NEW v \in Vars, Copied(v)  PROVE Current(v)'
        <5>1. Current(v)
          BY <4>6, <2>c
        <5>2. \A q \in Session : /\ ~Filling(q, v)'
                                 /\ Writing(q, v)' => Writing(q, v) /\ q # p
                                 /\ Writing(q, v) => Writing(q, v)' /\ q # p
          BY <4>1, <4>4, <4>5 DEF Filling, Writing, At, Var
        <5>c. /\ \A q \in Session : q # p => copy'[q][v] = copy[q][v]
              /\ copy'[p][v] \in {Absent, BaseValue} /\ stale \subseteq stale'
              /\ \/ globals'[v] = globals[v]
                 \/ globals[v] = Absent /\ globals'[v] = BaseValue
          BY <4>1, <4>3
        <5>3. globals'[v] = Absent => Untouched(v)'
          <6>1. Untouched(v) => Untouched(v)'
            BY <5>2, <5>c DEF Untouched
          <6> QED
            BY <6>1, <5>1, <5>c, <1>b DEF Current
        <5>4. ASSUME NEW q \in Session, Writing(q, v)'
              PROVE globals'[v] = Half \/ <<q, v>> \in stale' \/ globals'[v] = me'[q].val
          <6>1. Writing(q, v) /\ q # p /\ ~Untouched(v)
            BY <5>2, <5>4 DEF Untouched
          <6>2. globals'[v] = globals[v]
            BY <6>1, <5>1, <4>1 DEF Current
          <6> QED
            BY <6>1, <6>2, <5>1, <4>3, <4>5 DEF Current
        <5>5. ASSUME NEW q \in inited', q # p
              PROVE  \/ copy'[q][v] = Absent \/ globals'[v] \in {Absent, Half}
                     \/ <<q, v>> \in stale' \/ Writing(q, v)' \/ copy'[q][v] = globals'[v]
          <6>1. q \in inited /\ q \in Session
            BY <5>5, <4>1, <1>t
          <6>2. CASE globals[v] = Absent
            BY <6>1, <6>2, <5>1, <5>5, <5>c DEF Current, Untouched
          <6>3. CASE globals[v] # Absent
            BY <6>1, <6>3, <5>1, <5>2, <5>5, <5>c DEF Current
          <6> QED
            BY <6>2, <6>3
        <5>6. copy'[p][v] = Absent \/ <<p, v>> \in stale' \/ copy'[p][v] = globals'[v]
          BY <4>3
        <5> QED
          BY <5>2, <5>3, <5>4, <5>5, <5>6 DEF Current
      <4> QED
        BY <4>4, <4>6, <3>k, <2>g DEF At
    <3> QED
      BY <1>2, <2>4, <3>1, <3>2, <3>3, <3>4, <3>5, <3>6, <3>7, <3>8, <3>9, <3>10, <3>11,
          <3>12 DEF Step, Dies
  <2> QED
    BY <2>1, <2>2, <2>3, <2>4 DEF Next
<1> QED
    BY <1>1, <1>2

(* The inductive invariant holds.                                          *)
LEMMA InvariantHolds ==
    Spec => []IInv
<1>1. Init => IInv
  <2> SUFFICES ASSUME Init  PROVE IInv
    OBVIOUS
  <2>1. /\ Idle \in [pc : Labels, op : Statements \cup {NoOp}, goal : Labels,
                     cell : Cells \cup {NoCell}, val : Values \cup {Half}]
        /\ Idle.pc = "idle" /\ Idle.val = BaseValue
        /\ BaseValue \in Values /\ BaseValue # Half /\ Absent # Half
        /\ MaxCommands \in Nat
    BY SysVarsAssumption, SMT DEF Idle, Labels, Half, Absent
  <2>3. /\ me = [p \in Session |-> Idle] /\ held = {} /\ seen = {}
        /\ globals = NoCopies /\ copy = [p \in Session |-> NoCopies]
        /\ result = [p \in Session |-> BaseValue] /\ linked = NoCell
        /\ mutex = [c \in Cells |-> 0] /\ freeHead = 1
        /\ base = [p \in Session |-> {}]
    BY DEF Init, Fresh
  <2>2. TypeOK
    <3>1. /\ globals \in [Vars -> Values \cup {Absent, Half}]
          /\ copy \in [Session -> [Vars -> Values \cup {Absent, Half}]]
      BY <2>3 DEF NoCopies
    <3>2. me \in [Session -> [pc : Labels, op : Statements \cup {NoOp}, goal : Labels,
                             cell : Cells \cup {NoCell}, val : Values \cup {Half}]]
      BY <2>1, <2>3
    <3>3. /\ base \in [Session -> SUBSET Vars]
          /\ result \in [Session -> Values \cup {Half}]
          /\ mutex \in [Cells -> {0, 1}]
      BY <2>1, <2>3
    <3>4. rows \subseteq Vars /\ initFlag \in BOOLEAN /\ inited \subseteq Session
      BY DEF Init
    <3>6. commands = 0 /\ stale = {}
      BY DEF Init
    <3>7. commands \in 0 .. MaxCommands /\ stale \subseteq Session \X Vars
      BY <2>1, <3>6, SMT
    <3>5. /\ linked \in Cells \cup {NoCell} /\ freeHead \in Nat
          /\ held \subseteq Session /\ seen \subseteq Events
      BY <2>3
    <3> QED
      BY <3>1, <3>2, <3>3, <3>4, <3>5, <3>7 DEF TypeOK
  <2>4. Control
    BY <2>1, <2>3 DEF Control, Locking, Inside
  <2>5. OneLock
    BY <2>1, <2>3, SMT DEF OneLock, Creating
  <2>6. Whole
    BY <2>1, <2>3 DEF Whole, NoCopies
  <2>7. inited = {} /\ stale = {}
    BY DEF Init
  <2>8. Prepared /\ Copies
    BY <2>1, <2>3, <2>7 DEF Prepared, Copies, Current, Untouched, Writing, Filling, At, NoCopies
  <2> QED
    BY <2>2, <2>4, <2>5, <2>6, <2>8 DEF IInv
<1>2. IInv /\ [Next]_vars => IInv'
    BY ControlStep, OneLockStep, TypeStep, WholeStep, PreparedStep, CopiesStep DEF IInv
<1> QED
    BY <1>1, <1>2, PTL DEF Spec

(* Every value a session stores, reads or answers with is one the variable *)
(* can have, and a statement is always at a point its handler has.         *)
THEOREM SysVarsTyping ==
    Spec => []TypeOK
<1>1. IInv => TypeOK
    BY DEF IInv
<1> QED
    BY <1>1, InvariantHolds, PTL

(* Unless two sessions create the entry of the lock at the same time, at   *)
(* most one session has the lock of the global variables: for any number   *)
(* of sessions, variables and statements.                                  *)
THEOREM OneHolder ==
    Spec => []LockHasOneHolder
<1>1. IInv => LockHasOneHolder
  <2> SUFFICES ASSUME IInv, "escaped" \notin seen, "overlapped" \notin seen
               PROVE  /\ \A p, q \in held : p = q
                      /\ \A c \in Cells : mutex[c] = 1 <=> \E p \in held : me[p].cell = c
    BY DEF LockHasOneHolder
  <2>1. held \subseteq Session
    BY DEF IInv, TypeOK
  <2>2. /\ \A p, q \in held : p = q
        /\ \A p \in held : me[p].cell = linked /\ mutex[me[p].cell] = 1
        /\ \A c \in Cells : mutex[c] = 1 => c = linked /\ held # {}
    BY <2>1 DEF IInv, OneLock
  <2> QED
    BY <2>2
<1> QED
    BY <1>1, InvariantHolds, PTL

(* No statement answers with a value of which only a part was written, as  *)
(* long as the lock was created once and no variable was added to the      *)
(* shared table without it.                                                *)
THEOREM WholeReads ==
    Spec => []ReadsWhole
<1>1. IInv => ReadsWhole
    BY DEF IInv, Whole, ReadsWhole
<1> QED
    BY <1>1, InvariantHolds, PTL

(* A session's copy of a variable that is global only has the global       *)
(* value, except while the session writes it, after another session has    *)
(* set it, or when the session began after that: whatever the rows of      *)
(* base_variables are, when they appear and what else is set.              *)
THEOREM CopiesAreCurrent ==
    Spec => []CopyCurrent
<1>1. IInv => CopyCurrent
  <2> SUFFICES ASSUME IInv, Regular, NEW p \in inited, NEW v \in Vars, Copied(v)
               PROVE  \/ copy[p][v] = Absent
                      \/ globals[v] \in {Absent, Half} \/ <<p, v>> \in stale
                      \/ At(p, "copyOwn") \/ copy[p][v] = globals[v]
    BY DEF CopyCurrent, Regular
  <2>1. Current(v)
    BY DEF IInv, Copies
  <2> QED
    BY <2>1 DEF Current, Writing
<1> QED
    BY <1>1, InvariantHolds, PTL

-----------------------------------------------------------------------------
(* uuid_short().                                                           *)
USE SMT

(* How far the lock entry has come, and who may be where meanwhile: while  *)
(* it is being created everyone else is idle, afterwards everyone who is   *)
(* past the lookup works with the one linked element.                      *)
UuidEntryInv ==
    /\ uuidLinked \in {UuidNoCell, 1}
    /\ uuidLinked = UuidNoCell => uuidFreeHead = 1
    /\ \A p \in Backends :
        /\ pc[p] \in {"pop", "link"} => uuidLinked = UuidNoCell
        /\ pc[p] \in {"init", "acquire"} \/ UuidHolds(p) => uuidLinked = 1
        /\ pc[p] \in {"link", "init", "acquire"} \/ UuidHolds(p) => cell[p] = 1
        /\ UuidCreating(p) => \A q \in Backends \ {p} : pc[q] = "idle"

(* The spinlock is taken exactly while its only holder is in the section.  *)
UuidLockInv ==
    /\ \A p \in Backends : UuidHolds(p) => uuidMutex[1] = 1
    /\ uuidMutex[1] = 1 => \E p \in Backends : UuidHolds(p)
    /\ UuidMutualExclusion

(* The counter runs ahead of the values returned by the one in flight.     *)
UuidCountInv ==
    /\ (\A p \in Backends : pc[p] # "release") =>
         uuidShortVal = Base + Len(issued)
    /\ \A p \in Backends :
        /\ pc[p] = "store" => getRet[p] = uuidShortVal + 1
        /\ pc[p] = "release" => /\ uuidShortVal = Base + Len(issued) + 1
                                /\ getRet[p] = uuidShortVal
    /\ \A i \in DOMAIN issued : issued[i] = Base + i

(* The inductive invariant behind both conditional properties.             *)
UuidParts == UuidEntryInv /\ UuidLockInv /\ UuidCountInv

UuidInv == overlapped = {} => UuidParts

(* Every variable keeps its type through every step of a call.             *)
THEOREM UuidTyping ==
    UuidSpec => []UuidTypeOK
<1> USE UuidAssumption
<1>1. UuidInit => UuidTypeOK
  BY DEF UuidInit, UuidShortShmemInit, UuidTypeOK, UuidCells,
         UuidNoCell
<1>2. UuidTypeOK /\ [UuidNext]_uuidVars => UuidTypeOK'
  <2> SUFFICES ASSUME UuidTypeOK, [UuidNext]_uuidVars PROVE UuidTypeOK'
    OBVIOUS
  <2> USE DEF UuidTypeOK, UuidGoto
  <2>1. ASSUME NEW p \in Backends, UuidLookup(p) PROVE UuidTypeOK'
    BY <2>1 DEF UuidLookup, uuidShared
  <2>2. ASSUME NEW p \in Backends, UuidPopFree(p) PROVE UuidTypeOK'
    BY <2>2 DEF UuidPopFree, uuidShared
  <2>3. ASSUME NEW p \in Backends, UuidLink(p) PROVE UuidTypeOK'
    BY <2>3 DEF UuidLink, UuidCells, UuidNoCell
  <2>4. ASSUME NEW p \in Backends, UuidSpinInit(p) PROVE UuidTypeOK'
    BY <2>4, Zenon DEF UuidSpinInit
  <2>5. ASSUME NEW p \in Backends, UuidSpinAcquire(p) PROVE UuidTypeOK'
    BY <2>5, Zenon DEF UuidSpinAcquire
  <2>6. ASSUME NEW p \in Backends, LoadVal(p) PROVE UuidTypeOK'
    BY <2>6 DEF LoadVal, uuidShared
  <2>7. ASSUME NEW p \in Backends, StoreVal(p) PROVE UuidTypeOK'
    BY <2>7 DEF StoreVal
  <2>8. ASSUME NEW p \in Backends, UuidSpinRelease(p) PROVE UuidTypeOK'
    <3>1. issued' \in Seq(Nat)
      BY <2>8, AppendProperties DEF UuidSpinRelease
    <3>2. QED
      BY <2>8, <3>1, Zenon DEF UuidSpinRelease
  <2>9. CASE UNCHANGED uuidVars
    BY <2>9 DEF uuidVars
  <2>10. QED
    BY <2>1, <2>2, <2>3, <2>4, <2>5, <2>6, <2>7, <2>8, <2>9
       DEF UuidNext, UuidCall
<1>3. QED
  BY <1>1, <1>2, PTL DEF UuidSpec

(* UuidInv holds initially and every step of lockUuidShort, getUuidShort   *)
(* and unlockUuidShort preserves it.                                       *)
LEMMA UuidInductive ==
    UuidSpec => []UuidInv
<1> USE UuidAssumption
<1>1. UuidInit => UuidInv
  BY DEF UuidInit, UuidShortShmemInit, UuidInv, UuidParts, UuidEntryInv,
         UuidLockInv, UuidCountInv, UuidCreating, UuidHolds,
         UuidMutualExclusion, UuidNoCell, UuidCells
<1>2. UuidTypeOK /\ UuidInv /\ [UuidNext]_uuidVars => UuidInv'
  <2> SUFFICES ASSUME UuidTypeOK, UuidInv, [UuidNext]_uuidVars,
                      overlapped' = {}
               PROVE  UuidParts'
    BY DEF UuidInv
  <2>0. overlapped = {} /\ UuidParts
    BY Zenon DEF UuidInv, UuidNext, UuidCall, UuidLookup, UuidPopFree,
           UuidLink, UuidSpinInit, UuidSpinAcquire, LoadVal,
           StoreVal, UuidSpinRelease, uuidVars
  <2> USE <2>0
          DEF UuidTypeOK, UuidParts, UuidEntryInv, UuidLockInv, UuidCountInv,
              UuidMutualExclusion, UuidHolds, UuidCreating, UuidGoto, UuidCells,
              UuidNoCell
  <2>1. ASSUME NEW p \in Backends, UuidLookup(p) PROVE UuidParts'
    <3>1. \A q \in Backends : ~UuidCreating(q)
      BY <2>1, Zenon DEF UuidLookup
    <3>2. uuidLinked = UuidNoCell => \A q \in Backends : pc[q] = "idle"
      BY <3>1
    <3>3. UuidEntryInv'
      BY <2>1, <3>1, <3>2 DEF UuidLookup, uuidShared
    <3>4. UuidLockInv'
      BY <2>1 DEF UuidLookup, uuidShared
    <3>5. UuidCountInv'
      BY <2>1 DEF UuidLookup, uuidShared
    <3> HIDE DEF UuidEntryInv, UuidLockInv, UuidCountInv
    <3>6. QED
      BY <3>3, <3>4, <3>5
  <2>2. ASSUME NEW p \in Backends, UuidPopFree(p) PROVE UuidParts'
    <3>1. UuidEntryInv'
      BY <2>2 DEF UuidPopFree, uuidShared
    <3>2. UuidLockInv'
      BY <2>2 DEF UuidPopFree, uuidShared
    <3>3. UuidCountInv'
      BY <2>2 DEF UuidPopFree, uuidShared
    <3> HIDE DEF UuidEntryInv, UuidLockInv, UuidCountInv
    <3>4. QED
      BY <3>1, <3>2, <3>3
  <2>3. ASSUME NEW p \in Backends, UuidLink(p) PROVE UuidParts'
    <3>1. UuidEntryInv'
      BY <2>3 DEF UuidLink
    <3>2. UuidLockInv'
      BY <2>3 DEF UuidLink
    <3>3. UuidCountInv'
      BY <2>3 DEF UuidLink
    <3> HIDE DEF UuidEntryInv, UuidLockInv, UuidCountInv
    <3>4. QED
      BY <3>1, <3>2, <3>3
  <2>4. ASSUME NEW p \in Backends, UuidSpinInit(p) PROVE UuidParts'
    <3>1. UuidEntryInv'
      BY <2>4 DEF UuidSpinInit
    <3>2. UuidLockInv'
      BY <2>4 DEF UuidSpinInit
    <3>3. UuidCountInv'
      BY <2>4 DEF UuidSpinInit
    <3> HIDE DEF UuidEntryInv, UuidLockInv, UuidCountInv
    <3>4. QED
      BY <3>1, <3>2, <3>3
  <2>5. ASSUME NEW p \in Backends, UuidSpinAcquire(p) PROVE UuidParts'
    <3>1. UuidEntryInv'
      BY <2>5 DEF UuidSpinAcquire
    <3>2. UuidLockInv'
      BY <2>5 DEF UuidSpinAcquire
    <3>3. UuidCountInv'
      BY <2>5 DEF UuidSpinAcquire
    <3> HIDE DEF UuidEntryInv, UuidLockInv, UuidCountInv
    <3>4. QED
      BY <3>1, <3>2, <3>3
  <2>6. ASSUME NEW p \in Backends, LoadVal(p) PROVE UuidParts'
    <3>1. UuidEntryInv'
      BY <2>6 DEF LoadVal, uuidShared
    <3>2. UuidLockInv'
      BY <2>6 DEF LoadVal, uuidShared
    <3>3. UuidCountInv'
      BY <2>6 DEF LoadVal, uuidShared
    <3> HIDE DEF UuidEntryInv, UuidLockInv, UuidCountInv
    <3>4. QED
      BY <3>1, <3>2, <3>3
  <2>7. ASSUME NEW p \in Backends, StoreVal(p) PROVE UuidParts'
    <3>1. UuidEntryInv'
      BY <2>7 DEF StoreVal
    <3>2. UuidLockInv'
      BY <2>7 DEF StoreVal
    <3>3. UuidCountInv'
      BY <2>7 DEF StoreVal
    <3> HIDE DEF UuidEntryInv, UuidLockInv, UuidCountInv
    <3>4. QED
      BY <3>1, <3>2, <3>3
  <2>8. ASSUME NEW p \in Backends, UuidSpinRelease(p) PROVE UuidParts'
    <3>1. UuidEntryInv'
      BY <2>8 DEF UuidSpinRelease
    <3>2. UuidLockInv'
      BY <2>8 DEF UuidSpinRelease
    <3>3. UuidCountInv'
      <4>1. /\ UuidHolds(p) /\ uuidShortVal = Base + Len(issued) + 1
            /\ getRet[p] = uuidShortVal /\ uuidShortVal' = uuidShortVal
            /\ getRet' = getRet /\ issued' = Append(issued, getRet[p])
        BY <2>8 DEF UuidSpinRelease
      <4>2. \A q \in Backends : pc'[q] \notin {"store", "release"}
        BY <2>8, <4>1, Zenon DEF UuidSpinRelease
      <4>3. /\ Len(issued') = Len(issued) + 1
            /\ \A i \in 1..Len(issued) : issued'[i] = issued[i]
            /\ issued'[Len(issued) + 1] = getRet[p]
            /\ DOMAIN issued' = 1..(Len(issued) + 1)
            /\ DOMAIN issued = 1..Len(issued) /\ Len(issued) \in Nat
        BY <4>1, AppendProperties
      <4>4. \A i \in DOMAIN issued' : issued'[i] = Base + i
        BY <4>1, <4>3
      <4>5. QED
        BY <4>1, <4>2, <4>3, <4>4
    <3> HIDE DEF UuidEntryInv, UuidLockInv, UuidCountInv
    <3>4. QED
      BY <3>1, <3>2, <3>3
  <2>9. CASE UNCHANGED uuidVars
    BY <2>9 DEF uuidVars
  <2>10. QED
    BY <2>1, <2>2, <2>3, <2>4, <2>5, <2>6, <2>7, <2>8, <2>9, Zenon
       DEF UuidNext, UuidCall
<1>3. QED
  BY <1>1, <1>2, UuidTyping, PTL DEF UuidSpec

(* At most one backend is between lockUuidShort and unlockUuidShort, for   *)
(* any number of backends, unless the creation of the lock entry was       *)
(* overlapped.                                                             *)
THEOREM UuidMutex ==
    UuidSpec => []UuidMutexUnlessOverlap
<1>1. UuidInv => UuidMutexUnlessOverlap
  BY DEF UuidInv, UuidParts, UuidLockInv, UuidMutexUnlessOverlap
<1>2. QED
  BY <1>1, UuidInductive, PTL

(* The values getUuidShort returns are Base + 1, Base + 2, ... in the order*)
(* of the unlocks, unless the creation of the lock entry was overlapped.   *)
THEOREM UuidSequential ==
    UuidSpec => []UuidSequentialUnlessOverlap
<1>1. UuidInv => UuidSequentialUnlessOverlap
  BY DEF UuidInv, UuidParts, UuidCountInv, UuidSequentialUnlessOverlap
<1>2. QED
  BY <1>1, UuidInductive, PTL
=============================================================================
