------------------------ MODULE AutoIncrementProofs ------------------------
(***************************************************************************)
(* nextval() never gives a value a row has, and a restart restores a state *)
(* past every committed row, for any number of sessions, any length of     *)
(* the log and any number of crashes.  IInv, the invariant the proofs rest *)
(* on, says who has the buffer's lock and the table, and how the buffer,   *)
(* the page on disk and the log bound each other; there is a lemma for     *)
(* every action.                                                           *)
(***************************************************************************)
EXTENDS AutoIncrement, TLAPS

USE Zenon

(* Who works with the buffer has its lock, found the sequence not used up, *)
(* and, when it will not log, found the value covered by a record later    *)
(* than the redo pointer it read.                                          *)
Holding(s) == pc[s] \in {"locked", "marked"}

LockInv ==
    /\ \A s \in Session : Holding(s) <=> holder = s
    /\ \A s \in Session : pc[s] = "marked" => dirty
    /\ \A s \in Session : Holding(s) /\ op[s].val # 0 =>
         op[s].val \in Vals /\ Moves(s)
    /\ \A s \in Session : Holding(s) /\ op[s].val = 0 =>
         /\ op[s].kind \in {"null", "default"}
         /\ page.called => page.last < MaxVal
         /\ ~ logit => page.log >= 1 /\ page.called /\ redoptr < page.lsn

(* What each statement is, by where it is: ALTER TABLE has the table once  *)
(* it has left "alter", and resets only what it sees no row of.            *)
StmtOf(s) ==
    /\ op[s].kind = "none" <=> pc[s] = "idle"
    /\ pc[s] = "alter" => op[s].kind \in Alters
    /\ pc[s] = "nextval" => op[s].kind \in {"null", "default"} /\ op[s].val = 0
    /\ op[s].kind \in Alters =>
         /\ pc[s] \notin {"nextval", "insert"}
         /\ op[s].kind = "reset" => rows[s] = {}
         /\ pc[s] # "alter" => owner = s
    /\ pc[s] \in {"setval", "insert"} /\ op[s].kind \notin Alters =>
         op[s].val \in Vals

StmtInv == \A s \in Session : StmtOf(s)

(* While a transaction has AccessExclusiveLock, no other changes the       *)
(* table.                                                                  *)
TableInv ==
    \A s, t \in Session : s # t /\ owner = s => ~ InsertHas(t)

(* The value of an INSERT that has one.                                    *)
Given(s) ==
    \/ pc[s] = "insert"
    \/ op[s].kind \in {"null", "default"} /\ op[s].val # 0

(* The buffer is past every value in use.                                  *)
PageInv ==
    /\ \A v \in table \ excused : v < Upcoming(page)
    /\ \A s \in Session : \A v \in rows[s] \ excused : v < Upcoming(page)
    /\ \A s \in Session : Given(s) /\ op[s].val \notin excused =>
         op[s].val < Upcoming(page)

(* A page is covered by the record whose LSN it has, with what log_cnt     *)
(* still allows; the buffer has the LSN of the last record, and what is on *)
(* disk is covered by a record that is on disk too.                        *)
Covered(p) ==
    /\ p.lsn \in 1 .. Len(wal)
    /\ Upcoming(p) + p.log <= Upcoming(wal[p.lsn])

CoverInv ==
    /\ Covered(page) /\ page.lsn = Len(wal)
    /\ Covered(disk) /\ disk.lsn <= flushed
    /\ ~ dirty => disk = page

(* Every record a restart may still come to end with is past the table.    *)
LogInv ==
    \A f \in flushed .. Len(wal) :
        \A v \in table \ excused : v < Upcoming(wal[f])

(* A restart from position r finds on disk what was before r, and, if      *)
(* nothing was logged after it, all that the buffer has given out.         *)
OnDisk(r) ==
    /\ r <= disk.lsn
    /\ Len(wal) = r => \A v \in Vals \ excused :
                          v < Upcoming(page) => v < Upcoming(disk)

RedoInv ==
    /\ ctlRedo <= flushed
    /\ OnDisk(ctlRedo)
    /\ ckpt = "scanned" /\ ~ needed => OnDisk(ckptRedo)
    /\ flushed <= ctlRedo => \A v \in table \ excused : v < Upcoming(disk)

IInv ==
    /\ TypeOK /\ LockInv /\ StmtInv /\ TableInv /\ PageInv
    /\ CoverInv /\ LogInv /\ RedoInv

storage == <<page, dirty, needed, disk, wal, flushed, ckptRedo, ctlRedo, ckpt,
             table>>

(* A step that leaves the buffer, the log, the checkpoint and the table    *)
(* alone keeps what is said of them.                                       *)
LEMMA StorageFrame ==
    ASSUME CoverInv, LogInv, RedoInv, storage' = storage,
           excused \subseteq excused'
    PROVE  CoverInv' /\ LogInv' /\ RedoInv'
  BY SMT DEF CoverInv, Covered, LogInv, RedoInv, OnDisk, Upcoming, storage

(* Likewise for what is said of the sessions and the buffer; the lock is   *)
(* needed only to keep a marked page dirty.                                *)
sessions == <<page, holder, pc, op, logit, redoptr, changes, excused>>

LEMMA SessionFrame ==
    ASSUME LockInv, StmtInv, TableInv, PageInv, sessions' = sessions,
           table' \subseteq table, dirty => dirty' \/ holder = NoOne
    PROVE  LockInv' /\ StmtInv' /\ TableInv' /\ PageInv'
<1>1. LockInv'
  BY AutoIncAssumption, SMT DEF sessions, changes, LockInv, Holding, Moves,
        AutoIncAssumption
<1>2. StmtInv' /\ TableInv'
  BY SMT DEF sessions, changes, StmtInv, StmtOf, TableInv, InsertHas, Changed
<1>3. PageInv'
  BY DEF sessions, changes, PageInv, Given, Upcoming
<1> QED BY <1>1, <1>2, <1>3

(* What Upcoming ranges over, and that the last record covers the buffer.  *)
LEMMA UpcomingNat ==
    ASSUME TypeOK, CoverInv
    PROVE  /\ Upcoming(page) \in Nat /\ Upcoming(disk) \in Nat
           /\ \A f \in 1 .. Len(wal) : Upcoming(wal[f]) \in Nat
           /\ Upcoming(page) <= Upcoming(wal[Len(wal)])
           /\ \A v \in Vals : v \in Nat
<1>1. /\ page.last \in Nat /\ page.called \in BOOLEAN /\ page.log \in Nat
      /\ disk.last \in Nat /\ \A v \in Vals : v \in Nat
  BY AutoIncAssumption, SMT DEF TypeOK, Page, Vals, AutoIncAssumption
<1>2. \A f \in 1 .. Len(wal) : wal[f].last \in Nat
  <2>1. \A f \in 1 .. Len(wal) : wal[f] \in State
    BY SMT DEF TypeOK
  <2> QED BY <1>1, <2>1 DEF State
<1>3. /\ Upcoming(page) \in Nat /\ Upcoming(disk) \in Nat
      /\ \A f \in 1 .. Len(wal) : Upcoming(wal[f]) \in Nat
  BY <1>1, <1>2, SMT DEF Upcoming
<1>4. Len(wal) \in 1 .. Len(wal)
  BY SMT DEF TypeOK
<1>5. Upcoming(page) + page.log <= Upcoming(wal[Len(wal)])
  BY DEF CoverInv, Covered
<1> HIDE DEF Upcoming
<1>6. Upcoming(page) <= Upcoming(wal[Len(wal)])
  BY <1>1, <1>3, <1>4, <1>5, SMT
<1> QED BY <1>1, <1>3, <1>6

(* Below, and at most.                                                     *)
LEMMA LessLeq == \A a, b, c \in Nat : a < b /\ b <= c => a < c
  BY SMT

(* <= is transitive ...                                                    *)
LEMMA LeqLeq == \A a, b, c \in Nat : a <= b /\ b <= c => a <= c
  BY SMT

(* ... and < is irreflexive.                                               *)
LEMMA NotLess == \A a \in Nat : ~ (a < a)
  BY SMT

(* The value of a statement is a number.                                   *)
LEMMA OpNat ==
    ASSUME TypeOK
    PROVE  \A t \in Session : op[t].val \in Nat
<1>1. \A n \in 0 .. MaxVal + 1 : n \in Nat
  BY AutoIncAssumption, SMT DEF AutoIncAssumption
<1>2. \A t \in Session : op[t] \in Op
  BY DEF TypeOK
<1> QED BY <1>1, <1>2 DEF Op

(* One more record: the only position that is new.                         *)
LEMMA OneMore ==
    \A a, b, c \in Nat : a <= b => \A f \in b .. c + 1 :
        f \notin a .. c => f = c + 1
  BY SMT

(* A step of one session that leaves the buffer and the log alone.         *)
LEMMA QuietStep ==
    ASSUME IInv, NEW s \in Session, ~ Holding(s), ~ Holding(s)',
           UNCHANGED <<shared, log, local, table, crashes>>,
           stmts' \in 0 .. MaxStmts,
           excused \subseteq excused', excused' \subseteq Vals,
           pc' \in [Session -> Places], op' \in [Session -> Op],
           rows' \in [Session -> SUBSET Vals],
           deleted' \in [Session -> SUBSET Vals],
           owner' \in Session \cup {NoOne},
           \A t \in Session \ {s} :
             /\ pc'[t] = pc[t] /\ op'[t] = op[t]
             /\ rows'[t] = rows[t] /\ deleted'[t] = deleted[t]
             /\ owner = t <=> owner' = t,
           StmtOf(s)',
           owner' = s => \A t \in Session \ {s} : ~ InsertHas(t),
           owner' \in Session \ {s} => ~ InsertHas(s)',
           \A v \in rows'[s] \ excused' : v < Upcoming(page),
           Given(s)' /\ op'[s].val \notin excused' => op'[s].val < Upcoming(page)
    PROVE  IInv'
<1>0. TypeOK /\ LockInv /\ StmtInv /\ TableInv /\ PageInv /\ CoverInv
     /\ LogInv /\ RedoInv
  BY DEF IInv
<1>1. TypeOK'
  BY <1>0 DEF TypeOK, shared, log, local
<1>2. LockInv'
  <2>1. /\ page' = page /\ dirty' = dirty /\ holder' = holder
        /\ logit' = logit /\ redoptr' = redoptr
    BY DEF shared, local
  <2>2. \A t \in Session : Holding(t)' <=> Holding(t)
    BY DEF Holding
  <2>3. \A t \in Session : Holding(t) => op'[t] = op[t] /\ pc'[t] = pc[t]
    OBVIOUS
  <2>4. \A t \in Session : pc'[t] = "marked" => pc[t] = "marked"
    BY <2>2, <2>3 DEF Holding
  <2> QED BY <1>0, <2>1, <2>2, <2>3, <2>4 DEF LockInv, Moves
<1>3. StmtInv'
  <2>1. ASSUME NEW t \in Session \ {s}
        PROVE  StmtOf(t)'
    BY <1>0 DEF StmtInv, StmtOf
  <2> QED BY <2>1 DEF StmtInv
<1>4. TableInv'
  <2>1. \A t \in Session \ {s} : InsertHas(t)' <=> InsertHas(t)
    BY DEF InsertHas, Changed
  <2> QED BY <1>0, <2>1 DEF TableInv
<1>5. PageInv'
  <2>1. Upcoming(page') = Upcoming(page) /\ table' = table
    BY DEF shared
  <2>2. \A t \in Session \ {s} : Given(t)' <=> Given(t)
    BY DEF Given
  <2>3. \A t \in Session : \A v \in rows'[t] \ excused' : v < Upcoming(page)
    BY <1>0 DEF PageInv
  <2>4. \A t \in Session : Given(t)' /\ op'[t].val \notin excused' =>
          op'[t].val < Upcoming(page)
    BY <1>0, <2>2 DEF PageInv
  <2>5. \A v \in table' \ excused' : v < Upcoming(page)
    BY <1>0, <2>1 DEF PageInv
  <2> QED BY <2>1, <2>3, <2>4, <2>5 DEF PageInv, Upcoming
<1>6. CoverInv' /\ LogInv' /\ RedoInv'
  BY <1>0, StorageFrame DEF shared, log, storage
<1> QED BY <1>1, <1>2, <1>3, <1>4, <1>5, <1>6 DEF IInv

(* A statement that fails, and takes its transaction with it.              *)
LEMMA AbortStep ==
    ASSUME IInv, NEW s \in Session, ~ Holding(s), Abort(s),
           UNCHANGED <<shared, log, local, table, stmts, crashes, excused>>
    PROVE  IInv'
<1>0. TypeOK
  BY DEF IInv
<1>1. /\ pc' = [pc EXCEPT ![s] = "idle"] /\ op' = [op EXCEPT ![s] = NoOp]
      /\ rows' = [rows EXCEPT ![s] = {}] /\ deleted' = [deleted EXCEPT ![s] = {}]
      /\ owner' = IF owner = s THEN NoOne ELSE owner
  BY DEF Abort, Leave, Goto, EndTransaction
<1>2. /\ pc' \in [Session -> Places] /\ pc'[s] = "idle"
      /\ rows' \in [Session -> SUBSET Vals] /\ rows'[s] = {}
      /\ deleted' \in [Session -> SUBSET Vals] /\ deleted'[s] = {}
      /\ owner' \in Session \cup {NoOne} /\ owner' # s
  BY <1>0, <1>1, AutoIncAssumption DEF TypeOK, Places, AutoIncAssumption
<1>3. NoOp \in Op
  BY AutoIncAssumption, SMT DEF NoOp, Op, AutoIncAssumption
<1>4. op' \in [Session -> Op] /\ op'[s].kind = "none" /\ op'[s].val = 0
  BY <1>0, <1>1, <1>3 DEF TypeOK, NoOp
<1>5. \A t \in Session \ {s} :
        /\ pc'[t] = pc[t] /\ op'[t] = op[t]
        /\ rows'[t] = rows[t] /\ deleted'[t] = deleted[t]
        /\ owner = t <=> owner' = t
  BY <1>0, <1>1, AutoIncAssumption DEF TypeOK, AutoIncAssumption
<1>6. StmtOf(s)' /\ ~ Holding(s)' /\ ~ Given(s)' /\ ~ InsertHas(s)'
  BY <1>2, <1>4 DEF StmtOf, Holding, Given, InsertHas, Changed, Alters
<1>7. stmts' \in 0 .. MaxStmts /\ excused' \subseteq Vals
  BY <1>0 DEF TypeOK
<1> QED BY <1>2, <1>4, <1>5, <1>6, <1>7, QuietStep

(* INSERT begins.                                                          *)
LEMMA InsertStep ==
    ASSUME IInv, NEW s \in Session, NEW kind \in {"null", "default", "value"},
           NEW v \in 0 .. MaxVal, kind = "value" <=> v # 0, Insert(s, kind, v)
    PROVE  IInv'
<1>0. TypeOK /\ StmtInv /\ TableInv /\ PageInv
  BY DEF IInv
<1>1. /\ pc' = [pc EXCEPT ![s] = IF kind = "value" THEN "setval" ELSE "nextval"]
      /\ op' = [op EXCEPT ![s] = [kind |-> kind, val |-> v]]
      /\ rows' = rows /\ deleted' = deleted /\ owner' = owner
      /\ pc[s] = "idle" /\ MayWrite(s)
      /\ UNCHANGED <<shared, log, local, table, crashes, excused>>
  BY DEF Insert, Goto, changes
<1>2. stmts' \in 0 .. MaxStmts
  BY <1>0, AutoIncAssumption, SMT
  DEF Insert, Statement, TypeOK, AutoIncAssumption
<1>3. /\ pc' \in [Session -> Places]
      /\ pc'[s] = IF kind = "value" THEN "setval" ELSE "nextval"
  BY <1>0, <1>1 DEF TypeOK, Places
<1>4. [kind |-> kind, val |-> v] \in Op /\ (v # 0 => v \in Vals)
  BY AutoIncAssumption, SMT DEF Op, Vals, AutoIncAssumption
<1>5. op' \in [Session -> Op] /\ op'[s].kind = kind /\ op'[s].val = v
  BY <1>0, <1>1, <1>4 DEF TypeOK
<1>6. \A t \in Session \ {s} : pc'[t] = pc[t] /\ op'[t] = op[t]
  BY <1>0, <1>1 DEF TypeOK
<1>7. StmtOf(s)' /\ ~ Holding(s) /\ ~ Holding(s)' /\ ~ Given(s)'
  BY <1>1, <1>3, <1>4, <1>5 DEF StmtOf, Holding, Given, Alters
<1>8. owner' \notin Session \ {s}
  BY <1>1, AutoIncAssumption DEF MayWrite, AutoIncAssumption
<1>9. /\ owner' = s => \A t \in Session \ {s} : ~ InsertHas(t)
      /\ \A w \in rows'[s] \ excused' : w < Upcoming(page)
  BY <1>0, <1>1 DEF TableInv, PageInv
<1>a. /\ rows' \in [Session -> SUBSET Vals]
      /\ deleted' \in [Session -> SUBSET Vals]
      /\ owner' \in Session \cup {NoOne} /\ excused' \subseteq Vals
  BY <1>0, <1>1 DEF TypeOK
<1> QED BY <1>1, <1>2, <1>3, <1>5, <1>6, <1>7, <1>8, <1>9, <1>a, QuietStep

(* nextval() raises.                                                       *)
LEMMA NextvalExhaustedStep ==
    ASSUME IInv, NEW s \in Session, NextvalExhausted(s)
    PROVE  IInv'
  BY AbortStep DEF NextvalExhausted, Holding

(* nextval() takes the lock and decides.                                   *)
LEMMA NextvalDecideStep ==
    ASSUME IInv, NEW s \in Session, NextvalDecide(s)
    PROVE  IInv'
<1>0. TypeOK /\ LockInv /\ StmtInv /\ TableInv /\ PageInv /\ CoverInv
     /\ LogInv /\ RedoInv
  BY DEF IInv
<1>a. \A t \in Session : pc'[t] = IF t = s THEN "locked" ELSE pc[t]
  BY <1>0 DEF NextvalDecide, Goto, log, TypeOK
<1>b. op' = op
  BY DEF NextvalDecide, Goto, log
<1>c. rows' = rows /\ deleted' = deleted /\ owner' = owner
  BY DEF NextvalDecide, changes
<1>e. ~ logit' => ~ (page.log < 1) /\ page.called /\ ~ (page.lsn <= redo)
  BY Zenon DEF NextvalDecide, MustLog
<1>f. ~ logit' => page.log >= 1 /\ page.called /\ redoptr' < page.lsn
  BY <1>0, <1>e, SMT DEF NextvalDecide, TypeOK, Page
<1>g. logit' \in BOOLEAN
  BY Zenon DEF NextvalDecide, MustLog
<1>d. pc' \in [Session -> Places] /\ op' \in [Session -> Op]
     /\ rows' \in [Session -> SUBSET Vals]
     /\ deleted' \in [Session -> SUBSET Vals] /\ owner' \in Session \cup {NoOne}
  BY <1>0, <1>c, <1>e, <1>f, <1>g, AutoIncAssumption DEF NextvalDecide, Goto,
        log, TypeOK, StmtInv, StmtOf, Places, Op, Alters, Vals,
        AutoIncAssumption
<1>1. TypeOK'
  BY <1>0, <1>d, <1>e, <1>f, <1>g, AutoIncAssumption, SMT DEF NextvalDecide,
        Goto, log, TypeOK, AutoIncAssumption
<1>2. LockInv'
  BY <1>0, <1>a, <1>b, <1>e, <1>f, <1>g, AutoIncAssumption, SMT DEF
        AutoIncAssumption, NextvalDecide, Goto, log, LockInv, Holding,
        Moves, StmtInv, StmtOf, Vals, TypeOK, Page
<1>3. StmtInv'
  BY <1>0, <1>a, <1>b, <1>c, <1>e, <1>f, <1>g, ZenonT(60)
  DEF NextvalDecide, StmtInv, StmtOf,
        Alters, Vals
<1>6. TableInv'
  BY <1>0, <1>a, <1>b, <1>c, <1>e, <1>f, <1>g, SMT DEF NextvalDecide, StmtInv,
        StmtOf, TableInv, Alters, InsertHas, Changed
<1>4. PageInv'
  BY <1>0, <1>a, <1>b, <1>c, <1>e, <1>f, <1>g, SMT DEF NextvalDecide, Goto, log,
        PageInv, Given, StmtInv, StmtOf, Alters, Upcoming
<1>5. CoverInv' /\ LogInv' /\ RedoInv'
  BY <1>0, StorageFrame, <1>e, <1>f, <1>g DEF NextvalDecide, Goto, log,
        storage
<1> QED BY <1>1, <1>2, <1>3, <1>4, <1>5, <1>6 DEF IInv

(* mys_setval3_oid() raises.                                               *)
LEMMA SetvalOutOfBoundsStep ==
    ASSUME IInv, NEW s \in Session, SetvalOutOfBounds(s)
    PROVE  IInv'
  BY AbortStep DEF SetvalOutOfBounds, Holding

(* mys_setval3_oid() takes the lock.                                       *)
LEMMA SetvalLockStep ==
    ASSUME IInv, NEW s \in Session, SetvalLock(s)
    PROVE  IInv'
<1>0. TypeOK /\ LockInv /\ StmtInv /\ TableInv /\ PageInv /\ CoverInv
     /\ LogInv /\ RedoInv
  BY DEF IInv
<1>a. \A t \in Session : pc'[t] = IF t = s THEN "locked" ELSE pc[t]
  BY <1>0 DEF SetvalLock, Goto, log, local, changes, TypeOK
<1>b. op' = op
  BY DEF SetvalLock, Goto, log, local, changes
<1>c. rows' = rows /\ deleted' = deleted /\ owner' = owner
  BY DEF SetvalLock, Goto, log, local, changes
<1>d. pc' \in [Session -> Places] /\ op' \in [Session -> Op]
     /\ rows' \in [Session -> SUBSET Vals]
     /\ deleted' \in [Session -> SUBSET Vals] /\ owner' \in Session \cup {NoOne}
  BY <1>0, AutoIncAssumption DEF SetvalLock, Goto, log, local, changes, TypeOK,
        StmtInv, StmtOf, Places, Op, Alters, Vals, AutoIncAssumption
<1>1. TypeOK'
  BY <1>0, <1>d, AutoIncAssumption DEF SetvalLock, Goto, log, local, changes,
        TypeOK, AutoIncAssumption
<1>2. LockInv'
  BY <1>0, <1>a, <1>b, AutoIncAssumption, SMT DEF AutoIncAssumption,
        SetvalLock, Goto, log, local, changes, LockInv, Holding, Moves,
        StmtInv, StmtOf, Vals
<1>3. StmtInv'
  BY <1>0, <1>a, <1>b, <1>c, SMT DEF SetvalLock, StmtInv, StmtOf, Alters
<1>6. TableInv'
  BY <1>0, <1>a, <1>b, <1>c, SMT DEF SetvalLock, StmtInv, StmtOf, TableInv,
        Alters, InsertHas, Changed
<1>4. PageInv'
  BY <1>0, <1>a, <1>b, <1>c, SMT DEF SetvalLock, Goto, log, local, changes,
        PageInv, Given, StmtInv, StmtOf, Alters, Upcoming
<1>5. CoverInv' /\ LogInv' /\ RedoInv'
  BY <1>0, StorageFrame DEF SetvalLock, Goto, log, local, changes, storage
<1> QED BY <1>1, <1>2, <1>3, <1>4, <1>5, <1>6 DEF IInv

(* The row goes in, or raises.                                             *)
LEMMA InsertRowStep ==
    ASSUME IInv, NEW s \in Session, InsertRow(s)
    PROVE  IInv'
<1>0. TypeOK /\ StmtInv /\ TableInv /\ PageInv
  BY DEF IInv
<1>1. CASE op[s].val \in Visible(s)
  BY <1>1, AbortStep DEF InsertRow, Holding
<1>2. CASE op[s].val \notin Visible(s)
  <2>1. /\ pc' = [pc EXCEPT ![s] = "idle"] /\ op' = [op EXCEPT ![s] = NoOp]
        /\ rows' = [rows EXCEPT ![s] = @ \cup {op[s].val}]
        /\ deleted' = deleted /\ owner' = owner /\ pc[s] = "insert"
        /\ UNCHANGED <<shared, log, local, table, stmts, crashes, excused>>
    BY <1>2 DEF InsertRow, Leave, Goto
  <2>2. op[s].val \in Vals /\ op[s].kind \notin Alters /\ op[s].kind # "none"
    BY <1>0, <2>1 DEF StmtInv, StmtOf, Alters
  <2>3. InsertHas(s)
    BY <1>0, <2>2 DEF InsertHas, TypeOK, Op, Alters
  <2>4. rows[s] \cup {op[s].val} \subseteq Vals
    BY <1>0, <2>2 DEF TypeOK
  <2>5. /\ pc' \in [Session -> Places] /\ pc'[s] = "idle"
        /\ rows' \in [Session -> SUBSET Vals]
        /\ rows'[s] = rows[s] \cup {op[s].val}
        /\ deleted' \in [Session -> SUBSET Vals]
        /\ owner' \in Session \cup {NoOne}
    BY <1>0, <2>1, <2>4 DEF TypeOK, Places
  <2>6. NoOp \in Op
    BY AutoIncAssumption, SMT DEF NoOp, Op, AutoIncAssumption
  <2>7. op' \in [Session -> Op] /\ op'[s].kind = "none" /\ op'[s].val = 0
    BY <1>0, <2>1, <2>6 DEF TypeOK, NoOp
  <2>8. \A t \in Session \ {s} :
          /\ pc'[t] = pc[t] /\ op'[t] = op[t]
          /\ rows'[t] = rows[t] /\ deleted'[t] = deleted[t]
          /\ owner = t <=> owner' = t
    BY <1>0, <2>1 DEF TypeOK
  <2>9. StmtOf(s)' /\ ~ Holding(s) /\ ~ Holding(s)' /\ ~ Given(s)'
    BY <2>1, <2>5, <2>7 DEF StmtOf, Holding, Given, Alters
  <2>a. /\ owner' = s => \A t \in Session \ {s} : ~ InsertHas(t)
        /\ owner' \notin Session \ {s}
    BY <1>0, <2>1, <2>3 DEF TableInv
  <2>b. \A v \in rows'[s] \ excused' : v < Upcoming(page)
    BY <1>0, <2>1, <2>5 DEF PageInv, Given
  <2>c. stmts' \in 0 .. MaxStmts /\ excused' \subseteq Vals
    BY <1>0, <2>1 DEF TypeOK
  <2> QED BY <2>1, <2>5, <2>7, <2>8, <2>9, <2>a, <2>b, <2>c, QuietStep
<1> QED BY <1>1, <1>2

(* ROLLBACK.                                                               *)
LEMMA RollbackStep ==
    ASSUME IInv, NEW s \in Session, Rollback(s)
    PROVE  IInv'
  BY AbortStep DEF Rollback, Holding

(* ALTER TABLE begins.                                                     *)
LEMMA AlterBeginStep ==
    ASSUME IInv, NEW s \in Session, NEW n \in 0 .. MaxVal + 1, AlterBegin(s, n)
    PROVE  IInv'
<1>0. TypeOK /\ TableInv /\ PageInv
  BY DEF IInv
<1> DEFINE kind == IF Visible(s) = {} THEN "reset" ELSE "alter"
<1>1. /\ pc' = [pc EXCEPT ![s] = "alter"]
      /\ op' = [op EXCEPT ![s] = [kind |-> kind, val |-> n]]
      /\ rows' = rows /\ deleted' = deleted /\ owner' = owner /\ pc[s] = "idle"
      /\ UNCHANGED <<shared, log, local, table, crashes, excused>>
  BY DEF AlterBegin, Goto, changes
<1>2. kind \in Alters /\ (kind = "reset" => rows[s] = {})
  BY DEF Alters, Visible
<1> HIDE DEF kind
<1>3. stmts' \in 0 .. MaxStmts
  BY <1>0, AutoIncAssumption, SMT
  DEF AlterBegin, Statement, TypeOK, AutoIncAssumption
<1>4. pc' \in [Session -> Places] /\ pc'[s] = "alter"
  BY <1>0, <1>1 DEF TypeOK, Places
<1>5. [kind |-> kind, val |-> n] \in Op
  BY <1>2 DEF Op, Alters
<1>6. op' \in [Session -> Op] /\ op'[s].kind = kind /\ op'[s].val = n
  BY <1>0, <1>1, <1>5 DEF TypeOK
<1>7. \A t \in Session \ {s} : pc'[t] = pc[t] /\ op'[t] = op[t]
  BY <1>0, <1>1 DEF TypeOK
<1>8. StmtOf(s)' /\ ~ Holding(s) /\ ~ Holding(s)' /\ ~ Given(s)'
  BY <1>1, <1>2, <1>4, <1>6 DEF StmtOf, Holding, Given, Alters
<1>9. InsertHas(s)' => InsertHas(s)
  BY <1>1, <1>2, <1>6 DEF InsertHas, Changed, Alters
<1>a. /\ owner' = s => \A t \in Session \ {s} : ~ InsertHas(t)
      /\ owner' \in Session \ {s} => ~ InsertHas(s)'
      /\ \A w \in rows'[s] \ excused' : w < Upcoming(page)
  BY <1>0, <1>1, <1>9 DEF TableInv, PageInv
<1>b. /\ rows' \in [Session -> SUBSET Vals]
      /\ deleted' \in [Session -> SUBSET Vals]
      /\ owner' \in Session \cup {NoOne} /\ excused' \subseteq Vals
  BY <1>0, <1>1 DEF TypeOK
<1> QED BY <1>1, <1>3, <1>4, <1>6, <1>7, <1>8, <1>a, <1>b, QuietStep

(* ALTER TABLE has the table.                                              *)
LEMMA AlterLockStep ==
    ASSUME IInv, NEW s \in Session, AlterLock(s)
    PROVE  IInv'
<1>0. TypeOK /\ StmtInv /\ TableInv /\ PageInv
  BY DEF IInv
<1>1. /\ pc' = [pc EXCEPT ![s] = "setval"] /\ op' = op
      /\ rows' = rows /\ deleted' = deleted /\ owner' = s
      /\ pc[s] = "alter" /\ MayWrite(s)
      /\ \A t \in Session \ {s} : ~ InsertHas(t)
      /\ UNCHANGED <<shared, log, local, table, stmts, crashes, excused>>
  BY DEF AlterLock, Goto
<1>2. /\ pc' \in [Session -> Places] /\ pc'[s] = "setval"
      /\ rows' \in [Session -> SUBSET Vals]
      /\ deleted' \in [Session -> SUBSET Vals]
      /\ op' \in [Session -> Op] /\ stmts' \in 0 .. MaxStmts
      /\ excused' \subseteq Vals
  BY <1>0, <1>1 DEF TypeOK, Places
<1>3. \A t \in Session \ {s} : pc'[t] = pc[t] /\ (owner = t <=> owner' = t)
  BY <1>0, <1>1, AutoIncAssumption DEF TypeOK, MayWrite, AutoIncAssumption
<1>4. op[s].kind \in Alters /\ (op[s].kind = "reset" => rows[s] = {})
  BY <1>0, <1>1 DEF StmtInv, StmtOf
<1>5. StmtOf(s)' /\ ~ Holding(s) /\ ~ Holding(s)' /\ ~ Given(s)'
  BY <1>1, <1>2, <1>4 DEF StmtOf, Holding, Given, Alters
<1>6. \A v \in rows'[s] \ excused' : v < Upcoming(page)
  BY <1>0, <1>1 DEF PageInv
<1> QED BY <1>1, <1>2, <1>3, <1>5, <1>6, QuietStep

(* The holder of the lock marks the buffer dirty.                          *)
LEMMA MarkBufferDirtyStep ==
    ASSUME IInv, NEW s \in Session, MarkBufferDirty(s)
    PROVE  IInv'
<1>0. TypeOK /\ LockInv /\ StmtInv /\ TableInv /\ PageInv /\ CoverInv
     /\ LogInv /\ RedoInv
  BY DEF IInv
<1>1. TypeOK'
  BY <1>0 DEF MarkBufferDirty, Goto, log, local, changes, TypeOK, Places
<1>2. LockInv'
  BY <1>0, AutoIncAssumption DEF MarkBufferDirty, Goto, log, local, changes,
        LockInv, Holding, Moves, AutoIncAssumption, TypeOK, Vals, State, Page,
        Op, Alters
<1>3. StmtInv'
  BY <1>0, SMT DEF MarkBufferDirty, Goto, log, local, changes, StmtInv, StmtOf
<1>4. TableInv'
  BY <1>0, SMT DEF MarkBufferDirty, Goto, log, local, changes, TableInv,
        InsertHas, Changed
<1>5. PageInv'
  BY <1>0, SMT DEF MarkBufferDirty, Goto, log, local, changes, PageInv, Given,
        Upcoming
<1>6. CoverInv'
  BY <1>0 DEF MarkBufferDirty, Goto, log, local, changes, CoverInv, Covered,
        Upcoming, TypeOK, Vals, State, Page, Op, Alters
<1>7. LogInv'
  BY <1>0 DEF MarkBufferDirty, log, LogInv, Upcoming
<1>8. RedoInv'
  BY <1>0 DEF MarkBufferDirty, Goto, log, local, changes, RedoInv, OnDisk,
        Upcoming, CoverInv, Covered, PageInv, TypeOK, Vals, State, Page, Op,
        Alters
<1> QED BY <1>1, <1>2, <1>3, <1>4, <1>5, <1>6, <1>7, <1>8 DEF IInv

(* COMMIT.                                                                 *)
LEMMA CommitStep ==
    ASSUME IInv, NEW s \in Session, Commit(s)
    PROVE  IInv'
<1>0. TypeOK /\ LockInv /\ StmtInv /\ TableInv /\ PageInv /\ CoverInv
     /\ LogInv /\ RedoInv
  BY DEF IInv
<1>a. \A v \in table' \ excused : v \in Vals /\ v < Upcoming(page)
  BY <1>0 DEF Commit, Visible, PageInv, TypeOK
<1>d. /\ \A t \in Session : rows'[t] = IF t = s THEN {} ELSE rows[t]
      /\ \A t \in Session : deleted'[t] = IF t = s THEN {} ELSE deleted[t]
      /\ owner' = IF owner = s THEN NoOne ELSE owner
      /\ rows' \in [Session -> SUBSET Vals]
      /\ deleted' \in [Session -> SUBSET Vals] /\ owner' \in Session \cup {NoOne}
  BY <1>0 DEF Commit, EndTransaction, TypeOK
<1>e. /\ op' = op /\ pc' = pc /\ page' = page /\ excused' = excused
      /\ op[s].kind = "none" /\ pc[s] = "idle"
  BY <1>0 DEF Commit, shared, StmtInv, StmtOf
<1>b. \A v \in table' \ excused : v < Upcoming(wal[Len(wal)])
  BY <1>0, <1>a, UpcomingNat, SMT DEF TypeOK
<1>c. Len(wal) <= ctlRedo => Len(wal) = ctlRedo
  BY <1>0, SMT DEF TypeOK
<1>1. TypeOK'
  <2>1. table' \subseteq Vals
    BY <1>0 DEF Commit, Visible, TypeOK
  <2>2. flushed' \in 1 .. Len(wal)
    BY <1>0, SMT DEF Commit, TypeOK
  <2> QED BY <1>0, <1>d, <2>1, <2>2 DEF Commit, shared, local, TypeOK
<1>2. LockInv'
  BY <1>0, AutoIncAssumption DEF Commit, shared, local, LockInv, Holding,
        Moves, AutoIncAssumption
<1>3. StmtInv'
  BY <1>0, <1>d, <1>e, SMT DEF StmtInv, StmtOf, Alters
<1>4. TableInv'
  <2>1. \A t \in Session : InsertHas(t)' => InsertHas(t)
    BY <1>d, <1>e DEF InsertHas, Changed
  <2>2. \A t \in Session : owner' = t => owner = t
    BY <1>d, AutoIncAssumption DEF AutoIncAssumption
  <2> QED BY <1>0, <2>1, <2>2 DEF TableInv
<1>5. PageInv'
  BY <1>0, <1>a, <1>d, <1>e DEF PageInv, Given, Upcoming
<1>6. CoverInv'
  BY <1>0, <1>a, <1>b, <1>c, SMT DEF Commit, shared, local, changes, CoverInv,
        Covered, Upcoming, TypeOK, Vals, State, Page, Op, Alters
<1>7. LogInv'
  BY <1>0, <1>a, <1>b, UpcomingNat, SMT DEF Commit, TypeOK, LogInv, Upcoming
<1>8. RedoInv'
  BY <1>0, <1>a, <1>b, <1>c, UpcomingNat, SMT DEF Commit, shared, RedoInv,
        OnDisk, Upcoming, TypeOK
<1> QED BY <1>1, <1>2, <1>3, <1>4, <1>5, <1>6, <1>7, <1>8 DEF IInv

(* A step of one session with the rows only, which the lock allows, and    *)
(* after which its rows are below the sequence's next value or excused.    *)
LEMMA RowsStep ==
    ASSUME IInv, NEW s \in Session, pc[s] = "idle", MayWrite(s), Statement,
           UNCHANGED <<shared, log, pc, op, local, owner, table, crashes>>,
           rows' \in [Session -> SUBSET Vals],
           deleted' \in [Session -> SUBSET Vals],
           \A t \in Session \ {s} : rows'[t] = rows[t] /\ deleted'[t] = deleted[t],
           excused \subseteq excused', excused' \subseteq Vals,
           \A v \in rows'[s] \ excused' : v \in rows[s] \/ v < Upcoming(page)
    PROVE  IInv'
<1>0. TypeOK /\ StmtInv /\ TableInv /\ PageInv
  BY DEF IInv
<1>1. op[s].kind = "none"
  BY <1>0 DEF StmtInv, StmtOf
<1>2. StmtOf(s)' /\ ~ Holding(s) /\ ~ Holding(s)' /\ ~ Given(s)'
  BY <1>1 DEF StmtOf, Holding, Given, Alters
<1>3. stmts' \in 0 .. MaxStmts
  BY <1>0, AutoIncAssumption, SMT DEF Statement, TypeOK, AutoIncAssumption
<1>4. owner' \notin Session \ {s}
  BY AutoIncAssumption DEF MayWrite, AutoIncAssumption
<1>5. /\ owner' = s => \A t \in Session \ {s} : ~ InsertHas(t)
      /\ \A v \in rows'[s] \ excused' : v < Upcoming(page)
  BY <1>0 DEF TableInv, PageInv
<1>6. /\ pc' \in [Session -> Places] /\ op' \in [Session -> Op]
      /\ owner' \in Session \cup {NoOne}
  BY <1>0 DEF TypeOK
<1> QED BY <1>2, <1>3, <1>4, <1>5, <1>6, QuietStep

(* DELETE.                                                                 *)
LEMMA DeleteAllStep ==
    ASSUME IInv, NEW s \in Session, DeleteAll(s)
    PROVE  IInv'
<1>1. /\ rows' = [rows EXCEPT ![s] = {}]
      /\ deleted' = [deleted EXCEPT ![s] = table]
      /\ rows \in [Session -> SUBSET Vals] /\ table \subseteq Vals
      /\ deleted \in [Session -> SUBSET Vals]
      /\ excused \subseteq Vals /\ excused' = excused
  BY DEF DeleteAll, IInv, TypeOK
<1>2. /\ rows' \in [Session -> SUBSET Vals] /\ rows'[s] = {}
      /\ deleted' \in [Session -> SUBSET Vals]
      /\ \A t \in Session \ {s} : rows'[t] = rows[t] /\ deleted'[t] = deleted[t]
  BY <1>1
<1>3. /\ pc[s] = "idle" /\ MayWrite(s) /\ Statement
      /\ UNCHANGED <<shared, log, pc, op, local, owner, table, crashes>>
  BY DEF DeleteAll
<1> QED BY <1>1, <1>2, <1>3, RowsStep

(* UPDATE.                                                                 *)
LEMMA UpdateStep ==
    ASSUME IInv, NEW s \in Session, NEW v \in Vals, NEW w \in Vals,
           Update(s, v, w)
    PROVE  IInv'
<1>1. /\ rows' = [rows EXCEPT ![s] = (@ \ {v}) \cup {w}]
      /\ deleted' = [deleted EXCEPT ![s] = @ \cup ({v} \cap table)]
      /\ rows \in [Session -> SUBSET Vals]
      /\ deleted \in [Session -> SUBSET Vals]
      /\ excused' = IF w < Upcoming(page) THEN excused ELSE excused \cup {w}
      /\ excused \subseteq Vals
  BY DEF Update, IInv, TypeOK
<1>2. /\ rows' \in [Session -> SUBSET Vals]
      /\ deleted' \in [Session -> SUBSET Vals]
      /\ \A t \in Session \ {s} : rows'[t] = rows[t] /\ deleted'[t] = deleted[t]
      /\ rows'[s] \subseteq rows[s] \cup {w}
  BY <1>1
<1>3. /\ pc[s] = "idle" /\ MayWrite(s) /\ Statement
      /\ UNCHANGED <<shared, log, pc, op, local, owner, table, crashes>>
  BY DEF Update
<1>4. /\ excused \subseteq excused' /\ excused' \subseteq Vals
      /\ w \in excused' \/ w < Upcoming(page)
  BY <1>1
<1> QED BY <1>2, <1>3, <1>4, RowsStep

(* The page is written.                                                    *)
LEMMA FlushBufferStep ==
    ASSUME IInv, FlushBuffer
    PROVE  IInv'
<1>0. TypeOK /\ LockInv /\ StmtInv /\ TableInv /\ PageInv /\ CoverInv
     /\ LogInv /\ RedoInv
  BY DEF IInv
<1>1. TypeOK'
  BY <1>0, Zenon DEF FlushBuffer, shared, log, local, changes, TypeOK, CoverInv,
        Covered
<1>2. LockInv' /\ StmtInv' /\ TableInv' /\ PageInv'
  BY <1>0, SessionFrame DEF FlushBuffer, local, changes, sessions, TypeOK
<1>6. CoverInv'
  BY <1>0, SMT DEF FlushBuffer, local, changes, CoverInv, Covered, Upcoming,
        TypeOK, Vals, State, Page, Op, Alters
<1>7. LogInv'
  BY <1>0, SMTT(40) DEF FlushBuffer, local, changes, LogInv, Upcoming,
        CoverInv, Covered, PageInv, TypeOK, Vals, State, Page, Op, Alters
<1>8. RedoInv'
  BY <1>0, SMT DEF FlushBuffer, local, changes, RedoInv, OnDisk, Upcoming,
        CoverInv, Covered, PageInv, TypeOK, Vals, State, Page, Op, Alters
<1> QED BY <1>1, <1>2, <1>6, <1>7, <1>8 DEF IInv

(* The WAL writer.                                                         *)
LEMMA XLogBackgroundFlushStep ==
    ASSUME IInv, XLogBackgroundFlush
    PROVE  IInv'
<1>0. TypeOK /\ LockInv /\ StmtInv /\ TableInv /\ PageInv /\ CoverInv
     /\ LogInv /\ RedoInv
  BY DEF IInv
<1>1. TypeOK'
  BY <1>0, AutoIncAssumption, SMT DEF XLogBackgroundFlush, shared, local,
        changes, TypeOK, AutoIncAssumption
<1>2. LockInv' /\ StmtInv' /\ TableInv' /\ PageInv'
  BY <1>0, SessionFrame DEF XLogBackgroundFlush, shared, local, changes,
        sessions
<1>6. CoverInv'
  BY <1>0, SMT DEF XLogBackgroundFlush, shared, local, changes, CoverInv,
        Covered, Upcoming, TypeOK, Vals, State, Page, Op, Alters
<1>7. LogInv'
  BY <1>0, SMT DEF XLogBackgroundFlush, LogInv, TypeOK, Upcoming
<1>8. RedoInv'
  BY <1>0, SMT DEF XLogBackgroundFlush, shared, local, changes, RedoInv,
        OnDisk, Upcoming, CoverInv, Covered, PageInv, TypeOK, Vals, State,
        Page, Op, Alters
<1> QED BY <1>1, <1>2, <1>6, <1>7, <1>8 DEF IInv

(* The redo pointer is taken.                                              *)
LEMMA CheckPointBeginStep ==
    ASSUME IInv, CheckPointBegin
    PROVE  IInv'
<1>0. TypeOK /\ LockInv /\ StmtInv /\ TableInv /\ PageInv /\ CoverInv
     /\ LogInv /\ RedoInv
  BY DEF IInv
<1>1. TypeOK'
  BY <1>0, SMT DEF CheckPointBegin, shared, local, changes, TypeOK
<1>2. LockInv' /\ StmtInv' /\ TableInv' /\ PageInv'
  BY <1>0, SessionFrame DEF CheckPointBegin, shared, local, changes, sessions
<1>6. CoverInv'
  BY <1>0 DEF CheckPointBegin, shared, local, changes, CoverInv, Covered,
        Upcoming, TypeOK, Vals, State, Page, Op, Alters
<1>7. LogInv'
  BY <1>0 DEF CheckPointBegin, shared, local, changes, LogInv, Upcoming
<1>8. RedoInv'
  BY <1>0 DEF CheckPointBegin, shared, local, changes, RedoInv, OnDisk,
        Upcoming, CoverInv, Covered, PageInv, TypeOK, Vals, State, Page, Op,
        Alters
<1> QED BY <1>1, <1>2, <1>6, <1>7, <1>8 DEF IInv

(* The redo pointer is published.                                          *)
LEMMA CheckPointPublishStep ==
    ASSUME IInv, CheckPointPublish
    PROVE  IInv'
<1>0. TypeOK /\ LockInv /\ StmtInv /\ TableInv /\ PageInv /\ CoverInv
     /\ LogInv /\ RedoInv
  BY DEF IInv
<1>1. TypeOK'
  BY <1>0, AutoIncAssumption, SMT DEF CheckPointPublish, shared, local,
        changes, TypeOK, AutoIncAssumption
<1>2. LockInv' /\ StmtInv' /\ TableInv' /\ PageInv'
  BY <1>0, SessionFrame DEF CheckPointPublish, shared, local, changes, sessions
<1>6. CoverInv'
  BY <1>0 DEF CheckPointPublish, shared, local, changes, CoverInv, Covered,
        Upcoming, TypeOK, Vals, State, Page, Op, Alters
<1>7. LogInv'
  BY <1>0 DEF CheckPointPublish, shared, local, changes, LogInv, Upcoming
<1>8. RedoInv'
  BY <1>0 DEF CheckPointPublish, shared, local, changes, RedoInv, OnDisk,
        Upcoming, CoverInv, Covered, PageInv, TypeOK, Vals, State, Page, Op,
        Alters
<1> QED BY <1>1, <1>2, <1>6, <1>7, <1>8 DEF IInv

(* The dirty buffers are marked.                                           *)
LEMMA BufferSyncStep ==
    ASSUME IInv, BufferSync
    PROVE  IInv'
<1>0. TypeOK /\ LockInv /\ StmtInv /\ TableInv /\ PageInv /\ CoverInv
     /\ LogInv /\ RedoInv
  BY DEF IInv
<1>1. TypeOK'
  BY <1>0, AutoIncAssumption DEF BufferSync, local, changes, TypeOK,
        AutoIncAssumption
<1>2. LockInv' /\ StmtInv' /\ TableInv' /\ PageInv'
  BY <1>0, SessionFrame DEF BufferSync, local, changes, sessions, TypeOK
<1>6. CoverInv'
  BY <1>0 DEF BufferSync, local, changes, CoverInv, Covered, Upcoming, TypeOK,
        Vals, State, Page, Op, Alters
<1>7. LogInv'
  BY <1>0 DEF BufferSync, local, changes, LogInv, Upcoming
<1>8. RedoInv'
  BY <1>0, SMTT(20) DEF BufferSync, local, changes, RedoInv, OnDisk, Upcoming,
        CoverInv, Covered, PageInv, TypeOK, Vals, State, Page, Op, Alters
<1> QED BY <1>1, <1>2, <1>6, <1>7, <1>8 DEF IInv

(* The checkpoint is complete.                                             *)
LEMMA CheckPointEndStep ==
    ASSUME IInv, CheckPointEnd
    PROVE  IInv'
<1>0. TypeOK /\ LockInv /\ StmtInv /\ TableInv /\ PageInv /\ CoverInv
     /\ LogInv /\ RedoInv
  BY DEF IInv
<1>1. TypeOK'
  BY <1>0, AutoIncAssumption, SMT DEF CheckPointEnd, shared, local, changes,
        TypeOK, AutoIncAssumption
<1>2. LockInv' /\ StmtInv' /\ TableInv' /\ PageInv'
  BY <1>0, SessionFrame DEF CheckPointEnd, shared, local, changes, sessions
<1>6. CoverInv'
  BY <1>0, SMT DEF CheckPointEnd, shared, local, changes, CoverInv, Covered,
        Upcoming, TypeOK, Vals, State, Page, Op, Alters
<1>7. LogInv'
  BY <1>0, SMT DEF CheckPointEnd, shared, local, changes, LogInv, Upcoming,
        CoverInv, Covered, PageInv, TypeOK, Vals, State, Page, Op, Alters
<1>8. RedoInv'
  BY <1>0, SMTT(20) DEF CheckPointEnd, shared, local, changes, RedoInv,
        OnDisk, Upcoming, CoverInv, Covered, PageInv, TypeOK, Vals, State,
        Page, Op, Alters
<1> QED BY <1>1, <1>2, <1>6, <1>7, <1>8 DEF IInv
-----------------------------------------------------------------------------

(* mys_setval3_oid() has nothing to do: the value is below the next one,   *)
(* or is it and is excused.                                                *)
LEMMA SetvalNothingStep ==
    ASSUME IInv, NEW s \in Session, SetvalNothing(s)
    PROVE  IInv'
<1>0. TypeOK /\ LockInv /\ StmtInv /\ TableInv /\ PageInv /\ CoverInv
      /\ LogInv /\ RedoInv
  BY DEF IInv
<1> DEFINE alter == op[s].kind \in Alters
<1>a. \A t \in Session :
        pc'[t] = IF t = s THEN IF alter THEN "idle" ELSE "insert" ELSE pc[t]
  BY <1>0 DEF SetvalNothing, Leave, Goto, TypeOK
<1>b. \A t \in Session :
        /\ op'[t].kind = IF t = s /\ alter THEN "none" ELSE op[t].kind
        /\ op'[t].val = IF t = s /\ alter THEN 0 ELSE op[t].val
  BY <1>0, SMT DEF SetvalNothing, Leave, NoOp, TypeOK, Op
<1>c. /\ rows' = rows /\ deleted' = deleted /\ owner' = owner
      /\ table' = table /\ page' = page /\ excused \subseteq excused'
  BY DEF SetvalNothing, shared, changes
<1>d. ~ alter => op[s].val \in Vals /\ op[s].kind # "reset"
  BY <1>0 DEF SetvalNothing, StmtInv, StmtOf, Alters
<1>e. ~ alter /\ op[s].val \notin excused' => op[s].val < Upcoming(page)
  <2>1. SUFFICES ASSUME ~ alter, op[s].val \notin excused'
                 PROVE  op[s].val < Upcoming(page)
    OBVIOUS
  <2>2. op[s].val <= page.last
    BY <1>0, <1>d, <2>1, AutoIncAssumption, SMT
    DEF SetvalNothing, Moves, Vals, TypeOK, Page, AutoIncAssumption
  <2>3. op[s].kind = "value" => op[s].val # Upcoming(page)
    BY <2>1 DEF SetvalNothing
  <2>4. op[s].kind # "value" => Given(s)
    BY <1>0, <1>d, <2>1, AutoIncAssumption, SMT
    DEF SetvalNothing, Given, StmtInv, StmtOf, TypeOK, Op, Vals, Alters,
        AutoIncAssumption
  <2>5. op[s].val \notin excused
    BY <1>c, <2>1
  <2>6. page.last \in Nat /\ op[s].val \in Nat
    BY <1>0, <1>d, <2>1, AutoIncAssumption, SMT
    DEF Vals, TypeOK, Page, AutoIncAssumption
  <2>7. CASE op[s].kind = "value"
    BY <2>2, <2>3, <2>6, <2>7, SMT DEF Upcoming
  <2>8. CASE op[s].kind # "value"
    BY <1>0, <2>4, <2>5, <2>8 DEF PageInv
  <2> QED BY <2>7, <2>8
<1>1. TypeOK'
  <2>1. pc' \in [Session -> Places] /\ op' \in [Session -> Op]
    <3>1. CASE alter
      <4>1. NoOp \in Op
        BY AutoIncAssumption, SMT DEF NoOp, Op, AutoIncAssumption
      <4> QED
        BY <1>0, <3>1, <4>1 DEF SetvalNothing, Leave, Goto, TypeOK, Places
    <3>2. CASE ~ alter
      BY <1>0, <3>2 DEF SetvalNothing, Goto, TypeOK, Places
    <3> QED BY <3>1, <3>2
  <2>2. excused' \in SUBSET Vals
    BY <1>0, <1>d DEF SetvalNothing, TypeOK, Alters
  <2> QED BY <1>0, <2>1, <2>2 DEF SetvalNothing, shared, log, local, changes, TypeOK
<1>2. LockInv'
  BY <1>0, <1>a, <1>b, <1>c, AutoIncAssumption, ZenonT(60) DEF SetvalNothing,
        shared, local, changes, LockInv, Holding, Moves, AutoIncAssumption
<1>3. StmtInv'
  <2>1. ASSUME NEW t \in Session, t # s
        PROVE  /\ op'[t].kind = op[t].kind /\ op'[t].val = op[t].val
               /\ pc'[t] = pc[t] /\ rows'[t] = rows[t] /\ owner' = owner
    BY <1>a, <1>b, <1>c, <2>1 DEF SetvalNothing
  <2>3. ASSUME NEW t \in Session, t # s
        PROVE  StmtOf(t)'
    <3>1. /\ op'[t].kind = op[t].kind /\ op'[t].val = op[t].val
          /\ pc'[t] = pc[t] /\ rows'[t] = rows[t] /\ owner' = owner
      BY <2>1, <2>3
    <3>2. StmtOf(t)
      BY <1>0 DEF StmtInv
    <3> QED BY <3>1, <3>2 DEF StmtOf
  <2>2. /\ op'[s].kind = "none" <=> pc'[s] = "idle"
        /\ pc'[s] \notin {"alter", "nextval", "setval"}
        /\ op'[s].kind \notin Alters
        /\ pc'[s] = "insert" => op'[s].val \in Vals
    BY <1>0, <1>a, <1>b, <1>d DEF SetvalNothing, StmtInv, StmtOf, Alters
  <2>4. StmtOf(s)'
    BY <2>2 DEF StmtOf
  <2> QED BY <2>3, <2>4 DEF StmtInv
<1>4. TableInv'
  BY <1>0, <1>a, <1>b, <1>c, ZenonT(60)
  DEF SetvalNothing, TableInv, InsertHas, Changed, Alters
<1>5. PageInv'
  BY <1>0, <1>a, <1>b, <1>c, <1>e DEF PageInv, Given, Upcoming
<1>6. CoverInv' /\ LogInv' /\ RedoInv'
  BY <1>0, <1>c, StorageFrame DEF SetvalNothing, shared, log, storage
<1> QED BY <1>1, <1>2, <1>3, <1>4, <1>5, <1>6 DEF IInv

(* A crash and the recovery from what is on disk.                          *)
LEMMA RecoveryAhead ==
    ASSUME IInv
    PROVE  RecoveryKeepsValues
<1>1. flushed \in flushed .. Len(wal) /\ (flushed <= ctlRedo \/ ctlRedo < flushed)
  BY SMT DEF IInv, TypeOK
<1>2. CASE ctlRedo < flushed
  <2>1. Upcoming(Recovered) = Upcoming(wal[flushed])
    BY <1>2 DEF Recovered, Upcoming
  <2> QED BY <1>1, <2>1 DEF IInv, LogInv, RecoveryKeepsValues
<1>3. CASE ~ (ctlRedo < flushed)
  BY <1>1, <1>3 DEF IInv, RedoInv, RecoveryKeepsValues, Recovered
<1> QED BY <1>2, <1>3

LEMMA CrashStep ==
    ASSUME IInv, Crash
    PROVE  IInv'
<1>0. TypeOK /\ LockInv /\ StmtInv /\ TableInv /\ PageInv /\ CoverInv
      /\ LogInv /\ RedoInv
  BY DEF IInv
<1>a. /\ wal' \in Seq(State) /\ Len(wal') = flushed
      /\ \A f \in 1 .. flushed : wal'[f] = wal[f]
  BY <1>0, SMT DEF Crash, TypeOK
<1>b. \A v \in table \ excused : v < Upcoming(Recovered)
  BY RecoveryAhead DEF RecoveryKeepsValues
<1>c. ctlRedo >= flushed => disk.lsn = flushed
  BY <1>0, SMT DEF RedoInv, OnDisk, CoverInv, TypeOK, Page
<1>d. Recovered \in Page /\ Recovered.lsn = flushed
  <2>1. CASE ctlRedo < flushed
    <3>1. wal[flushed] \in State /\ flushed \in Nat
      BY <1>0, SMT DEF TypeOK
    <3> QED BY <2>1, <3>1 DEF Recovered, Page, State
  <2>2. CASE ~ (ctlRedo < flushed)
    BY <1>0, <1>c, <2>2, SMT DEF Recovered, TypeOK
  <2> QED BY <2>1, <2>2
<1>e. Upcoming(Recovered) + Recovered.log <= Upcoming(wal[flushed])
  <2>1. CASE ctlRedo < flushed
    <3>1. Recovered.log = 0 /\ Upcoming(Recovered) = Upcoming(wal[flushed])
      BY <2>1 DEF Recovered, Upcoming
    <3>2. Upcoming(wal[flushed]) \in Nat
      BY <1>0, UpcomingNat DEF TypeOK
    <3> QED BY <3>1, <3>2, SMT
  <2>2. CASE ~ (ctlRedo < flushed)
    BY <1>0, <1>c, <2>2, SMT DEF Recovered, CoverInv, Covered, TypeOK
  <2> QED BY <2>1, <2>2
<1>1. TypeOK'
  <2>1. op' \in [Session -> Op] /\ pc' \in [Session -> Places]
        /\ rows' \in [Session -> SUBSET Vals]
     /\ deleted' \in [Session -> SUBSET Vals] /\ owner' \in Session \cup {NoOne}
    BY AutoIncAssumption, SMT
    DEF Crash, NoOp, Op, Places, Vals, AutoIncAssumption
  <2>2. /\ wal' # << >> /\ flushed' \in 1 .. Len(wal')
        /\ flushed \in 0 .. Len(wal') /\ flushed \in 0 .. flushed
    BY <1>0, <1>a, SMTT(20) DEF Crash, TypeOK
  <2>3. crashes' \in 0 .. MaxCrashes
    BY <1>0, AutoIncAssumption, SMT DEF Crash, TypeOK, AutoIncAssumption
  <2> QED BY <1>0, <1>a, <1>d, <2>1, <2>2, <2>3, Zenon DEF Crash, TypeOK
<1>2. LockInv'
  BY AutoIncAssumption DEF Crash, LockInv, Holding, AutoIncAssumption
<1>3. StmtInv'
  BY DEF Crash, StmtInv, StmtOf, NoOp, Alters
<1>4. TableInv'
  BY AutoIncAssumption DEF Crash, TableInv, AutoIncAssumption
<1>5. PageInv'
  BY <1>b DEF Crash, PageInv, Given, NoOp, Upcoming
<1>6. CoverInv'
  <2>1. flushed \in 1 .. flushed /\ flushed <= flushed
    BY <1>0, SMT DEF TypeOK
  <2>2. /\ page' = Recovered /\ disk' = Recovered /\ flushed' = flushed
        /\ wal'[flushed] = wal[flushed]
    BY <1>a, <2>1 DEF Crash
  <2> QED BY <1>a, <1>d, <1>e, <2>1, <2>2 DEF CoverInv, Covered, Upcoming
<1>7. LogInv'
  BY <1>0, <1>a, SMTT(20) DEF Crash, LogInv, TypeOK, Upcoming
<1>8. RedoInv'
  BY <1>0, <1>a, <1>b, <1>d, SMT DEF Crash, RedoInv, OnDisk, TypeOK, Upcoming
<1> QED BY <1>1, <1>2, <1>3, <1>4, <1>5, <1>6, <1>7, <1>8 DEF IInv

(* nextval() updates the buffer.                                           *)
LEMMA NextvalApplyStep ==
    ASSUME IInv, NEW s \in Session, NextvalApply(s)
    PROVE  IInv' /\ op'[s].val = Upcoming(page)
<1>0. TypeOK /\ LockInv /\ StmtInv /\ TableInv /\ PageInv /\ CoverInv
      /\ LogInv /\ RedoInv
  BY DEF IInv
<1> DEFINE new == IF page.called THEN 1 ELSE 0
           fetch == new + (IF logit THEN LogVals ELSE 0)
           got == Fetched(fetch)
           v == page.last + new
           rec == [last |-> page.last + got, called |-> TRUE]
<1>a. /\ holder = s /\ dirty
      /\ op[s].kind \in {"null", "default"} /\ op[s].val = 0
      /\ page.called => page.last < MaxVal
      /\ ~ logit => page.log >= 1 /\ page.called /\ redoptr < page.lsn
  BY <1>0 DEF NextvalApply, LockInv, Holding
<1>b. /\ page.last \in Vals /\ page.last \in Nat /\ page.called \in BOOLEAN
      /\ page.log \in Nat /\ page.lsn = Len(wal) /\ Len(wal) \in Nat \ {0}
      /\ MaxVal \in Nat /\ LogVals \in Nat /\ page.last <= MaxVal
  BY <1>0, AutoIncAssumption, SMT
  DEF TypeOK, Page, Vals, CoverInv, Covered, AutoIncAssumption
<1>c. /\ new \in {0, 1} /\ v \in Vals /\ v = Upcoming(page)
      /\ got \in Nat /\ new <= got /\ page.last + got \in Vals
      /\ got <= fetch /\ fetch \in Nat
  <2>1. /\ new \in {0, 1} /\ v = Upcoming(page) /\ page.last + new <= MaxVal
        /\ fetch \in Nat /\ new <= fetch
    BY <1>a, <1>b, SMT DEF Upcoming
  <2> HIDE DEF new, fetch
  <2>2. got \in Nat /\ new <= got /\ got <= fetch /\ page.last + got <= MaxVal
    BY <1>b, <2>1, SMTT(20) DEF Fetched
  <2> HIDE DEF got
  <2> QED BY <1>b, <2>1, <2>2, SMT DEF Vals
<1>d. /\ logit => wal' = Append(wal, rec)
      /\ ~ logit => wal' = wal
  BY Zenon DEF NextvalApply, XLogInsert
<1>e. /\ page'.last = v /\ page'.called = TRUE /\ page'.lsn = Len(wal')
      /\ logit => page'.log = got - new
      /\ ~ logit => page'.log = page.log - 1
  <2>1. page' = [last |-> v, called |-> TRUE,
                 log |-> ((IF logit THEN fetch ELSE page.log) + got)
                            - (new + fetch), lsn |-> Len(wal')]
    BY DEF NextvalApply
  <2>2. ~ logit => fetch = 1 /\ got = 1 /\ new = 1
    BY <1>a, <1>b, SMT DEF Fetched
  <2> HIDE DEF new, fetch, got, v
  <2> QED BY <1>b, <1>c, <2>1, <2>2, SMT
<1>f. /\ wal' \in Seq(State) /\ wal' # << >>
      /\ \A f \in 1 .. Len(wal) : wal'[f] = wal[f]
      /\ logit => Len(wal') = Len(wal) + 1 /\ wal'[Len(wal) + 1] = rec
      /\ ~ logit => Len(wal') = Len(wal)
  <2>1. rec \in State
    BY <1>c DEF State
  <2>2. wal \in Seq(State) /\ wal # << >>
    BY <1>0 DEF TypeOK
  <2> HIDE DEF rec
  <2>3. CASE logit
    <3>1. wal' = Append(wal, rec)
      BY <1>d, <2>3
    <3> QED BY <2>1, <2>2, <2>3, <3>1, SMT
  <2>4. CASE ~ logit
    BY <1>d, <2>2, <2>4
  <2> QED BY <2>3, <2>4
<1>g. /\ Upcoming(page') = v + 1
      /\ Upcoming(rec) = page.last + got + 1
  BY <1>e DEF Upcoming
<1>h. /\ \A t \in Session : pc'[t] = IF t = s THEN
           IF op[s].kind = "default" THEN "setval" ELSE "insert" ELSE pc[t]
      /\ \A t \in Session : op'[t].kind = op[t].kind
      /\ \A t \in Session : op'[t].val = IF t = s THEN v ELSE op[t].val
      /\ op' \in [Session -> Op] /\ pc' \in [Session -> Places]
  <2>1. v \in 0 .. MaxVal + 1
    BY <1>b, <1>c, SMT DEF Vals
  <2>2. op' = [op EXCEPT ![s].val = v]
    BY DEF NextvalApply
  <2> HIDE DEF v
  <2> QED BY <1>0, <2>1, <2>2, SMTT(20) DEF NextvalApply, Goto, TypeOK, Op, Places
<1>i. /\ excused' \in SUBSET Vals /\ excused \subseteq excused'
      /\ ~ logit /\ Len(wal) <= ckptRedo => v \in excused'
  <2>1. excused' = IF ~ logit /\ redoptr < page.lsn /\ page.lsn <= ckptRedo
                   THEN excused \cup {v} ELSE excused
    BY DEF NextvalApply
  <2> HIDE DEF v
  <2> QED BY <1>0, <1>a, <1>b, <1>c, <2>1 DEF TypeOK
<1>j. /\ holder' = NoOne /\ rows' = rows /\ deleted' = deleted
      /\ owner' = owner /\ table' = table /\ disk' = disk
      /\ dirty' = dirty /\ needed' = needed /\ flushed' = flushed
      /\ redo' = redo /\ ckptRedo' = ckptRedo /\ ctlRedo' = ctlRedo
      /\ ckpt' = ckpt /\ logit' = FALSE /\ redoptr' = 0
      /\ stmts' = stmts /\ crashes' = crashes
  BY DEF NextvalApply, changes
<1>k. page' \in Page
  <2>1. page' = [last |-> page'.last, called |-> page'.called,
                 log |-> page'.log, lsn |-> page'.lsn]
    BY DEF NextvalApply
  <2>2. page'.log \in Nat /\ page'.lsn \in Nat
    <3> HIDE DEF new, got, v, fetch, rec
    <3> QED BY <1>a, <1>b, <1>c, <1>e, <1>f, SMT
  <2> HIDE DEF v
  <2> QED BY <1>c, <1>e, <2>1, <2>2, Zenon DEF Page
<1> HIDE DEF new, fetch, got, v, rec
<1>1. TypeOK'
  <2>1. Len(wal) <= Len(wal') /\ Len(wal') \in Nat
    BY <1>b, <1>f, SMT
  <2>2. flushed' \in 1 .. Len(wal') /\ ckptRedo' \in 0 .. Len(wal')
    BY <1>0, <1>b, <1>j, <2>1, SMT DEF TypeOK
  <2> QED BY <1>0, <1>f, <1>h, <1>i, <1>j, <1>k, <2>2, Zenon DEF TypeOK
<1>2. LockInv'
  BY <1>0, <1>a, <1>h, <1>j, AutoIncAssumption, ZenonT(60)
  DEF NextvalApply, LockInv, Holding, AutoIncAssumption
<1>3. StmtInv'
  BY <1>0, <1>a, <1>c, <1>h, <1>j, SMT DEF NextvalApply, StmtInv, StmtOf, Alters
<1>4. TableInv'
  BY <1>0, <1>a, <1>h, <1>j, SMT DEF TableInv, InsertHas, Changed, Alters
<1>5. PageInv'
  <2>1. \A w \in Vals : w < Upcoming(page) => w < Upcoming(page')
    BY <1>b, <1>c, <1>g, SMT DEF Vals
  <2>2. op'[s].val < Upcoming(page')
    BY <1>b, <1>c, <1>g, <1>h, SMT DEF Vals
  <2>3. \A w \in table' \ excused' : w < Upcoming(page')
    BY <1>0, <1>i, <1>j, <2>1 DEF PageInv, TypeOK
  <2>4. \A t \in Session : \A w \in rows'[t] \ excused' : w < Upcoming(page')
    BY <1>0, <1>i, <1>j, <2>1 DEF PageInv, TypeOK
  <2>5. ASSUME NEW t \in Session, Given(t)', op'[t].val \notin excused'
        PROVE  op'[t].val < Upcoming(page')
    <3>1. CASE t = s
      BY <2>2, <3>1
    <3>2. CASE t # s
      <4>1. Given(t) /\ op'[t].val = op[t].val
        BY <1>h, <2>5, <3>2 DEF Given
      <4>2. op[t].val < Upcoming(page) /\ op[t].val \in Nat
        BY <1>0, <1>i, <2>5, <4>1, OpNat DEF PageInv
      <4> QED BY <1>b, <1>c, <1>g, <4>1, <4>2, SMT DEF Vals
    <3> QED BY <3>1, <3>2
  <2> QED BY <2>3, <2>4, <2>5 DEF PageInv, Upcoming
<1>6. CoverInv'
  <2>1. Covered(disk)' /\ disk'.lsn <= flushed'
    BY <1>0, <1>f, <1>j, SMT DEF CoverInv, Covered, Upcoming, TypeOK
  <2>2. page'.lsn \in 1 .. Len(wal') /\ page'.lsn = Len(wal')
    BY <1>b, <1>e, <1>f, SMT
  <2>3. Upcoming(page') + page'.log <= Upcoming(wal'[Len(wal')])
    <3>1. CASE logit
      BY <1>b, <1>c, <1>e, <1>f, <1>g, <3>1, SMTT(40) DEF v
    <3>2. CASE ~ logit
      <4>1. Upcoming(page) + page.log <= Upcoming(wal[Len(wal)])
        BY <1>0, <1>b DEF CoverInv, Covered
      <4>2. Upcoming(wal'[Len(wal')]) = Upcoming(wal[Len(wal)])
        BY <1>b, <1>f, <3>2, SMT
      <4>3. page'.log = page.log - 1 /\ page.log >= 1
        BY <1>a, <1>e, <3>2
      <4>4. Upcoming(wal[Len(wal)]) \in Nat /\ v \in Nat
        BY <1>0, <1>b, <1>c, UpcomingNat, SMT DEF Vals
      <4> QED BY <1>b, <1>c, <1>g, <4>1, <4>2, <4>3, <4>4, SMT
    <3> QED BY <3>1, <3>2
  <2> QED BY <1>a, <1>j, <2>1, <2>2, <2>3 DEF CoverInv, Covered, Upcoming
<1>7. LogInv'
  <2> SUFFICES ASSUME NEW f \in flushed' .. Len(wal'),
                      NEW w \in table' \ excused'
               PROVE  w < Upcoming(wal'[f])
    BY DEF LogInv, Upcoming
  <2>1. w \in Vals /\ w \in table \ excused
    BY <1>0, <1>i, <1>j DEF TypeOK
  <2>2. CASE f \in flushed .. Len(wal)
    <3>1. wal'[f] = wal[f]
      BY <1>0, <1>f, <2>2, SMT DEF TypeOK
    <3> QED BY <1>0, <2>1, <2>2, <3>1 DEF LogInv
  <2>3. CASE f \notin flushed .. Len(wal)
    <3>1. logit /\ f = Len(wal) + 1
      BY <1>0, <1>b, <1>f, <1>j, <2>3, SMT DEF TypeOK
    <3>2. Upcoming(wal'[f]) = page.last + got + 1
      BY <1>f, <1>g, <3>1
    <3>3. w < v /\ w \in Nat /\ v \in Nat
      BY <1>0, <1>b, <1>c, <2>1, SMT DEF PageInv, Vals
    <3>4. v <= page.last + got + 1
      BY <1>b, <1>c, SMT DEF v
    <3> QED BY <1>b, <1>c, <3>2, <3>3, <3>4, SMT
  <2> QED BY <2>2, <2>3
<1>8. RedoInv'
  <2>1. ASSUME NEW r \in 0 .. ckptRedo, OnDisk(r)
        PROVE  /\ r <= disk.lsn
               /\ Len(wal') = r => \A w \in Vals \ excused' :
                    w < Upcoming(page') => w < Upcoming(disk)
    <3> SUFFICES ASSUME Len(wal') = r, NEW w \in Vals \ excused',
                        w < Upcoming(page')
                 PROVE  w < Upcoming(disk)
      BY <2>1 DEF OnDisk
    <3>1. ~ logit /\ Len(wal) = r
      BY <1>0, <1>b, <1>f, SMT DEF TypeOK
    <3>2. w # v
      BY <1>0, <1>i, <3>1, SMT DEF TypeOK
    <3>3. w < Upcoming(page)
      BY <1>b, <1>c, <1>g, <3>2, SMT DEF Vals
    <3> QED BY <1>i, <2>1, <3>1, <3>3 DEF OnDisk
  <2>2. OnDisk(ctlRedo)'
    BY <1>0, <1>j, <2>1 DEF RedoInv, OnDisk, Upcoming, TypeOK
  <2>3. ckpt' = "scanned" /\ ~ needed' => OnDisk(ckptRedo)'
    <3>1. ckptRedo \in 0 .. ckptRedo
      BY <1>0, SMT DEF TypeOK
    <3> QED BY <1>0, <1>j, <2>1, <3>1 DEF RedoInv, OnDisk, Upcoming
  <2> QED BY <1>0, <1>i, <1>j, <2>2, <2>3 DEF RedoInv, Upcoming
<1>9. op'[s].val = Upcoming(page)
  BY <1>c, <1>h
<1> QED BY <1>1, <1>2, <1>3, <1>4, <1>5, <1>6, <1>7, <1>8, <1>9 DEF IInv

(* mys_setval3_oid() or setval3_oid() updates the buffer.                  *)
LEMMA SetvalApplyStep ==
    ASSUME IInv, NEW s \in Session, SetvalApply(s)
    PROVE  IInv'
<1>0. TypeOK /\ LockInv /\ StmtInv /\ TableInv /\ PageInv /\ CoverInv
      /\ LogInv /\ RedoInv
  BY DEF IInv
<1> DEFINE alter == op[s].kind \in Alters
           rec == [last |-> op[s].val, called |-> ~ alter]
<1>a. holder = s /\ dirty /\ op[s].val \in Vals /\ Moves(s) /\ pc[s] = "marked"
  BY <1>0 DEF SetvalApply, LockInv, Holding
<1>b. /\ page.last \in Nat /\ op[s].val \in Nat /\ Len(wal) \in Nat \ {0}
      /\ \A w \in Vals : w \in Nat
  BY <1>0, <1>a, AutoIncAssumption, SMT DEF TypeOK, Page, Vals,
        AutoIncAssumption
<1>c. wal' = Append(wal, rec) /\ rec \in State
  BY <1>a, Zenon DEF SetvalApply, XLogInsert, State
<1>d. /\ wal' \in Seq(State) /\ wal' # << >> /\ Len(wal') = Len(wal) + 1
      /\ \A f \in 1 .. Len(wal) : wal'[f] = wal[f]
      /\ wal'[Len(wal) + 1] = rec
  <2> HIDE DEF rec
  <2>1. wal \in Seq(State)
    BY <1>0 DEF TypeOK
  <2> QED BY <1>c, <2>1, SMT
<1>e. /\ page' \in Page /\ page'.lsn = Len(wal') /\ page'.log = 0
      /\ page'.last = op[s].val /\ Upcoming(page') = Upcoming(rec)
      /\ Upcoming(rec) \in Nat /\ op[s].val <= Upcoming(rec)
      /\ ~ alter => op[s].val < Upcoming(rec)
  <2>1. page' = [last |-> op[s].val, called |-> ~ alter,
                 log |-> 0, lsn |-> Len(wal')]
    BY Zenon DEF SetvalApply
  <2>2. /\ page'.lsn = Len(wal') /\ page'.log = 0 /\ page'.last = op[s].val
        /\ rec.last = op[s].val /\ page'.called = rec.called
    BY <2>1, Zenon
  <2>3. page' \in Page
    <3>1. Len(wal') \in Nat /\ 0 \in Nat
      BY <1>b, <1>d, SMT
    <3> QED BY <1>a, <2>1, <3>1, Zenon DEF Page
  <2>4. rec.called = ~ alter
    OBVIOUS
  <2>5. CASE alter
    <3>1. ~ rec.called
      BY <2>4, <2>5, Zenon
    <3>2. Upcoming(rec) = op[s].val /\ Upcoming(page') = op[s].val
      BY <2>2, <3>1 DEF Upcoming
    <3> HIDE DEF rec, Upcoming
    <3> QED BY <1>b, <2>2, <2>3, <2>5, <3>2, SMT
  <2>6. CASE ~ alter
    <3>1. rec.called
      BY <2>4, <2>6, Zenon
    <3>2. Upcoming(rec) = op[s].val + 1 /\ Upcoming(page') = op[s].val + 1
      BY <2>2, <3>1 DEF Upcoming
    <3> HIDE DEF rec, Upcoming
    <3> QED BY <1>b, <2>2, <2>3, <3>2, SMT
  <2> QED BY <2>5, <2>6, Zenon
<1>f. /\ \A t \in Session :
           pc'[t] = IF t = s THEN IF alter THEN "idle" ELSE "insert" ELSE pc[t]
      /\ \A t \in Session :
           /\ op'[t].kind = IF t = s /\ alter THEN "none" ELSE op[t].kind
           /\ op'[t].val = IF t = s /\ alter THEN 0 ELSE op[t].val
      /\ op' \in [Session -> Op] /\ pc' \in [Session -> Places]
  <2>1. NoOp \in Op /\ NoOp.kind = "none" /\ NoOp.val = 0
    BY AutoIncAssumption, SMT DEF NoOp, Op, AutoIncAssumption
  <2>2. CASE alter
    BY <1>0, <2>1, <2>2 DEF SetvalApply, Leave, Goto, TypeOK, Places
  <2>3. CASE ~ alter
    BY <1>0, <2>3 DEF SetvalApply, Goto, TypeOK, Places
  <2> QED BY <2>2, <2>3
<1>g. /\ excused' \in SUBSET Vals /\ excused \subseteq excused'
      /\ op[s].kind = "reset" => table \subseteq excused'
  BY <1>0 DEF SetvalApply, TypeOK
<1>h. /\ holder' = NoOne /\ rows' = rows /\ deleted' = deleted
      /\ owner' = owner /\ table' = table /\ disk' = disk
      /\ dirty' = dirty /\ needed' = needed /\ redo' = redo
      /\ ckptRedo' = ckptRedo /\ ctlRedo' = ctlRedo /\ ckpt' = ckpt
      /\ logit' = logit /\ redoptr' = redoptr
      /\ stmts' = stmts /\ crashes' = crashes
      /\ flushed' = flushed
  BY DEF SetvalApply, local, changes
<1>l. flushed \in Nat /\ flushed' \in Nat /\ flushed <= flushed'
  BY <1>0, <1>b, <1>d, <1>h, SMT DEF TypeOK
<1>i. op[s].kind # "reset" => Upcoming(page) <= Upcoming(rec)
  <2>1. op[s].kind # "reset" => page.last < op[s].val
    BY <1>a DEF Moves
  <2>2. Upcoming(page) <= page.last + 1
    BY <1>b, SMT DEF Upcoming
  <2> HIDE DEF rec
  <2>3. Upcoming(page) \in Nat
    BY <1>b, SMT DEF Upcoming
  <2> HIDE DEF Upcoming
  <2> QED BY <1>b, <1>e, <2>1, <2>2, <2>3, SMT
<1>j. ASSUME NEW t \in Session \ {s}, alter
      PROVE  rows[t] = {} /\ ~ Given(t)
  <2>1. ~ InsertHas(t)
    BY <1>0, <1>a, <1>j DEF TableInv, StmtInv, StmtOf
  <2> QED
    BY <1>0, <2>1 DEF InsertHas, Changed, Given, StmtInv, StmtOf, TypeOK, Op,
          Alters
<1> HIDE DEF rec
<1>1. TypeOK'
  <2>1. flushed' \in 1 .. Len(wal') /\ ckptRedo' \in 0 .. Len(wal')
    BY <1>0, <1>b, <1>d, <1>h, SMT DEF TypeOK
  <2> QED BY <1>0, <1>d, <1>e, <1>f, <1>g, <1>h, <2>1 DEF TypeOK
<1>2. LockInv'
  BY <1>0, <1>a, <1>f, <1>h, AutoIncAssumption
  DEF LockInv, Holding, AutoIncAssumption
<1>3. StmtInv'
  <2>1. ASSUME NEW t \in Session, t # s
        PROVE  /\ op'[t].kind = op[t].kind /\ op'[t].val = op[t].val
               /\ pc'[t] = pc[t] /\ rows'[t] = rows[t] /\ owner' = owner
    BY <1>f, <1>h, <2>1
  <2>3. ASSUME NEW t \in Session, t # s
        PROVE  StmtOf(t)'
    <3>1. /\ op'[t].kind = op[t].kind /\ op'[t].val = op[t].val
          /\ pc'[t] = pc[t] /\ rows'[t] = rows[t] /\ owner' = owner
      BY <2>1, <2>3
    <3>2. StmtOf(t)
      BY <1>0 DEF StmtInv
    <3> QED BY <3>1, <3>2 DEF StmtOf
  <2>2. /\ op'[s].kind = "none" <=> pc'[s] = "idle"
        /\ pc'[s] \notin {"alter", "nextval", "setval"}
        /\ op'[s].kind \notin Alters
        /\ pc'[s] = "insert" => op'[s].val \in Vals
    BY <1>0, <1>a, <1>f DEF StmtInv, StmtOf, Alters
  <2>4. StmtOf(s)'
    BY <2>2 DEF StmtOf
  <2> QED BY <2>3, <2>4 DEF StmtInv
<1>4. TableInv'
  <2>1. \A t \in Session : InsertHas(t)' => InsertHas(t)
    BY <1>f, <1>h DEF InsertHas, Changed
  <2> QED BY <1>0, <1>h, <2>1 DEF TableInv
<1>5. PageInv'
  <2>1. ASSUME NEW w \in Vals, w < Upcoming(page), op[s].kind # "reset"
        PROVE  w < Upcoming(page')
    BY <1>0, <1>b, <1>e, <1>i, <2>1, UpcomingNat, LessLeq
  <2>2. \A w \in table' \ excused' : w < Upcoming(page')
    BY <1>0, <1>g, <1>h, <2>1 DEF PageInv, TypeOK
  <2>3. ASSUME NEW t \in Session, NEW w \in rows'[t] \ excused'
        PROVE  w < Upcoming(page')
    <3>1. op[s].kind # "reset"
      BY <1>0, <1>h, <1>j, <2>3 DEF StmtInv, StmtOf, Alters
    <3> QED BY <1>0, <1>g, <1>h, <2>1, <2>3, <3>1 DEF PageInv, TypeOK
  <2>4. ASSUME NEW t \in Session, Given(t)', op'[t].val \notin excused'
        PROVE  op'[t].val < Upcoming(page')
    <3>1. CASE t = s
      BY <1>e, <1>f, <2>4, <3>1 DEF Given
    <3>2. CASE t # s
      <4>1. Given(t) /\ op'[t].val = op[t].val /\ op[s].kind # "reset"
        BY <1>f, <1>j, <2>4, <3>2 DEF Given, Alters
      <4>2. op[t].val < Upcoming(page) /\ op[t].val \in Nat
        BY <1>0, <1>g, <2>4, <4>1, OpNat DEF PageInv
      <4> QED BY <1>0, <1>e, <1>i, <4>1, <4>2, UpcomingNat, LessLeq
    <3> QED BY <3>1, <3>2
  <2> QED BY <2>2, <2>3, <2>4 DEF PageInv, Upcoming
<1>6. CoverInv'
  <2>1. Covered(disk)'
    <3>1. \A f \in 1 .. Len(wal) : f \in 1 .. Len(wal) + 1
      BY <1>b, SMT
    <3> QED BY <1>0, <1>d, <1>h, <3>1 DEF CoverInv, Covered, Upcoming
  <2>2. disk'.lsn <= flushed'
    <3>1. disk.lsn \in Nat /\ disk.lsn <= flushed
      BY <1>0 DEF CoverInv, TypeOK, Page
    <3> QED BY <1>h, <1>l, <3>1, LeqLeq
  <2>3. page'.lsn \in 1 .. Len(wal')
        /\ Upcoming(page') + page'.log <= Upcoming(wal'[page'.lsn])
    BY <1>b, <1>d, <1>e, SMT
  <2> QED BY <1>a, <1>e, <1>h, <2>1, <2>2, <2>3 DEF CoverInv, Covered, Upcoming
<1>7. LogInv'
  <2> SUFFICES ASSUME NEW f \in flushed' .. Len(wal'),
                      NEW w \in table' \ excused'
               PROVE  w < Upcoming(wal'[f])
    BY DEF LogInv, Upcoming
  <2>1. w \in Vals /\ w \in table \ excused /\ op[s].kind # "reset"
    BY <1>0, <1>g, <1>h DEF TypeOK
  <2>2. CASE f \in flushed .. Len(wal)
    <3>1. wal'[f] = wal[f]
      BY <1>0, <1>d, <2>2, SMT DEF TypeOK
    <3> QED BY <1>0, <2>1, <2>2, <3>1 DEF LogInv
  <2>3. CASE f \notin flushed .. Len(wal)
    <3>1. f = Len(wal) + 1
      BY <1>b, <1>d, <1>l, <2>3, OneMore
    <3>2. w < Upcoming(page)
      BY <1>0, <2>1 DEF PageInv
    <3> QED BY <1>0, <1>b, <1>d, <1>e, <1>i, <2>1, <3>1, <3>2, UpcomingNat, LessLeq
  <2> QED BY <2>2, <2>3
<1>8. RedoInv'
  <2>1. Len(wal') # ctlRedo /\ Len(wal') # ckptRedo /\ ~ (Len(wal') <= ctlRedo)
    BY <1>0, <1>b, <1>d, SMT DEF TypeOK
  <2>2. ctlRedo <= flushed'
    BY <1>0, <1>b, <1>d, <1>h, SMT DEF RedoInv, TypeOK
  <2>3. OnDisk(ctlRedo)' /\ (ckpt' = "scanned" /\ ~ needed' => OnDisk(ckptRedo)')
    BY <1>0, <1>h, <2>1 DEF RedoInv, OnDisk
  <2>4. flushed' <= ctlRedo => flushed <= ctlRedo
    BY <1>h, <2>1
  <2> QED BY <1>0, <1>g, <1>h, <2>2, <2>3, <2>4, Zenon DEF RedoInv, Upcoming
<1> QED BY <1>1, <1>2, <1>3, <1>4, <1>5, <1>6, <1>7, <1>8 DEF IInv

-----------------------------------------------------------------------------
(* The invariant holds when the table has been created ...                 *)
LEMMA InitIInv == Init => IInv
<1> SUFFICES ASSUME Init PROVE IInv
  OBVIOUS
<1>1. TypeOK
  <2>1. /\ NoOp \in Op /\ page \in Page /\ disk \in Page
        /\ 0 \in 0 .. MaxStmts /\ 0 \in 0 .. MaxCrashes
    BY AutoIncAssumption, SMT DEF Init, NoOp, Op, Page, Vals, AutoIncAssumption
  <2>2. [last |-> 1, called |-> FALSE] \in State
    BY AutoIncAssumption, SMT DEF State, Vals, AutoIncAssumption
  <2>3. wal \in Seq(State) /\ wal # << >> /\ Len(wal) = 1
    BY <2>2, SMT DEF Init
  <2>4. /\ flushed \in 1 .. Len(wal) /\ ckptRedo \in 0 .. Len(wal)
        /\ redo \in 0 .. ckptRedo /\ ctlRedo \in 0 .. ckptRedo
        /\ stmts \in 0 .. MaxStmts /\ crashes \in 0 .. MaxCrashes
    BY <2>1, <2>3, SMT DEF Init
  <2>5. /\ pc \in [Session -> Places] /\ op \in [Session -> Op]
        /\ rows \in [Session -> SUBSET Vals]
        /\ deleted \in [Session -> SUBSET Vals]
    BY <2>1 DEF Init, Places
  <2> HIDE DEF NoOp
  <2> QED BY <2>1, <2>3, <2>4, <2>5, Zenon DEF Init, TypeOK
<1>2. LockInv /\ StmtInv /\ TableInv
  BY AutoIncAssumption
  DEF Init, LockInv, Holding, StmtInv, StmtOf, TableInv, NoOp, Alters,
      AutoIncAssumption
<1>3. PageInv /\ LogInv
  BY DEF Init, PageInv, Given, NoOp, LogInv
<1>4. CoverInv
  BY SMT DEF Init, CoverInv, Covered, Upcoming
<1>5. RedoInv
  BY SMT DEF Init, RedoInv, OnDisk
<1> QED BY <1>1, <1>2, <1>3, <1>4, <1>5 DEF IInv

(* ... and every step keeps it.                                            *)
LEMMA NextIInv == IInv /\ [Next]_vars => IInv'
<1> SUFFICES ASSUME IInv, [Next]_vars PROVE IInv'
  OBVIOUS
<1>1. ASSUME NEW s \in Session, SessionNext(s) PROVE IInv'
  <2>1. CASE \E kind \in {"null", "default"} : Insert(s, kind, 0)
    BY <2>1, InsertStep, AutoIncAssumption, SMT DEF AutoIncAssumption
  <2>2. CASE \E v \in Vals : Insert(s, "value", v)
    BY <2>2, InsertStep, AutoIncAssumption, SMT DEF Vals, AutoIncAssumption
  <2>3. CASE \E n \in 0 .. MaxVal + 1 : AlterBegin(s, n)
    BY <2>3, AlterBeginStep
  <2>4. CASE \E v, w \in Vals : Update(s, v, w)
    BY <2>4, UpdateStep
  <2> QED
    BY <1>1, <2>1, <2>2, <2>3, <2>4, NextvalExhaustedStep, NextvalDecideStep,
       MarkBufferDirtyStep, NextvalApplyStep, SetvalNothingStep,
       SetvalOutOfBoundsStep, SetvalLockStep, SetvalApplyStep, InsertRowStep,
       CommitStep, RollbackStep, DeleteAllStep, AlterLockStep DEF SessionNext
<1>2. CASE UNCHANGED vars
  <2>1. TypeOK'
    BY <1>2 DEF vars, shared, log, local, changes, IInv, TypeOK
  <2>2. sessions' = sessions /\ storage' = storage
    BY <1>2 DEF vars, shared, log, local, changes, sessions, storage
  <2>3. table' \subseteq table /\ (dirty => dirty') /\ excused \subseteq excused'
    BY <1>2 DEF vars, shared
  <2> QED BY <2>1, <2>2, <2>3, SessionFrame, StorageFrame DEF IInv
<1> QED
  BY <1>1, <1>2, FlushBufferStep, XLogBackgroundFlushStep, CheckPointBeginStep,
     CheckPointPublishStep, BufferSyncStep, CheckPointEndStep, CrashStep
  DEF Next

(* So the invariant always holds.                                          *)
LEMMA AlwaysIInv == Spec => []IInv
  BY InitIInv, NextIInv, PTL DEF Spec

(* Type correctness, for any number of sessions and any length of the log. *)
THEOREM AutoIncTyping == Spec => []TypeOK
<1>1. IInv => TypeOK
  BY DEF IInv
<1> QED BY <1>1, AlwaysIInv, PTL

(* A restart restores a state past every committed row, whatever was       *)
(* logged, written and flushed when: nextval()'s records run ahead of the  *)
(* buffer, and the first one after a checkpoint is always written.         *)
THEOREM RecoverySafe == Spec => []RecoveryKeepsValues
<1>1. IInv => RecoveryKeepsValues
  BY RecoveryAhead
<1> QED BY <1>1, AlwaysIInv, PTL

(* nextval() never gives an INSERT a value that is taken, across crashes   *)
(* and beside explicit values, save for the exceptions the property names. *)
THEOREM FreshValues == Spec => GivesFreshValue
<1> DEFINE Fresh(s) ==
      op[s].kind \in {"null", "default"} /\ op[s].val # op'[s].val
                                       /\ op'[s].val # 0
      => op'[s].val \notin Taken \ excused
<1>1. ASSUME IInv, [Next]_vars, NEW s \in Session PROVE Fresh(s)
  <2> SUFFICES ASSUME op[s].kind \in {"null", "default"},
                      op[s].val # op'[s].val, op'[s].val # 0
               PROVE  op'[s].val \notin Taken \ excused
    OBVIOUS
  <2>a. StmtInv /\ op \in [Session -> Op] /\ NoOp.val = 0
    BY <1>1 DEF IInv, TypeOK, NoOp
  <2>b. pc[s] # "idle" /\ op' # op
    BY <2>a DEF StmtInv, StmtOf
  <2>c. PICK t \in Session : SessionNext(t) \/ Crash
    BY <1>1, <2>b
    DEF Next, vars, FlushBuffer, XLogBackgroundFlush, CheckPointBegin,
        CheckPointPublish, BufferSync, CheckPointEnd
  <2>d. ~ Crash
    BY <2>a DEF Crash
  <2>e. /\ ~ NextvalExhausted(t) /\ ~ NextvalDecide(t) /\ ~ MarkBufferDirty(t)
        /\ ~ SetvalOutOfBounds(t) /\ ~ SetvalLock(t) /\ ~ InsertRow(t)
        /\ ~ Commit(t) /\ ~ Rollback(t) /\ ~ DeleteAll(t) /\ ~ AlterLock(t)
    BY <2>a, <2>b, Zenon DEF NextvalExhausted, NextvalDecide, MarkBufferDirty,
       SetvalOutOfBounds, SetvalLock, InsertRow, Commit, Rollback, DeleteAll,
       AlterLock, Abort, EndTransaction, Leave
  <2>f. ~ SetvalNothing(t) /\ ~ SetvalApply(t)
    BY <2>a, <2>b, Zenon DEF SetvalNothing, SetvalApply, Leave
  <2>g. /\ \A kind \in {"null", "default"} : ~ Insert(t, kind, 0)
        /\ \A v \in Vals : ~ Insert(t, "value", v)
        /\ \A n \in 0 .. MaxVal + 1 : ~ AlterBegin(t, n)
        /\ \A v, w \in Vals : ~ Update(t, v, w)
    BY <2>a, <2>b, Zenon DEF Insert, AlterBegin, Update
  <2>h. NextvalApply(t)
    BY <2>c, <2>d, <2>e, <2>f, <2>g, Zenon DEF SessionNext
  <2>1. NextvalApply(s)
    BY <2>a, <2>h, Zenon DEF NextvalApply
  <2>2. op'[s].val = Upcoming(page)
    BY <1>1, <2>1, NextvalApplyStep
  <2>3. \A v \in Taken \ excused : v < Upcoming(page)
    <3> TAKE v \in Taken \ excused
    <3>1. PageInv
      BY <1>1 DEF IInv
    <3>2. \/ v \in table
          \/ \E u \in Session : v \in rows[u]
          \/ \E u \in Session : /\ op[u].kind \in {"null", "default"}
                                /\ op[u].val # 0 /\ v = op[u].val
      BY AutoIncAssumption, SMT DEF Taken, Vals, AutoIncAssumption
    <3> QED BY <3>1, <3>2 DEF PageInv, Given
  <2>4. Upcoming(page) \in Nat
    BY <1>1, UpcomingNat DEF IInv
  <2> QED BY <2>2, <2>3, <2>4, NotLess
<1>2. ASSUME IInv, [Next]_vars PROVE \A s \in Session : Fresh(s)
  BY <1>1, <1>2
<1> QED
  BY <1>2, AlwaysIInv, PTL DEF Spec, GivesFreshValue
=============================================================================
