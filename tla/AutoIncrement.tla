--------------------------- MODULE AutoIncrement ---------------------------
(***************************************************************************)
(* AUTO_INCREMENT on top of a PostgreSQL sequence (mys_parse_utilcmd.c,    *)
(* mys_sequence.c, mys_tablecmds.c, sequence.c), with write-ahead logging, *)
(* checkpoints and crashes.                                                *)
(*                                                                         *)
(* A BEFORE INSERT trigger asks nextval() for a value when the column is   *)
(* NULL or 0 and otherwise moves the sequence up to the value given; the   *)
(* column's default is nextval() too.  The sequence lives in one buffer.   *)
(* nextval() logs a state LogVals fetches ahead and then changes the       *)
(* buffer without logging, so what a restart restores is neither the       *)
(* buffer nor a prefix of its history, and no value of a committed row may *)
(* be given out again whatever a crash loses.                              *)
(*                                                                         *)
(* The log is the sequence of this sequence's own records: a position is   *)
(* the number of them before it, and a transaction's commit record, which  *)
(* follows all of them, is flushed with all of them.  createSeq() names no *)
(* CACHE, so a session never holds a fetched value it has not returned.    *)
(***************************************************************************)
EXTENDS Naturals, Sequences

CONSTANTS
    Session,
    NoOne,          \* no session has a lock
    MaxVal,         \* seqmax, the largest value of the column's type
    LogVals,        \* SEQ_LOG_VALS
    MaxWal,         \* bound: records of the log
    MaxStmts,       \* bound: statements
    MaxCrashes      \* bound: restarts

ASSUME AutoIncAssumption ==
    /\ NoOne \notin Session
    /\ MaxVal \in Nat \ {0}
    /\ LogVals \in Nat
    /\ MaxWal \in Nat \ {0}
    /\ MaxStmts \in Nat /\ MaxCrashes \in Nat

Vals == 1 .. MaxVal

VARIABLES
    page,       \* the buffer: last_value, is_called, log_cnt and the LSN
    dirty,      \* BM_DIRTY
    needed,     \* BM_CHECKPOINT_NEEDED
    holder,     \* who has the buffer's content lock exclusively
    disk,       \* the page as it was last written
    wal,        \* last_value and is_called of the records of the log
    flushed,    \* how many of them are on disk
    redo,       \* XLogCtl->RedoRecPtr, what GetRedoRecPtr() returns
    ckptRedo,   \* checkPoint.redo of the latest checkpoint begun
    ctlRedo,    \* the redo pointer of the control file
    ckpt,       \* where the checkpointer is
    pc, op,     \* where each session is, and in what
    logit, redoptr,     \* locals of nextval_internal(), in the session
                        \* that has the content lock
    rows,       \* the values each open transaction has inserted,
    deleted,    \* and those of committed rows it has deleted
    owner,      \* the transaction that has the table's AccessExclusiveLock
    table,      \* the values of the committed rows
    stmts, crashes,     \* the bounds' counters
    excused     \* history: values a later nextval() may return although a
                \* row has them, see NextvalApply, SetvalNothing,
                \* SetvalApply and Update

shared == <<page, dirty, needed, holder, disk>>
log == <<wal, flushed, redo, ckptRedo, ctlRedo, ckpt>>
local == <<logit, redoptr>>
changes == <<rows, deleted, owner>>
vars == <<shared, log, pc, op, local, changes, table, stmts, crashes, excused>>

(* What the next call of nextval() returns from a state of the sequence.   *)
Upcoming(s) == IF s.called THEN s.last + 1 ELSE s.last

NoOp == [kind |-> "none", val |-> 0]

(* ALTER TABLE, and ALTER TABLE that found the table empty.                *)
Alters == {"alter", "reset"}

(* A new sequence, START 1, after the CREATE TABLE committed.              *)
Init ==
    /\ wal = << [last |-> 1, called |-> FALSE] >>
    /\ page = [last |-> 1, called |-> FALSE, log |-> 0, lsn |-> 1]
    /\ disk = page
    /\ dirty = FALSE /\ needed = FALSE
    /\ holder = NoOne
    /\ flushed = 1 /\ redo = 0 /\ ckptRedo = 0 /\ ctlRedo = 0
    /\ ckpt = "none"
    /\ pc = [s \in Session |-> "idle"]
    /\ op = [s \in Session |-> NoOp]
    /\ logit = FALSE /\ redoptr = 0
    /\ rows = [s \in Session |-> {}]
    /\ deleted = [s \in Session |-> {}]
    /\ owner = NoOne
    /\ table = {}
    /\ stmts = 0 /\ crashes = 0
    /\ excused = {}

-----------------------------------------------------------------------------
(* The rows a session sees.                                                *)
Visible(s) == (table \ deleted[s]) \cup rows[s]

(* A transaction that has changed the table, and an INSERT, have           *)
(* RowExclusiveLock, which only AccessExclusiveLock keeps out.             *)
Changed(s) == rows[s] # {} \/ deleted[s] # {}
InsertHas(s) == Changed(s) \/ op[s].kind \in {"null", "default", "value"}
MayWrite(s) == owner \in {NoOne, s}

(* The bound on statements.                                                *)
Statement == stmts < MaxStmts /\ stmts' = stmts + 1

Goto(s, place) == pc' = [pc EXCEPT ![s] = place]

(* The statement is over; if it failed, it takes its transaction with it,  *)
(* but not what it did to the sequence.                                    *)
Leave(s) ==
    /\ Goto(s, "idle")
    /\ op' = [op EXCEPT ![s] = NoOp]

EndTransaction(s) ==
    /\ rows' = [rows EXCEPT ![s] = {}]
    /\ deleted' = [deleted EXCEPT ![s] = {}]
    /\ owner' = IF owner = s THEN NoOne ELSE owner

Abort(s) == Leave(s) /\ EndTransaction(s)

(* INSERT with NULL or 0, without the column, or with a value of its own.  *)
Insert(s, kind, v) ==
    /\ Statement
    /\ pc[s] = "idle"
    /\ MayWrite(s)
    /\ op' = [op EXCEPT ![s] = [kind |-> kind, val |-> v]]
    /\ Goto(s, IF kind = "value" THEN "setval" ELSE "nextval")
    /\ UNCHANGED <<shared, log, local, changes, table, crashes, excused>>

(* The sequence is used up, and nextval() raises.                          *)
NextvalExhausted(s) ==
    /\ pc[s] = "nextval" /\ holder = NoOne
    /\ page.called /\ page.last >= MaxVal
    /\ Abort(s)
    /\ UNCHANGED <<shared, log, local, table, stmts, crashes, excused>>

(* Mutant: the redo pointer is not looked at.                              *)
MustLogIgnoresRedo == page.log < 1 \/ ~ page.called

(* nextval_internal() locks the buffer and decides whether to log: when    *)
(* the last record does not cover the value, or was written before the     *)
(* latest checkpoint.                                                      *)
MustLog == page.log < 1 \/ ~ page.called \/ page.lsn <= redo

NextvalDecide(s) ==
    /\ pc[s] = "nextval" /\ holder = NoOne
    /\ ~ (page.called /\ page.last >= MaxVal)
    /\ holder' = s
    /\ logit' = MustLog /\ redoptr' = redo
    /\ Goto(s, "locked")
    /\ UNCHANGED <<page, dirty, needed, disk, log, op, changes, table, stmts,
                   crashes, excused>>

(* MarkBufferDirty(), before XLogInsert().                                 *)
MarkBufferDirty(s) ==
    /\ pc[s] = "locked"
    /\ dirty' = TRUE
    /\ Goto(s, "marked")
    /\ UNCHANGED <<page, needed, holder, disk, log, op, local, changes, table,
                   stmts, crashes, excused>>

(* The record is written and the buffer takes its LSN.                     *)
XLogInsert(last, called) ==
    /\ Len(wal) < MaxWal
    /\ wal' = Append(wal, [last |-> last, called |-> called])

(* Mutant: values past the last one are fetched.                           *)
FetchedPastMax(fetch) == fetch

(* How many of the values the loop asks for there are.                     *)
Fetched(fetch) ==
    IF page.last + fetch <= MaxVal THEN fetch ELSE MaxVal - page.last

(* nextval_internal() fetches, logs if it has to, and updates the buffer.  *)
(* The loop fetches values up to MaxVal, of which the first is returned    *)
(* unless the current one was never returned.  An unlogged update after a  *)
(* checkpoint began whose redo pointer the decision did not see is lost    *)
(* if the page was not among those the checkpoint writes.                  *)
NextvalApply(s) ==
    LET new == IF page.called THEN 1 ELSE 0
        fetch == new + (IF logit THEN LogVals ELSE 0)
        got == Fetched(fetch)
        count == IF logit THEN fetch ELSE page.log
        v == page.last + new
    IN
    /\ pc[s] = "marked" /\ op[s].val = 0
    /\ IF logit THEN XLogInsert(page.last + got, TRUE)
                   ELSE UNCHANGED wal
    /\ page' = [last |-> v, called |-> TRUE,
                log |-> (count + got) - (new + fetch), lsn |-> Len(wal')]
    /\ holder' = NoOne /\ logit' = FALSE /\ redoptr' = 0
    /\ op' = [op EXCEPT ![s].val = v]
    /\ Goto(s, IF op[s].kind = "default" THEN "setval" ELSE "insert")
    /\ excused' = IF ~ logit /\ redoptr < page.lsn /\ page.lsn <= ckptRedo
                  THEN excused \cup {v} ELSE excused
    /\ UNCHANGED <<dirty, needed, disk, flushed, redo, ckptRedo, ctlRedo, ckpt,
                   changes, table, stmts, crashes>>

(* Mutant: the sequence is moved to a smaller value too.                   *)
MovesDown(s) == page.last # op[s].val

(* setval3_oid() when ALTER TABLE found the table empty, mys_setval3_oid() *)
(* otherwise, which does not move the sequence down.                       *)
Moves(s) == op[s].kind = "reset" \/ page.last < op[s].val

(* mys_setval3_oid() has nothing to do.  It does not look at is_called: a  *)
(* row with the very value the sequence is about to return for the first   *)
(* time leaves it there.                                                   *)
SetvalNothing(s) ==
    /\ pc[s] = "setval" /\ holder = NoOne
    /\ ~ Moves(s)
    /\ IF op[s].kind \in Alters THEN Leave(s)
                                 ELSE Goto(s, "insert") /\ UNCHANGED op
    /\ excused' = IF op[s].kind = "value" /\ op[s].val = Upcoming(page)
                  THEN excused \cup {op[s].val} ELSE excused
    /\ UNCHANGED <<shared, log, local, changes, table, stmts, crashes>>

SetvalOutOfBounds(s) ==
    /\ pc[s] = "setval" /\ holder = NoOne
    /\ Moves(s) /\ op[s].val \notin Vals
    /\ Abort(s)
    /\ UNCHANGED <<shared, log, local, table, stmts, crashes, excused>>

SetvalLock(s) ==
    /\ pc[s] = "setval" /\ holder = NoOne
    /\ Moves(s) /\ op[s].val \in Vals
    /\ holder' = s
    /\ Goto(s, "locked")
    /\ UNCHANGED <<page, dirty, needed, disk, log, op, local, changes, table,
                   stmts, crashes, excused>>

(* The value is logged as it is, and takes effect at once.  ALTER TABLE    *)
(* may have taken a table for empty that has rows: they were committed     *)
(* while it waited, or its own transaction has deleted them and may yet be *)
(* rolled back.                                                            *)
SetvalApply(s) ==
    LET alter == op[s].kind \in Alters IN
    /\ pc[s] = "marked" /\ op[s].val # 0
    /\ XLogInsert(op[s].val, ~ alter)
    /\ page' = [last |-> op[s].val, called |-> ~ alter,
                log |-> 0, lsn |-> Len(wal')]
    /\ holder' = NoOne
    /\ IF alter THEN Leave(s) ELSE Goto(s, "insert") /\ UNCHANGED op
    /\ excused' = IF op[s].kind = "reset" THEN excused \cup table ELSE excused
    /\ UNCHANGED <<dirty, needed, disk, flushed, redo, ckptRedo, ctlRedo, ckpt,
                   local, changes, table, stmts, crashes>>

(* Another open transaction has inserted or deleted a row with this value: *)
(* what becomes of it is waited for.                                       *)
Contested(s, v) == \E t \in Session \ {s} : v \in rows[t] \cup deleted[t]

(* The row goes in, unless the unique key is taken, which raises.          *)
InsertRow(s) ==
    /\ pc[s] = "insert"
    /\ ~ Contested(s, op[s].val)
    /\ IF op[s].val \in Visible(s)
       THEN Abort(s)
       ELSE /\ Leave(s)
            /\ rows' = [rows EXCEPT ![s] = @ \cup {op[s].val}]
            /\ UNCHANGED <<deleted, owner>>
    /\ UNCHANGED <<shared, log, local, table, stmts, crashes, excused>>

(* A transaction that has something to end; AccessExclusiveLock is held    *)
(* until then.                                                             *)
InTransaction(s) == Changed(s) \/ owner = s

(* The commit record is flushed, and every earlier record with it.         *)
Commit(s) ==
    /\ pc[s] = "idle" /\ InTransaction(s)
    /\ flushed' = Len(wal)
    /\ table' = Visible(s)
    /\ EndTransaction(s)
    /\ UNCHANGED <<shared, wal, redo, ckptRedo, ctlRedo, ckpt, pc, op, local,
                   stmts, crashes, excused>>

(* ROLLBACK, an UPDATE that raises, or a statement cancelled while it      *)
(* waits for a row or for the table.                                       *)
Rollback(s) ==
    /\ \/ pc[s] = "idle" /\ InTransaction(s)
       \/ pc[s] \in {"insert", "alter"}
    /\ Abort(s)
    /\ UNCHANGED <<shared, log, local, table, stmts, crashes, excused>>

(* DELETE without WHERE.  A transaction whose changes are all undone by it *)
(* is as good as over.                                                     *)
DeleteAll(s) ==
    /\ Statement
    /\ pc[s] = "idle" /\ Visible(s) # {}
    /\ MayWrite(s)
    /\ \A v \in table : ~ Contested(s, v)
    /\ rows' = [rows EXCEPT ![s] = {}]
    /\ deleted' = [deleted EXCEPT ![s] = table]
    /\ UNCHANGED <<shared, log, pc, op, local, owner, table, crashes, excused>>

(* UPDATE of the column, from v to w: the trigger is one on INSERT, and    *)
(* the sequence stays where it is, at w or below it perhaps.               *)
Update(s, v, w) ==
    /\ Statement
    /\ pc[s] = "idle" /\ v \in Visible(s) /\ w \notin Visible(s)
    /\ MayWrite(s)
    /\ ~ Contested(s, v) /\ ~ Contested(s, w)
    /\ rows' = [rows EXCEPT ![s] = (@ \ {v}) \cup {w}]
    /\ deleted' = [deleted EXCEPT ![s] = @ \cup ({v} \cap table)]
    /\ excused' = IF w < Upcoming(page) THEN excused ELSE excused \cup {w}
    /\ UNCHANGED <<shared, log, pc, op, local, owner, table, crashes>>

(* ALTER TABLE ... AUTO_INCREMENT = n, in a transaction of its own or with *)
(* others.  PortalRunUtility() takes the snapshot in which isTableEmpty()  *)
(* will look, before the lock is waited for.                               *)
AlterBegin(s, n) ==
    /\ Statement
    /\ pc[s] = "idle"
    /\ op' = [op EXCEPT
                ![s] = [kind |-> IF Visible(s) = {} THEN "reset" ELSE "alter",
                        val |-> n]]
    /\ Goto(s, "alter")
    /\ UNCHANGED <<shared, log, local, changes, table, crashes, excused>>

AlterLock(s) ==
    /\ pc[s] = "alter"
    /\ MayWrite(s)
    /\ \A t \in Session \ {s} : ~ InsertHas(t)
    /\ owner' = s
    /\ Goto(s, "setval")
    /\ UNCHANGED <<shared, log, op, local, rows, deleted, table, stmts,
                   crashes, excused>>

-----------------------------------------------------------------------------
(* FlushBuffer(), for the checkpointer, the background writer or a backend *)
(* in want of a buffer: the log up to the page's LSN goes first.           *)
FlushBuffer ==
    /\ dirty /\ holder = NoOne
    /\ flushed' = IF flushed < page.lsn THEN page.lsn ELSE flushed
    /\ disk' = page
    /\ dirty' = FALSE /\ needed' = FALSE
    /\ UNCHANGED <<page, holder, wal, redo, ckptRedo, ctlRedo, ckpt, pc, op,
                   local, changes, table, stmts, crashes, excused>>

(* The WAL writer.                                                         *)
XLogBackgroundFlush ==
    /\ flushed < Len(wal)
    /\ flushed' = flushed + 1
    /\ UNCHANGED <<shared, wal, redo, ckptRedo, ctlRedo, ckpt, pc, op, local,
                   changes, table, stmts, crashes, excused>>

(* CreateCheckPoint(): the redo pointer is taken, then published, then     *)
(* BufferSync() marks the dirty buffers, and the marked ones are written.  *)
CheckPointBegin ==
    /\ ckpt = "none"
    /\ ckpt' = "begun"
    /\ ckptRedo' = Len(wal)
    /\ UNCHANGED <<shared, wal, flushed, redo, ctlRedo, pc, op, local, changes,
                   table, stmts, crashes, excused>>

CheckPointPublish ==
    /\ ckpt = "begun"
    /\ ckpt' = "published"
    /\ redo' = ckptRedo
    /\ UNCHANGED <<shared, wal, flushed, ckptRedo, ctlRedo, pc, op, local,
                   changes, table, stmts, crashes, excused>>

BufferSync ==
    /\ ckpt = "published"
    /\ ckpt' = "scanned"
    /\ needed' = dirty
    /\ UNCHANGED <<page, dirty, holder, disk, wal, flushed, redo, ckptRedo,
                   ctlRedo, pc, op, local, changes, table, stmts, crashes,
                   excused>>

CheckPointEnd ==
    /\ ckpt = "scanned" /\ ~ needed
    /\ ckpt' = "none"
    /\ flushed' = Len(wal)
    /\ ctlRedo' = ckptRedo
    /\ UNCHANGED <<shared, wal, redo, ckptRedo, pc, op, local, changes, table,
                   stmts, crashes, excused>>

(* The state seq_redo() leaves: that of the last record replayed, if any   *)
(* is, or else the page on disk.                                           *)
Recovered ==
    IF ctlRedo < flushed
    THEN [last |-> wal[flushed].last, called |-> wal[flushed].called,
          log |-> 0, lsn |-> flushed]
    ELSE disk

(* A crash, the recovery and its end-of-recovery checkpoint.               *)
Crash ==
    /\ crashes < MaxCrashes
    /\ crashes' = crashes + 1
    /\ page' = Recovered /\ disk' = Recovered
    /\ dirty' = FALSE /\ needed' = FALSE /\ holder' = NoOne
    /\ wal' = SubSeq(wal, 1, flushed)
    /\ redo' = flushed /\ ckptRedo' = flushed /\ ctlRedo' = flushed
    /\ ckpt' = "none"
    /\ pc' = [s \in Session |-> "idle"]
    /\ op' = [s \in Session |-> NoOp]
    /\ logit' = FALSE /\ redoptr' = 0
    /\ rows' = [s \in Session |-> {}]
    /\ deleted' = [s \in Session |-> {}]
    /\ owner' = NoOne
    /\ UNCHANGED <<flushed, table, stmts, excused>>

SessionNext(s) ==
    \/ \E kind \in {"null", "default"} : Insert(s, kind, 0)
    \/ \E v \in Vals : Insert(s, "value", v)
    \/ NextvalExhausted(s) \/ NextvalDecide(s) \/ MarkBufferDirty(s)
    \/ NextvalApply(s)
    \/ SetvalNothing(s) \/ SetvalOutOfBounds(s) \/ SetvalLock(s)
    \/ SetvalApply(s)
    \/ InsertRow(s) \/ Commit(s) \/ Rollback(s) \/ DeleteAll(s)
    \/ \E v, w \in Vals : Update(s, v, w)
    \/ \E n \in 0 .. MaxVal + 1 : AlterBegin(s, n)
    \/ AlterLock(s)

Next ==
    \/ \E s \in Session : SessionNext(s)
    \/ FlushBuffer \/ XLogBackgroundFlush
    \/ CheckPointBegin \/ CheckPointPublish \/ BufferSync \/ CheckPointEnd
    \/ Crash

Spec == Init /\ [][Next]_vars

-----------------------------------------------------------------------------
State == [last : Vals, called : BOOLEAN]
Page == [last : Vals, called : BOOLEAN, log : Nat, lsn : Nat]
Places ==
    {"idle", "nextval", "locked", "marked", "setval", "insert", "alter"}
Op == [kind : {"none", "null", "default", "value"} \cup Alters,
       val : 0 .. MaxVal + 1]

(* The types of the sequence's buffer, of the log and of the sessions, and *)
(* no position of the log is past its end.                                 *)
TypeOK ==
    /\ page \in Page /\ disk \in Page
    /\ dirty \in BOOLEAN /\ needed \in BOOLEAN
    /\ holder \in Session \cup {NoOne}
    /\ wal \in Seq(State) /\ wal # << >>
    /\ flushed \in 1 .. Len(wal)
    /\ ckptRedo \in 0 .. Len(wal)
    /\ redo \in 0 .. ckptRedo /\ ctlRedo \in 0 .. ckptRedo
    /\ ckpt \in {"none", "begun", "published", "scanned"}
    /\ pc \in [Session -> Places]
    /\ op \in [Session -> Op]
    /\ logit \in BOOLEAN /\ redoptr \in Nat
    /\ rows \in [Session -> SUBSET Vals]
    /\ deleted \in [Session -> SUBSET Vals]
    /\ owner \in Session \cup {NoOne}
    /\ table \in SUBSET Vals
    /\ stmts \in 0 .. MaxStmts /\ crashes \in 0 .. MaxCrashes
    /\ excused \in SUBSET Vals

(* The values some row has, or an INSERT under way was given.              *)
Taken ==
    {v \in Vals :
       \/ v \in table
       \/ \E s \in Session : v \in rows[s]
       \/ \E s \in Session :
            op[s].kind \in {"null", "default"} /\ op[s].val = v}

(* nextval() never gives an INSERT a value that a row of the table or of   *)
(* another transaction has, or that another INSERT was given: not after a  *)
(* crash, not beside explicit values.  The exceptions are an explicit      *)
(* value equal to the one the sequence is about to give for the first      *)
(* time; a value an UPDATE gave a row, at or past the sequence's next; the *)
(* rows of a table whose sequence ALTER TABLE reset, seeing none of them,  *)
(* because they were committed while it waited for the lock or because its *)
(* own transaction had deleted them; and a checkpoint that passes between  *)
(* nextval()'s test of the redo pointer and its update.                    *)
GivesFreshValue ==
    [][\A s \in Session :
         op[s].kind \in {"null", "default"} /\ op[s].val # op'[s].val
                                          /\ op'[s].val # 0
         => op'[s].val \notin Taken \ excused]_vars

(* At every moment, what a restart would restore is past every committed   *)
(* row: the log ahead of the buffer, the checkpoint's redo pointer and the *)
(* page on disk fit together, with the same exceptions.                    *)
RecoveryKeepsValues ==
    \A v \in table \ excused : v < Upcoming(Recovered)
=============================================================================
