# A TLA+ model of openHalo's MySQL layer

openHalo is PostgreSQL 14 with a second front end: a listener that speaks the
MySQL protocol, an adapter that turns MySQL commands into PostgreSQL query
strings, a MySQL grammar, and MySQL-flavoured DDL, executor paths, types and
functions. This directory models the adapter and what it shares between
sessions: the parts that keep state of their own beside PostgreSQL's, and
therefore can disagree with it. PostgreSQL itself is modelled only where the
MySQL layer depends on it.

All paths below are relative to the repository; `adapter.c` is
`src/backend/adapter/mysql/adapter.c`, and `netTransceiver.c`, `systemVar.c` and
`uuidShort.c` are its neighbours. `PROJECT.json` lists, for every definition of
the model, the lines it stands for.

## 1. The system

A client connects to the second listener (`postmaster2.c`), logs on
(`userLogonAuth.c`), and from then on one backend process runs PostgreSQL's
read loop (`PostgresMain`, `tcop/postgres.c`) with the MySQL protocol handler:

1. `readCommand` reads the packets of a command (`netTransceiver.c`).
2. `processCommand` answers it alone, or rewrites it into a query string, often
   with `begin;`, `commit;` or `rollback;begin;` in front.
3. `exec_simple_query` parses the string and runs its statements one by one.
   Rows go out through `printTupText` or `printTupBinary`; after each statement
   `endCommand` sends its OK or EOF packet, or keeps silent for a statement the
   client did not send, and updates the adapter's flags. All of it passes
   through the connection's write buffer (`netTransceiver.c`).
4. An error anywhere goes through `PostgresMain`'s handler, which aborts the
   transaction, calls `sendErrorMessage`, and returns to step 1. The rest of the
   string is never run.

Backends share three things that the MySQL layer adds: the counter of
`uuid_short()`, the table of global system variables, and the sequences behind
AUTO_INCREMENT columns, which a trigger moves from every INSERT.

| Part | Source | Module |
|---|---|---|
| Transaction emulation and answers | `adapter.c`, `systemVar.c` (autocommit), `tcop/postgres.c`, `access/transam/xact.c` | `TrxEmulation` |
| Binary prepared statements | `adapter.c`, `commands/mysql/mys_prepare.c` | `PreparedStmts` |
| Text rows | `adapter.c` (`printTupText`) | `RowText`, `Lenenc` |
| Binary rows | `adapter.c` (`printTupBinary`) | `RowBinary`, `Lenenc` |
| Packets in, session end | `netTransceiver.c`, `tcop/postgres.c` | `NetRead` |
| Write buffer | `netTransceiver.c` | `NetWrite`, `AnswerStream` |
| `uuid_short()` | `uuidShort.c`, `utils/hash/dynahash.c` | `UuidShort` |
| System variables | `systemVar.c` | `SystemVars` |
| AUTO_INCREMENT | `mys_sequence.c`, `mys_parse_utilcmd.c`, `mys_tablecmds.c`, `commands/sequence.c`, `bufmgr.c`, `xlog.c` | `AutoIncrement` |
| Counting of parameters | `adapter.c` (`convertExtendPreStmt`) | `PreparedStmts` |
| Other statement text scanners | `adapter.c` (`rectifyCommand`) | planned |
| Listener table | `postmaster/postmaster2.c` | planned |
| User variables | `commands/mysql/mys_uservar.c` | later, if at all |
| Logon, passwords, error codes | `userLogonAuth.c`, `pwdEncryptDecrypt.c`, `errorConvertor.c` | no: sequential, cryptographic or a table |
| Grammar, analysis, DDL, executor, types | `parser/mysql`, `mys_tablecmds.c`, `executor/mys_*`, `utils/*/mys*` | no: see section 7 |

## 2. The modules

Each module is a component: `VARIABLES` are the globals of the code under
their own names, `Init` is the state after set-up, an action is one handler or
one step of it that others can come between. Definitions marked "Mutant" are
deliberately wrong variants of the definition that follows them; no
specification uses them. A variable marked "history" is not in the code: it
records that something happened, so that a property can say "unless". `MC...`
modules give the instances for TLC, `...Proofs` modules the theorems.

### TrxEmulation

One session. `flags` is the set of the adapter's boolean globals that are true
(`needCommitTrx`, `needStartNewTrx`, `trxNotCommit`, `inTransactionFlag`, the
two prefix flags, `isResetConnStmt`, `isIgnoreStmt`); `autoCommit` and `needAdd`
(`needAddCommitOrRollbackAfterCurSQL`) keep their numbers; `block` is
PostgreSQL's transaction block state, reduced to none, implicit, in progress,
aborted. `text` is what is left of the query string, `answered` what the client
has seen of the answer.

The client's actions are the branches of `processCommand`, grouped by what they
do with the flags: `QueryInjected` (through `addAdditionalSQL`), `QueryBegin`,
`QueryPlain`, `QueryComment`, `StmtClose`, `ResetConnection`, `Simulated`,
`ShowGrants`, `Refused`, `Quit`. The server's are the parser (`ParseOk`,
`ParseEmpty`, `ParseError`, with the grammar's side effect on `isIgnoreStmt`),
one `Run...` action per kind of statement, each with its PostgreSQL effect, its
tag, and all of `endCommand`, and three ways to fail. A statement's kind is all
that is kept of it: "other" is every statement that touches none of this state.
PREPARE TRANSACTION has an action of its own, since it ends a block under a tag
that `endCommand` only answers; COMMIT PREPARED and ROLLBACK PREPARED leave the
session's block alone and are "other" statements.

### PreparedStmts

The slots of `preStmtInfoes`, the statements PostgreSQL holds (`pg`), and the
ids the client holds. `Prepare` and `PrepareQuery` are separate steps, since the
statement can fail in between (`PrepareError`, at each of the three points that
leave different traces). `Close` frees the slot whether or not DEALLOCATE
succeeds. `handles`, `told` and `bound` are the client's view. Names are numbers:
the code's are `unuTsfQ` and the number.

A text is a sequence of the characters `convertExtendPreStmt` tells apart.
`ParamMarks` are the question marks it counts: all that are not escaped and not
inside double quotes, those in a `'...'` literal included. It copies the text to
the buffer it is read from, doubling the double quotes, and gives up when the
room in front of the text is used up (`Fits`). How much room there is depends on
where the command was read to. In this checkout `readCommand` begins at offset
128 (`adapter.c:856`) and `rewriteExtendPreStmt_` writes its 26 bytes of prefix
at offset 128 too (`remainOffset`), over the text: a text of 25 bytes or more is
refused and a shorter one arrives garbled, so that COM_STMT_PREPARE succeeds
only for COMMIT and ROLLBACK. `ReadOffsets` makes the place a parameter. The run
has one layout like this and one with room in front of the text, for which the
rest of the code is written, and the proofs hold for any.

### RowText, RowBinary, Lenenc

A row as lengths. The first pass measures (`Measure`), `Start` writes the first
header, then pieces are written until a packet is full. `owed` is how much the
last header promised and has not got; a header written with bytes owed, or a row
finished with some, is a framing error. `ends` is a history: the measured length
of every prefix of the row. `RowBinary` adds `payloadBuf`, which alternates with
values written directly, the unsigned `rowRemainLen` (`SizeT`), and the length
of a BIT column, which the second pass computes from `att` as the first pass has
left it. Nothing tests that what is buffered between two direct values fits in
`payloadBuf` (102400 bytes); a row that does not fit ends in the phase "overrun"
and is not followed further, as C leaves its outcome undefined. Rows of
`INSERT ... RETURNING`, which only record the last insert id, are not rows on
the wire and not in these modules.

### NetRead

A client, the stream, and the server process. Packets are lengths with a
sequence number. The client splits commands as the protocol says, may exceed
`max_allowed_packet`, and may vanish between packets or inside one. The server
reads header and payload in separate steps, and makes room for a payload before
it reads it (`EnlargeFails` when the buffer would pass `MaxAllocSize`, which
`max_allowed_packet` may be set close to). Once it has left a payload in the
stream ("lost"), what it reads is arbitrary, and `ReadLost` says so.

### NetWrite, AnswerStream

`AnswerStream` is what `netTransceiver.c` promises to the writers of answers: the
bytes of an answer arrive in the order they were handed over, none but those,
all of them before the next command is read, or the session ends. `NetWrite` is
the buffer: calls that assemble in place behind the room for a header
(`GetWriteBuf`, `Assemble`, `Finish`), calls that are copied round by round
(`WriteBytes`, `Written`), the flush in as many writes as the socket takes
(`SecureWrite`, `FlushEnd`), its two ways to fail, and the error packet that
follows a failure. A byte is its number in the answer, so a byte sent twice,
skipped or never written is seen by the client as a wrong number (`Garbled`).

### UuidShort

Backends calling `uuid_short()`, one step per access to shared memory. The
spinlock's entry is created by the first caller; inserting it is four steps
(look up, take from the free list, link, initialise) with nothing excluding
another caller. `overlapped` remembers calls that began during such a creation.

### SystemVars

Backends running SET and SELECT @@, one step per access to shared memory. The
spinlock is created as in `UuidShort`. `globals` is the shared table, with
`Absent` for no entry and `Half` for one that is being written; `copy` is each
session's own table, `base` what it has read of `base_variables`. `InitVars` is
the first statement of a session; `StartSet`, `ReadDefault`, `SetSession`,
`SetGlobal`, `WriteGlobal`, `CopyOwn` are a SET, `StartGet` and `GetGlobal` a
SELECT, and the `Dyn...` steps `dynAddSystemVar`, which reads the catalog again
with or without the spinlock. `Raise` is `elog(ERROR)`: it ends the statement
and leaves the spinlock as it is. `Stuck` is PostgreSQL's PANIC on a spinlock
nobody releases, with the restart; `NullRead` is a SET to NULL of a variable
whose value is parsed or applied, which reads the string it does not have and
ends in a restart too. `Listed` are variables that refuse some values,
`NoLookup` the one (`query_cache_size`) that is set without a look whether it is
known. `seen` records the four events that the properties name as exceptions.

### AutoIncrement

Sessions whose transactions insert, delete, update and alter one table with an
AUTO_INCREMENT column, on top of the one buffer of its sequence. `rows` and
`deleted` are what an open transaction has done to the committed `table`,
`owner` has its AccessExclusiveLock, which like the changes lasts until the
transaction ends; what it did to the sequence stays, also if it is rolled back.
An INSERT asks `nextval()` or moves the sequence with `mys_setval3_oid()`, in
the steps lock and decide, mark dirty, log and apply; ALTER TABLE takes its
snapshot, waits for the table lock, and sets the sequence. Beside them run the
buffer writer, the WAL writer and the checkpointer, whose redo pointer is taken,
published, and used in separate steps; `Crash` loses what is not on disk and
recovers. A log position is the number of this sequence's records before it.
`excused` collects the values that the exceptions the properties name let
`nextval()` give out again.

## 3. What the runs show

| Run | Instance | Result |
|---|---|---|
| `trx_emulation` | texts of 1–2 statements of 15 kinds, any sequence of commands, with and without `mysql.auto_rollback_tx_on_error` | eight invariants hold, 737,477 states |
| `trx_answer` | the same | `EveryCommandAnswered` fails |
| `prepared` | 3 statements, COMMIT, ROLLBACK, ROLLBACK TO; 2 usable slots, 2 type vectors, 2 layouts of the buffer | three hold, 485,112 states |
| `row_text` | up to 3 columns of 14 lengths or null, packets of 16 | three hold, 36,045 states |
| `row_binary` | up to 3 columns of 32 sorts or null, packets of 16, `payloadBuf` of 12 | three hold, 501,449 states |
| `row_binary_split` | the same | `FramedBinary` fails |
| `net_read` | commands of 1–7 bytes in packets of 2, limit 5, buffers below 6, numbers modulo 4 | five hold, 42,329 states |
| `net_write` | answers of up to 16 bytes, buffer of 7, packets of 4 | typing, refinement of `AnswerStream`, `CatchesUp` hold, 519,351 states |
| `uuid_short` | 3 backends, 5 values | three hold, 361,051 states |
| `autoinc` | 2 sessions, 3 values, log of 4 records, 3 statements, 1 crash | three hold, 3,230,750 states |
| `sysvars` | 2 sessions, 4 variables of different kinds, 3 commands | five hold, 356,732 states |
| `sysvars_error` | the same | `TakenIsHeld` fails |

What holds, in words:

- *Answers.* No command is answered twice. Every command is answered to its end,
  except COM_STMT_CLOSE, a command that meets a prefix flag left over from an
  abandoned string, a comment-only text behind a prefix, and an IGNORE statement
  failing before the end of its string.
- *Transactions.* The in-transaction bit is right from each BEGIN, COMMIT or
  ROLLBACK until one of the statements `endCommand` misreads or a failed COMMIT.
  With autocommit
  off, the next statement runs inside a block unless autocommit was switched off
  a second time outside one. With automatic rollback a session recovers, and
  what it rolls back of its own accord is a block that an error has aborted.
- *Prepared statements.* As long as a slot has been free, an id runs its own
  statement, with the number of parameters the client was told and its own
  parameter types, whatever failed in between.
- *Rows.* A text row is framed exactly, and so is a binary row of one packet; a
  longer binary row is complete, unless it has a BIT column, but wrongly framed.
- *Packets in.* A command reaches `processCommand` whole or not at all, answers
  carry the numbers the client expects, no command within the limit is refused
  that a buffer can hold, and the process of a vanished client ends.
- *Bytes out.* Whatever the sizes of buffer, packets and pieces and however the
  socket splits the writes, the client gets the bytes of an answer in order,
  and all of them before the next command is read.
- *uuid_short.* Values are consecutive and calls exclusive, unless a call begins
  while another is creating the lock's entry.
- *System variables.* The spinlock has one holder and is released on every path
  but an error raised inside; no half-written value is read; a session's copy of
  a global variable is current until another session sets it; every statement
  ends, at worst through the PANIC of a stuck spinlock.
- *AUTO_INCREMENT.* No value of a row is given out again, and at every moment a
  restart would restore a sequence past all committed rows. The exceptions are an
  explicit value equal to the one the sequence is about to give for the first
  time; a value an UPDATE gave a row, for the trigger is one on INSERT; the rows
  of a table whose sequence ALTER TABLE reset because it saw none of them, as
  they were committed while it waited for the lock, or as its own transaction had
  deleted them; and a checkpoint passing between `nextval()`'s look at the redo
  pointer and its update.

The three runs that fail are disagreements between the code and what its
comments or README say; `PROJECT.json` quotes them under "findings":

1. A prefix flag survives an abandoned string, and a later COMMIT, ROLLBACK or
   BEGIN of the client's gets no answer.
2. A binary row of more than 2^24 - 1 bytes is framed wrongly, because the
   header byte and the bitmap are taken off twice.
3. SET GLOBAL optimizer_switch with an unknown name raises its error between
   lock and unlock, and leaves the spinlock taken by nobody.

Other disagreements are exceptions named in properties that pass:

- START TRANSACTION opens a block under a tag that `endCommand` only answers,
  although `mys_utility.c` calls it "identical to BEGIN" (`StatusTracksBlock`).
- A COMMIT that fails under `mysql.auto_rollback_tx_on_error` asks for a rollback
  of the block it has just ended; a COMMIT does not withdraw the request, and the
  next transaction can be rolled back by it. PREPARE TRANSACTION leaves the flags
  of the block it ends up in the same way (`RollbackOnlyOfAborted`).
- An IGNORE statement that fails before the end of its string is answered OK
  with more results announced, and none follow (`AnsweredUnlessStale`).
- With all statement slots taken, the id of the last PREPARE is used again
  (`ExecutesWhatWasPrepared`, `DecodedAsBound`).
- A text row of exactly a multiple of 2^24 - 1 bytes has no short packet at its
  end (`Reassembles`).
- A packet above the limit does not end the connection, although the message
  says so; the stream is out of step afterwards (`WholeCommands`,
  `AnswerInSequence`).
- Two first calls of `uuid_short()`, or two first uses of the system variables,
  can both be inside the lock (`UuidMutexUnlessOverlap`, `LockHasOneHolder`).
- A system variable whose row appears late is added to the shared table without
  the lock by SELECT @@, and a SET of it is lost (`ReadsWhole`, `CopyCurrent`).

### Bounds, and why they are enough

- `trx_emulation`, `MaxStmts = 2`: with a prefix that makes four statements in a
  string. The flags are booleans and a statement's effect depends on them, on
  the block and on whether it is the last, so first, middle and last positions
  all occur. The number of commands is not bounded. The proofs lift the bound
  altogether. `MCView` identifies states that differ only in what no later step
  and no property reads: `multi` outside the execution loop, and the sort of the
  command where the properties do not tell them apart.
- `prepared`: `PRE_STMT_NUM_MAX = 3` leaves two usable slots: enough for one to
  be reused while the other is held, and to run out. The code's 5000 is reached
  by the proof. The texts have a quote that is open or escaped, a mark inside and
  outside of quotes and behind a backslash, and more quotes than there is room
  for. `MaxColumns` bounds a counter that only grows. `MCNotFull` stops
  the run at the first PREPARE that finds no slot, after which its properties
  claim nothing.
- `row_text`, `row_binary`: packets of 16 bytes, with the boundaries of the
  length encoding at 2, 5 and 16: every prefix length (1, 3, 4, 9) occurs, as do
  values that end one byte before, at and after the end of the first and second
  packet. `payloadBuf` has 12 bytes, smaller than a packet as in the code, and
  is left empty, part full, exactly full and overrun; the longest value,
  `MaxAllocSize`, spans three packets.
- `net_read`: the limit 5 is two packets and a half, so a command may be refused
  in its first, second or third packet; the buffer holds the 5 bytes with its
  offset of 1 only just not, so that both refusals occur; with numbers modulo 4
  and answers of 6 packets the number wraps. `NetAssumption` says that a command
  within the limit has fewer packets than there are numbers, which holds for 1
  GB and 256.
- `net_write`: a buffer of 7 with room 4 for assembling is crossed by packets of
  4 in every position, and a payload of 9 is split over three packets and two
  fillings of the buffer. `MaxAnswer` ends an answer.
- `uuid_short`: three backends, so that two can race while a third holds the
  lock; five values; four elements on the free list, more than are ever popped.
- `sysvars`: one variable of each kind that the code treats differently, two of
  them with rows that may appear late. Three commands are a SET in one session,
  a read in the other, and a third of either. `MCBound` cuts the third command
  when the creation of the lock was overlapped: the safety properties claim
  nothing of such states, and `EveryStatementEnds` is checked with an overlap for
  two commands only.
- `autoinc`: `LogVals = 1` makes every second fetch an unlogged one; three
  statements are an INSERT that logs, one that does not, and one that may meet
  the value again after the crash. `MaxWal` holds the records they write. The
  proof lifts all of these bounds.

`CHECK_DEADLOCK FALSE` is given where the system stops: a session that has quit,
a row that has been written, a client that has gone, a used-up bound.
`prepared` has no such end and checks for deadlock.

### Fairness

- `NetRead!FairSpec`: weak fairness of the server, since PostgresMain does not
  stop in the middle of a command, and strong fairness of `WriteFails`: TCP
  reports a vanished peer on one of the writes after it has gone, and every turn
  of the server's loop then writes an error packet. Nothing is assumed of the
  client. `SessionEnds` says the process of a vanished client ends; the write is
  its only way out, because an error in reading returns to the read.
- `NetWrite!FairSpec`: weak fairness of `Answer`, the steps of an answer begun: the
  backend comes to the next call or the end, and a client that waits for the
  answer takes it or is gone. `CatchesUp` says that what was handed over does not
  stay in the buffer.
- `SystemVars!FairSpec`: weak fairness of each backend's steps. A waiter for a
  spinlock nobody releases gives up by `Stuck`, which is PostgreSQL's behaviour
  (`s_lock.c`). `EveryStatementEnds` is the property.

## 4. What is proved

The proofs hold for all values of the constants, from the named assumptions in
the modules, which TLC evaluates on the instances:

| Assumption | What it says beyond types |
|---|---|
| `TrxAssumption`, `UuidAssumption` | nothing: numbers are numbers |
| `PreparedAssumption` | there is a usable slot; "no statement" and "no types" are none, and COMMIT and ROLLBACK are told from other statements; a command is read at or behind the place the new text is written to, and does not begin exactly at the end of its prefix |
| `RowAssumption` | a packet holds at least one byte; null is no length |
| `BinaryAssumption` | `payloadBuf` is no larger than a packet and holds the null bitmap; no value is longer than `MaxAllocSize` (1 GB), so that the length of a row is a `size_t`; a BIT has the length its type modifier says |
| `NetAssumption` | a command within `max_allowed_packet` has fewer packets than there are sequence numbers (at most 1 GB, `guc.c`); an answer may have a packet |
| `WriteAssumption` | what is assembled in place fits in the room for it, which no code tests |
| `AutoIncAssumption` | the largest value and the bound of the log are positive; "no one" is no session |
| `SysVarsAssumption` | optimizer_switch has a writable row of type 0, as `aux_mysql--1.3--1.4.sql` inserts it |

**TrxEmulationProofs** (`StatusTruth`, `NewTrxTruth`, `AutocommitOff`, `Typing`,
`Answered`, `AnsweredOnce`, `Recovers`, `RollsBackOnlyAborted`). For the flags,
the properties are not inductive by themselves: `FlagInv` adds that `inTransactionFlag` and
`trxNotCommit` are always equal (they are set and cleared together in
`endCommand`), that a pending commit means autocommit is on, and that autocommit
off means a new transaction is requested or one is open. For the answers,
`AnswerInv` says that a string still being run has not been answered to its end,
and `PrefixInv` that a prefix flag which is up has its statement at the front of
the string with a statement of the client's behind it; `PrefixShape` is that
relation, and each step either consumes a statement and its flag together or
leaves both. The last statement of a string is then never silenced. `Recovers`
adds that, with automatic rollback, a failed block has its rollback requested or
at the head of the string. `RollsBackOnlyAborted` is the converse. `RequestInv`
says that a rollback is requested only while the aborted block is there, which
needs that the session's in-transaction flag, on which `sendErrorMessage`
decides, is not left up without a block; `InsertedInv` that the flag of an
inserted COMMIT or ROLLBACK has that statement at the head of the string, the
rollback only while it is requested.

**PreparedStmtsProofs** (`ExecutesPrepared`, `Decoding`, `PreparedTyping`).
`OpenInv`: a slot in use carries its own number as its name, an id the client
has is a slot in use with the read-write type of its statement, and
PostgreSQL's statement of that number is the client's, and its number of
parameters is the one the client was told. `PreparingInv`: the slot
a PREPARE is running for belongs to no id of the client's. Both hold as long as
no PREPARE found the slots full.

**RowTextProofs** (`RowFraming`, `RowReassembles`, `RowTyping`). The history
`ends` holds the prefix sums of the measured lengths, so that what remains to be
written is an expression without recursion. `WriteInv`: what remains is
`rowRemainLen` less what was written of this packet, and what the header still
owes is what it announced less the same. When a packet is filled, more than its
room was still to be written, so `rowRemainLen` is above the maximum, the header
announced the maximum, and nothing is owed. `PacketsInv` adds that all packets
before the current one are of the maximum length.

**RowBinaryProofs** (`BinaryTyping`, `BinaryWrittenOnce`, `BinaryFramed`).
`Account`: what has been written, what waits in `payloadBuf`, what is left of the
large value and the measured lengths of the columns to come add up to the length
of the row. It rests on `KeptFacts`: the two passes agree on the length of every
column, except a BIT of a split row. `OneHeader`: while a row of one packet is
being written, the header owes what has not been written. `packetFreeSize` stays
between 0 and a packet because `payloadBuf` is no larger than one: what is left
of it after the end of a packet fits in the next. `FramedBinary` itself is the
property that `row_binary_split` shows to fail.

**NetReadProofs** (`NetReadTyping`, `CommandsAreWhole`, `AnswersInSequence`,
`RefusesOnlyTooLong`). What the client has sent and the server has read are
counts of packets of one command; `Times` and `Extent` turn a count into the
bytes before it. `WireInv` says what the packets in flight are: consecutive
packets of the client's command from the one the server reads next, full but for
the last. `ClientInv` and `ServerInv` tie both ends to it while the server is in
step, and `CommandInv` says that a command handed to `processCommand` has the
length the client sent and the number after its last packet. A refusal then
comes from a length that is above the limit, or above what the buffer may grow to.

**NetWriteProofs** (`WriteTyping`, `WriteImplementsStream`). The inductive
invariant says that the part of the buffer not yet sent holds exactly the bytes
after the ones the client has, up to what was handed over; what is assembled in
place lies behind them and inside the buffer; and the counters of a copied call
add up to its length. Every action is then a step of `AnswerStream` under the
mapping `Stream`, or leaves it unchanged.

**SharedMemoryProofs** has the two components whose spinlock is created by its
first user; it extends both, which is why the names of `UuidShort` begin with
`Uuid`.

For `uuid_short()` (`UuidMutex`, `UuidSequential`, `UuidTyping`) `UuidEntryInv`
says that while the entry is being created everyone else is idle, and that
afterwards everyone works with the one linked element; `UuidLockInv` that the
lock is taken exactly while someone is inside; `UuidCountInv` that the counter is
ahead of the values returned by the one in flight.

For the system variables (`SysVarsTyping`, `OneHolder`, `WholeReads`,
`CopiesAreCurrent`), every step is of one of a few kinds for the lock (quiet,
holds, releases, escapes, and the steps of taking it), and the invariants are
shown of the kinds. `Control` says where the lock is held, `OneLock` that it is
one lock with one holder, `Whole` that an entry half written is being written by
the holder, `Prepared` that a statement past its start has its copies. `Copies`
is the strengthening of `CopyCurrent`: a variable without an entry, or with one
being filled, has been set by nobody, and a session that is about to write its
copy is about to write the global value, unless another has set it since.

**AutoIncrementProofs** (`AutoIncTyping`, `RecoverySafe`, `FreshValues`).
`LockInv`, `StmtInv` and `TableInv` say who works with the buffer and the table,
`StmtInv` session by session (`StmtOf`), so that one lemma, `QuietStep`, has all
steps of one session that leave buffer and log alone, and `AbortStep` the failures;
`PageInv` that the buffer's next value is past every value taken; `CoverInv`
that the last record covers the buffer for as many fetches as `log_cnt` says;
`LogInv` that the flushed log is ahead of the committed rows, and `RedoInv` that
the page on disk is, whenever recovery would replay nothing. `FreshValues`, an
action property, follows from `PageInv`.

Every safety property of a run that passes is proved. Only model-checked are the
three liveness properties (`SessionEnds`, `CatchesUp`, `EveryStatementEnds`):
fairness and ENABLED are beyond the proof system. `WriteImplementsStream` is
about the steps of `AnswerStream`, whose `Spec` has no fairness; that the client
catches up is `CatchesUp`, on the instance.

## 5. Reading the map

A definition may stand for many lines whose detail it abstracts: `Measured` in
`RowBinary` for the type cascade of the first pass, `QueryComment` for
`rectifyCommand`, of which only "nothing is left" matters here. Definitions
that model PostgreSQL's own functions (`AbortCurrent`, `RunBegin`, `RunCommit`,
the checkpoint and the log in `AutoIncrement`) are mapped to PostgreSQL's files;
only what the MySQL layer can bring about is in them. The client in `NetRead` is
external.

The map covers a small share of the repository, which is a whole database server:
of its 1.57 million lines nearly all are PostgreSQL's own, or the grammars,
types and functions of section 7. Of the files that keep the MySQL layer's
state, the map covers what changes that state.

## 6. Plan

1. A session that composes `TrxEmulation` with `PreparedStmts`, for the
   statements that touch both (COM_STMT_CLOSE in an aborted block, the reset).
2. An abstract MySQL session (autocommit, one answer per command) and
   `TrxEmulation` shown to implement it up to the named exceptions.
3. `RowText` over `NetWrite`.
4. An operator for the comment scanner of `rectifyCommand`, against a reference
   definition over short texts.
5. The listener table of `postmaster2.c`.

## 7. What is not modelled, and why

- Logon: sequential, before the session's state exists; its arithmetic is
  cryptography.
- Grammar and analysis: pure translation between syntax trees, apart from
  `isIgnoreStmt` and the trigger of an AUTO_INCREMENT column, which are
  modelled.
- DDL and executor paths: they rest on PostgreSQL's catalogs, heap and MVCC,
  which would have to be modelled first. ALTER TABLE ... AUTO_INCREMENT, which
  changes state outside its transaction, is modelled.
- Types and functions: pure computations on data.
- In `TrxEmulation`: session state tracking, warnings and last insert ids, which
  are carried in packets and read by nothing else; the cancel request, which
  appears as an error at any statement; what becomes of a prepared transaction
  after PREPARE TRANSACTION, which no longer belongs to the session.
- In `PreparedStmts`: the rewriting of the values of COM_STMT_EXECUTE into text.
- In `NetRead` and `NetWrite`: TLS and compression, and pipelining by the client,
  which the protocol forbids.
- In `SystemVars`: what a value means. Applying one is a success or an error,
  except for autocommit, which is in `TrxEmulation`; `query_cache_size` is
  rounded before it is a value of the model.
- In `AutoIncrement`: sequences with a CACHE, which `createSeq` never makes,
  savepoints and isolation levels above READ COMMITTED, and replication, which
  reads the same log.
