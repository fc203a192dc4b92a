---------------------------- MODULE TrxEmulation ----------------------------
(***************************************************************************)
(* How a MySQL session's transactions are emulated on one PostgreSQL       *)
(* backend (src/backend/adapter/mysql/adapter.c, systemVar.c).             *)
(*                                                                         *)
(* processCommand rewrites a client command into a query string, putting   *)
(* "begin;", "commit;" or "rollback;begin;" in front of it when its flags  *)
(* say so; exec_simple_query (tcop/postgres.c) parses the string and runs  *)
(* its statements one by one; endCommand answers each of them, or keeps    *)
(* silent for the ones the client did not send, and updates the flags.  An *)
(* error anywhere abandons the rest of the string (PostgresMain).          *)
(*                                                                         *)
(* A client text is the sequence of its statements' kinds.  "other" stands *)
(* for every statement that neither touches the emulation's state nor      *)
(* isIgnoreStmt: SELECT, INSERT, DDL, PREPARE, EXECUTE, CALL, SHOW...       *)
(***************************************************************************)
EXTENDS Naturals, Sequences

CONSTANT MaxStmts   \* bound: statements in one client text

ASSUME TrxAssumption == MaxStmts \in Nat \ {0}

VARIABLES
    autoRollback,   \* mysql.auto_rollback_tx_on_error, fixed at server start
    autoCommit,     \* 2 (on) or 0, as in the status flags of a packet
    flags,          \* the bool globals of adapter.c that are true
    needAdd,        \* needAddCommitOrRollbackAfterCurSQL
    block,          \* PostgreSQL's transaction block state
    savepoint,      \* 1 if the open block has a savepoint
    phase,          \* where PostgresMain is
    cmd,            \* the kind of the current, or last, client command
    text,           \* the statements of the query string still to be run
    multi,          \* use_implicit_block, as 0 or 1
    answered,       \* the packets of the current command, seen by the client
    seen            \* history: see Events

vars == <<autoRollback, autoCommit, flags, needAdd, block, savepoint, phase,
          cmd, text, multi, answered, seen>>

FlagNames == {"needCommitTrx", "needStartNewTrx", "trxNotCommit",
              "inTransactionFlag", "addBeforeBeforeCurSQL",
              "addCommitOrRollBackBeforeCurSQL", "isResetConnStmt",
              "isIgnoreStmt"}

Stmts == {"other", "update", "updateIgnore", "begin", "start", "commit",
          "rollback", "commitChain", "rollbackChain", "prepareTrx",
          "savepoint", "release", "rollbackTo", "setOn", "setOff"}

Texts == UNION {[1..n -> Stmts] : n \in 1..MaxStmts}

(* Things that happened, for the properties that hold unless they did:     *)
(*  stalePrefix   the current command began with a prefix flag still set   *)
(*  ignoredError  its error was answered OK with more results announced    *)
(*  untracked     the block changed and endCommand was not told, or was    *)
(*                told something else, since the last BEGIN/COMMIT/ROLLBACK *)
(*  leftoverStart needStartNewTrx was left set with autocommit on          *)
(*  redundantOff  autocommit was switched off twice outside a transaction  *)
(*  endedUnseen   PREPARE TRANSACTION, or a COMMIT that failed, ended the  *)
(*                block with the flags left up, and there was no ROLLBACK  *)
(*                since, nor a BEGIN or COMMIT before a rollback was asked *)
(*                for                                                      *)
Events == {"stalePrefix", "ignoredError", "untracked", "leftoverStart",
           "redundantOff", "endedUnseen"}

InBlock == {"inprogress", "abort"}

TypeOK ==
    /\ autoRollback \in {0, 1}
    /\ autoCommit \in {0, 2}
    /\ flags \subseteq FlagNames
    /\ needAdd \in {1, 2}
    /\ block \in {"default", "implicit", "inprogress", "abort"}
    /\ savepoint \in {0, 1}
    /\ phase \in {"idle", "parse", "exec", "gone"}
    /\ cmd \in {"none", "inject", "begin", "plain", "comment", "close",
                "simulated", "refused", "reset", "quit"}
    /\ text \in Seq(Stmts \cup {"close", "deallocAll"})
    /\ multi \in {0, 1}
    /\ answered \in {"none", "partial", "final", "both"}
    /\ seen \subseteq Events

Init ==
    /\ autoRollback \in {0, 1}
    /\ autoCommit = 2
    /\ flags = {}
    /\ needAdd = 1
    /\ block = "default"
    /\ savepoint = 0
    /\ phase = "idle"
    /\ cmd = "none"
    /\ text = <<>>
    /\ multi = 0
    /\ answered = "none"
    /\ seen = {}

-----------------------------------------------------------------------------
(* The answer stream.  A packet with SERVER_MORE_RESULTS_EXISTS leaves it  *)
(* partial, one without ends it; "both" is a packet after the end.         *)

Answer(more) ==
    IF answered \in {"final", "both"} THEN "both"
    ELSE IF more THEN "partial" ELSE "final"

Last == Len(text) = 1

When(p, S) == IF p THEN S ELSE {}

-----------------------------------------------------------------------------
(* processCommand: from a client command to a query string.                *)

(* Mutant: the pending commit is looked at before the aborted transaction. *)
AddPrefixCommitFirst(f) ==
    IF "needCommitTrx" \in f /\ "trxNotCommit" \in f THEN <<"commit">>
    ELSE IF "needStartNewTrx" \in f /\ "trxNotCommit" \notin f
         THEN <<"begin">>
         ELSE IF needAdd = 2 THEN <<"rollback", "begin">> ELSE <<>>

(* addAdditionalSQL: the statements put in front of the client's.  The two *)
(* tests of the first branch exclude each other.                           *)
AddPrefix(f) ==
    IF needAdd = 2 THEN <<"rollback", "begin">>
    ELSE IF "needStartNewTrx" \in f /\ "trxNotCommit" \notin f
         THEN <<"begin">>
         ELSE IF "needCommitTrx" \in f /\ "trxNotCommit" \in f
              THEN <<"commit">> ELSE <<>>

(* addAdditionalSQL: the flags that keep the answers to those silent.      *)
AddFlags(f) ==
    LET p == AddPrefix(f)
    IN  (f \ {"needCommitTrx"})
          \cup When(p \in {<<"begin">>, <<"rollback", "begin">>},
                    {"addBeforeBeforeCurSQL"})
          \cup When(p \in {<<"commit">>, <<"rollback", "begin">>},
                    {"addCommitOrRollBackBeforeCurSQL"})

(* The begin branch of processCommand: an open transaction is ended first. *)
BeginPrefix(f) ==
    IF "trxNotCommit" \notin f THEN <<>>
    ELSE IF needAdd = 1 THEN <<"commit">> ELSE <<"rollback">>

(* What every command does first.                                          *)
Receive(kind) ==
    /\ phase = "idle"
    /\ cmd' = kind
    /\ seen' = (seen \ {"stalePrefix", "ignoredError"}) \cup
               When(flags \cap {"addBeforeBeforeCurSQL",
                                "addCommitOrRollBackBeforeCurSQL"} # {},
                    {"stalePrefix"})

Fresh == flags \ {"isResetConnStmt"}

(* Hand a query string to exec_simple_query.                               *)
Submit(t) ==
    /\ text' = t
    /\ phase' = "parse"
    /\ answered' = "none"
    /\ UNCHANGED <<needAdd, block, savepoint, multi>>

(* DML, DDL, SHOW, EXECUTE, PREPARE, USE_DATABASE and everything else that *)
(* goes through addAdditionalSQL.  Any statement can come first: END and   *)
(* ABORT are commit and rollback, and "-- ..." hides the first word.       *)
QueryInjected(t) ==
    /\ Receive("inject")
    /\ Submit(AddPrefix(Fresh) \o t)
    /\ flags' = AddFlags(Fresh)
    /\ UNCHANGED autoCommit

(* A text with no statement in it, "-- ...": rectifyCommand leaves it.     *)
QueryComment ==
    /\ Receive("comment")
    /\ Submit(AddPrefix(Fresh))
    /\ flags' = AddFlags(Fresh)
    /\ UNCHANGED autoCommit

(* COM_STMT_CLOSE, rewritten to "deallocate prepare ...".                  *)
StmtClose ==
    /\ Receive("close")
    /\ Submit(AddPrefix(Fresh) \o <<"close">>)
    /\ flags' = AddFlags(Fresh)
    /\ UNCHANGED autoCommit

QueryBegin(t) ==
    /\ t[1] = "begin"
    /\ Receive("begin")
    /\ Submit(BeginPrefix(Fresh) \o t)
    /\ flags' = Fresh \cup When(BeginPrefix(Fresh) # <<>>,
                                {"addCommitOrRollBackBeforeCurSQL"})
    /\ UNCHANGED autoCommit

(* COMMIT, ROLLBACK, SET and USE go to PostgreSQL as they are.             *)
QueryPlain(t) ==
    /\ t[1] \in {"commit", "rollback", "commitChain", "rollbackChain",
                 "rollbackTo", "setOn", "setOff", "other"}
    /\ Receive("plain")
    /\ Submit(t)
    /\ flags' = Fresh
    /\ UNCHANGED autoCommit

(* resetConnection: a query string of its own making.                      *)
ResetConnection ==
    /\ phase = "idle"
    /\ cmd' = "reset"
    /\ seen' = (seen \ {"stalePrefix", "ignoredError", "redundantOff"})
                 \cup When(flags \cap {"addBeforeBeforeCurSQL",
                                "addCommitOrRollBackBeforeCurSQL"} # {},
                           {"stalePrefix"})
                 \cup When("needStartNewTrx" \in flags, {"leftoverStart"})
    /\ Submit(<<"rollback", "deallocAll">>)
    /\ flags' = flags \cup {"isResetConnStmt"}
    /\ autoCommit' = 2

(* PING, SLEEP, RESET, FIELD_LIST, FLUSH, CHECKSUM, SHOW WARNINGS, an      *)
(* unknown command...: answered by the adapter alone.                      *)
Simulated ==
    /\ Receive("simulated")
    /\ flags' = Fresh
    /\ answered' = "final"
    /\ UNCHANGED <<autoCommit, needAdd, block, savepoint, phase, text, multi>>

(* SHOW GRANTS is answered by the adapter too, and then addAdditionalSQL   *)
(* is applied to the text that is never run.                               *)
ShowGrants ==
    /\ Receive("simulated")
    /\ flags' = AddFlags(Fresh)
    /\ answered' = "final"
    /\ UNCHANGED <<autoCommit, needAdd, block, savepoint, phase, text, multi>>

Quit ==
    /\ Receive("quit")
    /\ phase' = "gone"
    /\ flags' = Fresh
    /\ UNCHANGED <<autoCommit, needAdd, block, savepoint, text, multi,
                   answered>>

-----------------------------------------------------------------------------
(* Errors.                                                                 *)

(* AbortCurrentTransaction.                                                *)
AbortCurrent(b) == IF b \in InBlock THEN "abort" ELSE "default"

(* sendErrorMessage.  An error packet carries no status flags; the OK sent *)
(* for an IGNORE statement carries moreResultsFlag.                        *)
SendErrorMessage(f, more) ==
    LET hit == autoRollback = 1 /\ "inTransactionFlag" \in f
    IN  /\ answered' = Answer("isIgnoreStmt" \in f /\ more)
        /\ flags' = f \cup When(hit, {"needStartNewTrx"})
        /\ needAdd' = IF hit THEN 2 ELSE needAdd

ErrorEvents(f, more) ==
    When("isIgnoreStmt" \in f /\ more, {"ignoredError"}) \cup
    When(autoRollback = 1 /\ "inTransactionFlag" \in f /\ autoCommit # 0,
         {"leftoverStart"})

(* Mutant: the statements after the failed one are run all the same.       *)
FailContinues(f, more, b) ==
    /\ SendErrorMessage(f, more)
    /\ block' = b
    /\ savepoint' = IF b = "default" THEN 0 ELSE savepoint
    /\ text' = Tail(text)
    /\ phase' = IF Last THEN "idle" ELSE "exec"

(* The error handler of PostgresMain, the block state becoming b.          *)
Fail(f, more, b) ==
    /\ SendErrorMessage(f, more)
    /\ block' = b
    /\ savepoint' = IF b = "default" THEN 0 ELSE savepoint
    /\ text' = <<>>
    /\ phase' = "idle"

(* processCommand itself raises an error: a text rectifyCommand refuses, a *)
(* statement id out of range.                                              *)
Refused ==
    /\ phase = "idle"
    /\ cmd' = "refused"
    /\ answered' = "final"
    /\ flags' = Fresh \cup When(autoRollback = 1 /\ "inTransactionFlag" \in flags,
                                {"needStartNewTrx"})
    /\ needAdd' = IF autoRollback = 1 /\ "inTransactionFlag" \in flags
                  THEN 2 ELSE needAdd
    /\ seen' = (seen \ {"stalePrefix", "ignoredError"})
                 \cup ErrorEvents(Fresh, FALSE)
    /\ block' = AbortCurrent(block)
    /\ savepoint' = IF block' = "default" THEN 0 ELSE savepoint
    /\ UNCHANGED <<autoCommit, phase, text, multi>>

-----------------------------------------------------------------------------
(* exec_simple_query: parsing.  The grammar sets isIgnoreStmt as it        *)
(* reduces an UPDATE or DELETE, and nothing else resets it.                *)

IgnoreAfter(f, t) ==
    LET U == {i \in 1..Len(t) : t[i] \in {"update", "updateIgnore"}}
    IN  IF U = {} THEN f
        ELSE LET last == CHOOSE i \in U : \A j \in U : j <= i
             IN  (f \ {"isIgnoreStmt"}) \cup
                 When(t[last] = "updateIgnore", {"isIgnoreStmt"})

ParseOk ==
    /\ phase = "parse"
    /\ text # <<>>
    /\ phase' = "exec"
    /\ flags' = IgnoreAfter(flags, text)
    /\ multi' = IF Len(text) > 1 THEN 1 ELSE 0
    /\ UNCHANGED <<autoCommit, needAdd, block, savepoint, cmd, text,
                   answered, seen>>

(* No parse tree at all: exec_simple_query sends an OK packet.             *)
ParseEmpty ==
    /\ phase = "parse"
    /\ text = <<>>
    /\ phase' = "idle"
    /\ answered' = Answer(FALSE)
    /\ UNCHANGED <<autoCommit, flags, needAdd, block, savepoint, cmd, text,
                   multi, seen>>

(* A syntax error anywhere in the string, after k of its statements.       *)
ParseError ==
    /\ phase = "parse"
    /\ text # <<>>
    /\ \E k \in 0..Len(text) :
         LET f == IgnoreAfter(flags, SubSeq(text, 1, k))
         IN  /\ Fail(f, FALSE, AbortCurrent(block))
             /\ seen' = seen \cup ErrorEvents(f, FALSE)
    /\ UNCHANGED <<autoCommit, cmd, multi>>

-----------------------------------------------------------------------------
(* exec_simple_query: one statement.                                       *)

(* The block a statement runs in: BeginImplicitTransactionBlock.           *)
Cur == IF multi = 1 /\ block = "default" THEN "implicit" ELSE block

Runs(stmt) == phase = "exec" /\ text # <<>> /\ Head(text) = stmt

(* endCommand: which tags get no answer.                                   *)
Silent(tag) ==
    \/ tag = "BEGIN" /\ "addBeforeBeforeCurSQL" \in flags
    \/ tag = "COMMIT" /\ "addCommitOrRollBackBeforeCurSQL" \in flags
    \/ /\ tag = "ROLLBACK"
       /\ flags \cap {"addCommitOrRollBackBeforeCurSQL", "isResetConnStmt"}
            # {}
    \/ tag = "DEALLOCATE"

(* Mutant: a new transaction is asked for whatever autocommit is.          *)
EndTrxAlwaysRestarts(f) ==
    (f \ {"addCommitOrRollBackBeforeCurSQL", "inTransactionFlag",
          "trxNotCommit"}) \cup {"needStartNewTrx"}

(* Mutant: the end of a transaction does not ask for the next one.         *)
EndTrxNoRestart(f) ==
    f \ {"addCommitOrRollBackBeforeCurSQL", "inTransactionFlag",
         "trxNotCommit"}

(* Mutant: the status bit is left to the next BEGIN.                       *)
EndTrxKeepsStatus(f) ==
    (f \ {"addCommitOrRollBackBeforeCurSQL", "trxNotCommit"})
      \cup When(autoCommit = 0, {"needStartNewTrx"})

(* Mutant: the prefix flag is not lowered by the statement it silenced.    *)
EndTrxKeepsPrefix(f) ==
    (f \ {"inTransactionFlag", "trxNotCommit"})
      \cup When(autoCommit = 0, {"needStartNewTrx"})

(* endCommand on COMMIT and on ROLLBACK: the flags.                        *)
EndTrx(f) ==
    (f \ {"addCommitOrRollBackBeforeCurSQL", "inTransactionFlag",
          "trxNotCommit"})
      \cup When(autoCommit = 0, {"needStartNewTrx"})

(* endCommand: the flags after each tag.                                   *)
EndCommand(f, tag) ==
    IF tag = "BEGIN"
    THEN (f \ {"addBeforeBeforeCurSQL", "needStartNewTrx"})
           \cup {"inTransactionFlag", "trxNotCommit"}
    ELSE IF tag \in {"COMMIT", "ROLLBACK"} THEN EndTrx(f)
    ELSE f \ When(tag = "DEALLOCATE ALL", {"isResetConnStmt"})

(* Mutant: a rollback does not withdraw the request for one.               *)
AdvanceKeepsRequest(tag, b) ==
    /\ answered' = IF Silent(tag) THEN answered ELSE Answer(~Last)
    /\ block' = IF Last /\ b = "implicit" THEN "default" ELSE b
    /\ text' = Tail(text)
    /\ phase' = IF Last THEN "idle" ELSE "exec"
    /\ UNCHANGED <<needAdd, cmd, multi>>

(* A statement succeeds: the transaction command is finished, the implicit *)
(* block closed after the last statement, then end_command is called.      *)
Advance(tag, b) ==
    /\ needAdd' = IF tag = "ROLLBACK" THEN 1 ELSE needAdd
    /\ answered' = IF Silent(tag) THEN answered ELSE Answer(~Last)
    /\ block' = IF Last /\ b = "implicit" THEN "default" ELSE b
    /\ text' = Tail(text)
    /\ phase' = IF Last THEN "idle" ELSE "exec"
    /\ UNCHANGED <<cmd, multi>>

Complete(tag, b) == Advance(tag, b) /\ flags' = EndCommand(flags, tag)

(* History: BEGIN, COMMIT and ROLLBACK bring flags and block together.     *)
Tracked(tag) ==
    seen' = seen \ ({"untracked"} \cup
                    When(tag = "BEGIN" \/ autoCommit = 0, {"redundantOff"})
                    \cup When(tag = "BEGIN", {"leftoverStart"})
                    \cup When(tag = "ROLLBACK" \/ needAdd = 1,
                              {"endedUnseen"}))

(* The same tags, while the block stays open.                              *)
Misread(tag) ==
    seen' = (seen \ (When(autoCommit = 0, {"redundantOff"})
                      \cup When(tag = "ROLLBACK", {"endedUnseen"})))
              \cup {"untracked"}

Untracked(p) == seen' = seen \cup When(p, {"untracked"})

(* History: the block has ended and the flags have not heard of it.        *)
EndedUnseen ==
    {"untracked"} \cup When("inTransactionFlag" \in flags, {"endedUnseen"})

RunOther ==
    /\ \E s \in {"other", "update", "updateIgnore"} : Runs(s)
    /\ block # "abort"
    /\ Complete("SELECT", Cur)
    /\ UNCHANGED <<autoCommit, savepoint, seen>>

RunBegin ==
    /\ Runs("begin")
    /\ block # "abort"
    /\ Complete("BEGIN", "inprogress")
    /\ Tracked("BEGIN")
    /\ UNCHANGED <<autoCommit, savepoint>>

(* START TRANSACTION has a tag of its own, which endCommand only answers.  *)
RunStart ==
    /\ Runs("start")
    /\ block # "abort"
    /\ Complete("START TRANSACTION", "inprogress")
    /\ Untracked(block # "inprogress")
    /\ UNCHANGED <<autoCommit, savepoint>>

(* COMMIT of an aborted block rolls back, and says so in its tag.          *)
RunCommit ==
    /\ Runs("commit")
    /\ LET tag == IF block = "abort" THEN "ROLLBACK" ELSE "COMMIT"
       IN  Complete(tag, "default") /\ Tracked(tag)
    /\ savepoint' = 0
    /\ UNCHANGED autoCommit

RunRollback ==
    /\ Runs("rollback")
    /\ Complete("ROLLBACK", "default")
    /\ Tracked("ROLLBACK")
    /\ savepoint' = 0
    /\ UNCHANGED autoCommit

(* COMMIT AND CHAIN, ROLLBACK AND CHAIN: a new block opens at once, under  *)
(* the same tags.                                                          *)
RunChain ==
    /\ block \in InBlock
    /\ \E s \in {"commitChain", "rollbackChain"} :
         LET tag == IF s = "commitChain" /\ block # "abort" THEN "COMMIT"
                    ELSE "ROLLBACK"
         IN  Runs(s) /\ Complete(tag, "inprogress") /\ Misread(tag)
    /\ savepoint' = 0
    /\ UNCHANGED autoCommit

(* PREPARE TRANSACTION ends a block, an implicit one too, under a tag that *)
(* endCommand only answers; of an aborted block, or of none, it is a       *)
(* ROLLBACK.                                                               *)
RunPrepareTrx ==
    /\ Runs("prepareTrx")
    /\ \/ /\ Cur \in {"inprogress", "implicit"}
          /\ Complete("PREPARE TRANSACTION", "default")
          /\ seen' = seen \cup When(block = "inprogress", EndedUnseen)
       \/ /\ Cur \in {"abort", "default"}
          /\ Complete("ROLLBACK", "default")
          /\ Tracked("ROLLBACK")
    /\ savepoint' = 0
    /\ UNCHANGED autoCommit

RunSavepoint ==
    /\ Runs("savepoint")
    /\ block = "inprogress"
    /\ Complete("SAVEPOINT", "inprogress")
    /\ savepoint' = 1
    /\ UNCHANGED <<autoCommit, seen>>

RunRelease ==
    /\ Runs("release")
    /\ block = "inprogress"
    /\ savepoint = 1
    /\ Complete("RELEASE", "inprogress")
    /\ savepoint' \in {0, 1}            \* 1: an enclosing savepoint is left
    /\ UNCHANGED <<autoCommit, seen>>

(* ROLLBACK TO is tagged ROLLBACK.                                         *)
RunRollbackTo ==
    /\ Runs("rollbackTo")
    /\ block \in InBlock
    /\ savepoint = 1
    /\ Complete("ROLLBACK", "inprogress")
    /\ Misread("ROLLBACK")
    /\ UNCHANGED <<autoCommit, savepoint>>

(* Mutant: the status bit of autocommit is written as a truth value.       *)
AutocommitBitAsBool(on) == IF on THEN 1 ELSE 0

(* applySystemVarValue("autocommit", ...): autoCommit.                     *)
AutocommitBit(on) == IF on THEN 2 ELSE 0

(* applySystemVarValue("autocommit", ...): the flags.                      *)
ApplyAutocommit(f, on) ==
    (f \ {"needCommitTrx", "needStartNewTrx"}) \cup
    IF on THEN When(autoCommit = 0, {"needCommitTrx"})
    ELSE When(autoCommit # 0, {"needStartNewTrx"})

(* History of the same.                                                    *)
AutocommitEvents(on) ==
    (seen \ ({"leftoverStart"} \cup When(on \/ autoCommit # 0,
                                         {"redundantOff"})))
      \cup When(~on /\ autoCommit = 0 /\ "trxNotCommit" \notin flags,
                {"redundantOff"})

RunSet ==
    \E on \in BOOLEAN :
      /\ Runs(IF on THEN "setOn" ELSE "setOff")
      /\ block # "abort"
      /\ autoCommit' = AutocommitBit(on)
      /\ Advance("SET", Cur)
      /\ flags' = EndCommand(ApplyAutocommit(flags, on), "SET")
      /\ seen' = AutocommitEvents(on)
      /\ UNCHANGED savepoint

RunClose ==
    /\ Runs("close")
    /\ block # "abort"
    /\ Complete("DEALLOCATE", Cur)
    /\ UNCHANGED <<autoCommit, savepoint, seen>>

RunDeallocateAll ==
    /\ Runs("deallocAll")
    /\ block # "abort"
    /\ Complete("DEALLOCATE ALL", Cur)
    /\ UNCHANGED <<autoCommit, savepoint, seen>>

(* A statement fails: rejected in an aborted block, refused in this block  *)
(* state, cancelled, or wrong in itself.                                   *)
StmtError ==
    /\ phase = "exec"
    /\ text # <<>>
    /\ Fail(flags, ~Last, AbortCurrent(block))
    /\ seen' = seen \cup ErrorEvents(flags, ~Last)
    /\ UNCHANGED <<autoCommit, cmd, multi>>

(* A COMMIT fails while committing, or a PREPARE TRANSACTION while         *)
(* preparing, as it always does with max_prepared_transactions = 0: the    *)
(* block is gone, end_command is not called.                               *)
CommitError ==
    /\ \E s \in {"commit", "commitChain", "prepareTrx"} : Runs(s)
    /\ block = "inprogress"
    /\ Fail(flags, ~Last, "default")
    /\ seen' = seen \cup ErrorEvents(flags, ~Last) \cup EndedUnseen
    /\ UNCHANGED <<autoCommit, cmd, multi>>

(* A SET of several variables fails after autocommit was applied.          *)
SetError ==
    \E on \in BOOLEAN :
      /\ Runs(IF on THEN "setOn" ELSE "setOff")
      /\ block # "abort"
      /\ autoCommit' = AutocommitBit(on)
      /\ LET f == ApplyAutocommit(flags, on)
             hit == autoRollback = 1 /\ "inTransactionFlag" \in f
         IN  /\ Fail(f, ~Last, AbortCurrent(block))
             /\ seen' = AutocommitEvents(on) \cup
                  When("isIgnoreStmt" \in f /\ ~Last, {"ignoredError"}) \cup
                  When(hit /\ on, {"leftoverStart"})
      /\ UNCHANGED <<cmd, multi>>

-----------------------------------------------------------------------------
Client ==
    \/ \E t \in Texts : QueryInjected(t) \/ QueryBegin(t) \/ QueryPlain(t)
    \/ QueryComment \/ StmtClose \/ ResetConnection
    \/ Simulated \/ ShowGrants \/ Refused \/ Quit

Server ==
    \/ ParseOk \/ ParseEmpty \/ ParseError
    \/ RunOther \/ RunBegin \/ RunStart \/ RunCommit \/ RunRollback
    \/ RunChain \/ RunPrepareTrx \/ RunSavepoint \/ RunRelease \/ RunRollbackTo
    \/ RunSet \/ RunClose \/ RunDeallocateAll
    \/ StmtError \/ CommitError \/ SetError

Next == (Client \/ Server) /\ UNCHANGED autoRollback

Spec == Init /\ [][Next]_vars

-----------------------------------------------------------------------------
(* Properties.                                                             *)

(* No command is answered after the packet that ended its answer: the      *)
(* client gets a completion or an error, never one and then the other,     *)
(* whatever was put in front of its text and wherever the string failed    *)
(* (exec_simple_query finishes the transaction before end_command).        *)
NeverBothAnswers == answered # "both"

(* Every command but COM_STMT_CLOSE is answered to the end when the server *)
(* is ready for the next one, but for a text without statements behind a   *)
(* prefix and an IGNORE statement that failed before the end of its string *)
(* (endCommand, sendErrorMessage).                                         *)
EveryCommandAnswered ==
    /\ phase = "idle"
    /\ cmd \notin {"none", "close", "comment"}
    /\ "ignoredError" \notin seen
    => answered = "final"

(* The same, but for a command that met a prefix flag left over by an      *)
(* earlier one, a text without statements behind a prefix, and an IGNORE   *)
(* statement that failed before the end of its string: the begin, commit   *)
(* and rollback that addAdditionalSQL and processCommand insert are        *)
(* silenced by endCommand one for one.                                     *)
AnsweredUnlessStale ==
    /\ phase = "idle"
    /\ cmd \notin {"none", "close", "comment"}
    /\ seen \cap {"stalePrefix", "ignoredError"} = {}
    => answered = "final"

(* The in-transaction bit every OK packet reports is the truth about       *)
(* PostgreSQL's transaction block, from each BEGIN, COMMIT or ROLLBACK     *)
(* until a statement endCommand does not understand (START TRANSACTION,    *)
(* ROLLBACK TO, AND CHAIN, PREPARE TRANSACTION) or a failed COMMIT.        *)
StatusTracksBlock ==
    "untracked" \notin seen =>
        ("inTransactionFlag" \in flags <=> block \in InBlock)

(* A transaction is opened on the session's own initiative only while      *)
(* autocommit is off, unless a reset or an automatic rollback left the     *)
(* request behind (needStartNewTrx in endCommand, applySystemVarValue,     *)
(* resetConnection, sendErrorMessage).                                     *)
NewTrxOnlyWithAutocommitOff ==
    "needStartNewTrx" \in flags =>
        autoCommit = 0 \/ "leftoverStart" \in seen

(* With autocommit off the next statement that goes through                *)
(* addAdditionalSQL runs inside a transaction block, opened already or by  *)
(* the prefix it gets: no work commits by itself.  Exceptions: the flags   *)
(* are not tracking the block, or autocommit was switched off once more    *)
(* with no transaction open.                                               *)
AutocommitOffProtected ==
    /\ phase = "idle"
    /\ autoCommit = 0
    /\ seen \cap {"untracked", "redundantOff"} = {}
    => IF AddPrefix(flags) = <<>> THEN block \in InBlock
       ELSE AddPrefix(flags)[Len(AddPrefix(flags))] = "begin"

(* With mysql.auto_rollback_tx_on_error, a command that goes through       *)
(* addAdditionalSQL is never refused because of an earlier error: the      *)
(* aborted block is rolled back before its first statement.                *)
AutoRollbackRecovers ==
    /\ autoRollback = 1
    /\ phase = "exec"
    /\ cmd = "inject"
    /\ block = "abort"
    /\ "untracked" \notin seen
    => Head(text) = "rollback"

(* A rollback that the client has not sent (addAdditionalSQL, the begin    *)
(* branch of processCommand) finds a block that an error has aborted: no   *)
(* work that could still be committed is thrown away.  Exceptions: a       *)
(* prefix flag was left over by an earlier command, or PREPARE TRANSACTION *)
(* or a failed COMMIT had ended the block with the flags left up, so that  *)
(* an error asked for the rollback of a block already gone.                *)
RollbackOnlyOfAborted ==
    /\ phase = "exec"
    /\ Head(text) = "rollback"
    /\ "addCommitOrRollBackBeforeCurSQL" \in flags
    /\ seen \cap {"stalePrefix", "endedUnseen"} = {}
    => block = "abort"
=============================================================================
