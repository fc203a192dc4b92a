------------------------- MODULE TrxEmulationProofs -------------------------
(* Proofs about TrxEmulation, for every bound on the texts and both values *)
(* of mysql.auto_rollback_tx_on_error.                                     *)
EXTENDS TrxEmulation, SequenceTheorems, TLAPS

(* The flags endCommand keeps together.                                    *)
FlagInv ==
    /\ "inTransactionFlag" \in flags <=> "trxNotCommit" \in flags
    /\ "needCommitTrx" \in flags => autoCommit # 0
    /\ autoCommit \in {0, 2}
    /\ autoCommit = 0 =>
         \/ "needStartNewTrx" \in flags
         \/ "trxNotCommit" \in flags
         \/ "redundantOff" \in seen

StatusInv == StatusTracksBlock /\ FlagInv /\ NewTrxOnlyWithAutocommitOff

LEMMA StatusInit == Init => StatusInv
BY DEF Init, StatusInv, StatusTracksBlock, FlagInv,
       NewTrxOnlyWithAutocommitOff, InBlock

LEMMA StatusStep == StatusInv /\ [Next]_vars => StatusInv'
<1> SUFFICES ASSUME StatusInv, [Next]_vars PROVE StatusInv'
    OBVIOUS
<1> USE DEF StatusInv, StatusTracksBlock, FlagInv,
            NewTrxOnlyWithAutocommitOff, InBlock, When
<1>1. ASSUME NEW t \in Texts, QueryInjected(t) PROVE StatusInv'
  BY <1>1 DEF QueryInjected, Receive, Submit, AddFlags, AddPrefix, Fresh
<1>2. CASE QueryComment
  BY <1>2 DEF QueryComment, Receive, Submit, AddFlags, AddPrefix, Fresh
<1>3. CASE StmtClose
  BY <1>3 DEF StmtClose, Receive, Submit, AddFlags, AddPrefix, Fresh
<1>4. ASSUME NEW t \in Texts, QueryBegin(t) PROVE StatusInv'
  BY <1>4 DEF QueryBegin, Receive, Submit, BeginPrefix, Fresh
<1>5. ASSUME NEW t \in Texts, QueryPlain(t) PROVE StatusInv'
  BY <1>5 DEF QueryPlain, Receive, Submit, Fresh
<1>6. CASE ResetConnection
  BY <1>6 DEF ResetConnection, Submit
<1>7. CASE Simulated
  BY <1>7 DEF Simulated, Receive, Fresh
<1>8. CASE ShowGrants
  BY <1>8 DEF ShowGrants, Receive, AddFlags, AddPrefix, Fresh
<1>9. CASE Refused
  BY <1>9 DEF Refused, Fresh, ErrorEvents, AbortCurrent
<1>10. CASE Quit
  BY <1>10 DEF Quit, Receive, Fresh
<1>11. CASE ParseOk
  BY <1>11 DEF ParseOk, IgnoreAfter
<1>12. CASE ParseEmpty
  BY <1>12 DEF ParseEmpty
<1>13. CASE ParseError
  <2>1. PICK k \in 0..Len(text) :
          LET f == IgnoreAfter(flags, SubSeq(text, 1, k))
          IN  /\ Fail(f, FALSE, AbortCurrent(block))
              /\ seen' = seen \cup ErrorEvents(f, FALSE)
    BY <1>13 DEF ParseError
  <2> DEFINE g == IgnoreAfter(flags, SubSeq(text, 1, k))
  <2>2. \A x : x # "isIgnoreStmt" => (x \in g <=> x \in flags)
    BY DEF IgnoreAfter
  <2>3. /\ Fail(g, FALSE, AbortCurrent(block))
        /\ seen' = seen \cup ErrorEvents(g, FALSE)
    BY <2>1
  <2> HIDE DEF g
  <2> QED
    BY <1>13, <2>2, <2>3 DEF ParseError, Fail, SendErrorMessage, ErrorEvents,
                             AbortCurrent
<1>14. CASE RunOther
  BY <1>14 DEF RunOther, Complete, Advance, EndCommand, Cur
<1>15. CASE RunBegin
  BY <1>15 DEF RunBegin, Complete, Advance, EndCommand, Tracked
<1>16. CASE RunStart
  BY <1>16 DEF RunStart, Complete, Advance, EndCommand, Untracked
<1>17. CASE RunCommit
  BY <1>17 DEF RunCommit, Complete, Advance, EndCommand, EndTrx, Tracked
<1>18. CASE RunRollback
  BY <1>18 DEF RunRollback, Complete, Advance, EndCommand, EndTrx, Tracked
<1>19. CASE RunChain
  BY <1>19 DEF RunChain, Complete, Advance, EndCommand, EndTrx, Misread
<1>p. CASE RunPrepareTrx
  BY <1>p DEF RunPrepareTrx, Complete, Advance, EndCommand, EndTrx, Tracked,
              EndedUnseen, Cur
<1>20. CASE RunSavepoint
  BY <1>20 DEF RunSavepoint, Complete, Advance, EndCommand
<1>21. CASE RunRelease
  BY <1>21 DEF RunRelease, Complete, Advance, EndCommand
<1>22. CASE RunRollbackTo
  BY <1>22 DEF RunRollbackTo, Complete, Advance, EndCommand, EndTrx, Misread
<1>23. CASE RunSet
  BY <1>23 DEF RunSet, Advance, EndCommand, ApplyAutocommit, AutocommitEvents,
               AutocommitBit, Cur
<1>24. CASE RunClose
  BY <1>24 DEF RunClose, Complete, Advance, EndCommand, Cur
<1>25. CASE RunDeallocateAll
  BY <1>25 DEF RunDeallocateAll, Complete, Advance, EndCommand, Cur
<1>26. CASE StmtError
  BY <1>26 DEF StmtError, Fail, SendErrorMessage, ErrorEvents, AbortCurrent
<1>27. CASE CommitError
  BY <1>27 DEF CommitError, Fail, SendErrorMessage, ErrorEvents, EndedUnseen
<1>28. CASE SetError
  BY <1>28 DEF SetError, Fail, SendErrorMessage, ApplyAutocommit,
               AutocommitEvents, AutocommitBit, AbortCurrent
<1>29. CASE UNCHANGED vars
  BY <1>29 DEF vars
<1> QED
  BY <1>1, <1>2, <1>3, <1>4, <1>5, <1>6, <1>7, <1>8, <1>9, <1>10, <1>11,
     <1>12, <1>13, <1>14, <1>15, <1>16, <1>17, <1>18, <1>19, <1>20, <1>21,
     <1>22, <1>23, <1>24, <1>25, <1>26, <1>27, <1>28, <1>29, <1>p
     DEF Next, Client, Server

(* The status of every OK packet, for all texts and both settings.         *)
THEOREM StatusTruth == Spec => []StatusTracksBlock
<1>1. StatusInv => StatusTracksBlock
  BY DEF StatusInv
<1> QED
  BY <1>1, StatusInit, StatusStep, PTL DEF Spec

(* No transaction is opened uninvited with autocommit on.                  *)
THEOREM NewTrxTruth == Spec => []NewTrxOnlyWithAutocommitOff
<1>1. StatusInv => NewTrxOnlyWithAutocommitOff
  BY DEF StatusInv
<1> QED
  BY <1>1, StatusInit, StatusStep, PTL DEF Spec

(* With autocommit off no statement commits by itself.                     *)
THEOREM AutocommitOff == Spec => []AutocommitOffProtected
<1>1. StatusInv => AutocommitOffProtected
  BY DEF StatusInv, StatusTracksBlock, FlagInv, AutocommitOffProtected,
         AddPrefix, InBlock
<1> QED
  BY <1>1, StatusInit, StatusStep, PTL DEF Spec

-----------------------------------------------------------------------------
AllStmts == Stmts \cup {"close", "deallocAll"}

LEMMA TextsType ==
    ASSUME NEW t \in Texts
    PROVE  t \in Seq(AllStmts) /\ Len(t) >= 1 /\ t \in Seq(Stmts)
<1>1. PICK n \in 1..MaxStmts : t \in [1..n -> Stmts]
  BY DEF Texts
<1>2. n \in Nat /\ n >= 1
  BY TrxAssumption
<1>3. t \in Seq(Stmts) /\ Len(t) = n
  BY <1>1, <1>2
<1> QED
  BY <1>2, <1>3 DEF AllStmts

(* What a prefix does to the front of a text.                              *)
LEMMA PrefixedText ==
    ASSUME NEW t \in Seq(AllStmts), NEW f
    PROVE  /\ AddPrefix(f) \o t \in Seq(AllStmts)
           /\ BeginPrefix(f) \o t \in Seq(AllStmts)
           /\ AddPrefix(f) \in Seq(AllStmts)
           /\ BeginPrefix(f) \in Seq(AllStmts)
<1> DEFINE a == "commit"
           b == "begin"
           r == "rollback"
<1>1. a \in AllStmts /\ b \in AllStmts /\ r \in AllStmts
  BY DEF AllStmts, Stmts
<1>2. /\ <<>> \in Seq(AllStmts)
      /\ <<a>> \in Seq(AllStmts)
      /\ <<b>> \in Seq(AllStmts)
      /\ <<r>> \in Seq(AllStmts)
      /\ <<r, b>> \in Seq(AllStmts)
  <2> HIDE DEF a, b, r
  <2> QED
    BY <1>1
<1>3. /\ AddPrefix(f) \in {<<>>, <<a>>, <<b>>, <<r, b>>}
      /\ BeginPrefix(f) \in {<<>>, <<a>>, <<r>>}
  BY DEF AddPrefix, BeginPrefix
<1>4. AddPrefix(f) \in Seq(AllStmts) /\ BeginPrefix(f) \in Seq(AllStmts)
  <2> HIDE DEF a, b, r
  <2> QED
    BY <1>2, <1>3
<1> QED
  BY <1>4, ConcatProperties

LEMMA TypeInit == Init => TypeOK
BY DEF Init, TypeOK

LEMMA TypeStep == TypeOK /\ [Next]_vars => TypeOK'
<1> SUFFICES ASSUME TypeOK, [Next]_vars PROVE TypeOK'
    OBVIOUS
<1> USE DEF TypeOK, When, FlagNames, Events
<1>k. autoRollback' \in {0, 1}
  BY DEF Next, vars
<1> USE <1>k
<1>0. text \in Seq(AllStmts) /\ (text # <<>> => Tail(text) \in Seq(AllStmts))
  BY HeadTailProperties DEF AllStmts
<1>a. /\ AllStmts = Stmts \cup {"close", "deallocAll"}
      /\ <<"close">> \in Seq(AllStmts)
      /\ <<"rollback", "deallocAll">> \in Seq(AllStmts)
      /\ <<>> \in Seq(AllStmts)
  BY DEF AllStmts, Stmts
<1>b. \A more \in BOOLEAN : Answer(more) \in {"none", "partial", "final", "both"}
  BY DEF Answer
<1>c. ASSUME NEW f, f \subseteq FlagNames
      PROVE  AddFlags(f) \subseteq FlagNames
  BY <1>c DEF AddFlags
<1>d. Fresh \subseteq FlagNames
  BY DEF Fresh
<1>1. ASSUME NEW t \in Texts, QueryInjected(t) PROVE TypeOK'
  <2>1. AddPrefix(Fresh) \o t \in Seq(AllStmts)
    BY TextsType, PrefixedText
  <2> QED
    BY <1>1, <1>a, <1>c, <1>d, <2>1 DEF QueryInjected, Receive, Submit
<1>2. CASE QueryComment
  <2>1. AddPrefix(Fresh) \in Seq(AllStmts)
    BY <1>a, PrefixedText
  <2> QED
    BY <1>2, <1>a, <1>c, <1>d, <2>1 DEF QueryComment, Receive, Submit
<1>3. CASE StmtClose
  <2>1. AddPrefix(Fresh) \o <<"close">> \in Seq(AllStmts)
    BY <1>a, PrefixedText
  <2> QED
    BY <1>3, <1>a, <1>c, <1>d, <2>1 DEF StmtClose, Receive, Submit
<1>4. ASSUME NEW t \in Texts, QueryBegin(t) PROVE TypeOK'
  <2>1. BeginPrefix(Fresh) \o t \in Seq(AllStmts)
    BY TextsType, PrefixedText
  <2> QED
    BY <1>4, <1>a, <1>d, <2>1 DEF QueryBegin, Receive, Submit
<1>5. ASSUME NEW t \in Texts, QueryPlain(t) PROVE TypeOK'
  BY <1>5, <1>a, <1>d, TextsType DEF QueryPlain, Receive, Submit
<1>6. CASE ResetConnection
  BY <1>6, <1>a DEF ResetConnection, Submit
<1>7. CASE Simulated
  BY <1>7, <1>d DEF Simulated, Receive
<1>8. CASE ShowGrants
  BY <1>8, <1>c, <1>d DEF ShowGrants, Receive
<1>9. CASE Refused
  BY <1>9, <1>d DEF Refused, ErrorEvents, AbortCurrent
<1>10. CASE Quit
  BY <1>10, <1>d DEF Quit, Receive
<1> DEFINE Completed ==
             /\ flags' \subseteq FlagNames
             /\ needAdd' \in {1, 2}
             /\ block' \in {"default", "implicit", "inprogress", "abort"}
             /\ phase' \in {"idle", "parse", "exec", "gone"}
             /\ cmd' = cmd /\ multi' = multi
             /\ text' \in Seq(Stmts \cup {"close", "deallocAll"})
             /\ answered' \in {"none", "partial", "final", "both"}
<1>e. ASSUME NEW tag, NEW b \in {"default", "implicit", "inprogress", "abort"},
             text # <<>>, Complete(tag, b)
      PROVE  Completed
  <2>1. flags' \subseteq FlagNames
    BY <1>e DEF Complete, Advance, EndCommand, EndTrx
  <2>2. answered' \in {"none", "partial", "final", "both"}
    BY <1>e, <1>b DEF Complete, Advance
  <2> QED
    BY <1>e, <1>0, <1>a, <2>1, <2>2 DEF Complete, Advance
<1>f. Cur \in {"default", "implicit", "inprogress", "abort"}
  BY DEF Cur
<1> DEFINE Failed ==
             /\ flags' \subseteq FlagNames
             /\ needAdd' \in {1, 2}
             /\ block' \in {"default", "implicit", "inprogress", "abort"}
             /\ savepoint' \in {0, 1}
             /\ phase' \in {"idle", "parse", "exec", "gone"}
             /\ text' \in Seq(Stmts \cup {"close", "deallocAll"})
             /\ answered' \in {"none", "partial", "final", "both"}
<1>g. ASSUME NEW f, NEW more \in BOOLEAN, NEW b \in {"default", "abort"},
             f \subseteq FlagNames, Fail(f, more, b)
      PROVE  Failed
  <2>1. answered' \in {"none", "partial", "final", "both"}
    BY <1>g DEF Fail, SendErrorMessage, Answer
  <2> QED
    BY <1>g, <2>1 DEF Fail, SendErrorMessage
<1>h. ASSUME NEW f, f \subseteq FlagNames, NEW more
      PROVE  ErrorEvents(f, more) \subseteq Events
  BY DEF ErrorEvents
<1>i. AbortCurrent(block) \in {"default", "abort"}
  BY DEF AbortCurrent
<1>j. (~Last) \in BOOLEAN
  BY DEF Last
<1>11. CASE ParseOk
  BY <1>11 DEF ParseOk, IgnoreAfter
<1>12. CASE ParseEmpty
  BY <1>12, <1>b DEF ParseEmpty
<1>13. CASE ParseError
  <2>1. PICK k \in 0..Len(text) :
          LET f == IgnoreAfter(flags, SubSeq(text, 1, k))
          IN  /\ Fail(f, FALSE, AbortCurrent(block))
              /\ seen' = seen \cup ErrorEvents(f, FALSE)
    BY <1>13 DEF ParseError
  <2> DEFINE g == IgnoreAfter(flags, SubSeq(text, 1, k))
  <2>2. g \subseteq FlagNames
    BY DEF IgnoreAfter
  <2>3. Fail(g, FALSE, AbortCurrent(block))
    BY <2>1
  <2>4. seen' \subseteq Events
    BY <2>1, <2>2, <1>h
  <2> HIDE DEF g
  <2>5. Failed
    <3> HIDE DEF Failed, TypeOK
    <3> QED
      BY <1>g, <1>i, <2>2, <2>3
  <2> QED
    BY <1>13, <2>4, <2>5 DEF ParseError
<1>14. CASE RunOther
  BY <1>14, <1>e, <1>f DEF RunOther, Runs
<1>15. CASE RunBegin
  BY <1>15, <1>e DEF RunBegin, Runs, Tracked
<1>16. CASE RunStart
  BY <1>16, <1>e DEF RunStart, Runs, Untracked
<1>17. CASE RunCommit
  BY <1>17, <1>e DEF RunCommit, Runs, Tracked
<1>18. CASE RunRollback
  BY <1>18, <1>e DEF RunRollback, Runs, Tracked
<1>19. CASE RunChain
  BY <1>19, <1>e DEF RunChain, Runs, Misread
<1>p. CASE RunPrepareTrx
  BY <1>p, <1>e DEF RunPrepareTrx, Runs, Tracked, EndedUnseen
<1>20. CASE RunSavepoint
  BY <1>20, <1>e DEF RunSavepoint, Runs
<1>21. CASE RunRelease
  BY <1>21, <1>e DEF RunRelease, Runs
<1>22. CASE RunRollbackTo
  BY <1>22, <1>e DEF RunRollbackTo, Runs, Misread
<1>23. CASE RunSet
  <2>1. seen' \subseteq Events /\ flags' \subseteq FlagNames
    BY <1>23 DEF RunSet, AutocommitEvents, ApplyAutocommit, EndCommand
  <2>2. answered' \in {"none", "partial", "final", "both"}
    BY <1>23 DEF RunSet, Advance, Answer
  <2> QED
    BY <1>23, <1>0, <1>a, <1>f, <2>1, <2>2
       DEF RunSet, Runs, Advance, AutocommitBit
<1>24. CASE RunClose
  <2>1. text # <<>> /\ Complete("DEALLOCATE", Cur)
    BY <1>24 DEF RunClose, Runs
  <2>2. Completed
    <3> HIDE DEF Completed, TypeOK
    <3> QED
      BY <1>e, <1>f, <2>1
  <2> QED
    BY <1>24, <2>2 DEF RunClose
<1>25. CASE RunDeallocateAll
  <2>1. text # <<>> /\ Complete("DEALLOCATE ALL", Cur)
    BY <1>25 DEF RunDeallocateAll, Runs
  <2>2. Completed
    <3> HIDE DEF Completed, TypeOK
    <3> QED
      BY <1>e, <1>f, <2>1
  <2> QED
    BY <1>25, <2>2 DEF RunDeallocateAll
<1>26. CASE StmtError
  <2>1. Failed
    <3> HIDE DEF Failed
    <3> QED
      BY <1>26, <1>g, <1>i, <1>j DEF StmtError
  <2>2. seen' \subseteq Events
    BY <1>26, <1>h DEF StmtError
  <2> QED
    BY <1>26, <2>1, <2>2 DEF StmtError
<1>27. CASE CommitError
  BY <1>27, <1>g, <1>h DEF CommitError, EndedUnseen
<1>28. CASE SetError
  <2>1. PICK on \in BOOLEAN :
          /\ autoCommit' = AutocommitBit(on)
          /\ Fail(ApplyAutocommit(flags, on), ~Last, AbortCurrent(block))
          /\ UNCHANGED <<cmd, multi>>
    BY <1>28 DEF SetError
  <2>2. seen' \subseteq Events
    BY <1>28 DEF SetError, AutocommitEvents
  <2>3. ApplyAutocommit(flags, on) \subseteq FlagNames
    BY DEF ApplyAutocommit
  <2>4. Failed
    <3> HIDE DEF Failed, TypeOK
    <3> QED
      BY <1>g, <1>i, <1>j, <2>1, <2>3
  <2> QED
    BY <2>1, <2>2, <2>4 DEF AutocommitBit
<1>29. CASE UNCHANGED vars
  BY <1>29 DEF vars
<1> QED
  BY <1>1, <1>2, <1>3, <1>4, <1>5, <1>6, <1>7, <1>8, <1>9, <1>10, <1>11,
     <1>12, <1>13, <1>14, <1>15, <1>16, <1>17, <1>18, <1>19, <1>20, <1>21,
     <1>22, <1>23, <1>24, <1>25, <1>26, <1>27, <1>28, <1>29, <1>p
     DEF Next, Client, Server

(* The session's variables keep their types whatever the client sends.     *)
THEOREM Typing == Spec => []TypeOK
BY TypeInit, TypeStep, PTL DEF Spec

-----------------------------------------------------------------------------
(* An answer that has ended belongs to a command that has ended, and a     *)
(* string being run has a statement left.                                  *)
AnswerInv ==
    /\ answered # "both"
    /\ phase \in {"parse", "exec"} => answered # "final"
    /\ phase = "exec" => text # <<>>

AddBegin(f) == "addBeforeBeforeCurSQL" \in f
AddEnd(f) == "addCommitOrRollBackBeforeCurSQL" \in f

(* A prefix flag that is set has its statement in front of the client's,   *)
(* and the client's last statement is one that is answered.                *)
PrefixShape(f, t, c) ==
    /\ Len(t) >= 1
    /\ AddEnd(f) => Len(t) >= 2 /\ t[1] \in {"commit", "rollback"}
    /\ AddEnd(f) /\ AddBegin(f) => Len(t) >= 3 /\ t[2] = "begin"
    /\ ~AddEnd(f) /\ AddBegin(f) => Len(t) >= 2 /\ t[1] = "begin"
    /\ t[Len(t)] = "close" => c = "close"
    /\ "isResetConnStmt" \in f => t[Len(t)] = "deallocAll"

PrefixInv ==
    /\ phase \in {"parse", "exec"}
    /\ "stalePrefix" \notin seen
    /\ cmd # "comment"
    => PrefixShape(flags, text, cmd)

ReplyInv == AnswerInv /\ PrefixInv /\ AnsweredUnlessStale

(* The tag a statement completes with.                                     *)
TagOf(s, tag) ==
    /\ s = "begin" => tag = "BEGIN"
    /\ tag = "BEGIN" => s = "begin"
    /\ s \in {"commit", "rollback"} => tag \in {"COMMIT", "ROLLBACK"}
    /\ tag \in {"COMMIT", "ROLLBACK"} =>
         s \in {"commit", "rollback", "commitChain", "rollbackChain",
                "rollbackTo", "prepareTrx"}
    /\ tag = "DEALLOCATE" => s = "close"

LEMMA AdvanceReply ==
    ASSUME TypeOK, ReplyInv, phase = "exec",
           NEW tag, NEW b, Advance(tag, b), TagOf(Head(text), tag),
           AddEnd(flags') => AddEnd(flags) /\ tag \notin {"COMMIT", "ROLLBACK"},
           AddBegin(flags') => AddBegin(flags) /\ tag # "BEGIN",
           "isResetConnStmt" \in flags' => "isResetConnStmt" \in flags,
           "stalePrefix" \in seen' <=> "stalePrefix" \in seen
    PROVE  ReplyInv'
<1> USE DEF ReplyInv, AnswerInv
<1>1. text \in Seq(AllStmts) /\ text # <<>>
  BY DEF TypeOK, AllStmts
<1>2. /\ Len(text) \in Nat /\ Len(text) >= 1
      /\ Head(text) = text[1]
      /\ Tail(text) \in Seq(AllStmts)
      /\ Len(Tail(text)) = Len(text) - 1
      /\ \A i \in 1..Len(Tail(text)) : Tail(text)[i] = text[i + 1]
  BY <1>1, HeadTailProperties
<1>3. AnswerInv'
  <2>1. answered' # "both"
    BY DEF Advance, Answer
  <2>2. phase' \in {"parse", "exec"} => ~Last
    BY DEF Advance
  <2>3. ~Last => Tail(text) # <<>>
    BY <1>2 DEF Last
  <2>4. ~Last => answered' # "final"
    BY DEF Advance, Answer
  <2> QED
    BY <2>1, <2>2, <2>3, <2>4 DEF Advance
<1>4. ASSUME "stalePrefix" \notin seen, cmd # "comment", ~Last
      PROVE  PrefixShape(flags', text', cmd')
  <2>1. PrefixShape(flags, text, cmd)
    BY <1>4 DEF PrefixInv
  <2>2. text' = Tail(text) /\ cmd' = cmd
    BY DEF Advance
  <2>3. Len(text) >= 2 /\ Len(text') >= 1
    BY <1>2, <1>4, <2>2 DEF Last
  <2>4. text'[Len(text')] = text[Len(text)]
    BY <1>2, <2>2, <2>3
  <2>5. text'[1] = text[2] /\ (Len(text) >= 3 => text'[2] = text[3])
    BY <1>2, <2>2, <2>3
  <2>6. ~AddEnd(flags')
    BY <1>2, <2>1 DEF PrefixShape, TagOf
  <2>7. AddBegin(flags') => Len(text') >= 2 /\ text'[1] = "begin"
    BY <1>2, <2>1, <2>2, <2>5 DEF PrefixShape, TagOf
  <2> QED
    BY <2>1, <2>2, <2>3, <2>4, <2>6, <2>7 DEF PrefixShape
<1>5. PrefixInv'
  BY <1>4 DEF PrefixInv, Advance
<1>6. ASSUME "stalePrefix" \notin seen, cmd \notin {"close", "comment"}, Last
      PROVE  answered' = "final"
  <2>1. PrefixShape(flags, text, cmd)
    BY <1>6 DEF PrefixInv
  <2>2. Len(text) = 1 /\ text[1] = Head(text)
    BY <1>2, <1>6 DEF Last
  <2>3. ~AddEnd(flags) /\ ~AddBegin(flags)
    BY <2>1, <2>2 DEF PrefixShape
  <2>4. tag # "DEALLOCATE"
    BY <1>6, <2>1, <2>2 DEF PrefixShape, TagOf
  <2>5. "isResetConnStmt" \in flags => tag \notin {"COMMIT", "ROLLBACK"}
    BY <2>1, <2>2 DEF PrefixShape, TagOf
  <2>6. ~Silent(tag)
    BY <2>3, <2>4, <2>5 DEF Silent, AddEnd, AddBegin
  <2> QED
    BY <1>6, <2>6 DEF Advance, Answer
<1>7. AnsweredUnlessStale'
  BY <1>6 DEF AnsweredUnlessStale, Advance
<1> QED
  BY <1>3, <1>5, <1>7

LEMMA CompleteReply ==
    ASSUME TypeOK, ReplyInv, phase = "exec",
           NEW tag, NEW b, Complete(tag, b), TagOf(Head(text), tag),
           "stalePrefix" \in seen' <=> "stalePrefix" \in seen
    PROVE  ReplyInv'
<1>1. /\ AddEnd(flags') => AddEnd(flags) /\ tag \notin {"COMMIT", "ROLLBACK"}
      /\ AddBegin(flags') => AddBegin(flags) /\ tag # "BEGIN"
      /\ "isResetConnStmt" \in flags' => "isResetConnStmt" \in flags
  BY DEF Complete, EndCommand, EndTrx, When, AddEnd, AddBegin
<1> QED
  BY <1>1, AdvanceReply DEF Complete

LEMMA FailReply ==
    ASSUME ReplyInv, phase \in {"parse", "exec"},
           NEW f, NEW more \in BOOLEAN, NEW b, Fail(f, more, b),
           "isIgnoreStmt" \in f /\ more => "ignoredError" \in seen'
    PROVE  ReplyInv'
<1>1. answered # "final" /\ answered # "both"
  BY DEF ReplyInv, AnswerInv
<1>2. answered' # "both"
      /\ ("ignoredError" \notin seen' => answered' = "final")
  BY <1>1 DEF Fail, SendErrorMessage, Answer
<1> QED
  BY <1>2 DEF ReplyInv, AnswerInv, PrefixInv, AnsweredUnlessStale, Fail

(* A fresh command: its prefix flags match the text it submits.            *)
LEMMA InjectShape ==
    ASSUME NEW t \in Seq(AllStmts), Len(t) >= 1,
           NEW f, f \cap {"addBeforeBeforeCurSQL", "isResetConnStmt",
                          "addCommitOrRollBackBeforeCurSQL"} = {},
           NEW kind, t[Len(t)] = "close" => kind = "close"
    PROVE  PrefixShape(AddFlags(f), AddPrefix(f) \o t, kind)
<1> DEFINE p == AddPrefix(f)
           x == p \o t
<1>1. p \in Seq(AllStmts)
  BY PrefixedText
<1>2. /\ Len(t) \in Nat /\ Len(p) \in Nat
      /\ Len(x) = Len(p) + Len(t)
      /\ \A i \in 1..Len(p) + Len(t) :
            x[i] = IF i <= Len(p) THEN p[i] ELSE t[i - Len(p)]
  BY <1>1, ConcatProperties
<1>3. x[Len(x)] = t[Len(t)]
  BY <1>2
<1>4. "isResetConnStmt" \notin AddFlags(f)
  BY DEF AddFlags, When
<1>5. CASE p = <<"rollback", "begin">>
  <2>1. Len(p) = 2 /\ p[1] = "rollback" /\ p[2] = "begin"
    BY <1>5
  <2>2. /\ Len(x) \in Nat /\ Len(x) >= 3 /\ Len(x) >= 2 /\ Len(x) >= 1
        /\ x[1] = "rollback" /\ x[2] = "begin"
    BY <1>2, <2>1
  <2>3. AddBegin(AddFlags(f)) /\ AddEnd(AddFlags(f))
    BY <1>5 DEF AddFlags, AddBegin, AddEnd, When
  <2> QED
    BY <1>3, <1>4, <2>2, <2>3 DEF PrefixShape
<1>6. CASE p = <<"begin">>
  <2>1. Len(p) = 1 /\ p[1] = "begin"
    BY <1>6
  <2>2. Len(x) >= 2 /\ x[1] = "begin"
    BY <1>2, <2>1
  <2>3. ~AddEnd(AddFlags(f))
    BY <1>6 DEF AddFlags, AddEnd, When
  <2> QED
    BY <1>3, <1>4, <2>2, <2>3 DEF PrefixShape
<1>7. CASE p = <<"commit">>
  <2>1. Len(p) = 1 /\ p[1] = "commit"
    BY <1>7
  <2>2. Len(x) >= 2 /\ x[1] = "commit"
    BY <1>2, <2>1
  <2>3. ~AddBegin(AddFlags(f))
    BY <1>7 DEF AddFlags, AddBegin, When
  <2> QED
    BY <1>3, <1>4, <2>2, <2>3 DEF PrefixShape
<1>8. CASE p = <<>>
  <2>1. ~AddBegin(AddFlags(f)) /\ ~AddEnd(AddFlags(f))
    BY <1>8 DEF AddFlags, AddBegin, AddEnd, When
  <2>2. Len(x) >= 1
    BY <1>2
  <2> QED
    BY <1>3, <1>4, <2>1, <2>2 DEF PrefixShape
<1> QED
  BY <1>5, <1>6, <1>7, <1>8 DEF AddPrefix

LEMMA ReplyInit == Init => ReplyInv
BY DEF Init, ReplyInv, AnswerInv, PrefixInv, AnsweredUnlessStale

LEMMA ReplyStep == TypeOK /\ ReplyInv /\ [Next]_vars => ReplyInv'
<1> SUFFICES ASSUME TypeOK, ReplyInv, [Next]_vars PROVE ReplyInv'
    OBVIOUS
<1>a. ASSUME NEW kind, Receive(kind), "stalePrefix" \notin seen'
      PROVE  Fresh \cap {"addBeforeBeforeCurSQL", "isResetConnStmt",
                         "addCommitOrRollBackBeforeCurSQL"} = {}
  BY <1>a DEF Receive, Fresh, When
<1>b. ASSUME NEW t, Submit(t),
             "stalePrefix" \notin seen' =>
                cmd' = "comment" \/ PrefixShape(flags', t, cmd')
      PROVE  ReplyInv'
  BY <1>b DEF ReplyInv, AnswerInv, PrefixInv, AnsweredUnlessStale, Submit
<1>1. ASSUME NEW t \in Texts, QueryInjected(t) PROVE ReplyInv'
  <2>1. /\ t \in Seq(AllStmts) /\ Len(t) >= 1 /\ t[Len(t)] # "close"
    BY TextsType DEF Stmts
  <2>2. "stalePrefix" \notin seen' =>
           PrefixShape(AddFlags(Fresh), AddPrefix(Fresh) \o t, "inject")
    BY <1>1, <1>a, <2>1, InjectShape DEF QueryInjected
  <2> QED
    BY <1>1, <1>b, <2>2 DEF QueryInjected, Receive
<1>2. CASE QueryComment
  BY <1>2, <1>b DEF QueryComment, Receive
<1>3. CASE StmtClose
  <2>1. <<"close">> \in Seq(AllStmts) /\ Len(<<"close">>) >= 1
    BY DEF AllStmts
  <2>2. "stalePrefix" \notin seen' =>
           PrefixShape(AddFlags(Fresh), AddPrefix(Fresh) \o <<"close">>,
                       "close")
    BY <1>3, <1>a, <2>1, InjectShape DEF StmtClose
  <2> QED
    BY <1>3, <1>b, <2>2 DEF StmtClose, Receive
<1>4. ASSUME NEW t \in Texts, QueryBegin(t) PROVE ReplyInv'
  <2>1. /\ t \in Seq(AllStmts) /\ Len(t) >= 1 /\ t[Len(t)] # "close"
    BY TextsType DEF Stmts
  <2>2. ASSUME "stalePrefix" \notin seen'
        PROVE  PrefixShape(flags', BeginPrefix(Fresh) \o t, "begin")
    <3> DEFINE p == BeginPrefix(Fresh)
               x == p \o t
    <3>1. p \in Seq(AllStmts)
      BY <2>1, PrefixedText
    <3>2. /\ Len(t) \in Nat /\ Len(p) \in Nat
          /\ Len(x) = Len(p) + Len(t)
          /\ \A i \in 1..Len(p) + Len(t) :
                x[i] = IF i <= Len(p) THEN p[i] ELSE t[i - Len(p)]
      BY <2>1, <3>1, ConcatProperties
    <3>3. x[Len(x)] = t[Len(t)] /\ Len(x) \in Nat /\ Len(x) >= 1
      BY <2>1, <3>2
    <3>4. "isResetConnStmt" \notin flags' /\ ~AddBegin(flags')
      BY <1>4, <1>a, <2>2 DEF QueryBegin, AddBegin, When
    <3>5. AddEnd(flags') => p \in {<<"commit">>, <<"rollback">>}
      BY <1>4, <1>a, <2>2 DEF QueryBegin, AddEnd, When, BeginPrefix
    <3>6. AddEnd(flags') => Len(x) >= 2 /\ x[1] \in {"commit", "rollback"}
      <4> SUFFICES ASSUME AddEnd(flags')
                   PROVE  Len(x) >= 2 /\ x[1] \in {"commit", "rollback"}
        OBVIOUS
      <4>1. Len(p) = 1 /\ p[1] \in {"commit", "rollback"}
        BY <3>5
      <4> QED
        BY <2>1, <3>2, <4>1
    <3> QED
      BY <2>1, <3>3, <3>4, <3>6 DEF PrefixShape
  <2> QED
    BY <1>4, <1>b, <2>2 DEF QueryBegin, Receive
<1>5. ASSUME NEW t \in Texts, QueryPlain(t) PROVE ReplyInv'
  <2>1. /\ t \in Seq(AllStmts) /\ Len(t) >= 1 /\ t[Len(t)] # "close"
    BY TextsType DEF Stmts
  <2>2. "stalePrefix" \notin seen' => PrefixShape(flags', t, "plain")
    BY <1>5, <1>a, <2>1 DEF QueryPlain, PrefixShape, AddBegin, AddEnd
  <2> QED
    BY <1>5, <1>b, <2>2 DEF QueryPlain, Receive
<1>6. CASE ResetConnection
  <2> DEFINE t == <<"rollback", "deallocAll">>
  <2>1. Len(t) = 2 /\ t[2] = "deallocAll"
    OBVIOUS
  <2>2. "stalePrefix" \notin seen' => ~AddBegin(flags') /\ ~AddEnd(flags')
    BY <1>6 DEF ResetConnection, AddBegin, AddEnd, When
  <2>3. "stalePrefix" \notin seen' => PrefixShape(flags', t, "reset")
    BY <2>1, <2>2 DEF PrefixShape
  <2> QED
    BY <1>6, <1>b, <2>3 DEF ResetConnection
<1> USE DEF Stmts
<1>7. CASE Simulated
  BY <1>7 DEF Simulated, Receive, ReplyInv, AnswerInv, PrefixInv,
              AnsweredUnlessStale
<1>8. CASE ShowGrants
  BY <1>8 DEF ShowGrants, Receive, ReplyInv, AnswerInv, PrefixInv,
              AnsweredUnlessStale
<1>9. CASE Refused
  BY <1>9 DEF Refused, ReplyInv, AnswerInv, PrefixInv, AnsweredUnlessStale
<1>10. CASE Quit
  BY <1>10 DEF Quit, Receive, ReplyInv, AnswerInv, PrefixInv,
               AnsweredUnlessStale
<1>11. CASE ParseOk
  BY <1>11 DEF ParseOk, IgnoreAfter, When, ReplyInv, AnswerInv, PrefixInv,
               PrefixShape, AddBegin, AddEnd, AnsweredUnlessStale
<1>12. CASE ParseEmpty
  BY <1>12 DEF ParseEmpty, Answer, ReplyInv, AnswerInv, PrefixInv,
               AnsweredUnlessStale
<1>13. CASE ParseError
  <2>1. PICK k \in 0..Len(text) :
          Fail(IgnoreAfter(flags, SubSeq(text, 1, k)), FALSE,
               AbortCurrent(block))
    BY <1>13 DEF ParseError
  <2> QED
    BY <1>13, <2>1, FailReply DEF ParseError
<1>14. CASE RunOther
  BY <1>14, CompleteReply DEF RunOther, Runs, TagOf
<1>15. CASE RunBegin
  BY <1>15, CompleteReply DEF RunBegin, Runs, TagOf, Tracked, When
<1>16. CASE RunStart
  BY <1>16, CompleteReply DEF RunStart, Runs, TagOf, Untracked, When
<1>17. CASE RunCommit
  BY <1>17, CompleteReply DEF RunCommit, Runs, TagOf, Tracked, When
<1>18. CASE RunRollback
  BY <1>18, CompleteReply DEF RunRollback, Runs, TagOf, Tracked, When
<1>19. CASE RunChain
  BY <1>19, CompleteReply DEF RunChain, Runs, TagOf, Misread, When
<1>p. CASE RunPrepareTrx
  BY <1>p, CompleteReply DEF RunPrepareTrx, Runs, TagOf, Tracked, EndedUnseen,
                             When
<1>20. CASE RunSavepoint
  BY <1>20, CompleteReply DEF RunSavepoint, Runs, TagOf
<1>21. CASE RunRelease
  BY <1>21, CompleteReply DEF RunRelease, Runs, TagOf
<1>22. CASE RunRollbackTo
  BY <1>22, CompleteReply DEF RunRollbackTo, Runs, TagOf, Misread, When
<1>23. CASE RunSet
  <2>1. PICK on \in BOOLEAN :
          /\ Runs(IF on THEN "setOn" ELSE "setOff")
          /\ Advance("SET", Cur)
          /\ flags' = EndCommand(ApplyAutocommit(flags, on), "SET")
          /\ seen' = AutocommitEvents(on)
    BY <1>23 DEF RunSet
  <2>2. /\ AddEnd(flags') => AddEnd(flags)
        /\ AddBegin(flags') => AddBegin(flags)
        /\ "isResetConnStmt" \in flags' => "isResetConnStmt" \in flags
    BY <2>1 DEF EndCommand, ApplyAutocommit, When, AddEnd, AddBegin
  <2>3. "stalePrefix" \in seen' <=> "stalePrefix" \in seen
    BY <2>1 DEF AutocommitEvents, When
  <2>4. phase = "exec" /\ TagOf(Head(text), "SET")
    BY <2>1 DEF Runs, TagOf
  <2> QED
    BY <2>1, <2>2, <2>3, <2>4, AdvanceReply
<1>24. CASE RunClose
  BY <1>24, CompleteReply DEF RunClose, Runs, TagOf
<1>25. CASE RunDeallocateAll
  BY <1>25, CompleteReply DEF RunDeallocateAll, Runs, TagOf
<1>26. CASE StmtError
  BY <1>26, FailReply DEF StmtError, ErrorEvents, When
<1>27. CASE CommitError
  BY <1>27, FailReply DEF CommitError, ErrorEvents, When, Runs
<1>28. CASE SetError
  <2>1. PICK on \in BOOLEAN :
          /\ Fail(ApplyAutocommit(flags, on), ~Last, AbortCurrent(block))
          /\ "isIgnoreStmt" \in ApplyAutocommit(flags, on) /\ ~Last =>
                "ignoredError" \in seen'
          /\ phase = "exec"
    BY <1>28 DEF SetError, When, Runs
  <2> QED
    BY <2>1, FailReply
<1>29. CASE UNCHANGED vars
  BY <1>29 DEF vars, ReplyInv, AnswerInv, PrefixInv, PrefixShape, AddBegin,
               AddEnd, AnsweredUnlessStale
<1> QED
  BY <1>1, <1>2, <1>3, <1>4, <1>5, <1>6, <1>7, <1>8, <1>9, <1>10, <1>11,
     <1>12, <1>13, <1>14, <1>15, <1>16, <1>17, <1>18, <1>19, <1>20, <1>21,
     <1>22, <1>23, <1>24, <1>25, <1>26, <1>27, <1>28, <1>29, <1>p
     DEF Next, Client, Server

LEMMA ReplyInvariance == Spec => []ReplyInv
BY TypeInit, TypeStep, ReplyInit, ReplyStep, PTL DEF Spec

(* Every command is answered to the end, but for the three exceptions.     *)
THEOREM Answered == Spec => []AnsweredUnlessStale
<1>1. ReplyInv => AnsweredUnlessStale
  BY DEF ReplyInv
<1> QED
  BY <1>1, ReplyInvariance, PTL

(* No command is answered twice.                                           *)
THEOREM AnsweredOnce == Spec => []NeverBothAnswers
<1>1. ReplyInv => NeverBothAnswers
  BY DEF ReplyInv, AnswerInv, NeverBothAnswers
<1> QED
  BY <1>1, ReplyInvariance, PTL

-----------------------------------------------------------------------------
(* With automatic rollback an aborted block that the flags know of waits   *)
(* for its rollback, and a text that goes through addAdditionalSQL begins  *)
(* with it.                                                                *)
RecoverInv ==
    /\ autoRollback = 1
    /\ block = "abort"
    /\ "untracked" \notin seen
    => /\ needAdd = 2
       /\ phase \in {"parse", "exec"} /\ cmd = "inject" => Head(text) = "rollback"

(* The first statement of a prefix is the first of the string.             *)
LEMMA PrefixHead ==
    ASSUME NEW p \in Seq(AllStmts), p # <<>>, NEW t \in Seq(AllStmts)
    PROVE  p \o t # <<>> /\ Head(p \o t) = p[1]
<1> DEFINE x == p \o t
<1>1. Len(p) \in Nat /\ Len(p) >= 1 /\ Len(t) \in Nat
  BY HeadTailProperties
<1>2. /\ x \in Seq(AllStmts)
      /\ Len(x) = Len(p) + Len(t)
      /\ \A i \in 1..Len(p) + Len(t) :
            x[i] = IF i <= Len(p) THEN p[i] ELSE t[i - Len(p)]
  BY ConcatProperties
<1>3. x[1] = p[1] /\ Len(x) >= 1
  BY <1>1, <1>2
<1> HIDE DEF x
<1>4. x # <<>>
  BY <1>2, <1>3
<1>5. Head(x) = x[1]
  BY <1>2, <1>4, HeadTailProperties
<1> QED
  BY <1>3, <1>4, <1>5 DEF x

LEMMA InjectedRollback ==
    ASSUME NEW t \in Texts, NEW f, needAdd = 2
    PROVE  Head(AddPrefix(f) \o t) = "rollback"
<1>1. AddPrefix(f) = <<"rollback", "begin">>
  BY DEF AddPrefix
<1>2. AddPrefix(f) # <<>> /\ AddPrefix(f)[1] = "rollback"
  BY <1>1
<1>3. t \in Seq(AllStmts) /\ AddPrefix(f) \in Seq(AllStmts)
  BY TextsType, PrefixedText
<1> QED
  BY <1>2, <1>3, PrefixHead

LEMMA RecoverFail ==
    ASSUME StatusInv, RecoverInv, phase # "idle", autoRollback' = autoRollback,
           NEW f, NEW more, NEW b,
           "inTransactionFlag" \in f <=> "inTransactionFlag" \in flags,
           Fail(f, more, b), b \in {"default", AbortCurrent(block)},
           "untracked" \in seen => "untracked" \in seen'
    PROVE  RecoverInv'
BY DEF RecoverInv, StatusInv, StatusTracksBlock, InBlock, Fail,
       SendErrorMessage, AbortCurrent

LEMMA RecoverStep ==
    TypeOK /\ StatusInv /\ RecoverInv /\ [Next]_vars => RecoverInv'
<1> SUFFICES ASSUME TypeOK, StatusInv, RecoverInv, [Next]_vars
             PROVE  RecoverInv'
    OBVIOUS
<1>0. autoRollback' = autoRollback
  BY DEF Next, vars
<1> USE <1>0 DEF RecoverInv, When
<1>1. ASSUME NEW t \in Texts, QueryInjected(t) PROVE RecoverInv'
  BY <1>1, InjectedRollback DEF QueryInjected, Receive, Submit
<1>2. CASE QueryComment
  BY <1>2 DEF QueryComment, Receive, Submit
<1>3. CASE StmtClose
  BY <1>3 DEF StmtClose, Receive, Submit
<1>4. ASSUME NEW t \in Texts, QueryBegin(t) PROVE RecoverInv'
  BY <1>4 DEF QueryBegin, Receive, Submit
<1>5. ASSUME NEW t \in Texts, QueryPlain(t) PROVE RecoverInv'
  BY <1>5 DEF QueryPlain, Receive, Submit
<1>6. CASE ResetConnection
  BY <1>6 DEF ResetConnection, Submit
<1>7. CASE Simulated \/ ShowGrants \/ Quit
  BY <1>7 DEF Simulated, ShowGrants, Quit, Receive
<1>8. CASE Refused
  BY <1>8 DEF Refused, ErrorEvents, AbortCurrent, StatusInv, StatusTracksBlock,
              InBlock
<1>9. CASE ParseOk \/ ParseEmpty
  BY <1>9 DEF ParseOk, ParseEmpty
<1>10. CASE ParseError
  <2>1. PICK k \in 0..Len(text) :
          /\ Fail(IgnoreAfter(flags, SubSeq(text, 1, k)), FALSE,
                  AbortCurrent(block))
          /\ "untracked" \in seen => "untracked" \in seen'
    BY <1>10 DEF ParseError
  <2> DEFINE g == IgnoreAfter(flags, SubSeq(text, 1, k))
  <2>2. "inTransactionFlag" \in g <=> "inTransactionFlag" \in flags
    BY DEF IgnoreAfter
  <2>3. phase # "idle"
    BY <1>10 DEF ParseError
  <2> HIDE DEF g, RecoverInv
  <2> QED
    BY <2>1, <2>2, <2>3, RecoverFail DEF g
<1>11. CASE StmtError
  <2> HIDE DEF RecoverInv
  <2> QED
    BY <1>11, RecoverFail DEF StmtError
<1>12. CASE CommitError
  <2> HIDE DEF RecoverInv
  <2> QED
    BY <1>12, RecoverFail DEF CommitError, Runs
<1>13. CASE SetError
  <2>1. PICK on \in BOOLEAN :
          /\ Fail(ApplyAutocommit(flags, on), ~Last, AbortCurrent(block))
          /\ "untracked" \in seen => "untracked" \in seen'
          /\ phase = "exec"
    BY <1>13 DEF SetError, AutocommitEvents, Runs
  <2>2. "inTransactionFlag" \in ApplyAutocommit(flags, on)
          <=> "inTransactionFlag" \in flags
    BY DEF ApplyAutocommit
  <2> HIDE DEF RecoverInv
  <2> QED
    BY <2>1, <2>2, RecoverFail
<1>14. CASE \/ RunOther \/ RunBegin \/ RunStart \/ RunSavepoint \/ RunRelease
            \/ RunSet \/ RunClose \/ RunDeallocateAll
  <2>1. block # "abort"
    BY <1>14 DEF RunOther, RunBegin, RunStart, RunSavepoint, RunRelease, RunSet,
                 RunClose, RunDeallocateAll
  <2>2. block' # "abort"
    BY <1>14, <2>1 DEF RunOther, RunBegin, RunStart, RunSavepoint, RunRelease,
                 RunSet, RunClose, RunDeallocateAll, Complete, Advance, Cur
  <2> QED
    BY <2>2
<1>15. CASE RunCommit \/ RunRollback \/ RunChain \/ RunRollbackTo
              \/ RunPrepareTrx
  BY <1>15 DEF RunCommit, RunRollback, RunChain, RunRollbackTo, RunPrepareTrx,
               Complete, Advance, Misread
<1>16. CASE UNCHANGED vars
  BY <1>16 DEF vars
<1> QED
  BY <1>1, <1>2, <1>3, <1>4, <1>5, <1>6, <1>7, <1>8, <1>9, <1>10, <1>11,
     <1>12, <1>13, <1>14, <1>15, <1>16
     DEF Next, Client, Server

(* With mysql.auto_rollback_tx_on_error a session recovers from an error   *)
(* by itself.                                                              *)
THEOREM Recovers == Spec => []AutoRollbackRecovers
<1>1. Init => RecoverInv
  BY DEF Init, RecoverInv
<1>2. RecoverInv => AutoRollbackRecovers
  BY DEF RecoverInv, AutoRollbackRecovers
<1> QED
  BY <1>1, <1>2, TypeInit, TypeStep, StatusInit, StatusStep, RecoverStep, PTL DEF Spec
-----------------------------------------------------------------------------
(* A rollback is asked for only while the aborted block is there, and an   *)
(* inserted COMMIT or ROLLBACK stands first in the string, the rollback    *)
(* only when it was asked for.                                             *)
RequestInv ==
    /\ needAdd = 2 => block = "abort" \/ "endedUnseen" \in seen
    /\ "inTransactionFlag" \in flags
         => block \in InBlock \/ "endedUnseen" \in seen

EndsFirst(f, t, need) ==
    AddEnd(f) => /\ t # <<>>
                 /\ \/ Head(t) = "commit"
                    \/ Head(t) = "rollback" /\ need = 2

InsertedInv ==
    /\ phase \in {"parse", "exec"}
    /\ "stalePrefix" \notin seen
    => EndsFirst(flags, text, needAdd)

LEMMA RequestFail ==
    ASSUME RequestInv, autoRollback' = autoRollback,
           NEW f, NEW more, Fail(f, more, AbortCurrent(block)),
           "inTransactionFlag" \in f <=> "inTransactionFlag" \in flags,
           "endedUnseen" \in seen => "endedUnseen" \in seen'
    PROVE  RequestInv'
BY DEF RequestInv, InBlock, Fail, SendErrorMessage, AbortCurrent, When

LEMMA RequestStep == RequestInv /\ [Next]_vars => RequestInv'
<1> SUFFICES ASSUME RequestInv, [Next]_vars PROVE RequestInv'
    OBVIOUS
<1>0. autoRollback' = autoRollback
  BY DEF Next, vars
<1> USE <1>0 DEF When
<1>1. ASSUME NEW t \in Texts, QueryInjected(t) PROVE RequestInv'
  BY <1>1 DEF QueryInjected, Receive, Submit, AddFlags, Fresh, RequestInv
<1>2. CASE QueryComment \/ StmtClose
  BY <1>2 DEF QueryComment, StmtClose, Receive, Submit, AddFlags, Fresh,
              RequestInv
<1>3. ASSUME NEW t \in Texts, QueryBegin(t) \/ QueryPlain(t)
      PROVE  RequestInv'
  BY <1>3 DEF QueryBegin, QueryPlain, Receive, Submit, Fresh, RequestInv
<1>4. CASE ResetConnection
  BY <1>4 DEF ResetConnection, Submit, RequestInv
<1>5. CASE Simulated \/ ShowGrants \/ Quit
  BY <1>5 DEF Simulated, ShowGrants, Quit, Receive, AddFlags, Fresh, RequestInv
<1>6. CASE Refused
  BY <1>6 DEF Refused, Fresh, ErrorEvents, AbortCurrent, InBlock, RequestInv
<1>7. CASE ParseOk \/ ParseEmpty
  BY <1>7 DEF ParseOk, ParseEmpty, IgnoreAfter, RequestInv
<1>8. CASE ParseError
  <2>1. PICK k \in 0..Len(text) :
          /\ Fail(IgnoreAfter(flags, SubSeq(text, 1, k)), FALSE,
                  AbortCurrent(block))
          /\ "endedUnseen" \in seen => "endedUnseen" \in seen'
    BY <1>8 DEF ParseError
  <2> DEFINE g == IgnoreAfter(flags, SubSeq(text, 1, k))
  <2>2. "inTransactionFlag" \in g <=> "inTransactionFlag" \in flags
    BY DEF IgnoreAfter
  <2> HIDE DEF g
  <2> QED
    BY <2>1, <2>2, RequestFail DEF g
<1>9. CASE StmtError
  BY <1>9, RequestFail DEF StmtError
<1>10. CASE CommitError
  BY <1>10 DEF CommitError, Fail, SendErrorMessage, EndedUnseen, RequestInv
<1>11. CASE SetError
  <2>1. PICK on \in BOOLEAN :
          /\ Fail(ApplyAutocommit(flags, on), ~Last, AbortCurrent(block))
          /\ "endedUnseen" \in seen => "endedUnseen" \in seen'
    BY <1>11 DEF SetError, AutocommitEvents
  <2>2. "inTransactionFlag" \in ApplyAutocommit(flags, on)
          <=> "inTransactionFlag" \in flags
    BY DEF ApplyAutocommit
  <2> QED
    BY <2>1, <2>2, RequestFail
<1>12. CASE RunOther \/ RunClose \/ RunDeallocateAll
  BY <1>12 DEF RunOther, RunClose, RunDeallocateAll, Complete, Advance,
               EndCommand, Cur, InBlock, RequestInv
<1>b. CASE RunBegin
  <2>1. block # "abort" /\ block' = "inprogress" /\ needAdd' = needAdd
    BY <1>b DEF RunBegin, Complete, Advance
  <2>2. needAdd = 2 /\ "endedUnseen" \in seen => "endedUnseen" \in seen'
    BY <1>b DEF RunBegin, Tracked
  <2> QED
    BY <2>1, <2>2 DEF InBlock, RequestInv
<1>13. CASE RunStart
  BY <1>13 DEF RunStart, Complete, Advance, EndCommand, Untracked, InBlock,
               RequestInv
<1>14. CASE RunSavepoint \/ RunRelease
  BY <1>14 DEF RunSavepoint, RunRelease, Complete, Advance, EndCommand,
               RequestInv, InBlock
<1>15. CASE RunCommit \/ RunRollback
  BY <1>15 DEF RunCommit, RunRollback, Complete, Advance, EndCommand, EndTrx,
               Tracked, RequestInv
<1>p. CASE RunPrepareTrx
  <2>1. CASE Cur \in {"inprogress", "implicit"}
    <3>1. /\ block # "abort"
          /\ needAdd' = needAdd /\ flags' = flags
          /\ seen' = seen \cup When(block = "inprogress", EndedUnseen)
      BY <1>p, <2>1 DEF RunPrepareTrx, Complete, Advance, EndCommand, Cur
    <3> QED
      BY <3>1 DEF EndedUnseen, InBlock, RequestInv
  <2>2. CASE Cur \in {"abort", "default"}
    <3>1. needAdd' = 1 /\ flags' = EndTrx(flags)
      BY <1>p, <2>2 DEF RunPrepareTrx, Complete, Advance, EndCommand
    <3> QED
      BY <3>1 DEF EndTrx, RequestInv
  <2> QED
    BY <1>p, <2>1, <2>2 DEF RunPrepareTrx
<1>16. CASE RunChain \/ RunRollbackTo
  BY <1>16 DEF RunChain, RunRollbackTo, Complete, Advance, EndCommand, EndTrx,
               Misread, InBlock, RequestInv
<1>17. CASE RunSet
  BY <1>17 DEF RunSet, Advance, EndCommand, ApplyAutocommit, AutocommitEvents,
               Cur, InBlock, RequestInv
<1>18. CASE UNCHANGED vars
  BY <1>18 DEF vars, RequestInv
<1> QED
  BY <1>1, <1>2, <1>3, <1>4, <1>5, <1>6, <1>7, <1>8, <1>9, <1>10, <1>11,
     <1>12, <1>13, <1>14, <1>15, <1>16, <1>17, <1>18, <1>b,
     <1>p
     DEF Next, Client, Server

(* What addAdditionalSQL and the begin branch put first.                   *)
LEMMA InsertedFirst ==
    ASSUME NEW f, ~AddEnd(f), NEW t \in Seq(AllStmts), needAdd \in {1, 2}
    PROVE  /\ EndsFirst(AddFlags(f), AddPrefix(f) \o t, needAdd)
           /\ EndsFirst(AddFlags(f), AddPrefix(f), needAdd)
           /\ BeginPrefix(f) # <<>> =>
                EndsFirst(f \cup {"addCommitOrRollBackBeforeCurSQL"},
                          BeginPrefix(f) \o t, needAdd)
<1>1. AddPrefix(f) \in Seq(AllStmts) /\ BeginPrefix(f) \in Seq(AllStmts)
  BY PrefixedText
<1>2. ASSUME AddEnd(AddFlags(f))
      PROVE  /\ AddPrefix(f) # <<>>
             /\ \/ AddPrefix(f)[1] = "commit"
                \/ AddPrefix(f)[1] = "rollback" /\ needAdd = 2
  <2>1. \/ AddPrefix(f) = <<"commit">>
        \/ AddPrefix(f) = <<"rollback", "begin">>
    BY <1>2 DEF AddFlags, AddEnd, When
  <2>2. CASE AddPrefix(f) = <<"commit">>
    BY <2>2
  <2>3. CASE AddPrefix(f) = <<"rollback", "begin">>
    <3>1. needAdd = 2
      BY <2>3 DEF AddPrefix
    <3> QED
      BY <2>3, <3>1
  <2> QED
    BY <2>1, <2>2, <2>3
<1>3. AddPrefix(f) # <<>> => Head(AddPrefix(f)) = AddPrefix(f)[1]
  BY <1>1, HeadTailProperties
<1>4. ASSUME BeginPrefix(f) # <<>>
      PROVE  \/ BeginPrefix(f)[1] = "commit"
             \/ BeginPrefix(f)[1] = "rollback" /\ needAdd = 2
  BY <1>4 DEF BeginPrefix
<1>5. EndsFirst(AddFlags(f), AddPrefix(f) \o t, needAdd)
  BY <1>1, <1>2, PrefixHead DEF EndsFirst
<1>6. EndsFirst(AddFlags(f), AddPrefix(f), needAdd)
  BY <1>2, <1>3 DEF EndsFirst
<1> QED
  BY <1>1, <1>4, <1>5, <1>6, PrefixHead DEF EndsFirst

LEMMA InsertedStep == TypeOK /\ InsertedInv /\ [Next]_vars => InsertedInv'
<1> SUFFICES ASSUME TypeOK, InsertedInv, [Next]_vars PROVE InsertedInv'
    OBVIOUS
<1>a. ASSUME NEW kind, Receive(kind), "stalePrefix" \notin seen'
      PROVE  ~AddEnd(Fresh)
  BY <1>a DEF Receive, Fresh, AddEnd, When
<1>b. needAdd \in {1, 2}
  BY DEF TypeOK
<1>c. ASSUME NEW t, Submit(t),
             "stalePrefix" \notin seen' => EndsFirst(flags', t, needAdd)
      PROVE  InsertedInv'
  BY <1>c DEF Submit, InsertedInv
<1>1. ASSUME NEW t \in Texts, QueryInjected(t) PROVE InsertedInv'
  <2>1. t \in Seq(AllStmts)
    BY TextsType
  <2> QED
    BY <1>1, <1>a, <1>b, <1>c, <2>1, InsertedFirst DEF QueryInjected
<1>2. CASE QueryComment \/ StmtClose
  <2>1. <<"close">> \in Seq(AllStmts)
    BY DEF AllStmts
  <2> QED
    BY <1>2, <1>a, <1>b, <1>c, <2>1, InsertedFirst DEF QueryComment, StmtClose
<1>3. ASSUME NEW t \in Texts, QueryBegin(t) PROVE InsertedInv'
  <2>1. t \in Seq(AllStmts)
    BY TextsType
  <2>2. ASSUME "stalePrefix" \notin seen'
        PROVE  EndsFirst(flags', BeginPrefix(Fresh) \o t, needAdd)
    <3>1. ~AddEnd(Fresh)
      BY <1>3, <1>a, <2>2 DEF QueryBegin
    <3>2. CASE BeginPrefix(Fresh) = <<>>
      BY <1>3, <3>1, <3>2 DEF QueryBegin, EndsFirst, AddEnd, When
    <3>3. CASE BeginPrefix(Fresh) # <<>>
      <4>1. flags' = Fresh \cup {"addCommitOrRollBackBeforeCurSQL"}
        BY <1>3, <3>3 DEF QueryBegin, When
      <4> QED
        BY <1>b, <2>1, <3>1, <3>3, <4>1, InsertedFirst
    <3> QED
      BY <3>2, <3>3
  <2> QED
    BY <1>3, <1>c, <2>2 DEF QueryBegin
<1>4. ASSUME NEW t \in Texts, QueryPlain(t) PROVE InsertedInv'
  BY <1>4, <1>a, <1>c DEF QueryPlain, EndsFirst
<1>5. CASE ResetConnection
  BY <1>5, <1>c DEF ResetConnection, EndsFirst, AddEnd, When
<1>6. CASE Simulated \/ ShowGrants \/ Refused \/ Quit
  BY <1>6 DEF Simulated, ShowGrants, Refused, Quit, Receive, InsertedInv
<1>7. CASE ParseOk
  BY <1>7 DEF ParseOk, IgnoreAfter, When, InsertedInv, EndsFirst, AddEnd
<1>8. CASE ParseEmpty \/ ParseError \/ StmtError \/ CommitError \/ SetError
  BY <1>8 DEF ParseEmpty, ParseError, StmtError, CommitError, SetError, Fail,
              InsertedInv
<1>9. CASE RunCommit \/ RunRollback
  BY <1>9 DEF RunCommit, RunRollback, Complete, EndCommand, EndTrx, When,
              InsertedInv, EndsFirst, AddEnd
<1>10. CASE \/ RunOther \/ RunBegin \/ RunStart \/ RunChain \/ RunSavepoint
            \/ RunRelease \/ RunRollbackTo \/ RunSet \/ RunClose
            \/ RunDeallocateAll \/ RunPrepareTrx
  <2>1. phase = "exec" /\ Head(text) \notin {"commit", "rollback"}
    BY <1>10 DEF RunOther, RunBegin, RunStart, RunChain, RunSavepoint,
                 RunRelease, RunRollbackTo, RunSet, RunClose,
                 RunDeallocateAll, RunPrepareTrx, Runs
  <2>2. "stalePrefix" \in seen' <=> "stalePrefix" \in seen
    BY <1>10 DEF RunOther, RunBegin, RunStart, RunChain, RunSavepoint,
                 RunRelease, RunRollbackTo, RunSet, RunClose,
                 RunDeallocateAll, RunPrepareTrx, Tracked, Untracked, Misread,
                 EndedUnseen, AutocommitEvents, When
  <2>a. ASSUME NEW tag, NEW b, Complete(tag, b)
        PROVE  AddEnd(flags') => AddEnd(flags)
    BY <2>a DEF Complete, EndCommand, EndTrx, AddEnd, When
  <2>b. ASSUME RunSet
        PROVE  AddEnd(flags') => AddEnd(flags)
    BY <2>b DEF RunSet, EndCommand, ApplyAutocommit, AddEnd, When
  <2>3. AddEnd(flags') => AddEnd(flags)
    BY <1>10, <2>a, <2>b DEF RunOther, RunBegin, RunStart, RunChain,
                             RunSavepoint, RunRelease, RunRollbackTo,
                             RunClose, RunDeallocateAll, RunPrepareTrx
  <2> QED
    BY <2>1, <2>2, <2>3 DEF InsertedInv, EndsFirst
<1>11. CASE UNCHANGED vars
  BY <1>11 DEF vars, InsertedInv, EndsFirst, AddEnd
<1> QED
  BY <1>1, <1>2, <1>3, <1>4, <1>5, <1>6, <1>7, <1>8, <1>9, <1>10, <1>11
     DEF Next, Client, Server

(* The session never rolls back by itself what could still be committed.   *)
THEOREM RollsBackOnlyAborted == Spec => []RollbackOnlyOfAborted
<1>1. Init => RequestInv /\ InsertedInv
  BY DEF Init, RequestInv, InsertedInv
<1>2. RequestInv /\ InsertedInv => RollbackOnlyOfAborted
  BY DEF RequestInv, InsertedInv, EndsFirst, AddEnd, RollbackOnlyOfAborted
<1> QED
  BY <1>1, <1>2, TypeInit, TypeStep, RequestStep, InsertedStep, PTL DEF Spec
=============================================================================
