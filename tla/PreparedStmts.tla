--------------------------- MODULE PreparedStmts ---------------------------
(***************************************************************************)
(* COM_STMT_PREPARE, COM_STMT_EXECUTE and COM_STMT_CLOSE on top of         *)
(* PostgreSQL's named prepared statements (adapter.c, mys_prepare.c).      *)
(*                                                                         *)
(* A statement the client prepares gets a slot of preStmtInfoes, and the   *)
(* slot's number is the statement id the client uses from then on.  The    *)
(* adapter turns the command into "prepare unuTsfQ<id> from ...", so the   *)
(* slot and PostgreSQL's table of prepared statements have to agree, over  *)
(* failed PREPAREs, failed CLOSEs, resets and the reuse of slots.  A name  *)
(* is modelled by its number, 0 being the empty name of an unused slot.    *)
(*                                                                         *)
(* The client is a correct one: it uses the ids it was given, and binds    *)
(* the types of the parameters the first time it executes a statement.     *)
(***************************************************************************)
EXTENDS Naturals, Sequences, FiniteSets

CONSTANTS
    PRE_STMT_NUM_MAX,   \* slots 1..PRE_STMT_NUM_MAX - 1 can be given out
    Plain,              \* statements that go to PostgreSQL's PREPARE
    Text, Columns,      \* their text and number of result columns
    ReadOffsets,        \* where in its buffer readCommand can put a command
    remainOffset,       \* where rewriteExtendPreStmt_ puts the new text, and
    PrefixLen,          \* the length of "prepare unuTsfQ<id> from" there
    Types,              \* vectors of parameter types
    NoStmt, NoTypes,
    Garbled,            \* a text that does not parse
    MaxColumns          \* bound: columns recorded in one slot

(* The ends of transactions, which are recognised by their first word and  *)
(* never reach PostgreSQL's PREPARE; "rollbackTo" is ROLLBACK TO, which    *)
(* has the first word of ROLLBACK.                                         *)
Ends == {"commit", "rollback", "rollbackTo"}
Stmts == Plain \cup Ends

(* The characters of a text that convertExtendPreStmt tells apart, and the *)
(* single quote, which it does not.                                        *)
Chars == {"?", "dquote", "squote", "backslash", "other"}

ASSUME PreparedAssumption ==
    /\ PRE_STMT_NUM_MAX \in Nat /\ PRE_STMT_NUM_MAX >= 2
    /\ Text \in [Plain -> Seq(Chars)]
    /\ remainOffset \in Nat /\ PrefixLen \in Nat
    /\ ReadOffsets \subseteq
         {o \in Nat : o >= remainOffset /\ o + 1 # remainOffset + PrefixLen}
    /\ Columns \in [Plain -> Nat]
    /\ MaxColumns \in Nat
    /\ NoStmt \notin Stmts
    /\ Garbled \notin Stmts \cup {NoStmt}
    /\ NoTypes \notin Types
    /\ Plain \cap Ends = {}

Slots == 0 .. PRE_STMT_NUM_MAX - 1

VARIABLES
    readOffset,     \* the offset readCommand begins with
    valid,          \* the slots whose isValid is true
    name,           \* name[i], readWriteType, paramNum, paramTypes and
    rwType,         \* columnNum of preStmtInfoes[i]
    paramNum,
    paramTypes,
    columnNum,
    cur,            \* curExtendPreStmtId
    pg,             \* PostgreSQL's statement of each name
    preparing,      \* the statement whose "prepare ..." string is running
    handles,        \* client: the statement it prepared under each id
    told,           \* client: the number of parameters it was told
    bound,          \* client: the types it bound last under each id
    seen            \* history: "full", a PREPARE found no free slot;
                    \* "dropped", DEALLOCATE PREPARE ALL was run

vars == <<readOffset, valid, name, rwType, paramNum, paramTypes, columnNum,
          cur, pg, preparing, handles, told, bound, seen>>

TypeOK ==
    /\ readOffset \in ReadOffsets
    /\ valid \subseteq Slots \ {0}
    /\ name \in [Slots -> Slots]
    /\ rwType \in [Slots -> {"SRWT_UNKNOWN", "SRWT_COMMIT", "SRWT_ROLLBACK"}]
    /\ paramNum \in [Slots -> Nat]
    /\ paramTypes \in [Slots -> Types \cup {NoTypes}]
    /\ columnNum \in [Slots -> Nat]
    /\ cur \in Slots
    /\ pg \in [Slots -> Plain \cup {NoStmt}]
    /\ preparing \in Plain \cup {Garbled, NoStmt}
    /\ handles \in [Slots -> Stmts \cup {NoStmt}]
    /\ told \in [Slots -> Nat]
    /\ bound \in [Slots -> Types \cup {NoTypes}]
    /\ seen \subseteq {"full", "dropped"}

(* initPreStmtInfoes.                                                      *)
Init ==
    /\ readOffset \in ReadOffsets
    /\ valid = {}
    /\ name = [i \in Slots |-> 0]
    /\ rwType = [i \in Slots |-> "SRWT_UNKNOWN"]
    /\ paramNum = [i \in Slots |-> 0]
    /\ paramTypes = [i \in Slots |-> NoTypes]
    /\ columnNum = [i \in Slots |-> 0]
    /\ cur = 0
    /\ pg = [i \in Slots |-> NoStmt]
    /\ preparing = NoStmt
    /\ handles = [i \in Slots |-> NoStmt]
    /\ told = [i \in Slots |-> 0]
    /\ bound = [i \in Slots |-> NoTypes]
    /\ seen = {}

-----------------------------------------------------------------------------
(* COM_STMT_PREPARE.                                                       *)

Free == (Slots \ {0}) \ valid

(* rewriteExtendPreStmt: what the first word says.                         *)
RWType(s) == IF s = "commit" THEN "SRWT_COMMIT"
             ELSE IF s \in {"rollback", "rollbackTo"} THEN "SRWT_ROLLBACK"
             ELSE "SRWT_UNKNOWN"

(* convertExtendPreStmt: the characters copied together with the backslash *)
(* in front of them, and not looked at.                                    *)
Escaped(t) ==
    LET e[i \in 0..Len(t)] == i > 1 /\ t[i - 1] = "backslash" /\ ~e[i - 1]
    IN  {i \in 1..Len(t) : e[i]}

(* The double quotes up to i.  Each is doubled; an odd number is open.     *)
Quotes(t, i) == {j \in (1..i) \ Escaped(t) : t[j] = "dquote"}

(* The marks that count as parameters: those outside double quotes, and so *)
(* also the ones in a '...' literal or in a comment.                       *)
ParamMarks(t) ==
    {i \in (1..Len(t)) \ Escaped(t) :
        t[i] = "?" /\ Cardinality(Quotes(t, i)) % 2 = 0}

(* rewriteExtendPreStmt_ writes the prefix at remainOffset, the client's   *)
(* text standing behind the byte of the command: is it in front of it?     *)
TextAt == readOffset + 1
Intact == remainOffset + PrefixLen < TextAt

(* convertExtendPreStmt returns true: every quote of the text can be       *)
(* doubled in the room there is.  With no room the text read is the        *)
(* prefix, and must not go on to the quote at its end.                     *)
Fits(t) ==
    IF Intact
    THEN Cardinality(Quotes(t, Len(t))) < TextAt - (remainOffset + PrefixLen)
    ELSE Len(t) < (remainOffset + PrefixLen) - TextAt

(* What is handed to PREPARE, and the number of its parameters.            *)
Converted(s) == IF Intact THEN s ELSE Garbled
Counted(s) == IF Intact THEN Cardinality(ParamMarks(Text[s])) ELSE 0

(* Mutant: the search begins at slot 0.                                    *)
FindsFromZero(slot, id) ==
    /\ slot \in Slots \ valid
    /\ \A j \in Slots \ valid : slot <= j
    /\ id = slot

(* cacheExtendPreStmt: the slot the search stops at, and the id.  When all *)
(* slots are taken it has stopped at the last one, and the id is still the *)
(* one of the PREPARE before.                                              *)
Finds(slot, id) ==
    \/ /\ slot \in Free
       /\ \A j \in Free : slot <= j
       /\ id = slot
    \/ /\ Free = {}
       /\ slot = PRE_STMT_NUM_MAX - 1
       /\ id = cur

(* cacheExtendPreStmt: fill the slot in.                                   *)
Claim(s, slot, id) ==
    /\ preparing = NoStmt
    /\ Finds(slot, id)
    /\ cur' = id
    /\ name' = [name EXCEPT ![slot] = id]
    /\ rwType' = [rwType EXCEPT ![slot] = RWType(s)]
    /\ valid' = valid \cup {slot}
    /\ seen' = seen \cup (IF Free = {} THEN {"full"} ELSE {})

(* rewriteExtendPreStmt_ on a statement for PostgreSQL.                    *)
Prepare(s) ==
    /\ s \in Plain
    /\ Fits(Text[s])
    /\ \E slot, id \in Slots :
         /\ Claim(s, slot, id)
         /\ columnNum[id] + Columns[s] <= MaxColumns
         /\ paramNum' = [paramNum EXCEPT ![slot] = Counted(s)]
    /\ preparing' = Converted(s)
    /\ UNCHANGED <<paramTypes, columnNum, pg, handles, told, bound>>

(* The same, the text having too many quotes for the room there is.        *)
PrepareTooLong(s) ==
    /\ s \in Plain
    /\ ~Fits(Text[s])
    /\ \E slot, id \in Slots : Claim(s, slot, id)
    /\ UNCHANGED <<paramNum, paramTypes, columnNum, pg, preparing, handles,
                   told, bound>>

(* endExtendPreStmt: the client gets an id, with paramNum[id] parameters   *)
(* and columnNum[id] columns.                                              *)
EndExtendPreStmt(s, id) ==
    /\ handles' = [handles EXCEPT ![id] = s]
    /\ told' = [told EXCEPT ![id] = paramNum[id]]
    /\ bound' = [bound EXCEPT ![id] = NoTypes]

(* COMMIT and ROLLBACK are answered without PostgreSQL.                    *)
PrepareEnd(s) ==
    /\ s \in Ends
    /\ \E slot, id \in Slots :
         Claim(s, slot, id) /\ EndExtendPreStmt(s, id)
    /\ UNCHANGED <<paramNum, paramTypes, columnNum, pg, preparing>>

(* mys_setCurrentPreStmtColumnInfo, for each column of s.                  *)
Record(s) == columnNum' = [columnNum EXCEPT ![cur] = @ + Columns[s]]

(* Mutant: a statement of that name is left where it is.                   *)
StorePreparedKeepsOld(s) == [pg EXCEPT ![cur] = IF @ = NoStmt THEN s ELSE @]

(* mys_PrepareQuery: a statement of that name is dropped first.            *)
StorePrepared(s) == [pg EXCEPT ![cur] = s]

(* mys_PrepareQuery succeeds, and endCommand answers.                      *)
PrepareQuery ==
    /\ preparing \in Plain
    /\ pg' = StorePrepared(preparing)
    /\ Record(preparing)
    /\ EndExtendPreStmt(preparing, cur)
    /\ preparing' = NoStmt
    /\ UNCHANGED <<valid, name, rwType, paramNum, paramTypes, cur, seen>>

(* It fails: before it runs (an aborted transaction), after it has dropped *)
(* the old statement (parsing, analysis), or after it has recorded the     *)
(* columns (rewriting).  The slot stays valid.                             *)
PrepareError ==
    /\ preparing # NoStmt
    /\ \/ UNCHANGED <<pg, columnNum>>
       \/ /\ pg' = [pg EXCEPT ![cur] = NoStmt]
          /\ UNCHANGED <<columnNum>>
       \/ /\ pg' = [pg EXCEPT ![cur] = NoStmt]
          /\ preparing \in Plain
          /\ Record(preparing)
    /\ preparing' = NoStmt
    /\ UNCHANGED <<valid, name, rwType, paramNum, paramTypes, cur, handles,
                   told, bound, seen>>

(* PREPARE name FROM '...' in SQL: mys_PrepareQuery records the columns in *)
(* the current slot all the same.                                          *)
TextPrepare(s) ==
    /\ preparing = NoStmt
    /\ s \in Plain
    /\ columnNum[cur] + Columns[s] <= MaxColumns
    /\ Record(s)
    /\ UNCHANGED <<valid, name, rwType, paramNum, paramTypes, cur, pg,
                   preparing, handles, told, bound, seen>>

-----------------------------------------------------------------------------
(* rewriteExtendExeStmt: the statement that executing id runs.             *)
Executes(id) ==
    IF rwType[id] = "SRWT_COMMIT" THEN "commit"
    ELSE IF rwType[id] = "SRWT_ROLLBACK" THEN "rollback"
    ELSE pg[name[id]]

(* Mutant: the types are kept in one place for all statements.             *)
BindTypesShared(id, t) == paramTypes' = [i \in Slots |-> t]

(* rewriteExtendExeStmt_: new_params_bind_flag is set.                     *)
BindTypes(id, t) == paramTypes' = [paramTypes EXCEPT ![id] = t]

(* COM_STMT_EXECUTE that binds types.  Without new_params_bind_flag it     *)
(* changes nothing here.                                                   *)
Execute(id, t) ==
    /\ preparing = NoStmt
    /\ handles[id] # NoStmt
    /\ rwType[id] = "SRWT_UNKNOWN"
    /\ paramNum[id] > 0
    /\ BindTypes(id, t)
    /\ bound' = [bound EXCEPT ![id] = t]
    /\ UNCHANGED <<valid, name, rwType, paramNum, columnNum, cur, pg,
                   preparing, handles, told, seen>>

(* COM_STMT_CLOSE: the slot is freed, then DEALLOCATE is run, which fails  *)
(* in an aborted transaction and for a statement PostgreSQL never had.     *)
Close(id) ==
    /\ preparing = NoStmt
    /\ handles[id] # NoStmt
    /\ valid' = valid \ {id}
    /\ handles' = [handles EXCEPT ![id] = NoStmt]
    /\ bound' = [bound EXCEPT ![id] = NoTypes]
    /\ pg' \in {pg, [pg EXCEPT ![name[id]] = NoStmt]}
    /\ UNCHANGED <<name, rwType, paramNum, paramTypes, columnNum, cur,
                   preparing, told, seen>>

(* COM_RESET_CONNECTION.  resetConnection frees preStmtInfoNum slots, and  *)
(* that is always 0; the client forgets its ids.                           *)
ResetConnection ==
    /\ preparing = NoStmt
    /\ pg' = [i \in Slots |-> NoStmt]
    /\ handles' = [i \in Slots |-> NoStmt]
    /\ bound' = [i \in Slots |-> NoTypes]
    /\ UNCHANGED <<valid, name, rwType, paramNum, paramTypes, columnNum, cur,
                   preparing, told, seen>>

(* DEALLOCATE PREPARE ALL in SQL.                                          *)
DeallocateAll ==
    /\ preparing = NoStmt
    /\ pg' = [i \in Slots |-> NoStmt]
    /\ seen' = seen \cup {"dropped"}
    /\ UNCHANGED <<valid, name, rwType, paramNum, paramTypes, columnNum, cur,
                   preparing, handles, told, bound>>

Step ==
    \/ \E s \in Plain : Prepare(s) \/ PrepareTooLong(s) \/ TextPrepare(s)
    \/ \E s \in Ends : PrepareEnd(s)
    \/ PrepareQuery \/ PrepareError
    \/ \E id \in Slots, t \in Types : Execute(id, t)
    \/ \E id \in Slots : Close(id)
    \/ ResetConnection \/ DeallocateAll

Next == Step /\ UNCHANGED readOffset

Spec == Init /\ [][Next]_vars

-----------------------------------------------------------------------------
(* Properties.                                                             *)

(* While slots have been free, executing an id runs the statement the      *)
(* client prepared under that id and no other, after whatever failures and *)
(* reuse of slots; at worst PostgreSQL reports that it has none, and that  *)
(* only after a DEALLOCATE PREPARE ALL.  ROLLBACK TO is the exception, run *)
(* as ROLLBACK.                                                            *)
ExecutesWhatWasPrepared ==
    "full" \notin seen =>
      \A id \in Slots :
        handles[id] \notin {NoStmt, "rollbackTo"} =>
          \/ Executes(id) = handles[id]
          \/ "dropped" \in seen /\ Executes(id) = NoStmt

(* While slots have been free, the values of an EXECUTE are taken apart    *)
(* with the number of parameters the answer to its PREPARE gave, which the *)
(* client goes by, and, without new types, with the types the client bound *)
(* last for that statement.  The number is convertExtendPreStmt's; where   *)
(* the parser counts differently PostgreSQL refuses the EXECUTE.           *)
DecodedAsBound ==
    "full" \notin seen =>
      \A id \in Slots :
        handles[id] # NoStmt =>
          /\ paramNum[id] = told[id]
          /\ bound[id] # NoTypes => paramTypes[id] = bound[id]
=============================================================================
