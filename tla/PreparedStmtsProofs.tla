------------------------ MODULE PreparedStmtsProofs ------------------------
(***************************************************************************)
(* Proofs about PreparedStmts: its type invariant, and that an id runs the *)
(* statement prepared under it, with any number of slots.                  *)
(***************************************************************************)
EXTENDS PreparedStmts, FiniteSetTheorems, TLAPS

LEMMA SlotsFacts ==
    /\ 0 \in Slots
    /\ PRE_STMT_NUM_MAX - 1 \in Slots \ {0}
    /\ Slots \subseteq Nat
BY PreparedAssumption DEF Slots

(* A text has finitely many marks: the count is a number.                  *)
LEMMA MarksNumber ==
    ASSUME NEW s \in Plain
    PROVE  Cardinality(ParamMarks(Text[s])) \in Nat
<1>1. Len(Text[s]) \in Nat
  BY PreparedAssumption
<1>2. IsFiniteSet(1..Len(Text[s]))
  BY <1>1, FS_Interval
<1>3. ParamMarks(Text[s]) \subseteq 1..Len(Text[s])
  BY DEF ParamMarks
<1> QED
  BY <1>2, <1>3, FS_Subset, FS_CardinalityType

LEMMA TypeInit == Init => TypeOK
BY SlotsFacts DEF Init, TypeOK

LEMMA TypeStep == TypeOK /\ [Next]_vars => TypeOK'
<1> SUFFICES ASSUME TypeOK, [Next]_vars PROVE TypeOK'
  OBVIOUS
<1> USE PreparedAssumption DEF TypeOK
<1>0. readOffset' \in ReadOffsets
  BY DEF Next, vars
<1>c. ASSUME NEW s \in Stmts, NEW slot \in Slots, NEW id \in Slots,
             Claim(s, slot, id)
      PROVE  /\ valid' \subseteq Slots \ {0}
             /\ name' \in [Slots -> Slots]
             /\ rwType' \in [Slots -> {"SRWT_UNKNOWN", "SRWT_COMMIT",
                                       "SRWT_ROLLBACK"}]
             /\ cur' \in Slots
             /\ seen' \subseteq {"full", "dropped"}
  BY <1>c, SlotsFacts DEF Claim, Finds, Free, RWType
<1>e. ASSUME NEW s \in Stmts, NEW id \in Slots, EndExtendPreStmt(s, id)
      PROVE  /\ handles' \in [Slots -> Stmts \cup {NoStmt}]
             /\ told' \in [Slots -> Nat]
             /\ bound' \in [Slots -> Types \cup {NoTypes}]
  BY <1>e DEF EndExtendPreStmt
<1>r. ASSUME NEW s \in Plain, Record(s)
      PROVE  columnNum' \in [Slots -> Nat]
  BY <1>r DEF Record
<1>1. ASSUME NEW s \in Plain, Prepare(s) PROVE TypeOK'
  <2>1. PICK slot \in Slots, id \in Slots :
          /\ Claim(s, slot, id)
          /\ paramNum' = [paramNum EXCEPT ![slot] = Counted(s)]
    BY <1>1 DEF Prepare
  <2>2. paramNum' \in [Slots -> Nat]
    BY <2>1, MarksNumber DEF Counted
  <2>3. preparing' \in Plain \cup {Garbled}
    BY <1>1 DEF Prepare, Converted
  <2> QED
    BY <1>0, <1>1, <1>c, <2>1, <2>2, <2>3 DEF Prepare, Stmts
<1>2. ASSUME NEW s \in Plain, PrepareTooLong(s) PROVE TypeOK'
  BY <1>0, <1>2, <1>c DEF PrepareTooLong, Stmts
<1>3. ASSUME NEW s \in Plain, TextPrepare(s) PROVE TypeOK'
  BY <1>0, <1>3, <1>r DEF TextPrepare
<1>4. ASSUME NEW s \in Ends, PrepareEnd(s) PROVE TypeOK'
  BY <1>0, <1>4, <1>c, <1>e DEF PrepareEnd, Stmts
<1>5. CASE PrepareQuery
  BY <1>0, <1>5, <1>e, <1>r DEF PrepareQuery, StorePrepared, Stmts
<1>6. CASE PrepareError
  BY <1>0, <1>6, <1>r DEF PrepareError
<1>7. ASSUME NEW id \in Slots, NEW t \in Types, Execute(id, t) PROVE TypeOK'
  BY <1>0, <1>7 DEF Execute, BindTypes
<1>8. ASSUME NEW id \in Slots, Close(id) PROVE TypeOK'
  BY <1>0, <1>8 DEF Close
<1>9. CASE ResetConnection
  BY <1>0, <1>9 DEF ResetConnection
<1>10. CASE DeallocateAll
  BY <1>0, <1>10 DEF DeallocateAll
<1>11. CASE UNCHANGED vars
  BY <1>11 DEF vars
<1> QED
  BY <1>1, <1>2, <1>3, <1>4, <1>5, <1>6, <1>7, <1>8, <1>9, <1>10, <1>11
     DEF Next, Step

(* Every slot, counter and name of the adapter keeps its type, and slot 0  *)
(* is never given out.                                                     *)
THEOREM PreparedTyping == Spec => []TypeOK
BY TypeInit, TypeStep, PTL DEF Spec

-----------------------------------------------------------------------------
(* Why an id runs its own statement.  A slot in use carries its own        *)
(* number as name, an id the client has is a slot in use, PostgreSQL's     *)
(* statement of that number is the client's, and the slot a PREPARE is     *)
(* being run for belongs to no id of the client's.                         *)
OpenInv ==
    /\ \A id \in valid : name[id] = id
    /\ \A id \in Slots :
         handles[id] # NoStmt =>
           id \in valid /\ rwType[id] = RWType(handles[id])
    /\ \A id \in Slots :
         handles[id] \in Plain =>
           \/ pg[id] = handles[id]
           \/ "dropped" \in seen /\ pg[id] = NoStmt
    /\ DecodedAsBound

PreparingInv ==
    preparing # NoStmt =>
      /\ cur \in valid
      /\ handles[cur] = NoStmt
      /\ rwType[cur] = "SRWT_UNKNOWN"

SlotInv == "full" \notin seen => OpenInv /\ PreparingInv

LEMMA SlotInit == Init => SlotInv
<1> SUFFICES ASSUME Init PROVE OpenInv /\ PreparingInv
  BY DEF SlotInv
<1>1. NoStmt \notin Plain
  BY PreparedAssumption DEF Stmts
<1>2. \A id \in Slots : handles[id] = NoStmt
  BY DEF Init
<1> QED
  BY <1>1, <1>2 DEF Init, OpenInv, PreparingInv, DecodedAsBound

(* A claimed slot was free: no id of the client's changes.                 *)
LEMMA ClaimKeeps ==
    ASSUME TypeOK, SlotInv, NEW s \in Stmts, NEW slot \in Slots,
           NEW id \in Slots, Claim(s, slot, id), "full" \notin seen'
    PROVE  /\ OpenInv /\ "full" \notin seen
           /\ slot = id /\ id \notin valid /\ handles[id] = NoStmt
           /\ cur' = id
           /\ valid' = valid \cup {id}
           /\ name' = [name EXCEPT ![id] = id]
           /\ rwType' = [rwType EXCEPT ![id] = RWType(s)]
           /\ seen' = seen
<1>1. Free # {}
  BY DEF Claim
<1>2. slot = id /\ id \in Free
  BY <1>1 DEF Claim, Finds
<1>3. "full" \notin seen /\ seen' = seen
  BY <1>1 DEF Claim
<1>4. OpenInv
  BY <1>3 DEF SlotInv
<1> QED
  BY <1>2, <1>3, <1>4 DEF Claim, Free, OpenInv

LEMMA SlotStep == TypeOK /\ SlotInv /\ [Next]_vars => SlotInv'
<1> SUFFICES ASSUME TypeOK, SlotInv, [Next]_vars, "full" \notin seen'
             PROVE  OpenInv' /\ PreparingInv'
  BY DEF SlotInv
<1> USE PreparedAssumption DEF TypeOK
<1>n. NoStmt \notin Plain
  BY DEF Stmts
<1>1. ASSUME NEW s \in Plain, Prepare(s) PROVE OpenInv' /\ PreparingInv'
  <2>1. PICK slot \in Slots, id \in Slots :
          /\ Claim(s, slot, id)
          /\ paramNum' = [paramNum EXCEPT ![slot] = Counted(s)]
    BY <1>1 DEF Prepare
  <2>2. s \in Stmts /\ RWType(s) = "SRWT_UNKNOWN"
    BY DEF Stmts, RWType, Ends
  <2>3. /\ OpenInv /\ "full" \notin seen
        /\ slot = id /\ id \notin valid /\ handles[id] = NoStmt
        /\ cur' = id
        /\ valid' = valid \cup {id}
        /\ name' = [name EXCEPT ![id] = id]
        /\ rwType' = [rwType EXCEPT ![id] = RWType(s)]
        /\ seen' = seen
    BY <2>1, <2>2, ClaimKeeps
  <2>4. OpenInv'
    <3>1. DecodedAsBound'
      BY <1>1, <1>n, <2>1, <2>3 DEF Prepare, OpenInv, DecodedAsBound
    <3>2. \A i \in Slots : handles'[i] # NoStmt =>
            /\ i # id /\ handles'[i] = handles[i] /\ pg'[i] = pg[i]
            /\ rwType'[i] = rwType[i]
      BY <1>1, <2>3 DEF Prepare
    <3>3. \A i \in valid' : name'[i] = i
      BY <2>3 DEF OpenInv
    <3>4. \A i \in Slots : handles'[i] # NoStmt =>
            i \in valid' /\ rwType'[i] = RWType(handles'[i])
      BY <2>3, <3>2 DEF OpenInv
    <3>5. \A i \in Slots : handles'[i] \in Plain =>
            \/ pg'[i] = handles'[i]
            \/ "dropped" \in seen' /\ pg'[i] = NoStmt
      BY <1>n, <2>3, <3>2 DEF OpenInv
    <3> QED
      BY <3>1, <3>3, <3>4, <3>5 DEF OpenInv
  <2>5. /\ id \in valid'
        /\ handles'[id] = NoStmt
        /\ rwType'[id] = "SRWT_UNKNOWN"
    BY <1>1, <2>1, <2>2, <2>3 DEF Prepare
  <2>6. PreparingInv'
    BY <2>3, <2>5 DEF PreparingInv
  <2> QED
    BY <2>4, <2>6
<1>2. ASSUME NEW s \in Plain, PrepareTooLong(s)
      PROVE  OpenInv' /\ PreparingInv'
  <2>1. PICK slot \in Slots, id \in Slots : Claim(s, slot, id)
    BY <1>2 DEF PrepareTooLong
  <2>2. s \in Stmts /\ preparing = NoStmt
    BY <2>1 DEF Stmts, Claim
  <2>3. /\ OpenInv /\ "full" \notin seen
        /\ handles[id] = NoStmt
        /\ valid' = valid \cup {id}
        /\ name' = [name EXCEPT ![id] = id]
        /\ rwType' = [rwType EXCEPT ![id] = RWType(s)]
        /\ seen' = seen
    BY <2>1, <2>2, ClaimKeeps
  <2>4. DecodedAsBound'
    BY <1>2, <2>3 DEF PrepareTooLong, OpenInv, DecodedAsBound
  <2>5. OpenInv'
    <3>1. \A i \in Slots : handles'[i] # NoStmt =>
            /\ i # id /\ handles'[i] = handles[i] /\ pg'[i] = pg[i]
            /\ rwType'[i] = rwType[i]
      BY <1>2, <2>3 DEF PrepareTooLong
    <3>2. \A i \in valid' : name'[i] = i
      BY <2>3 DEF OpenInv
    <3>3. \A i \in Slots : handles'[i] # NoStmt =>
            i \in valid' /\ rwType'[i] = RWType(handles'[i])
      BY <2>3, <3>1 DEF OpenInv
    <3>4. \A i \in Slots : handles'[i] \in Plain =>
            \/ pg'[i] = handles'[i]
            \/ "dropped" \in seen' /\ pg'[i] = NoStmt
      BY <1>n, <2>3, <3>1 DEF OpenInv
    <3> QED
      BY <2>4, <3>2, <3>3, <3>4 DEF OpenInv
  <2> QED
    BY <1>2, <2>2, <2>5 DEF PrepareTooLong, PreparingInv
<1>3. ASSUME NEW s \in Plain, TextPrepare(s)
      PROVE  OpenInv' /\ PreparingInv'
  BY <1>3 DEF TextPrepare, SlotInv, OpenInv, PreparingInv, DecodedAsBound
<1>4. ASSUME NEW s \in Ends, PrepareEnd(s) PROVE OpenInv' /\ PreparingInv'
  <2>1. PICK slot \in Slots, id \in Slots :
          Claim(s, slot, id) /\ EndExtendPreStmt(s, id)
    BY <1>4 DEF PrepareEnd
  <2>2. s \in Stmts /\ s \notin Plain /\ preparing = NoStmt
    BY <2>1 DEF Stmts, Claim
  <2>3. /\ OpenInv /\ "full" \notin seen
        /\ id \notin valid
        /\ valid' = valid \cup {id}
        /\ name' = [name EXCEPT ![id] = id]
        /\ rwType' = [rwType EXCEPT ![id] = RWType(s)]
        /\ seen' = seen
    BY <2>1, <2>2, ClaimKeeps
  <2>4. /\ handles' = [handles EXCEPT ![id] = s]
        /\ told' = [told EXCEPT ![id] = paramNum[id]]
        /\ bound' = [bound EXCEPT ![id] = NoTypes]
    BY <2>1 DEF EndExtendPreStmt
  <2>5. DecodedAsBound'
    BY <1>4, <2>3, <2>4 DEF PrepareEnd, OpenInv, DecodedAsBound
  <2>6. \A i \in valid' : name'[i] = i
    BY <2>3 DEF OpenInv
  <2>7. \A i \in Slots : handles'[i] # NoStmt =>
          i \in valid' /\ rwType'[i] = RWType(handles'[i])
    BY <2>3, <2>4 DEF OpenInv
  <2>8. \A i \in Slots : handles'[i] \in Plain =>
          \/ pg'[i] = handles'[i]
          \/ "dropped" \in seen' /\ pg'[i] = NoStmt
    BY <1>4, <2>2, <2>3, <2>4 DEF PrepareEnd, OpenInv
  <2> QED
    BY <1>4, <2>2, <2>5, <2>6, <2>7, <2>8
       DEF PrepareEnd, OpenInv, PreparingInv
<1>5. CASE PrepareQuery
  <2>1. /\ preparing \in Plain /\ preparing # NoStmt
        /\ RWType(preparing) = "SRWT_UNKNOWN"
    BY <1>5, <1>n DEF PrepareQuery, RWType, Ends
  <2> QED
    BY <1>5, <2>1
       DEF PrepareQuery, StorePrepared, EndExtendPreStmt, SlotInv, OpenInv,
           PreparingInv, DecodedAsBound
<1>6. CASE PrepareError
  BY <1>6 DEF PrepareError, SlotInv, OpenInv, PreparingInv, DecodedAsBound
<1>7. ASSUME NEW id \in Slots, NEW t \in Types, Execute(id, t)
      PROVE  OpenInv' /\ PreparingInv'
  BY <1>7 DEF Execute, BindTypes, SlotInv, OpenInv, PreparingInv,
              DecodedAsBound
<1>8. ASSUME NEW id \in Slots, Close(id) PROVE OpenInv' /\ PreparingInv'
  <2>1. OpenInv /\ name[id] = id
    BY <1>8 DEF Close, SlotInv, OpenInv
  <2>2. \A i \in Slots : i # id => /\ handles'[i] = handles[i]
                                  /\ bound'[i] = bound[i]
                                  /\ pg'[i] = pg[i]
    BY <1>8, <2>1 DEF Close
  <2>3. handles'[id] = NoStmt /\ bound'[id] = NoTypes
    BY <1>8 DEF Close
  <2>4. DecodedAsBound'
    BY <1>8, <1>n, <2>1, <2>2, <2>3 DEF Close, OpenInv, DecodedAsBound
  <2>5. OpenInv'
    BY <1>8, <1>n, <2>1, <2>2, <2>3, <2>4 DEF Close, OpenInv
  <2> QED
    BY <1>8, <2>5 DEF Close, PreparingInv
<1>9. CASE ResetConnection
  <2>1. OpenInv
    BY <1>9 DEF ResetConnection, SlotInv
  <2>2. \A i \in Slots : handles'[i] = NoStmt
    BY <1>9 DEF ResetConnection
  <2>3. OpenInv'
    BY <1>9, <1>n, <2>1, <2>2 DEF ResetConnection, OpenInv, DecodedAsBound
  <2> QED
    BY <1>9, <2>3 DEF ResetConnection, PreparingInv
<1>10. CASE DeallocateAll
  BY <1>10 DEF DeallocateAll, SlotInv, OpenInv, PreparingInv, DecodedAsBound
<1>11. CASE UNCHANGED vars
  BY <1>11 DEF vars, SlotInv, OpenInv, PreparingInv, DecodedAsBound
<1> QED
  BY <1>1, <1>2, <1>3, <1>4, <1>5, <1>6, <1>7, <1>8, <1>9, <1>10, <1>11
     DEF Next, Step

LEMMA SlotInvariance == Spec => [](TypeOK /\ SlotInv)
BY TypeInit, TypeStep, SlotInit, SlotStep, PTL DEF Spec

(* Executing an id runs the statement the client prepared under it.        *)
THEOREM ExecutesPrepared == Spec => []ExecutesWhatWasPrepared
<1>1. TypeOK /\ SlotInv => ExecutesWhatWasPrepared
  BY PreparedAssumption
     DEF TypeOK, SlotInv, OpenInv, ExecutesWhatWasPrepared, Executes, RWType,
         Stmts, Ends
<1> QED
  BY <1>1, SlotInvariance, PTL

(* Parameter values are decoded with the number of parameters the client   *)
(* was told and the types it bound, for that statement.                    *)
THEOREM Decoding == Spec => []DecodedAsBound
<1>1. SlotInv => DecodedAsBound
  BY DEF SlotInv, OpenInv, DecodedAsBound
<1> QED
  BY <1>1, SlotInvariance, PTL
=============================================================================
