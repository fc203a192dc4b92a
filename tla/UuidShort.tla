------------------------------ MODULE UuidShort ------------------------------
(****************************************************************************)
(* uuid_short(): a counter in shared memory that every backend increments   *)
(* under a spinlock.  The spinlock itself lives in an entry of a second      *)
(* shared hash table, and that entry is created by the first backend that    *)
(* takes the lock (lockUuidShort), with no other lock held: dynahash leaves  *)
(* the interlocking of an insert to its caller.  The steps of a call are the *)
(* shared-memory accesses it makes, in program order.                        *)
(****************************************************************************)
EXTENDS Integers, Sequences, FiniteSets

CONSTANTS Backends,   \* server processes that call uuid_short()
          Base,       \* serverID << 56 + boot seconds << 24, as UuidShortShmemInit computes it
          MaxIssue    \* bound: values handed out in one life of the shared memory

ASSUME UuidAssumption ==
    /\ Base \in Nat
    /\ MaxIssue \in Nat

UuidNoCell == 0         \* no element of the lock table
UuidCells == 1 .. 4     \* elements on the lock table's free list, in list order

VARIABLES
    uuidLinked,   \* the element found under UUID_SHORT_LOCK_NAME, or UuidNoCell
    uuidFreeHead, \* head of the lock table's free list
    uuidMutex,    \* element -> slock_t: 0 is free, 1 is taken
    uuidShortVal, \* the shared counter
    pc, cell, getRet, \* per backend: next step, globalUuidShortMutex, result register
    issued,       \* history: values returned since the shared memory was created, in order
    overlapped    \* history: backends that began a call while another was creating the lock entry

uuidVars == <<uuidLinked, uuidFreeHead, uuidMutex, uuidShortVal,
              pc, cell, getRet, issued, overlapped>>
uuidShared == <<uuidLinked, uuidFreeHead, uuidMutex, uuidShortVal>>

(* Shared memory as the postmaster leaves it: the counter set up by          *)
(* UuidShortShmemInit, the lock table empty.                                 *)
UuidShortShmemInit ==
    /\ uuidLinked = UuidNoCell
    /\ uuidFreeHead = 1
    /\ uuidMutex = [c \in UuidCells |-> 0]
    /\ uuidShortVal = Base

UuidInit ==
    /\ UuidShortShmemInit
    /\ pc = [p \in Backends |-> "idle"]
    /\ cell = [p \in Backends |-> UuidNoCell]
    /\ getRet = [p \in Backends |-> 0]
    /\ issued = <<>>
    /\ overlapped = {}

UuidCreating(p) == pc[p] \in {"pop", "link", "init"}
UuidGoto(p, step) == pc' = [pc EXCEPT ![p] = step]

(* lockUuidShort: hash_search(HASH_ENTER) walks the bucket chain.            *)
UuidLookup(p) ==
    /\ pc[p] = "idle"
    /\ Len(issued) + Cardinality({q \in Backends : pc[q] # "idle"}) < MaxIssue
    /\ cell' = [cell EXCEPT ![p] = uuidLinked]
    /\ UuidGoto(p, IF uuidLinked = UuidNoCell THEN "pop" ELSE "acquire")
    /\ overlapped' = overlapped \cup {q \in {p} : \E r \in Backends : UuidCreating(r)}
    /\ UNCHANGED <<uuidShared, getRet, issued>>

(* Key absent: get_hash_entry reads the head of the free list ...            *)
UuidPopFree(p) ==
    /\ pc[p] = "pop"
    /\ uuidFreeHead \in UuidCells
    /\ cell' = [cell EXCEPT ![p] = uuidFreeHead]
    /\ UuidGoto(p, "link")
    /\ UNCHANGED <<uuidShared, getRet, issued, overlapped>>

(* ... advances it, and the element is linked over whatever the bucket held. *)
UuidLink(p) ==
    /\ pc[p] = "link"
    /\ uuidFreeHead' = cell[p] + 1
    /\ uuidLinked' = cell[p]
    /\ UuidGoto(p, "init")
    /\ UNCHANGED <<uuidMutex, uuidShortVal, cell, getRet, issued, overlapped>>

(* if (!found) SpinLockInit(...)                                             *)
UuidSpinInit(p) ==
    /\ pc[p] = "init"
    /\ uuidMutex' = [uuidMutex EXCEPT ![cell[p]] = 0]
    /\ UuidGoto(p, "acquire")
    /\ UNCHANGED <<uuidLinked, uuidFreeHead, uuidShortVal, cell, getRet, issued, overlapped>>

(* Mutant: the test-and-set result is ignored.                               *)
UuidSpinAcquireNoWait(p) ==
    /\ pc[p] = "acquire"
    /\ uuidMutex' = [uuidMutex EXCEPT ![cell[p]] = 1]
    /\ UuidGoto(p, "load")
    /\ UNCHANGED <<uuidLinked, uuidFreeHead, uuidShortVal, cell, getRet, issued, overlapped>>

(* SpinLockAcquire: waits while the slock_t is taken.                        *)
UuidSpinAcquire(p) ==
    /\ pc[p] = "acquire"
    /\ uuidMutex[cell[p]] = 0
    /\ uuidMutex' = [uuidMutex EXCEPT ![cell[p]] = 1]
    /\ UuidGoto(p, "load")
    /\ UNCHANGED <<uuidLinked, uuidFreeHead, uuidShortVal, cell, getRet, issued, overlapped>>

(* Mutant: unlockUuidShort moved before the increment.                       *)
LoadValUnlocked(p) ==
    /\ pc[p] = "load"
    /\ getRet' = [getRet EXCEPT ![p] = uuidShortVal + 1]
    /\ uuidMutex' = [uuidMutex EXCEPT ![cell[p]] = 0]
    /\ UuidGoto(p, "store")
    /\ UNCHANGED <<uuidLinked, uuidFreeHead, uuidShortVal, cell, issued, overlapped>>

(* getUuidShort: uuidShortVal += 1 is a load and a store.                    *)
LoadVal(p) ==
    /\ pc[p] = "load"
    /\ getRet' = [getRet EXCEPT ![p] = uuidShortVal + 1]
    /\ UuidGoto(p, "store")
    /\ UNCHANGED <<uuidShared, cell, issued, overlapped>>

StoreVal(p) ==
    /\ pc[p] = "store"
    /\ uuidShortVal' = getRet[p]
    /\ UuidGoto(p, "release")
    /\ UNCHANGED <<uuidLinked, uuidFreeHead, uuidMutex, cell, getRet, issued, overlapped>>

(* Mutant: the release counts down instead of clearing.                      *)
UuidSpinReleaseCountDown(p) ==
    /\ pc[p] = "release"
    /\ uuidMutex' = [uuidMutex EXCEPT ![cell[p]] = @ - 1]
    /\ issued' = Append(issued, getRet[p])
    /\ UuidGoto(p, "idle")
    /\ UNCHANGED <<uuidLinked, uuidFreeHead, uuidShortVal, cell, getRet, overlapped>>

(* unlockUuidShort, and the value goes back to the caller.                   *)
UuidSpinRelease(p) ==
    /\ pc[p] = "release"
    /\ uuidMutex' = [uuidMutex EXCEPT ![cell[p]] = 0]
    /\ issued' = Append(issued, getRet[p])
    /\ UuidGoto(p, "idle")
    /\ UNCHANGED <<uuidLinked, uuidFreeHead, uuidShortVal, cell, getRet, overlapped>>

UuidCall(p) ==
    \/ UuidLookup(p) \/ UuidPopFree(p) \/ UuidLink(p) \/ UuidSpinInit(p)
    \/ UuidSpinAcquire(p) \/ LoadVal(p) \/ StoreVal(p) \/ UuidSpinRelease(p)

UuidNext == \E p \in Backends : UuidCall(p)
UuidSpec == UuidInit /\ [][UuidNext]_uuidVars

------------------------------------------------------------------------------

UuidHolds(p) == pc[p] \in {"load", "store", "release"}

UuidTypeOK ==
    /\ uuidLinked \in UuidCells \cup {UuidNoCell}
    /\ uuidFreeHead \in Nat
    /\ uuidMutex \in [UuidCells -> {0, 1}]
    /\ uuidShortVal \in Nat
    /\ pc \in [Backends -> {"idle", "pop", "link", "init", "acquire", "load", "store", "release"}]
    /\ cell \in [Backends -> UuidCells \cup {UuidNoCell}]
    /\ getRet \in [Backends -> Nat]
    /\ issued \in Seq(Nat)
    /\ overlapped \in SUBSET Backends

(* spin.h says SpinLockAcquire acquires the lock, "waiting if necessary":    *)
(* two backends are never between lockUuidShort and unlockUuidShort at once. *)
UuidMutualExclusion ==
    \A p, q \in Backends : UuidHolds(p) /\ UuidHolds(q) => p = q

(* lockUuidShort: once the lock entry has been created with no other call    *)
(* under way, at most one backend at a time is between lock and unlock.      *)
UuidMutexUnlessOverlap ==
    overlapped = {} => UuidMutualExclusion

(* getUuidShort hands out consecutive values, to whichever backends ask: the *)
(* i-th value returned is the base plus i, so none is lost or given twice,   *)
(* unless a call began while another one was creating the lock entry.        *)
UuidSequentialUnlessOverlap ==
    overlapped = {} => \A i \in DOMAIN issued : issued[i] = Base + i
==============================================================================
