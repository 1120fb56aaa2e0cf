------------------------- MODULE ReadThroughProofs -------------------------
(***************************************************************************)
(* Proofs about GetAndStore, for every set of readers, every TTL and every *)
(* interleaving.  IInv is inductive; the properties of ReadThrough follow  *)
(* from it step by step.                                                   *)
(***************************************************************************)
EXTENDS ReadThrough, TLAPS

LEMMA InitInv == Init => IInv
  BY TTLAssumption, BoundsAssumption
  DEF Init, IInv, TypeOK, StoreInv, SnapshotInv, AnswerInv, AgeInv, Entry,
      NoEntry, InTransaction, HasAnswer

\* Ending a transaction keeps what is known of the others, when the entry and
\* the versions in and out of the store do not change.
LEMMA DiscardInv ==
  ASSUME IInv, NEW r \in Readers, Discard(r),
         UNCHANGED <<now, obj, entry, commits, newest>>
  PROVE  IInv'
  BY TTLAssumption, BoundsAssumption
  DEF IInv, TypeOK, StoreInv, SnapshotInv, AnswerInv, AgeInv, Entry,
      NoEntry, InTransaction, HasAnswer, Discard, Goto

LEMMA CommitInv ==
  ASSUME IInv, NEW r \in Readers, Commit(r)
  PROVE  IInv'
<1> USE TTLAssumption, BoundsAssumption DEF IInv, Commit, Return, Discard, Goto
<1>1. TypeOK'
  BY DEF TypeOK, Entry, NoEntry
<1>2. StoreInv'
  BY DEF TypeOK, Entry, StoreInv, SnapshotInv, AnswerInv, InTransaction, HasAnswer
<1>3. entry.ver <= entry'.ver /\ commits' = commits + 1
  BY DEF TypeOK, Entry, SnapshotInv, AnswerInv, InTransaction, HasAnswer
<1>4. SnapshotInv'
  BY <1>1, <1>3 DEF TypeOK, Entry, NoEntry, SnapshotInv, InTransaction
<1>5. AnswerInv'
  BY DEF TypeOK, Entry, NoEntry, AnswerInv, HasAnswer
<1>6. AgeInv'
  BY DEF TypeOK, Entry, NoEntry, AgeInv
<1> QED
  BY <1>1, <1>2, <1>4, <1>5, <1>6

LEMMA NextInv == IInv /\ [Next]_vars => IInv'
<1> SUFFICES ASSUME IInv, [Next]_vars PROVE IInv'
  OBVIOUS
<1> USE TTLAssumption, BoundsAssumption
<1>1. CASE Tick
  BY <1>1
  DEF IInv, TypeOK, StoreInv, SnapshotInv, AnswerInv, AgeInv, Entry,
      InTransaction, HasAnswer, Tick
<1>2. CASE Write
  BY <1>2
  DEF IInv, TypeOK, StoreInv, SnapshotInv, AnswerInv, AgeInv, Entry,
      InTransaction, HasAnswer, Write
<1>3. CASE Restart
  BY <1>3
  DEF IInv, TypeOK, StoreInv, SnapshotInv, AnswerInv, AgeInv, Entry, NoEntry,
      InTransaction, HasAnswer, Restart
<1>4. ASSUME NEW r \in Readers, Begin(r) PROVE IInv'
  BY <1>4
  DEF IInv, TypeOK, StoreInv, SnapshotInv, AnswerInv, AgeInv, Entry,
      InTransaction, HasAnswer, Begin, Goto
<1>5. ASSUME NEW r \in Readers, Hit(r) PROVE IInv'
  <2>1. newest' \in Nat /\ newest' <= entry.ver
    BY <1>5 DEF IInv, TypeOK, StoreInv, SnapshotInv, Entry, InTransaction, Hit, Return
  <2>2. StoreInv'
    BY <1>5, <2>1 DEF IInv, StoreInv, Hit
  <2> QED
    BY <1>5, <2>1, <2>2
    DEF IInv, TypeOK, SnapshotInv, AnswerInv, AgeInv, Entry, NoEntry,
        InTransaction, HasAnswer, Hit, Return, Discard, Goto
<1>6. ASSUME NEW r \in Readers, Miss(r) PROVE IInv'
  BY <1>6
  DEF IInv, TypeOK, StoreInv, SnapshotInv, AnswerInv, AgeInv, Entry,
      InTransaction, HasAnswer, Miss, Goto
<1>7. ASSUME NEW r \in Readers, CallAPI(r) PROVE IInv'
  BY <1>7
  DEF IInv, TypeOK, StoreInv, SnapshotInv, AnswerInv, AgeInv, Entry,
      InTransaction, HasAnswer, CallAPI, Goto
<1>8. ASSUME NEW r \in Readers, Fail(r) PROVE IInv'
  BY <1>8, DiscardInv DEF Fail
<1>9. ASSUME NEW r \in Readers, SetEntry(r) PROVE IInv'
  BY <1>9
  DEF IInv, TypeOK, StoreInv, SnapshotInv, AnswerInv, AgeInv, Entry,
      InTransaction, HasAnswer, SetEntry, Goto
<1>10. ASSUME NEW r \in Readers, Commit(r) PROVE IInv'
  BY <1>10, CommitInv
<1>11. ASSUME NEW r \in Readers, Conflict(r) PROVE IInv'
  BY <1>11, DiscardInv DEF Conflict
<1>12. CASE UNCHANGED vars
  BY <1>12
  DEF IInv, TypeOK, StoreInv, SnapshotInv, AnswerInv, AgeInv, Entry,
      InTransaction, HasAnswer, vars
<1> QED
  BY <1>1, <1>2, <1>3, <1>4, <1>5, <1>6, <1>7, <1>8, <1>9, <1>10, <1>11, <1>12
  DEF Next, GetAndStore

\* All that the transactions know of each other holds in every state.
THEOREM Invariance == Spec => []IInv
  BY InitInv, NextInv, PTL DEF Spec

-----------------------------------------------------------------------------

\* No commit replaces the stored entry by an older answer (store.go:118-142).
THEOREM StoreMonotonic == Spec => EntryNeverGoesBack
<1>1. IInv /\ [Next]_vars => [entry.ver <= entry'.ver]_vars
  <2> SUFFICES ASSUME IInv, Next, entry' # entry
               PROVE  entry.ver <= entry'.ver
    BY DEF IInv, TypeOK, Entry
  <2>1. PICK r \in Readers : Commit(r)
    BY DEF Next, GetAndStore, Tick, Write, Restart, Begin, Hit, Miss, CallAPI,
           Fail, SetEntry, Conflict
  <2> QED
    BY <2>1
    DEF IInv, TypeOK, Entry, SnapshotInv, AnswerInv, InTransaction, HasAnswer, Commit
<1> QED
  BY <1>1, Invariance, PTL DEF Spec, EntryNeverGoesBack

\* No lookup returns less than what any lookup returned before it began.
THEOREM ResultsMonotonic == Spec => ResultsNeverGoBack
<1>1. IInv => \A r \in Readers :
                /\ Hit(r) => floor[r] <= snap[r].ver
                /\ Commit(r) => floor[r] <= val[r].ver
  BY DEF IInv, TypeOK, Entry, SnapshotInv, AnswerInv, InTransaction, HasAnswer,
         Hit, Commit
<1> QED
  BY <1>1, Invariance, PTL DEF Spec, ResultsNeverGoBack

\* The age of a hit is bounded by the TTL and the lag of storing an answer.
THEOREM Freshness == Spec => HitsAreFresh
<1>1. IInv => \A r \in Readers : Hit(r) => now < snap[r].at + TTL + MaxLag
  BY TTLAssumption, BoundsAssumption
  DEF IInv, TypeOK, Entry, AgeInv, Hit, Found
<1> QED
  BY <1>1, Invariance, PTL DEF Spec, HitsAreFresh
=============================================================================
