---------------------------- MODULE ReadThrough ----------------------------
(***************************************************************************)
(* GetAndStore of src/internal/store/store.go on one key: a read-through   *)
(* cache with a TTL in the Badger store, used at the same time by the      *)
(* streams of all clients and by the metrics recorder ("sk8l_jobs_mapped", *)
(* "sk8l_cronjob_<namespace>_<name>").  The API call is made inside the    *)
(* read-write transaction of a miss, which commits only if no other one    *)
(* committed since it began.                                               *)
(*                                                                         *)
(* What the API server answers (a CronJob, the list of Jobs) is abstracted *)
(* to a version, and the instants of the wall clock to natural numbers.    *)
(***************************************************************************)
EXTENDS Naturals

CONSTANTS Readers,  \* the goroutines that look the key up
          TTL,      \* BadgerTTL
          MaxLag,   \* longest time from the API's answer to the entry's creation
          MaxVer,   \* bound on the version in the cluster
          MaxTime   \* bound on the clock

ASSUME TTLAssumption == TTL \in Nat \ {0}
ASSUME BoundsAssumption == MaxLag \in Nat /\ MaxVer \in Nat \ {0} /\ MaxTime \in Nat

VARIABLES
    now,      \* the wall clock
    obj,      \* the version that the API server answers with
    entry,    \* the key's entry in the store; its ver is 0 until there is one
    commits,  \* Badger's commit timestamp
    pc,       \* where each reader is in GetAndStore
    snap,     \* the entry in the snapshot of each reader's transaction
    base,     \* the snapshot's timestamp
    val,      \* the entry that a reader is about to store
    newest,   \* the newest version that GetAndStore returned so far (history)
    floor     \* newest when each reader's transaction began (history)

vars == <<now, obj, entry, commits, pc, snap, base, val, newest, floor>>

\* ver: the version, at: when the API server answered with it, exp: ExpiresAt.
Entry == [ver : Nat, at : Nat, exp : Nat]

NoEntry == [ver |-> 0, at |-> 0, exp |-> 0]

TypeOK ==
    /\ now \in Nat
    /\ obj \in Nat \ {0}
    /\ entry \in Entry
    /\ commits \in Nat
    /\ pc \in [Readers -> {"idle", "begun", "missed", "fetched", "ready"}]
    /\ snap \in [Readers -> Entry]
    /\ base \in [Readers -> Nat]
    /\ val \in [Readers -> Entry]
    /\ newest \in Nat
    /\ floor \in [Readers -> Nat]

Init ==
    /\ now = 0
    /\ obj = 1
    /\ entry = NoEntry
    /\ commits = 0
    /\ pc = [r \in Readers |-> "idle"]
    /\ snap = [r \in Readers |-> NoEntry]
    /\ base = [r \in Readers |-> 0]
    /\ val = [r \in Readers |-> NoEntry]
    /\ newest = 0
    /\ floor = [r \in Readers |-> 0]

-----------------------------------------------------------------------------
(* The environment.                                                        *)

\* Time passes; an answer of the API waits for at most MaxLag to be stored.
Tick ==
    /\ now < MaxTime
    /\ \A r \in Readers : pc[r] = "fetched" => now < val[r].at + MaxLag
    /\ now' = now + 1
    /\ UNCHANGED <<obj, entry, commits, pc, snap, base, val, newest, floor>>

Write ==
    /\ obj < MaxVer
    /\ obj' = obj + 1
    /\ UNCHANGED <<now, entry, commits, pc, snap, base, val, newest, floor>>

-----------------------------------------------------------------------------
(* GetAndStore, by reader r.                                               *)

Goto(r, label) == pc' = [pc EXCEPT ![r] = label]

\* The transaction is over, and its snapshot and answer with it.
Discard(r) ==
    /\ Goto(r, "idle")
    /\ snap' = [snap EXCEPT ![r] = NoEntry]
    /\ base' = [base EXCEPT ![r] = 0]
    /\ val' = [val EXCEPT ![r] = NoEntry]
    /\ floor' = [floor EXCEPT ![r] = 0]

Return(r, version) ==
    /\ Discard(r)
    /\ newest' = IF version > newest THEN version ELSE newest

\* DB.Update begins a transaction on a snapshot of the store.
Begin(r) ==
    /\ pc[r] = "idle"
    /\ Goto(r, "begun")
    /\ snap' = [snap EXCEPT ![r] = entry]
    /\ base' = [base EXCEPT ![r] = commits]
    /\ floor' = [floor EXCEPT ![r] = newest]
    /\ UNCHANGED <<now, obj, entry, commits, val, newest>>

\* Mutants: an entry counts as long as the snapshot has it, as one would get
\* by dropping WithTTL.
FoundMutForever(r) == snap[r].ver # 0

\* txn.Get(key) finds the key: the entry is in the snapshot and not expired.
Found(r) == snap[r].ver # 0 /\ now < snap[r].exp

\* A transaction that wrote nothing commits without a check.
Hit(r) ==
    /\ pc[r] = "begun"
    /\ Found(r)
    /\ Return(r, snap[r].ver)
    /\ UNCHANGED <<now, obj, entry, commits>>

Miss(r) ==
    /\ pc[r] = "begun"
    /\ ~Found(r)
    /\ Goto(r, "missed")
    /\ UNCHANGED <<now, obj, entry, commits, snap, base, val, newest, floor>>

\* Mutant: the API server answers from its watch cache, which may lag.
CallAPIMutFromCache(r) ==
    /\ pc[r] = "missed"
    /\ Goto(r, "fetched")
    /\ \E v \in 1..obj : val' = [val EXCEPT ![r] = [ver |-> v, at |-> now, exp |-> 0]]
    /\ UNCHANGED <<now, obj, entry, commits, snap, base, newest, floor>>

\* apiCall() succeeds.
CallAPI(r) ==
    /\ pc[r] = "missed"
    /\ Goto(r, "fetched")
    /\ val' = [val EXCEPT ![r] = [ver |-> obj, at |-> now, exp |-> 0]]
    /\ UNCHANGED <<now, obj, entry, commits, snap, base, newest, floor>>

\* apiCall(), txn.Get, txn.SetEntry or the commit fails: the transaction is discarded.
Fail(r) ==
    /\ pc[r] # "idle"
    /\ Discard(r)
    /\ UNCHANGED <<now, obj, entry, commits, newest>>

\* badger.NewEntry(key, apiResult).WithTTL(BadgerTTL), txn.SetEntry
SetEntry(r) ==
    /\ pc[r] = "fetched"
    /\ Goto(r, "ready")
    /\ val' = [val EXCEPT ![r].exp = now + TTL]
    /\ UNCHANGED <<now, obj, entry, commits, snap, base, newest, floor>>

\* Mutant: the store is opened with DetectConflicts off.
CommitMutUnchecked(r) ==
    /\ pc[r] = "ready"
    /\ entry' = val[r]
    /\ commits' = commits + 1
    /\ Return(r, val[r].ver)
    /\ UNCHANGED <<now, obj>>

\* Nobody committed the key since the snapshot.
Commit(r) ==
    /\ pc[r] = "ready"
    /\ base[r] = commits
    /\ entry' = val[r]
    /\ commits' = commits + 1
    /\ Return(r, val[r].ver)
    /\ UNCHANGED <<now, obj>>

\* badger.ErrConflict: the caller gets an error, its answer is dropped.
Conflict(r) ==
    /\ pc[r] = "ready"
    /\ base[r] # commits
    /\ Discard(r)
    /\ UNCHANGED <<now, obj, entry, commits, newest>>

\* The process ends and starts again in the same pod: Badger is on disk.
Restart ==
    /\ pc' = [r \in Readers |-> "idle"]
    /\ snap' = [r \in Readers |-> NoEntry]
    /\ base' = [r \in Readers |-> 0]
    /\ val' = [r \in Readers |-> NoEntry]
    /\ floor' = [r \in Readers |-> 0]
    /\ UNCHANGED <<now, obj, entry, commits, newest>>

GetAndStore(r) ==
    \/ Begin(r)
    \/ Hit(r)
    \/ Miss(r)
    \/ CallAPI(r)
    \/ Fail(r)
    \/ SetEntry(r)
    \/ Commit(r)
    \/ Conflict(r)

Next ==
    \/ Tick
    \/ Write
    \/ Restart
    \/ \E r \in Readers : GetAndStore(r)

Spec == Init /\ [][Next]_vars

-----------------------------------------------------------------------------
(* What each transaction knows (the inductive invariant).                  *)

InTransaction(r) == pc[r] # "idle"

HasAnswer(r) == pc[r] \in {"fetched", "ready"}

\* The store is no newer than the cluster, and no older than any result.
StoreInv == newest <= entry.ver /\ entry.ver <= obj

\* A snapshot is as new as all that was returned before the transaction began,
\* and is the store itself as long as nobody commits.
SnapshotInv ==
    \A r \in Readers : InTransaction(r) =>
        /\ floor[r] <= snap[r].ver
        /\ snap[r].ver <= entry.ver
        /\ base[r] <= commits
        /\ base[r] = commits => snap[r] = entry

\* An answer of the API is no older than the snapshot it is to replace.
AnswerInv ==
    \A r \in Readers : HasAnswer(r) =>
        /\ snap[r].ver <= val[r].ver
        /\ val[r].ver <= obj

\* How far from the API's answer an entry can expire.
AgeInv ==
    /\ entry.exp <= entry.at + TTL + MaxLag
    /\ \A r \in Readers :
         /\ snap[r].exp <= snap[r].at + TTL + MaxLag
         /\ pc[r] = "fetched" => now <= val[r].at + MaxLag
         /\ pc[r] = "ready" => val[r].exp <= val[r].at + TTL + MaxLag

\* Every open transaction can be placed between what GetAndStore has returned
\* and what the cluster holds, also when several commit, fail and conflict.
IInv == TypeOK /\ StoreInv /\ SnapshotInv /\ AnswerInv /\ AgeInv

-----------------------------------------------------------------------------
(* Properties.                                                             *)

\* A miss never replaces what is stored by an older answer of the API server,
\* however long it took and whatever the other readers stored meanwhile.
EntryNeverGoesBack == [][entry.ver <= entry'.ver]_vars

\* GetAndStore never returns an older version than one it returned to anyone
\* before the lookup began: clients that compare notes, or reconnect, do not
\* see the cluster go back in time.
ResultsNeverGoBack ==
    [][\A r \in Readers :
         /\ Hit(r) => floor[r] <= snap[r].ver
         /\ Commit(r) => floor[r] <= val[r].ver]_vars

\* A hit is what the API server answered less than the TTL ago, plus the time
\* the answer took to be stored.
HitsAreFresh ==
    [][\A r \in Readers : Hit(r) => now < snap[r].at + TTL + MaxLag]_vars
=============================================================================
