---------------------------- MODULE SharedMemory ----------------------------
(***************************************************************************)
(* SharedMemory (app/memory/shared_memory.py): the record of one workflow  *)
(* in Redis and the calls of update that read, merge and write it under a  *)
(* Redis lock.  Each Redis command is a step; the commands of one MULTI,   *)
(* and the two keys of one MGET, are one step.                             *)
(*                                                                         *)
(* The lock is a key set with NX and a time to live of ten seconds.        *)
(* Nothing renews it and nothing fences the write: a holder that takes     *)
(* longer writes without the lock.  SlowHolders says whether that may be.  *)
(***************************************************************************)
EXTENDS Naturals, FiniteSets

CONSTANTS
    Updates,        \* the calls of update, each with a patch of its own
    Checked,        \* those that pass expected_version
    NoOne,          \* the owner of a free lock
    SlowHolders,    \* a call may outlive its lock's time to live
    Faults          \* the kinds of failure the environment may produce

FaultKinds ==
    { "redis",    \* a command raises; Redis may have executed it
      "crash",    \* the process of a call dies
      "loss" }    \* the record expires or is flushed

ASSUME MemoryAssumption ==
    /\ IsFiniteSet(Updates)
    /\ Checked \subseteq Updates
    /\ NoOne \notin Updates
    /\ SlowHolders \in BOOLEAN
    /\ Faults \subseteq FaultKinds

VARIABLES
    created,     \* initialize has been called
    record,      \* the state and version keys
    lock,        \* the owner of the lock key, or NoOne
    pc,          \* pc[u]: where call u stands
    base,        \* base[u]: the snapshot call u is going to merge into
    expected,    \* expected[u]: its expected_version, 0 for None
    verdict      \* verdict[u]: what the body of its "async with" came to

vars == <<created, record, lock, pc, base, expected, verdict>>

Record == [present : BOOLEAN, patches : SUBSET Updates, version : Nat]
NoRecord == [present |-> FALSE, patches |-> {}, version |-> 0]
FirstRecord == [present |-> TRUE, patches |-> {}, version |-> 1]

Places ==
    { "idle",        \* update is not called yet
      "acquiring",   \* polling for the lock, without a deadline
      "reading",     \* lock taken, at MGET
      "writing",     \* merged, at MULTI
      "releasing",   \* leaving the "async with"
      "returned",    \* update has returned a snapshot
      "raised",      \* update has raised
      "dead" }       \* the process is gone

Over == {"returned", "raised", "dead"}
-----------------------------------------------------------------------------
Init ==
    /\ created = FALSE
    /\ record = NoRecord
    /\ lock = NoOne
    /\ pc = [u \in Updates |-> "idle"]
    /\ base = [u \in Updates |-> NoRecord]
    /\ expected = [u \in Updates |-> 0]
    /\ verdict = [u \in Updates |-> "none"]

Move(u, from, to) == pc[u] = from /\ pc' = [pc EXCEPT ![u] = to]

\* Leave the body of the "async with": whatever happened, the lock is
\* released next.  The snapshot is of no more use.
Leave(u, from, outcome) ==
    /\ Move(u, from, "releasing")
    /\ verdict' = [verdict EXCEPT ![u] = outcome]
    /\ base' = [base EXCEPT ![u] = NoRecord]

(***************************************************************************)
(* Names that end in "Slip" are not part of the model: each is what the    *)
(* definition after it would become under a plausible mistake in the code, *)
(* kept to show that a property of the model tells the two apart.          *)
(***************************************************************************)
\* The version is not incremented.
SameVersionSlip(u) ==
    [present |-> TRUE, patches |-> base[u].patches \cup {u}, version |-> base[u].version]

\* The patch replaces the state instead of being merged into it.
OverwriteSlip(u) ==
    [present |-> TRUE, patches |-> {u}, version |-> base[u].version + 1]

\* What call u writes: its patch merged into the snapshot it read.
Merged(u) ==
    [present |-> TRUE, patches |-> base[u].patches \cup {u}, version |-> base[u].version + 1]

\* Call initialize, which every workflow starts with.
Initialize ==
    /\ ~ created
    /\ created' = TRUE
    /\ record' = FirstRecord
    /\ UNCHANGED <<lock, pc, base, expected, verdict>>

\* Every caller passes on the version it has seen.
AllCheckedSlip(u) ==
    /\ pc[u] = "idle"
    /\ record.present
    /\ expected' = [expected EXCEPT ![u] = record.version]
    /\ UNCHANGED <<created, record, lock, pc, base, verdict>>

\* get, by a caller that will ask for this version.
Observe(u) ==
    /\ u \in Checked
    /\ pc[u] = "idle"
    /\ record.present
    /\ expected' = [expected EXCEPT ![u] = record.version]
    /\ UNCHANGED <<created, record, lock, pc, base, verdict>>

Call(u) ==
    /\ created
    /\ u \in Checked => expected[u] # 0
    /\ Move(u, "idle", "acquiring")
    /\ UNCHANGED <<created, record, lock, base, expected, verdict>>

\* The lock is not looked at.
NoLockSlip(u) ==
    /\ Move(u, "acquiring", "reading")
    /\ lock' = u
    /\ UNCHANGED <<created, record, base, expected, verdict>>

\* SET NX PX finds the lock free.
Acquire(u) ==
    /\ lock = NoOne
    /\ Move(u, "acquiring", "reading")
    /\ lock' = u
    /\ UNCHANGED <<created, record, base, expected, verdict>>

\* The lock may have been taken for a call that does not know it.
AcquireFails(u) ==
    /\ "redis" \in Faults
    /\ Move(u, "acquiring", "raised")
    /\ lock' \in {lock} \cup (IF lock = NoOne THEN {u} ELSE {})
    /\ UNCHANGED <<created, record, base, expected, verdict>>

\* expected_version is compared as an upper bound.
NotOlderSlip(u) == expected[u] = 0 \/ expected[u] <= record.version

VersionMatches(u) == expected[u] = 0 \/ expected[u] = record.version

\* MGET of both keys.  They are written together, and the model loses them
\* together: the version 1 that the code takes for a missing one is left out.
ReadRecord(u) ==
    /\ record.present
    /\ VersionMatches(u)
    /\ Move(u, "reading", "writing")
    /\ base' = [base EXCEPT ![u] = record]
    /\ UNCHANGED <<created, record, lock, expected, verdict>>

\* memory_not_found, memory_version_conflict, or a Redis error.
ReadFails(u) ==
    /\ \/ ~ record.present
       \/ record.present /\ ~ VersionMatches(u)
       \/ "redis" \in Faults
    /\ Leave(u, "reading", "error")
    /\ UNCHANGED <<created, record, lock, expected>>

WriteRecord(u) ==
    /\ record' = Merged(u)
    /\ Leave(u, "writing", "ok")
    /\ UNCHANGED <<created, lock, expected>>

WriteFails(u) ==
    /\ "redis" \in Faults
    /\ record' \in {record, Merged(u)}
    /\ Leave(u, "writing", "error")
    /\ UNCHANGED <<created, lock, expected>>

\* The lock is left to expire, with nobody to wait for that.
Release(u) ==
    /\ lock = u
    /\ Move(u, "releasing", IF verdict[u] = "ok" THEN "returned" ELSE "raised")
    /\ lock' = NoOne
    /\ UNCHANGED <<created, record, base, expected, verdict>>

\* The lock has passed to somebody else, or Redis fails: update raises even
\* when its write went through.
ReleaseFails(u) ==
    /\ \/ lock # u /\ UNCHANGED lock
       \/ lock = u /\ "redis" \in Faults /\ lock' \in {u, NoOne}
    /\ Move(u, "releasing", "raised")
    /\ UNCHANGED <<created, record, base, expected, verdict>>

Proceed(u) ==
    \/ Acquire(u)
    \/ ReadRecord(u)
    \/ ReadFails(u)
    \/ WriteRecord(u)
    \/ WriteFails(u)
    \/ Release(u)
    \/ ReleaseFails(u)

Step(u) == Proceed(u) \/ AcquireFails(u)

\* The process of call u dies; its lock stays behind.
Die(u) ==
    /\ "crash" \in Faults
    /\ pc[u] \notin Over \cup {"idle"}
    /\ pc' = [pc EXCEPT ![u] = "dead"]
    /\ base' = [base EXCEPT ![u] = NoRecord]
    /\ UNCHANGED <<created, record, lock, expected, verdict>>

\* Nobody is going to release the lock.
Abandoned == lock # NoOne /\ pc[lock] \in Over

\* lock(...) without a timeout.
NoTimeoutSlip == FALSE /\ UNCHANGED vars

\* Ten seconds after it was taken, the lock key expires.
Expire ==
    /\ lock # NoOne
    /\ Abandoned \/ SlowHolders
    /\ lock' = NoOne
    /\ UNCHANGED <<created, record, pc, base, expected, verdict>>

LoseRecord ==
    /\ "loss" \in Faults
    /\ record.present
    /\ record' = NoRecord
    /\ UNCHANGED <<created, lock, pc, base, expected, verdict>>

Done ==
    /\ created
    /\ \A u \in Updates : pc[u] \in Over \cup {"idle"}
    /\ UNCHANGED vars

Next ==
    \/ Initialize
    \/ \E u \in Updates : Observe(u) \/ Call(u) \/ Step(u) \/ Die(u)
    \/ Expire
    \/ LoseRecord
    \/ Done

(***************************************************************************)
(* redis-py polls a taken lock every tenth of a second, the event loop     *)
(* resumes every coroutine, and Redis drops a key whose time is up.  That  *)
(* a poll of the lock fails is nothing a waiting call can count on.        *)
(***************************************************************************)
Fairness == WF_vars(Expire) /\ \A u \in Updates : WF_vars(Proceed(u))

Spec == Init /\ [][Next]_vars /\ Fairness
-----------------------------------------------------------------------------
\* Every variable has the type its declaration announces, and a call that
\* passes no expected_version has none.
TypeOK ==
    /\ created \in BOOLEAN
    /\ record \in Record
    /\ lock \in Updates \cup {NoOne}
    /\ pc \in [Updates -> Places]
    /\ base \in [Updates -> Record]
    /\ expected \in [Updates -> Nat]
    /\ \A u \in Updates \ Checked : expected[u] = 0
    /\ verdict \in [Updates -> {"none", "ok", "error"}]

\* Between its read and its write a call holds the lock, so that no other
\* call reads or writes in between (shared_memory.py 76-85).
MutualExclusion ==
    \A u \in Updates : pc[u] \in {"reading", "writing"} => lock = u

\* An update whose caller got a snapshot is still in the record: the reads,
\* merges and writes of concurrent updates never drop one another's patches.
NoLostUpdate ==
    record.present => {u \in Updates : pc[u] = "returned"} \subseteq record.patches

\* The version counts the updates that are in the record.
VersionCountsUpdates ==
    record.present => record.version = 1 + Cardinality(record.patches)

\* Of the updates that expect the same version at most one is applied.
OneWinnerPerVersion ==
    record.present =>
        \A u, v \in record.patches :
            expected[u] = expected[v] /\ expected[u] # 0 => u = v

\* An update that is under way comes to an end, whoever dies holding the
\* lock.
UpdatesEnd == \A u \in Updates : pc[u] = "acquiring" ~> pc[u] \in Over

(***************************************************************************)
(* The inductive invariant behind these properties while no call outlives  *)
(* its lock.                                                               *)
(***************************************************************************)

\* From the lock's acquisition to its release the call owns it.
LockInv ==
    /\ \A u \in Updates : pc[u] \in {"reading", "writing", "releasing"} => lock = u
    /\ ~ created => ~ record.present /\ \A u \in Updates : pc[u] = "idle"

\* Where a call stands once it is through with its write.
Ending == {"releasing"} \cup Over

\* What a record, or a snapshot that is about to be merged into, tells.
Sound(r) ==
    /\ r.version = 1 + Cardinality(r.patches)
    /\ {u \in Updates : verdict[u] = "ok"} \subseteq r.patches
    /\ \A u \in r.patches :
          /\ pc[u] \in Ending
          /\ expected[u] < r.version
    /\ \A u, v \in r.patches : expected[u] = expected[v] /\ expected[u] # 0 => u = v

\* A snapshot stays what the record is until its call writes.
RecordInv ==
    /\ record.present => Sound(record)
    /\ \A u \in Updates : pc[u] = "writing" =>
          /\ base[u].present
          /\ Sound(base[u])
          /\ expected[u] # 0 => expected[u] = base[u].version
          /\ record.present => base[u] = record
    /\ \A u \in Updates :
          /\ pc[u] = "returned" => verdict[u] = "ok"
          /\ verdict[u] = "ok" => pc[u] \in Ending

IInv == TypeOK /\ LockInv /\ RecordInv

(***************************************************************************)
(* The update of a call that has read its snapshot writes it back even if  *)
(* the record has expired in between: for a reader it then never expired.  *)
(***************************************************************************)
Reviver == {u \in Updates : pc[u] = "writing" /\ ~ record.present}
Apparent == IF Reviver = {} THEN record ELSE base[CHOOSE u \in Reviver : TRUE]

Answered ==
    [u \in Updates |->
        CASE pc[u] = "returned" -> "ok" [] pc[u] = "raised" -> "error" [] OTHER -> "pending"]

Atomic == INSTANCE AtomicMemory WITH
            present <- Apparent.present,
            applied <- Apparent.patches,
            version <- Apparent.version,
            answered <- Answered

\* The lock protocol makes update atomic.
ImplementsAtomic == Atomic!Spec
=============================================================================
