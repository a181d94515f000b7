------------------------- MODULE SharedMemoryProofs -------------------------
(***************************************************************************)
(* Proofs about SharedMemory, for any number of concurrent updates, with   *)
(* and without version checks, under every combination of faults.  What    *)
(* depends on it says so: no call outlives its lock.                       *)
(***************************************************************************)
EXTENDS SharedMemory, FiniteSetTheorems, TLAPS

USE MemoryAssumption
-----------------------------------------------------------------------------
(***************************************************************************)
(* Types.                                                                  *)
(***************************************************************************)
LEMMA RecordType == NoRecord \in Record /\ FirstRecord \in Record
  BY DEF Record, NoRecord, FirstRecord

LEMMA MergedType ==
    ASSUME TypeOK, NEW u \in Updates
    PROVE  Merged(u) \in Record
  BY DEF TypeOK, Merged, Record

LEMMA InitType == Init => TypeOK
  <1> SUFFICES ASSUME Init
               PROVE  TypeOK
    OBVIOUS
  <1>1. created \in BOOLEAN /\ lock \in Updates \cup {NoOne}
    BY DEF Init
  <1>2. record \in Record
    BY RecordType DEF Init
  <1>3. pc \in [Updates -> Places]
    BY DEF Init, Places
  <1>4. base \in [Updates -> Record]
    BY RecordType DEF Init
  <1>5. \A u \in Updates \ Checked : expected[u] = 0
    BY DEF Init
  <1>6. expected \in [Updates -> Nat] /\ verdict \in [Updates -> {"none", "ok", "error"}]
    BY DEF Init
  <1> QED
    BY <1>1, <1>2, <1>3, <1>4, <1>5, <1>6 DEF TypeOK

LEMMA StepType ==
    ASSUME TypeOK, NEW u \in Updates, Step(u)
    PROVE  TypeOK'
  <1> USE DEF TypeOK, Places, Move
  <1>1. CASE Acquire(u) \/ AcquireFails(u)
    BY <1>1 DEF Acquire, AcquireFails
  <1>2. CASE ReadRecord(u)
    BY <1>2 DEF ReadRecord
  <1>3. CASE ReadFails(u)
    BY <1>3, RecordType DEF ReadFails, Leave
  <1>4. CASE WriteRecord(u)
    BY <1>4, MergedType, RecordType DEF WriteRecord, Leave
  <1>5. CASE WriteFails(u)
    BY <1>5, MergedType, RecordType DEF WriteFails, Leave
  <1>6. CASE Release(u) \/ ReleaseFails(u)
    BY <1>6 DEF Release, ReleaseFails
  <1> QED
    BY <1>1, <1>2, <1>3, <1>4, <1>5, <1>6 DEF Step, Proceed

LEMMA NextType ==
    ASSUME TypeOK, [Next]_vars
    PROVE  TypeOK'
  <1> USE DEF TypeOK, Places
  <1>1. CASE Initialize
    BY <1>1, RecordType DEF Initialize
  <1>2. CASE \E u \in Updates : Observe(u)
    BY <1>2 DEF Observe, Record
  <1>3. CASE \E u \in Updates : Call(u)
    BY <1>3 DEF Call, Move
  <1>4. CASE \E u \in Updates : Die(u)
    BY <1>4, RecordType DEF Die
  <1>5. CASE Expire
    BY <1>5 DEF Expire
  <1>6. CASE LoseRecord
    BY <1>6, RecordType DEF LoseRecord
  <1>7. CASE UNCHANGED vars
    BY <1>7 DEF vars
  <1> QED
    BY <1>1, <1>2, <1>3, <1>4, <1>5, <1>6, <1>7, StepType DEF Next, Done

\* Every variable keeps its type, whoever is slow.
THEOREM TypeCorrect == Spec => []TypeOK
  BY InitType, NextType, PTL DEF Spec
-----------------------------------------------------------------------------
(***************************************************************************)
(* The lock.                                                               *)
(***************************************************************************)
LEMMA NextLock ==
    ASSUME ~ SlowHolders, TypeOK, LockInv, [Next]_vars
    PROVE  LockInv'
  <1> USE DEF TypeOK, LockInv
  <1>1. CASE Initialize
    BY <1>1 DEF Initialize
  <1>2. ASSUME NEW u \in Updates, Observe(u) \/ Call(u) \/ Die(u)
        PROVE  LockInv'
    BY <1>2 DEF Observe, Call, Die, Move
  <1>3. ASSUME NEW u \in Updates, Acquire(u) \/ AcquireFails(u)
        PROVE  LockInv'
    BY <1>3 DEF Acquire, AcquireFails, Move
  <1>4. ASSUME NEW u \in Updates, ReadRecord(u) \/ ReadFails(u)
        PROVE  LockInv'
    BY <1>4 DEF ReadRecord, ReadFails, Move, Leave
  <1>5. ASSUME NEW u \in Updates, WriteRecord(u) \/ WriteFails(u)
        PROVE  LockInv'
    BY <1>5 DEF WriteRecord, WriteFails, Move, Leave
  <1>6. ASSUME NEW u \in Updates, Release(u) \/ ReleaseFails(u)
        PROVE  LockInv'
    BY <1>6 DEF Release, ReleaseFails, Move
  <1>7. CASE Expire
    BY <1>7 DEF Expire, Abandoned, Over
  <1>8. CASE LoseRecord
    BY <1>8 DEF LoseRecord, NoRecord
  <1>9. CASE UNCHANGED vars
    BY <1>9 DEF vars
  <1> QED
    BY <1>1, <1>2, <1>3, <1>4, <1>5, <1>6, <1>7, <1>8, <1>9 DEF Next, Step, Proceed, Done

LEMMA LockCorrect ==
    ASSUME ~ SlowHolders
    PROVE  Spec => []LockInv
  <1>1. Init => LockInv
    BY DEF Init, LockInv, NoRecord
  <1>2. TypeOK /\ LockInv /\ [Next]_vars => LockInv'
    BY NextLock
  <1> QED
    BY <1>1, <1>2, TypeCorrect, PTL DEF Spec

\* If no call outlives its lock, nobody comes between a call's read and its
\* write.
THEOREM Exclusion ==
    ASSUME ~ SlowHolders
    PROVE  Spec => []MutualExclusion
  <1>1. LockInv => MutualExclusion
    BY DEF LockInv, MutualExclusion
  <1> QED
    BY <1>1, LockCorrect, PTL
-----------------------------------------------------------------------------
(***************************************************************************)
(* The record.                                                             *)
(***************************************************************************)

\* Merging a patch that is not there yet into a sound snapshot adds exactly
\* that patch and one to the version.
LEMMA MergeCounts ==
    ASSUME TypeOK, LockInv, RecordInv, NEW u \in Updates, pc[u] = "writing"
    PROVE  /\ Merged(u).present
           /\ Merged(u).patches = base[u].patches \cup {u}
           /\ Merged(u).version = base[u].version + 1
           /\ Merged(u).version = 1 + Cardinality(Merged(u).patches)
           /\ u \notin base[u].patches
  <1>1. Sound(base[u]) /\ base[u].patches \in SUBSET Updates
    BY DEF RecordInv, TypeOK, Record
  <1>2. u \notin base[u].patches
    BY <1>1 DEF Sound, Ending, Over
  <1>3. IsFiniteSet(base[u].patches) /\ Cardinality(base[u].patches) \in Nat
    BY <1>1, FS_Subset, FS_CardinalityType
  <1>4. Cardinality(base[u].patches \cup {u}) = Cardinality(base[u].patches) + 1
    BY <1>2, <1>3, FS_AddElement
  <1> QED
    BY <1>1, <1>2, <1>3, <1>4 DEF Sound, Merged

\* The steps of a call up to its read leave the record alone, and the
\* snapshot it takes is as sound as the record.
LEMMA ReadingStep ==
    ASSUME TypeOK, LockInv, RecordInv, NEW u \in Updates,
           Observe(u) \/ Call(u) \/ Acquire(u) \/ AcquireFails(u) \/ ReadRecord(u) \/ ReadFails(u)
    PROVE  RecordInv'
  <1>1. /\ pc[u] \in {"idle", "acquiring", "reading"}
        /\ \A v \in Updates \ {u} : /\ pc'[v] = pc[v]
                                    /\ base'[v] = base[v]
                                    /\ expected'[v] = expected[v]
        /\ pc[u] # "idle" => expected'[u] = expected[u]
        /\ record' = record
        /\ \A v \in Updates : verdict'[v] = "ok" <=> verdict[v] = "ok"
        /\ pc'[u] # "returned"
    BY DEF Observe, Call, Acquire, AcquireFails, ReadRecord, ReadFails, Move, Leave, TypeOK,
         RecordInv, Ending, Over
  <1>2. \A v \in Updates : pc[v] = "writing" => v # u
    BY <1>1
  <1>3. verdict'[u] # "ok"
    BY <1>1 DEF RecordInv, Ending, Over
  <1>4. ASSUME NEW r \in Record, Sound(r)
        PROVE  /\ r.version = 1 + Cardinality(r.patches)
               /\ {v \in Updates : verdict'[v] = "ok"} \subseteq r.patches
               /\ \A v \in r.patches :
                     pc'[v] \in Ending /\ expected'[v] < r.version
               /\ \A v, w \in r.patches : expected'[v] = expected'[w] /\ expected'[v] # 0 => v = w
    <2>1. u \notin r.patches
      BY <1>1, <1>4 DEF Sound, Ending, Over
    <2>2. r.patches \subseteq Updates
      BY DEF Record
    <2> QED
      BY <1>1, <1>4, <2>1, <2>2 DEF Sound
  <1>5. record' \in Record /\ (record'.present => Sound(record)')
    BY <1>1, <1>4 DEF RecordInv, TypeOK, Sound
  <1>6. ASSUME NEW v \in Updates, pc'[v] = "writing"
        PROVE  /\ base'[v].present
               /\ Sound(base[v])'
               /\ expected'[v] # 0 => expected'[v] = base'[v].version
               /\ record'.present => base'[v] = record'
    <2>1. CASE v # u
      <3>1. base[v] \in Record /\ Sound(base[v]) /\ base'[v] = base[v] /\ pc[v] = "writing"
        BY <1>1, <1>6, <2>1 DEF RecordInv, TypeOK
      <3> QED
        BY <1>1, <1>4, <2>1, <3>1 DEF RecordInv, Sound
    <2>2. CASE v = u
      <3>1. ReadRecord(u)
        BY <1>6, <2>2 DEF Observe, Call, Acquire, AcquireFails, ReadFails, Move, Leave, TypeOK
      <3>2. base'[u] = record /\ record.present /\ Sound(record) /\ VersionMatches(u)
        BY <3>1 DEF ReadRecord, RecordInv, TypeOK
      <3>3. expected' = expected
        BY <3>1 DEF ReadRecord
      <3>4. Sound(base[u])'
        BY <1>4, <3>2 DEF Sound, TypeOK
      <3> QED
        BY <1>1, <2>2, <3>2, <3>3, <3>4 DEF VersionMatches
    <2> QED
      BY <2>1, <2>2
  <1>7. \A v \in Updates :
          /\ pc'[v] = "returned" => verdict'[v] = "ok"
          /\ verdict'[v] = "ok" => pc'[v] \in Ending
    BY <1>1, <1>3 DEF RecordInv
  <1> QED
    BY <1>5, <1>6, <1>7 DEF RecordInv

\* The write of the lock's owner turns a sound record into a sound record.
LEMMA WritingStep ==
    ASSUME TypeOK, LockInv, RecordInv, NEW u \in Updates, WriteRecord(u) \/ WriteFails(u)
    PROVE  RecordInv'
  <1>1. /\ pc[u] = "writing" /\ pc'[u] = "releasing"
        /\ \A v \in Updates \ {u} : pc'[v] = pc[v] /\ base'[v] = base[v] /\ verdict'[v] = verdict[v]
        /\ UNCHANGED expected
        /\ verdict'[u] = "ok" => record' = Merged(u)
        /\ record' = record \/ record' = Merged(u)
    BY DEF WriteRecord, WriteFails, Leave, Move, TypeOK
  <1>2. \A v \in Updates : pc'[v] # "writing"
    BY <1>1 DEF LockInv
  <1>3. \A v \in Updates :
          /\ pc'[v] = "returned" => verdict'[v] = "ok"
          /\ verdict'[v] = "ok" => pc'[v] \in Ending
    BY <1>1 DEF RecordInv, Ending
  <1>4. CASE record' = Merged(u)
    <2>1. Sound(base[u]) /\ base[u] \in Record /\ (expected[u] # 0 => expected[u] = base[u].version)
      BY <1>1 DEF RecordInv, TypeOK
    <2>2. /\ record'.patches = base[u].patches \cup {u}
          /\ record'.version = base[u].version + 1
          /\ record'.version = 1 + Cardinality(record'.patches)
          /\ u \notin base[u].patches
      BY <1>1, <1>4, MergeCounts
    <2>3. {v \in Updates : verdict'[v] = "ok"} \subseteq record'.patches
      BY <1>1, <2>1, <2>2 DEF Sound
    <2>4. base[u].version \in Nat /\ base[u].patches \subseteq Updates /\ expected \in [Updates -> Nat]
      BY <2>1 DEF Record, TypeOK
    <2>5. \A v \in record'.patches : pc'[v] \in Ending /\ expected'[v] < record'.version
      BY <1>1, <2>1, <2>2, <2>4 DEF Sound, Ending
    <2>6. \A v, w \in record'.patches : expected'[v] = expected'[w] /\ expected'[v] # 0 => v = w
      BY <1>1, <2>1, <2>2, <2>4 DEF Sound
    <2>7. Sound(record)'
      BY <2>2, <2>3, <2>5, <2>6 DEF Sound
    <2> QED
      BY <1>2, <1>3, <2>7 DEF RecordInv
  <1>5. CASE record' = record /\ record' # Merged(u)
    <2>1. verdict'[u] # "ok"
      BY <1>1, <1>5
    <2>2. ASSUME record.present
          PROVE  Sound(record)'
      <3>1. Sound(record) /\ record.patches \subseteq Updates
        BY <2>2 DEF RecordInv, TypeOK, Record
      <3>2. u \notin record.patches
        BY <1>1, <3>1 DEF Sound, Ending, Over
      <3> QED
        BY <1>1, <1>5, <2>1, <3>1, <3>2 DEF Sound
    <2> QED
      BY <1>2, <1>3, <1>5, <2>2 DEF RecordInv
  <1> QED
    BY <1>1, <1>4, <1>5

\* Releasing the lock, or dying, changes neither the record nor the snapshot
\* of another call.
LEMMA EndingStep ==
    ASSUME TypeOK, LockInv, RecordInv, NEW u \in Updates,
           Release(u) \/ ReleaseFails(u) \/ Die(u)
    PROVE  RecordInv'
  <1>1. /\ pc'[u] \in Over
        /\ pc'[u] = "returned" => verdict[u] = "ok"
        /\ \A v \in Updates \ {u} : pc'[v] = pc[v] /\ base'[v] = base[v]
        /\ UNCHANGED <<record, expected, verdict>>
    BY DEF Release, ReleaseFails, Die, Move, TypeOK, Over
  <1>2. ASSUME NEW r \in Record, Sound(r)
        PROVE  /\ r.version = 1 + Cardinality(r.patches)
               /\ {v \in Updates : verdict'[v] = "ok"} \subseteq r.patches
               /\ \A v \in r.patches :
                     pc'[v] \in Ending /\ expected'[v] < r.version
               /\ \A v, w \in r.patches : expected'[v] = expected'[w] /\ expected'[v] # 0 => v = w
    <2>1. r.patches \subseteq Updates
      BY DEF Record
    <2> QED
      BY <1>1, <1>2, <2>1 DEF Sound, Ending
  <1>3. record'.present => Sound(record)'
    BY <1>1, <1>2 DEF RecordInv, TypeOK, Sound
  <1>4. ASSUME NEW v \in Updates, pc'[v] = "writing"
        PROVE  /\ base'[v].present
               /\ Sound(base[v])'
               /\ expected'[v] # 0 => expected'[v] = base'[v].version
               /\ record'.present => base'[v] = record'
    <2>1. v # u /\ pc[v] = "writing" /\ base'[v] = base[v]
      BY <1>1, <1>4 DEF Over
    <2>2. base[v] \in Record /\ Sound(base[v])
      BY <2>1 DEF RecordInv, TypeOK
    <2> QED
      BY <1>1, <1>2, <2>1, <2>2 DEF RecordInv, Sound
  <1>5. \A v \in Updates :
          /\ pc'[v] = "returned" => verdict'[v] = "ok"
          /\ verdict'[v] = "ok" => pc'[v] \in Ending
    BY <1>1 DEF RecordInv, Ending
  <1> QED
    BY <1>3, <1>4, <1>5 DEF RecordInv

LEMMA NextRecord ==
    ASSUME TypeOK, LockInv, RecordInv, [Next]_vars
    PROVE  RecordInv'
  <1>1. CASE Initialize
    <2>1. \A u \in Updates : pc'[u] = "idle" /\ verdict'[u] # "ok"
      BY <1>1 DEF Initialize, LockInv, RecordInv, Ending, Over
    <2>2. Cardinality({}) = 0
      BY FS_EmptySet
    <2>3. Sound(record)'
      BY <1>1, <2>1, <2>2 DEF Initialize, FirstRecord, Sound
    <2> QED
      BY <2>1, <2>3 DEF RecordInv
  <1>2. CASE LoseRecord
    BY <1>2 DEF LoseRecord, NoRecord, RecordInv, Sound
  <1>3. CASE Expire
    BY <1>3 DEF Expire, RecordInv, Sound
  <1>4. CASE UNCHANGED vars
    BY <1>4 DEF vars, RecordInv, Sound
  <1> QED
    BY <1>1, <1>2, <1>3, <1>4, ReadingStep, WritingStep, EndingStep DEF Next, Step, Proceed, Done

LEMMA RecordCorrect ==
    ASSUME ~ SlowHolders
    PROVE  Spec => []RecordInv
  <1>1. Init => RecordInv
    BY DEF Init, RecordInv, NoRecord
  <1>2. TypeOK /\ LockInv /\ RecordInv /\ [Next]_vars => RecordInv'
    BY NextRecord
  <1> QED
    BY <1>1, <1>2, TypeCorrect, LockCorrect, PTL DEF Spec

\* If no call outlives its lock, no update that was answered with a snapshot
\* is ever missing from the record.
THEOREM NothingLost ==
    ASSUME ~ SlowHolders
    PROVE  Spec => []NoLostUpdate
  <1>1. RecordInv => NoLostUpdate
    BY DEF RecordInv, Sound, NoLostUpdate
  <1> QED
    BY <1>1, RecordCorrect, PTL

\* ...the version is one more than the number of updates in the record...
THEOREM VersionCorrect ==
    ASSUME ~ SlowHolders
    PROVE  Spec => []VersionCountsUpdates
  <1>1. RecordInv => VersionCountsUpdates
    BY DEF RecordInv, Sound, VersionCountsUpdates
  <1> QED
    BY <1>1, RecordCorrect, PTL

\* ...and of the updates that expect the same version one at most is applied.
THEOREM WinnerCorrect ==
    ASSUME ~ SlowHolders
    PROVE  Spec => []OneWinnerPerVersion
  <1>1. RecordInv => OneWinnerPerVersion
    BY DEF RecordInv, Sound, OneWinnerPerVersion
  <1> QED
    BY <1>1, RecordCorrect, PTL
-----------------------------------------------------------------------------
(***************************************************************************)
(* The refinement of AtomicMemory.                                         *)
(***************************************************************************)

\* A record that is not there is as good as new.
AbsentInv == ~ record.present => record = NoRecord

LEMMA AbsentCorrect ==
    ASSUME ~ SlowHolders
    PROVE  Spec => []AbsentInv
  <1>1. Init => AbsentInv
    BY DEF Init, AbsentInv
  <1>2. AbsentInv /\ [Next]_vars => AbsentInv'
    <2> SUFFICES ASSUME AbsentInv, [Next]_vars
                 PROVE  AbsentInv'
      OBVIOUS
    <2>1. \A u \in Updates : Merged(u).present
      BY DEF Merged
    <2>2. \/ UNCHANGED record
          \/ record' \in {FirstRecord, NoRecord}
          \/ \E u \in Updates : record' = Merged(u)
      BY DEF Next, vars, Initialize, Observe, Call, Step, Proceed, Acquire, AcquireFails,
           ReadRecord, ReadFails, WriteRecord, WriteFails, Release, ReleaseFails, Die, Expire,
           LoseRecord, Done
    <2> QED
      BY <2>1, <2>2 DEF AbsentInv, FirstRecord
  <1> QED
    BY <1>1, <1>2, PTL DEF Spec

\* Whoever writes, writes to what the readers see...
LEMMA WriterSees ==
    ASSUME LockInv, RecordInv, NEW u \in Updates, pc[u] = "writing"
    PROVE  Apparent = base[u]
  <1>1. \A v \in Updates : pc[v] = "writing" => v = u
    BY DEF LockInv
  <1>2. CASE record.present
    BY <1>2 DEF Apparent, Reviver, RecordInv
  <1>3. CASE ~ record.present
    <2>1. Reviver = {u}
      BY <1>1, <1>3 DEF Reviver
    <2> QED
      BY <2>1 DEF Apparent
  <1> QED
    BY <1>2, <1>3

\* ...which is the record itself while there is one, or nobody writes.
LEMMA ReadersSee ==
    ASSUME record.present \/ \A u \in Updates : pc[u] # "writing"
    PROVE  Apparent = record
  BY DEF Apparent, Reviver

LEMMA ReadersWillSee ==
    ASSUME record'.present \/ \A u \in Updates : pc'[u] # "writing"
    PROVE  Apparent' = record'
  BY DEF Apparent, Reviver

\* Who does not come to write, or cease to, changes nothing for the readers.
LEMMA BystanderStep ==
    ASSUME NEW u \in Updates, pc[u] # "writing", pc'[u] # "writing",
           UNCHANGED record,
           \A v \in Updates \ {u} : pc'[v] = pc[v] /\ base'[v] = base[v]
    PROVE  Apparent' = Apparent
  <1>1. Reviver' = Reviver
    BY DEF Reviver
  <1>2. CASE Reviver = {}
    BY <1>1, <1>2 DEF Apparent
  <1>3. CASE Reviver # {}
    <2>1. PICK v \in Reviver : v = CHOOSE w \in Reviver : TRUE
      BY <1>3
    <2>2. v \in Updates \ {u}
      BY DEF Reviver
    <2>3. base'[v] = base[v]
      BY <2>2
    <2> QED
      BY <1>1, <1>3, <2>1, <2>3 DEF Apparent
  <1> QED
    BY <1>2, <1>3

\* Who comes to no end has no answer yet.
LEMMA SilentStep ==
    ASSUME TypeOK, NEW u \in Updates, pc[u] \notin {"returned", "raised"},
           pc'[u] \notin {"returned", "raised"},
           \A v \in Updates \ {u} : pc'[v] = pc[v]
    PROVE  Answered' = Answered
  BY DEF Answered

\* An answer is given at one instant.
LEMMA AnsweringStep ==
    ASSUME NEW u \in Updates, NEW a \in {"ok", "error"},
           Apparent' = Apparent,
           a = "ok" /\ Apparent.present => u \in Apparent.patches,
           Answered[u] = "pending",
           Answered' = [Answered EXCEPT ![u] = a]
    PROVE  Atomic!Next
  BY DEF Atomic!Next, Atomic!Answer

LEMMA InitAtomic == Init => Atomic!Init
  <1> SUFFICES ASSUME Init
               PROVE  Atomic!Init
    OBVIOUS
  <1>1. Apparent = NoRecord
    BY ReadersSee DEF Init
  <1>2. Answered = [u \in Updates |-> "pending"]
    BY DEF Init, Answered
  <1> QED
    BY <1>1, <1>2 DEF Atomic!Init, NoRecord

\* The write is the instant at which an update happens; a snapshot that is
\* thrown away after the record has gone is the instant at which it goes.
LEMMA WritingIsAtomic ==
    ASSUME TypeOK, LockInv, RecordInv, AbsentInv, NEW u \in Updates,
           pc[u] = "writing", pc'[u] \in {"releasing", "dead"},
           \A v \in Updates \ {u} : pc'[v] = pc[v],
           record' \in {record, Merged(u)}
    PROVE  [Atomic!Next]_(Atomic!vars)
  <1>1. Apparent = base[u] /\ base[u].present
    BY WriterSees DEF RecordInv
  <1>2. \A v \in Updates : pc'[v] # "writing"
    BY DEF LockInv
  <1>3. Apparent' = record'
    BY <1>2, ReadersWillSee
  <1>4. Answered' = Answered
    BY SilentStep
  <1>5. Answered[u] = "pending"
    BY DEF Answered
  <1>6. CASE record' = Merged(u)
    <2>1. /\ record'.present /\ record'.patches = base[u].patches \cup {u}
          /\ record'.version = base[u].version + 1 /\ u \notin base[u].patches
      BY <1>6, MergeCounts
    <2>2. Atomic!Apply(u)
      BY <1>1, <1>3, <1>4, <1>5, <2>1 DEF Atomic!Apply
    <2> QED
      BY <2>2 DEF Atomic!Next
  <1>7. CASE record' = record /\ record.present
    <2>1. Apparent' = Apparent
      BY <1>1, <1>3, <1>7 DEF RecordInv
    <2> QED
      BY <1>4, <2>1 DEF Atomic!vars
  <1>8. CASE record' = record /\ ~ record.present
    <2>1. Apparent' = NoRecord
      BY <1>3, <1>8 DEF AbsentInv
    <2>2. Atomic!Vanish
      BY <1>4, <2>1 DEF Atomic!Vanish, NoRecord
    <2> QED
      BY <2>2 DEF Atomic!Next
  <1> QED
    BY <1>6, <1>7, <1>8

LEMMA EndingIsAtomic ==
    ASSUME TypeOK, LockInv, RecordInv, NEW u \in Updates,
           Release(u) \/ ReleaseFails(u) \/ AcquireFails(u)
    PROVE  Atomic!Next
  <1> DEFINE a == IF pc'[u] = "returned" THEN "ok" ELSE "error"
  <1>1. /\ pc[u] \in {"acquiring", "releasing"}
        /\ pc'[u] \in {"returned", "raised"}
        /\ pc'[u] = "returned" => pc[u] = "releasing" /\ verdict[u] = "ok"
        /\ \A v \in Updates \ {u} : pc'[v] = pc[v]
        /\ UNCHANGED <<record, base>>
    BY DEF Release, ReleaseFails, AcquireFails, Move, TypeOK
  <1>2. Apparent' = Apparent
    BY <1>1, BystanderStep
  <1>3. Answered[u] = "pending" /\ Answered' = [Answered EXCEPT ![u] = a]
    BY <1>1 DEF Answered
  <1>4. ASSUME a = "ok", Apparent.present
        PROVE  u \in Apparent.patches
    <2>1. pc[u] = "releasing" /\ verdict[u] = "ok"
      BY <1>1, <1>4
    <2>2. \A v \in Updates : pc[v] # "writing"
      BY <2>1 DEF LockInv
    <2>3. Apparent = record
      BY <2>2, ReadersSee
    <2> QED
      BY <1>4, <2>1, <2>3 DEF RecordInv, Sound
  <1> QED
    BY <1>2, <1>3, <1>4, AnsweringStep

LEMMA NextAtomic ==
    ASSUME ~ SlowHolders, TypeOK, LockInv, RecordInv, AbsentInv, [Next]_vars
    PROVE  [Atomic!Next]_(Atomic!vars)
  <1>1. CASE Initialize
    <2>1. \A u \in Updates : pc'[u] # "writing"
      BY <1>1 DEF Initialize, LockInv
    <2>2. Apparent' = FirstRecord
      BY <1>1, <2>1, ReadersWillSee DEF Initialize
    <2>3. Answered' = Answered
      BY <1>1 DEF Initialize, Answered
    <2>4. Atomic!Create
      BY <2>2, <2>3 DEF Atomic!Create, FirstRecord
    <2> QED
      BY <2>4 DEF Atomic!Next
  <1>2. ASSUME NEW u \in Updates, Observe(u) \/ Call(u) \/ Acquire(u) \/ ReadFails(u)
        PROVE  [Atomic!Next]_(Atomic!vars)
    <2>1. /\ pc[u] \in {"idle", "acquiring", "reading"}
          /\ pc'[u] \in {"idle", "acquiring", "reading", "releasing"}
          /\ \A v \in Updates \ {u} : pc'[v] = pc[v] /\ base'[v] = base[v]
          /\ UNCHANGED record
      BY <1>2 DEF Observe, Call, Acquire, ReadFails, Move, Leave, TypeOK
    <2>2. Apparent' = Apparent
      BY <2>1, BystanderStep
    <2>3. Answered' = Answered
      BY <2>1, SilentStep
    <2> QED
      BY <2>2, <2>3 DEF Atomic!vars
  <1>3. ASSUME NEW u \in Updates, ReadRecord(u)
        PROVE  [Atomic!Next]_(Atomic!vars)
    <2>1. /\ record.present /\ UNCHANGED record
          /\ pc[u] = "reading" /\ pc'[u] = "writing"
          /\ \A v \in Updates \ {u} : pc'[v] = pc[v]
      BY <1>3 DEF ReadRecord, Move, TypeOK
    <2>2. Apparent' = Apparent
      BY <2>1, ReadersSee, ReadersWillSee
    <2>3. Answered' = Answered
      BY <2>1, SilentStep
    <2> QED
      BY <2>2, <2>3 DEF Atomic!vars
  <1>4. ASSUME NEW u \in Updates, WriteRecord(u) \/ WriteFails(u)
        PROVE  [Atomic!Next]_(Atomic!vars)
    <2>1. /\ pc[u] = "writing" /\ pc'[u] = "releasing"
          /\ \A v \in Updates \ {u} : pc'[v] = pc[v]
          /\ record' \in {record, Merged(u)}
      BY <1>4 DEF WriteRecord, WriteFails, Move, Leave, TypeOK
    <2> QED
      BY <2>1, WritingIsAtomic
  <1>5. ASSUME NEW u \in Updates, Die(u)
        PROVE  [Atomic!Next]_(Atomic!vars)
    <2>1. /\ pc[u] \notin {"returned", "raised"} /\ pc'[u] = "dead"
          /\ \A v \in Updates \ {u} : pc'[v] = pc[v] /\ base'[v] = base[v]
          /\ UNCHANGED record
      BY <1>5 DEF Die, TypeOK, Over
    <2>2. CASE pc[u] = "writing"
      BY <2>1, <2>2, WritingIsAtomic
    <2>3. CASE pc[u] # "writing"
      <3>1. Apparent' = Apparent
        BY <2>1, <2>3, BystanderStep
      <3>2. Answered' = Answered
        BY <2>1, SilentStep
      <3> QED
        BY <3>1, <3>2 DEF Atomic!vars
    <2> QED
      BY <2>2, <2>3
  <1>6. CASE LoseRecord
    <2>1. record.present /\ record' = NoRecord /\ UNCHANGED <<pc, base, lock>>
      BY <1>6 DEF LoseRecord
    <2>2. Apparent = record
      BY <2>1, ReadersSee
    <2>3. Answered' = Answered
      BY <2>1 DEF Answered
    <2>4. CASE \A u \in Updates : pc[u] # "writing"
      <3>1. Apparent' = NoRecord
        BY <2>1, <2>4, ReadersWillSee
      <3>2. Atomic!Vanish
        BY <2>3, <3>1 DEF Atomic!Vanish, NoRecord
      <3> QED
        BY <3>2 DEF Atomic!Next
    <2>5. CASE \E u \in Updates : pc[u] = "writing"
      <3>1. PICK u \in Updates : pc[u] = "writing"
        BY <2>5
      <3>2. Reviver' = {u}
        <4>1. \A v \in Updates : pc[v] = "writing" => v = u
          BY <3>1 DEF LockInv
        <4>2. ~ record'.present
          BY <2>1 DEF NoRecord
        <4> QED
          BY <2>1, <3>1, <4>1, <4>2 DEF Reviver
      <3>3. Apparent' = base[u]
        BY <2>1, <3>2 DEF Apparent
      <3>4. Apparent' = Apparent
        BY <3>1, <3>3, WriterSees
      <3> QED
        BY <2>3, <3>4 DEF Atomic!vars
    <2> QED
      BY <2>4, <2>5
  <1>7. CASE Expire \/ UNCHANGED vars
    <2>1. UNCHANGED <<record, pc, base>>
      BY <1>7 DEF Expire, vars
    <2>2. Apparent' = Apparent /\ Answered' = Answered
      BY <2>1 DEF Apparent, Reviver, Answered
    <2> QED
      BY <2>2 DEF Atomic!vars
  <1> QED
    BY <1>1, <1>2, <1>3, <1>4, <1>5, <1>6, <1>7, EndingIsAtomic DEF Next, Step, Proceed, Done

\* If no call outlives its lock, the protocol of lock, read, merge and write
\* implements an update that happens at one instant or not at all.
THEOREM AtomicImplemented ==
    ASSUME ~ SlowHolders
    PROVE  Spec => ImplementsAtomic
  <1>1. TypeOK /\ LockInv /\ RecordInv /\ AbsentInv /\ [Next]_vars => [Atomic!Next]_(Atomic!vars)
    BY NextAtomic
  <1> QED
    BY <1>1, InitAtomic, TypeCorrect, LockCorrect, RecordCorrect, AbsentCorrect, PTL
       DEF Spec, ImplementsAtomic, Atomic!Spec
=============================================================================
