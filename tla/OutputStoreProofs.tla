-------------------------- MODULE OutputStoreProofs --------------------------
(***************************************************************************)
(* Proofs about OutputStore, for every number of threads and every value   *)
(* of the limits.                                                          *)
(***************************************************************************)
EXTENDS OutputStore, FiniteSetTheorems, TLAPS

-----------------------------------------------------------------------------
(* The byte count of ByteBudget.                                           *)

\* Fewer documents, of the same sizes, have fewer bytes.
LEMMA BytesOfPart ==
  ASSUME NEW s, NEW t, DOMAIN t \subseteq DOMAIN s,
         \A id \in DOMAIN t : t[id] = s[id]
  PROVE  Bytes(t) \subseteq Bytes(s)
BY DEF Bytes

\* Dropping documents never raises the byte count.
LEMMA TotalOfPart ==
  ASSUME NEW s, NEW t, IsFiniteSet(Bytes(s)), DOMAIN t \subseteq DOMAIN s,
         \A id \in DOMAIN t : t[id] = s[id]
  PROVE  /\ IsFiniteSet(Bytes(t))
         /\ TotalBytes(t) \in Nat /\ TotalBytes(s) \in Nat
         /\ TotalBytes(t) <= TotalBytes(s)
<1>1. Bytes(t) \in SUBSET Bytes(s)
  BY BytesOfPart
<1>2. /\ IsFiniteSet(Bytes(t))
      /\ Cardinality(Bytes(t)) <= Cardinality(Bytes(s))
  BY <1>1, FS_Subset
<1>3. QED
  BY <1>2, FS_CardinalityType DEF TotalBytes

\* One document of n bytes has n bytes.
LEMMA TotalOfOne ==
  ASSUME NEW id, NEW n \in Nat
  PROVE  /\ IsFiniteSet({id} \X (1 .. n))
         /\ Cardinality({id} \X (1 .. n)) = n
<1>1. IsFiniteSet({id}) /\ Cardinality({id}) = 1
  BY FS_Singleton
<1>2. IsFiniteSet(1 .. n) /\ Cardinality(1 .. n) = n
  BY FS_Interval
<1>3. /\ IsFiniteSet({id} \X (1 .. n))
      /\ Cardinality({id} \X (1 .. n)) = Cardinality({id}) * Cardinality(1 .. n)
  BY <1>1, <1>2, FS_Product
<1>4. QED
  BY <1>1, <1>2, <1>3

\* Another document of n bytes adds n bytes.
LEMMA TotalWithOne ==
  ASSUME NEW s, NEW t, NEW id, NEW n \in Nat, IsFiniteSet(Bytes(s)),
         id \notin DOMAIN s, DOMAIN t = DOMAIN s \cup {id}, t[id] = n,
         \A i \in DOMAIN s : t[i] = s[i]
  PROVE  /\ IsFiniteSet(Bytes(t))
         /\ TotalBytes(s) \in Nat
         /\ TotalBytes(t) = TotalBytes(s) + n
<1> DEFINE one == {id} \X (1 .. n)
<1>1. Bytes(t) = Bytes(s) \cup one
  BY DEF Bytes
<1>2. Bytes(s) \cap one = {}
  BY DEF Bytes
<1>3. IsFiniteSet(one) /\ Cardinality(one) = n
  BY TotalOfOne
<1>4. Cardinality({}) = 0
  BY FS_EmptySet
<1> HIDE DEF one
<1>5. /\ IsFiniteSet(Bytes(s) \cup one)
      /\ Cardinality(Bytes(s) \cup one) =
           Cardinality(Bytes(s)) + Cardinality(one) - Cardinality(Bytes(s) \cap one)
  BY <1>3, FS_Union
<1>6. Cardinality(Bytes(s)) \in Nat
  BY FS_CardinalityType
<1>7. Cardinality(Bytes(s) \cap one) = 0
  BY <1>2, <1>4
<1>8. Cardinality(Bytes(s) \cup one) = Cardinality(Bytes(s)) + n
  BY <1>3, <1>5, <1>6, <1>7
<1>9. IsFiniteSet(Bytes(t))
  BY <1>1, <1>5
<1>10. Cardinality(Bytes(t)) = Cardinality(Bytes(s)) + n
  BY <1>1, <1>8
<1>11. QED
  BY <1>6, <1>9, <1>10 DEF TotalBytes

-----------------------------------------------------------------------------
(* What a thread that waits for the lock carries.                          *)

\* The sample of a waiting call is at most MaxStall ticks old.
LEMMA TimedCall ==
  ASSUME TypeOK, NEW w \in Worker, call[w].stage = "timed"
  PROVE  /\ call[w] \in [stage : {"timed"}, req : Request, lag : 0 .. MaxStall]
         /\ call[w].req \in Request
         /\ call[w].lag \in 0 .. MaxStall
<1>1. call[w] \in Call
  BY DEF TypeOK
<1>2. call[w] \in [stage : {"timed"}, req : Request, lag : 0 .. MaxStall]
  BY <1>1 DEF Call
<1>3. QED
  BY <1>2

\* The size of a waiting insertion has passed the per-output check.
LEMMA InsertRequest ==
  ASSUME TypeOK, NEW w \in Worker, InLock(w, "insert")
  PROVE  call[w].req.size \in 0 .. MaxOutputBytes
<1>1. call[w].req \in Request
  BY TimedCall DEF InLock
<1>2. QED
  BY <1>1 DEF InLock, Request

\* The arguments of a waiting read.
LEMMA ReadRequest ==
  ASSUME TypeOK, NEW w \in Worker, InLock(w, "read")
  PROVE  /\ call[w].req.id \in Id \cup {NoId}
         /\ call[w].req.offset \in Nat
         /\ call[w].req.len \in 0 .. MaxChunkBytes
<1>1. call[w].req \in Request
  BY TimedCall DEF InLock
<1>2. QED
  BY <1>1, StoreAssumption DEF InLock, Request

\* The id of a waiting release.
LEMMA ReleaseRequest ==
  ASSUME TypeOK, NEW w \in Worker, InLock(w, "release")
  PROVE  call[w].req.id \in Id \cup {NoId}
<1>1. call[w].req \in Request
  BY TimedCall DEF InLock
<1>2. QED
  BY <1>1 DEF InLock, Request

-----------------------------------------------------------------------------
(* What the sweep leaves.                                                  *)

\* A sweep keeps a part of the outputs, unchanged.
LEMMA SweptPart ==
  ASSUME TypeOK, NEW lag \in 0 .. MaxStall
  PROVE  /\ DOMAIN Swept(lag) \subseteq DOMAIN outputs
         /\ Swept(lag) \in [DOMAIN Swept(lag) -> Output]
         /\ \A id \in DOMAIN Swept(lag) :
              Swept(lag)[id] = outputs[id] /\ outputs[id].idle - lag <= IdleTtl
         /\ \A id \in DOMAIN outputs \ DOMAIN Swept(lag) :
              outputs[id].idle - lag > IdleTtl
<1>1. \A id \in DOMAIN outputs : outputs[id] \in Output
  BY DEF TypeOK
<1>2. \A id \in DOMAIN outputs : outputs[id].idle \in Int
  BY <1>1, StoreAssumption DEF Output, IdleCap
<1>3. QED
  BY <1>1, <1>2, StoreAssumption DEF Swept

-----------------------------------------------------------------------------
(* Type correctness, one lemma for each group of steps.                    *)

\* The part of the type invariant about what is held.
OutputsOK(held, ids) ==
  DOMAIN held \subseteq ids /\ held \in [DOMAIN held -> Output]

\* A reply is well formed.
LEMMA ReturnsTyped ==
  ASSUME TypeOK, NEW w \in Worker, NEW result \in {"Ok"} \cup OutputError,
         NEW id \in Id \cup {NoId}, NEW got \in 0 .. MaxChunkBytes,
         Returns(w, result, id, got)
  PROVE  call' \in [Worker -> Call]
<1>1. Returned(result, id, got) \in Call
  BY DEF Returned, Call
<1>2. QED
  BY <1>1 DEF Returns, TypeOK

\* A call that starts to wait is well formed.
LEMMA WaitsTyped ==
  ASSUME TypeOK, NEW w \in Worker, NEW req \in Request, Waits(w, req)
  PROVE  call' \in [Worker -> Call]
<1>1. Timed(req) \in Call
  BY StoreAssumption DEF Timed, Call
<1>2. QED
  BY <1>1 DEF Waits, TypeOK

\* The steps before the lock.
LEMMA BeginTyped ==
  ASSUME TypeOK, NEW w \in Worker,
         \/ \E size \in Size : BeginInsert(w, size)
         \/ \E id \in Nameable, offset \in Offset, len \in Length :
              BeginRead(w, id, offset, len)
         \/ \E id \in Nameable : BeginRelease(w, id)
  PROVE  TypeOK'
<1>0. Nameable \subseteq Id \cup {NoId}
  BY DEF Nameable, TypeOK
<1>1. ASSUME NEW size \in Size, BeginInsert(w, size)
      PROVE  TypeOK'
  <2>1. CASE size > MaxOutputBytes
    <3>1. Returns(w, "OutputTooLarge", NoId, 0)
      BY <1>1, <2>1, StoreAssumption DEF BeginInsert
    <3>2. call' \in [Worker -> Call]
      BY <3>1, ReturnsTyped, StoreAssumption DEF OutputError
    <3>3. QED
      BY <1>1, <3>2 DEF BeginInsert, TypeOK
  <2>2. CASE size <= MaxOutputBytes
    <3>1. Waits(w, [op |-> "insert", size |-> size])
      BY <1>1, <2>2, StoreAssumption DEF BeginInsert
    <3>2. [op |-> "insert", size |-> size] \in Request
      BY <2>2, StoreAssumption DEF Request
    <3>3. call' \in [Worker -> Call]
      BY <3>1, <3>2, WaitsTyped
    <3>4. QED
      BY <1>1, <3>3 DEF BeginInsert, TypeOK
  <2>3. QED
    BY <2>1, <2>2, StoreAssumption
<1>2. ASSUME NEW id \in Nameable, NEW offset \in Offset, NEW len \in Length,
             BeginRead(w, id, offset, len)
      PROVE  TypeOK'
  <2>1. CASE len > MaxChunkBytes
    <3>1. Returns(w, "ChunkTooLarge", id, 0)
      BY <1>2, <2>1, StoreAssumption DEF BeginRead
    <3>2. call' \in [Worker -> Call]
      BY <1>0, <3>1, ReturnsTyped, StoreAssumption DEF OutputError
    <3>3. QED
      BY <1>2, <3>2 DEF BeginRead, TypeOK
  <2>2. CASE len <= MaxChunkBytes
    <3>1. Waits(w, [op |-> "read", id |-> id, offset |-> offset, len |-> len])
      BY <1>2, <2>2, StoreAssumption DEF BeginRead
    <3>2. [op |-> "read", id |-> id, offset |-> offset, len |-> len] \in Request
      BY <1>0, <2>2, StoreAssumption DEF Request
    <3>3. call' \in [Worker -> Call]
      BY <3>1, <3>2, WaitsTyped
    <3>4. QED
      BY <1>2, <3>3 DEF BeginRead, TypeOK
  <2>3. QED
    BY <2>1, <2>2, StoreAssumption
<1>3. ASSUME NEW id \in Nameable, BeginRelease(w, id)
      PROVE  TypeOK'
  <2>1. [op |-> "release", id |-> id] \in Request
    BY <1>0 DEF Request
  <2>2. call' \in [Worker -> Call]
    BY <1>3, <2>1, WaitsTyped DEF BeginRelease
  <2>3. QED
    BY <1>3, <2>2 DEF BeginRelease, TypeOK
<1>4. QED
  BY <1>1, <1>2, <1>3

\* A refused call leaves what the sweep left.
LEMMA RefusedTyped ==
  ASSUME TypeOK, NEW w \in Worker, NEW lag \in 0 .. MaxStall,
         NEW result \in OutputError, NEW id \in Id \cup {NoId},
         Refused(w, Swept(lag), result, id)
  PROVE  TypeOK'
<1>1. Returns(w, result, id, 0)
  BY DEF Refused
<1>2. 0 \in 0 .. MaxChunkBytes
  BY StoreAssumption
<1>3. call' \in [Worker -> Call]
  BY <1>1, <1>2, ReturnsTyped
<1>4. QED
  BY <1>3, SweptPart DEF Refused, TypeOK

\* Holding an output under an id that is issued keeps what is held typed.
LEMMA WithOutputTyped ==
  ASSUME NEW held, NEW ids, OutputsOK(held, ids), NEW id, NEW output \in Output
  PROVE  /\ OutputsOK(WithOutput(held, id, output), ids \cup {id})
         /\ DOMAIN WithOutput(held, id, output) = DOMAIN held \cup {id}
BY DEF OutputsOK, WithOutput

\* Letting an output go keeps what is held typed.
LEMMA WithoutTyped ==
  ASSUME NEW held, NEW ids, OutputsOK(held, ids), NEW id
  PROVE  /\ OutputsOK(Without(held, id), ids)
         /\ DOMAIN Without(held, id) = DOMAIN held \ {id}
BY DEF OutputsOK, Without

\* The steps under the lock.
LEMMA CommitTyped ==
  ASSUME TypeOK, NEW w \in Worker, Commit(w)
  PROVE  TypeOK'
<1> DEFINE lag == call[w].lag
           held == Swept(lag)
           req == call[w].req
<1>1. lag \in 0 .. MaxStall
  BY TimedCall DEF Commit, CommitInsert, CommitRead, CommitRelease, InLock
<1>2. OutputsOK(held, issued)
  BY <1>1, SweptPart DEF OutputsOK, TypeOK
<1>3. /\ lag \in 0 .. IdleCap
      /\ 0 \in 0 .. MaxChunkBytes
  BY <1>1, StoreAssumption DEF IdleCap
<1> HIDE DEF lag, held, req
<1>4. CASE CommitInsert(w)
  <2>1. CASE \E result \in {"TooManyOutputs", "StoreFull"} : Refused(w, held, result, NoId)
    BY <1>1, <2>1, RefusedTyped DEF OutputError, held
  <2>2. CASE HoldOutput(w, held)
    <3>1. PICK id \in Id \ issued :
            /\ outputs' = WithOutput(held, id, [size |-> req.size, idle |-> lag, unread |-> lag])
            /\ issued' = issued \cup {id}
            /\ Returns(w, "Ok", id, 0)
      BY <2>2 DEF HoldOutput, lag, req
    <3>2. [size |-> req.size, idle |-> lag, unread |-> lag] \in Output
      BY <1>3, <1>4, InsertRequest DEF CommitInsert, Output, req
    <3>3. OutputsOK(outputs', issued')
      BY <1>2, <3>1, <3>2, WithOutputTyped
    <3>4. call' \in [Worker -> Call]
      BY <1>3, <3>1, ReturnsTyped
    <3>5. QED
      BY <3>1, <3>3, <3>4 DEF OutputsOK, TypeOK
  <2>3. QED
    BY <1>4, <2>1, <2>2 DEF CommitInsert, held, lag
<1>5. CASE CommitRead(w)
  <2> DEFINE got == Smaller(req.offset + req.len, held[req.id].size) - req.offset
  <2>1. /\ req.id \in Id \cup {NoId}
        /\ req.offset \in Nat
        /\ req.len \in 0 .. MaxChunkBytes
    BY <1>5, ReadRequest DEF CommitRead, req
  <2>2. CASE \E result \in {"UnknownOutput", "ReadPastEnd"} : Refused(w, held, result, req.id)
    BY <1>1, <2>1, <2>2, RefusedTyped DEF OutputError, held
  <2>3. CASE /\ req.id \in DOMAIN held
             /\ req.offset <= held[req.id].size
             /\ outputs' = WithOutput(held, req.id, Touched(held[req.id], lag, got))
             /\ Returns(w, "Ok", req.id, got)
             /\ UNCHANGED issued
    <3>1. /\ held[req.id] \in Output
          /\ req.id \in issued
      BY <1>2, <2>3 DEF OutputsOK
    <3>2. got \in 0 .. MaxChunkBytes
      <4>1. held[req.id].size \in Nat
        BY <3>1, StoreAssumption DEF Output
      <4>2. QED
        BY <2>1, <2>3, <4>1, StoreAssumption DEF Smaller
    <3>3. Touched(held[req.id], lag, got) \in Output
      BY <1>3, <3>1 DEF Touched, Output, Smaller
    <3>4. OutputsOK(outputs', issued')
      <4>1. issued \cup {req.id} = issued
        BY <3>1
      <4>2. OutputsOK(WithOutput(held, req.id, Touched(held[req.id], lag, got)),
                      issued \cup {req.id})
        BY <1>2, <3>3, WithOutputTyped
      <4>3. QED
        BY <2>3, <4>1, <4>2
    <3>5. call' \in [Worker -> Call]
      BY <2>1, <2>3, <3>2, ReturnsTyped
    <3>6. QED
      BY <2>3, <3>4, <3>5 DEF OutputsOK, TypeOK
  <2>4. QED
    BY <1>5, <2>2, <2>3 DEF CommitRead, held, lag, req
<1>6. CASE CommitRelease(w)
  <2>1. req.id \in Id \cup {NoId}
    BY <1>6, ReleaseRequest DEF CommitRelease, req
  <2>2. CASE Refused(w, held, "UnknownOutput", req.id)
    BY <1>1, <2>1, <2>2, RefusedTyped DEF OutputError, held
  <2>3. CASE /\ outputs' = Without(held, req.id)
             /\ Returns(w, "Ok", req.id, 0)
             /\ UNCHANGED issued
    <3>1. OutputsOK(outputs', issued')
      BY <1>2, <2>3, WithoutTyped
    <3>2. call' \in [Worker -> Call]
      BY <1>3, <2>1, <2>3, ReturnsTyped
    <3>3. QED
      BY <2>3, <3>1, <3>2 DEF OutputsOK, TypeOK
  <2>4. QED
    BY <1>6, <2>2, <2>3 DEF CommitRelease, held, lag, req
<1>7. QED
  BY <1>4, <1>5, <1>6 DEF Commit

\* Time passing.
LEMMA TickTyped ==
  ASSUME TypeOK, Tick
  PROVE  TypeOK'
<1>1. \A t \in 0 .. IdleCap : Older(t, IdleCap) \in 0 .. IdleCap
  BY StoreAssumption DEF Older, IdleCap
<1>2. outputs' \in [DOMAIN outputs -> Output]
  BY <1>1 DEF Tick, TypeOK, Output
<1>3. \A w \in Worker : call'[w] \in Call
  <2>1. SUFFICES ASSUME NEW w \in Worker PROVE call'[w] \in Call
    OBVIOUS
  <2>2. CASE call[w].stage = "timed"
    <3>1. /\ call[w] \in [stage : {"timed"}, req : Request, lag : 0 .. MaxStall]
          /\ call[w].lag < MaxStall
          /\ call'[w] = [call[w] EXCEPT !.lag = @ + 1]
      BY <2>2, TimedCall DEF Tick
    <3>2. call'[w] \in [stage : {"timed"}, req : Request, lag : 0 .. MaxStall]
      BY <3>1, StoreAssumption
    <3>3. QED
      BY <3>2 DEF Call
  <2>3. CASE call[w].stage # "timed"
    BY <2>3 DEF Tick, TypeOK
  <2>4. QED
    BY <2>2, <2>3
<1>4. call' \in [Worker -> Call]
  BY <1>3 DEF Tick
<1>5. QED
  BY <1>2, <1>4 DEF Tick, TypeOK

\* Every step of the store keeps the types.
LEMMA NextTyped ==
  ASSUME TypeOK, [Next]_vars
  PROVE  TypeOK'
<1>1. ASSUME NEW w \in Worker, Finish(w) PROVE TypeOK'
  BY <1>1 DEF Finish, TypeOK, Idle, Call
<1>2. CASE UNCHANGED vars
  BY <1>2 DEF vars, TypeOK
<1>3. QED
  BY <1>1, <1>2, BeginTyped, CommitTyped, TickTyped DEF Next

\* The store, the ids and the calls under way always have their types; in
\* particular no held document is larger than the per-output limit.
THEOREM TypeCorrect == Spec => []TypeOK
<1>1. Init => TypeOK
  BY DEF Init, TypeOK, Idle, Call
<1>2. TypeOK /\ [Next]_vars => TypeOK'
  BY NextTyped
<1>3. QED
  BY <1>1, <1>2, PTL DEF Spec

-----------------------------------------------------------------------------
(* The budgets.                                                            *)

\* Bounds, with the finiteness that makes its two cardinalities numbers.
WithinBudget(held) ==
  /\ IsFiniteSet(DOMAIN held)
  /\ Cardinality(DOMAIN held) <= MaxLiveOutputs
  /\ IsFiniteSet(Bytes(SizeOf(held)))
  /\ HeldBytes(held) <= MaxTotalBytes

\* What is left of the outputs stays within the budgets.
LEMMA BudgetOfPart ==
  ASSUME NEW held, NEW part, WithinBudget(held), DOMAIN part \subseteq DOMAIN held,
         \A id \in DOMAIN part : part[id].size = held[id].size
  PROVE  WithinBudget(part)
<1>1. /\ IsFiniteSet(DOMAIN part)
      /\ Cardinality(DOMAIN part) <= Cardinality(DOMAIN held)
  BY FS_Subset DEF WithinBudget
<1>2. /\ Cardinality(DOMAIN part) \in Nat
      /\ Cardinality(DOMAIN held) \in Nat
  BY <1>1, FS_CardinalityType DEF WithinBudget
<1>3. /\ IsFiniteSet(Bytes(SizeOf(part)))
      /\ HeldBytes(part) \in Nat /\ HeldBytes(held) \in Nat
      /\ HeldBytes(part) <= HeldBytes(held)
  BY TotalOfPart DEF WithinBudget, HeldBytes, SizeOf
<1>4. QED
  BY <1>1, <1>2, <1>3, StoreAssumption DEF WithinBudget

\* An output that fits stays within the budgets.
LEMMA BudgetOfMore ==
  ASSUME NEW held, WithinBudget(held), NEW id, id \notin DOMAIN held,
         NEW output, output.size \in Nat,
         Cardinality(DOMAIN held) < MaxLiveOutputs,
         HeldBytes(held) + output.size <= MaxTotalBytes
  PROVE  WithinBudget(WithOutput(held, id, output))
<1> DEFINE more == WithOutput(held, id, output)
<1>1. /\ DOMAIN more = DOMAIN held \cup {id}
      /\ DOMAIN SizeOf(more) = DOMAIN SizeOf(held) \cup {id}
      /\ SizeOf(more)[id] = output.size
      /\ \A i \in DOMAIN SizeOf(held) : SizeOf(more)[i] = SizeOf(held)[i]
      /\ id \notin DOMAIN SizeOf(held)
      /\ IsFiniteSet(Bytes(SizeOf(held)))
  BY DEF WithOutput, SizeOf, WithinBudget
<1>2. /\ IsFiniteSet(DOMAIN held \cup {id})
      /\ Cardinality(DOMAIN held \cup {id}) = Cardinality(DOMAIN held) + 1
      /\ Cardinality(DOMAIN held) \in Nat
  BY FS_AddElement, FS_CardinalityType DEF WithinBudget
<1>3. /\ IsFiniteSet(Bytes(SizeOf(more)))
      /\ TotalBytes(SizeOf(held)) \in Nat
      /\ TotalBytes(SizeOf(more)) = TotalBytes(SizeOf(held)) + output.size
  <2> HIDE DEF more
  <2>1. QED
    BY <1>1, TotalWithOne
<1> HIDE DEF more
<1>4. Cardinality(DOMAIN more) <= MaxLiveOutputs
  BY <1>1, <1>2, StoreAssumption
<1>5. QED
  BY <1>1, <1>2, <1>3, <1>4, StoreAssumption DEF WithinBudget, HeldBytes, more

\* A commit checks the budgets on what its sweep left, and inserts under the
\* same lock.
LEMMA CommitWithin ==
  ASSUME TypeOK, WithinBudget(outputs), NEW w \in Worker, Commit(w)
  PROVE  WithinBudget(outputs')
<1> DEFINE held == Swept(call[w].lag)
           req == call[w].req
<1>1. call[w].lag \in 0 .. MaxStall
  BY TimedCall DEF Commit, CommitInsert, CommitRead, CommitRelease, InLock
<1>2. /\ DOMAIN held \subseteq DOMAIN outputs
      /\ \A id \in DOMAIN held : held[id] = outputs[id] /\ held[id] \in Output
  BY <1>1, SweptPart
<1>3. WithinBudget(held)
  <2>1. \A id \in DOMAIN held : held[id].size = outputs[id].size
    BY <1>2
  <2>2. QED
    BY <1>2, <2>1, BudgetOfPart
<1> HIDE DEF held, req
<1>4. CASE CommitInsert(w)
  <2>1. CASE outputs' = held
    BY <1>3, <2>1
  <2>2. CASE /\ ~ Cardinality(DOMAIN held) >= MaxLiveOutputs
             /\ ~ HeldBytes(held) + req.size > MaxTotalBytes
             /\ HoldOutput(w, held)
    <3>1. PICK id \in Id \ issued :
            outputs' = WithOutput(held, id,
              [size |-> req.size, idle |-> call[w].lag, unread |-> call[w].lag])
      BY <2>2 DEF HoldOutput, req
    <3>2. id \notin DOMAIN held
      BY <1>2 DEF TypeOK
    <3>3. req.size \in Nat
      BY <1>4, InsertRequest, StoreAssumption DEF CommitInsert, req
    <3>4. /\ Cardinality(DOMAIN held) < MaxLiveOutputs
          /\ HeldBytes(held) + req.size <= MaxTotalBytes
      <4>1. /\ Cardinality(DOMAIN held) \in Nat
            /\ HeldBytes(held) \in Nat
        BY <1>3, FS_CardinalityType DEF WithinBudget, HeldBytes, TotalBytes
      <4>2. QED
        BY <2>2, <3>3, <4>1, StoreAssumption
    <3>5. QED
      BY <1>3, <3>1, <3>2, <3>3, <3>4, BudgetOfMore
  <2>3. QED
    BY <1>4, <2>1, <2>2 DEF CommitInsert, Refused, held, req
<1>5. CASE CommitRead(w)
  <2>1. CASE outputs' = held
    BY <1>3, <2>1
  <2>2. CASE \E got : /\ req.id \in DOMAIN held
                      /\ outputs' = WithOutput(held, req.id,
                                      Touched(held[req.id], call[w].lag, got))
    <3>1. PICK got : /\ req.id \in DOMAIN held
                     /\ outputs' = WithOutput(held, req.id,
                                     Touched(held[req.id], call[w].lag, got))
      BY <2>2
    <3>2. Touched(held[req.id], call[w].lag, got).size = held[req.id].size
      BY <1>2, <3>1 DEF Touched, Output
    <3>3. /\ DOMAIN outputs' = DOMAIN held
          /\ \A id \in DOMAIN held : outputs'[id].size = held[id].size
      BY <3>1, <3>2 DEF WithOutput
    <3>4. QED
      BY <1>3, <3>3, BudgetOfPart
  <2>3. QED
    BY <1>5, <2>1, <2>2 DEF CommitRead, Refused, held, req
<1>6. CASE CommitRelease(w)
  <2>1. CASE outputs' = held
    BY <1>3, <2>1
  <2>2. CASE outputs' = Without(held, req.id)
    <3>1. /\ DOMAIN outputs' \subseteq DOMAIN held
          /\ \A id \in DOMAIN outputs' : outputs'[id].size = held[id].size
      BY <2>2 DEF Without
    <3>2. QED
      BY <1>3, <3>1, BudgetOfPart
  <2>3. QED
    BY <1>6, <2>1, <2>2 DEF CommitRelease, Refused, held, req
<1>7. QED
  BY <1>4, <1>5, <1>6 DEF Commit

\* The inductive form of Bounds.
LEMMA AlwaysWithinBudget == Spec => []WithinBudget(outputs)
<1>1. Init => WithinBudget(outputs)
  <2>1. SUFFICES ASSUME Init PROVE WithinBudget(outputs)
    OBVIOUS
  <2>2. DOMAIN outputs = {} /\ DOMAIN SizeOf(outputs) = {}
    BY <2>1 DEF Init, SizeOf
  <2>3. Bytes(SizeOf(outputs)) = {}
    BY <2>2 DEF Bytes
  <2>4. QED
    BY <2>2, <2>3, FS_EmptySet, StoreAssumption DEF WithinBudget, HeldBytes, TotalBytes
<1>2. TypeOK /\ WithinBudget(outputs) /\ [Next]_vars => WithinBudget(outputs')
  <2>1. SUFFICES ASSUME TypeOK, WithinBudget(outputs), [Next]_vars
                 PROVE  WithinBudget(outputs')
    OBVIOUS
  <2>2. ASSUME NEW w \in Worker, Commit(w) PROVE WithinBudget(outputs')
    BY <2>1, <2>2, CommitWithin
  <2>3. CASE Tick
    <3>1. /\ DOMAIN outputs' = DOMAIN outputs
          /\ \A id \in DOMAIN outputs : outputs'[id].size = outputs[id].size
      BY <2>1, <2>3 DEF Tick, TypeOK, Output
    <3>2. QED
      BY <2>1, <3>1, BudgetOfPart
  <2>4. CASE outputs' = outputs
    BY <2>1, <2>4
  <2>5. QED
    BY <2>1, <2>2, <2>3, <2>4 DEF Next, vars, BeginInsert, BeginRead, BeginRelease, Finish
<1>3. WithinBudget(outputs)' <=> WithinBudget(outputs')
  BY DEF WithinBudget
<1>4. QED
  BY <1>1, <1>2, <1>3, TypeCorrect, PTL DEF Spec

\* At most MaxLiveOutputs documents of at most MaxTotalBytes bytes together
\* are held at any time, whatever the threads do.
THEOREM AlwaysWithinBounds == Spec => []Bounds
<1>1. WithinBudget(outputs) => Bounds
  BY DEF WithinBudget, Bounds
<1>2. QED
  BY <1>1, AlwaysWithinBudget, PTL

-----------------------------------------------------------------------------
(* The clock samples.                                                      *)

\* One output whose last_read is not ahead of, and at most MaxStall behind,
\* the latest sample it was read with.
InStep(output) ==
  /\ output.unread <= output.idle
  /\ output.idle <= output.unread + MaxStall

\* A commit stamps an output with its own sample, which is no older than
\* MaxStall: this may put last_read back, but by no more than that.
LEMMA CommitInStep ==
  ASSUME TypeOK, TimesAgree, NEW w \in Worker, Commit(w), NEW id \in DOMAIN outputs'
  PROVE  InStep(outputs'[id])
<1> DEFINE lag == call[w].lag
           held == Swept(lag)
           req == call[w].req
<1>1. lag \in 0 .. MaxStall
  BY TimedCall DEF Commit, CommitInsert, CommitRead, CommitRelease, InLock
<1>2. \A i \in DOMAIN held : held[i] \in Output /\ InStep(held[i])
  BY <1>1, SweptPart DEF TimesAgree, InStep
<1> HIDE DEF lag, held, req
<1>3. CASE outputs' = held
  BY <1>2, <1>3
<1>4. CASE \E i : outputs' = WithOutput(held, i,
                    [size |-> req.size, idle |-> lag, unread |-> lag])
  BY <1>1, <1>2, <1>4, StoreAssumption DEF WithOutput, InStep
<1>5. CASE \E i \in DOMAIN held : \E got :
             outputs' = WithOutput(held, i, Touched(held[i], lag, got))
  <2>0. PICK i \in DOMAIN held :
          \E got : outputs' = WithOutput(held, i, Touched(held[i], lag, got))
    BY <1>5
  <2>1. PICK got : outputs' = WithOutput(held, i, Touched(held[i], lag, got))
    BY <2>0
  <2>2. InStep(Touched(held[i], lag, got))
    <3>1. /\ held[i] \in Output
          /\ held[i].unread \in Nat
          /\ InStep(held[i])
      BY <1>2, <2>0, StoreAssumption DEF Output, IdleCap
    <3>2. CASE got > 0
      <4>1. /\ Touched(held[i], lag, got).idle = lag
            /\ Touched(held[i], lag, got).unread = Smaller(held[i].unread, lag)
        BY <3>1, <3>2 DEF Touched, Output
      <4>2. QED
        BY <1>1, <3>1, <4>1, StoreAssumption DEF InStep, Smaller
    <3>3. CASE ~ (got > 0)
      BY <3>1, <3>3 DEF Touched
    <3>4. QED
      BY <3>2, <3>3
  <2>3. QED
    BY <1>2, <2>1, <2>2 DEF WithOutput
<1>6. CASE \E i : outputs' = Without(held, i)
  BY <1>2, <1>6 DEF Without
<1>7. QED
  BY <1>3, <1>4, <1>5, <1>6
  DEF Commit, CommitInsert, CommitRead, CommitRelease, HoldOutput, Refused, lag, held, req

\* last_read is at most MaxStall behind the latest productive read.
THEOREM TimesAlwaysAgree == Spec => []TimesAgree
<1>1. Init => TimesAgree
  BY DEF Init, TimesAgree
<1>2. TypeOK /\ TimesAgree /\ [Next]_vars => TimesAgree'
  <2>1. SUFFICES ASSUME TypeOK, TimesAgree, [Next]_vars PROVE TimesAgree'
    OBVIOUS
  <2>2. ASSUME NEW w \in Worker, Commit(w) PROVE TimesAgree'
    BY <2>1, <2>2, CommitInStep DEF TimesAgree, InStep
  <2>3. CASE Tick
    <3>1. SUFFICES ASSUME NEW id \in DOMAIN outputs PROVE InStep(outputs'[id])
      BY <2>3 DEF Tick, TimesAgree, InStep
    <3>2. /\ outputs[id] \in Output
          /\ InStep(outputs[id])
      BY <2>1 DEF TypeOK, TimesAgree, InStep
    <3>3. /\ outputs'[id].idle = Older(outputs[id].idle, IdleCap)
          /\ outputs'[id].unread = Older(outputs[id].unread, IdleCap)
      BY <2>3, <3>2 DEF Tick, Output
    <3>4. /\ outputs[id].idle \in 0 .. IdleCap
          /\ outputs[id].unread \in 0 .. IdleCap
          /\ IdleCap \in Nat
      BY <3>2, StoreAssumption DEF Output, IdleCap
    <3>5. QED
      BY <3>2, <3>3, <3>4, StoreAssumption DEF InStep, Older
  <2>4. CASE outputs' = outputs
    BY <2>1, <2>4 DEF TimesAgree
  <2>5. QED
    BY <2>1, <2>2, <2>3, <2>4 DEF Next, vars, BeginInsert, BeginRead, BeginRelease, Finish
<1>3. QED
  BY <1>1, <1>2, TypeCorrect, PTL DEF Spec
=============================================================================
