------------------------ MODULE OutputStoreImplements ------------------------
(***************************************************************************)
(* OutputStore implements HeldOutputs: a commit is one step of the         *)
(* abstract store, the passing of time is its Tick, and everything a       *)
(* thread does outside the lock is invisible.                              *)
(***************************************************************************)
EXTENDS OutputStoreProofs

\* The abstract store counts as the code does.
LEMMA SameCount ==
  ASSUME NEW S
  PROVE  Held!Cardinality(S) = Cardinality(S)
BY DEF Held!Cardinality, Cardinality, Held!IsFiniteSet, IsFiniteSet

\* What the sweep of a call drops.
Gone(lag) == DOMAIN outputs \ DOMAIN Swept(lag)

\* A sweep drops everything that must go and nothing that must stay: its own
\* sample and last_read are each at most MaxStall off.
LEMMA SweepIsExpiry ==
  ASSUME TypeOK, TimesAgree, NEW lag \in 0 .. MaxStall
  PROVE  /\ Held!Expiry(Gone(lag))
         /\ Gone(lag) \in SUBSET DOMAIN Docs
<1>1. \A id \in DOMAIN outputs :
        /\ outputs[id].idle \in Nat /\ outputs[id].unread \in Nat
        /\ Docs[id].unread = outputs[id].unread
  BY StoreAssumption DEF TypeOK, Output, IdleCap, Docs, Doc
<1>2. /\ DOMAIN Docs = DOMAIN outputs
      /\ Gone(lag) \subseteq DOMAIN outputs
  BY DEF Docs, Gone
<1>3. ASSUME NEW id \in DOMAIN outputs, outputs[id].unread > IdleTtl + MaxStall
      PROVE  id \in Gone(lag)
  <2>1. outputs[id].idle - lag > IdleTtl
    BY <1>1, <1>3, StoreAssumption DEF TimesAgree
  <2>2. id \notin DOMAIN Swept(lag)
    BY <1>1, <2>1, SweptPart, StoreAssumption
  <2>3. QED
    BY <2>2 DEF Gone
<1>4. ASSUME NEW id \in Gone(lag)
      PROVE  outputs[id].unread + MaxStall > IdleTtl
  <2>1. outputs[id].idle - lag > IdleTtl
    BY SweptPart DEF Gone
  <2>2. QED
    BY <1>1, <1>2, <2>1, StoreAssumption DEF TimesAgree
<1>5. QED
  BY <1>1, <1>2, <1>3, <1>4 DEF Held!Expiry, Held!MustExpire, Held!MayExpire

\* The abstract store and the code sweep down to the same documents.
LEMMA KeepIsSwept ==
  ASSUME TypeOK, NEW lag \in 0 .. MaxStall
  PROVE  /\ Held!Keep(Gone(lag)) = [id \in DOMAIN Swept(lag) |-> Doc(Swept(lag)[id])]
         /\ DOMAIN Swept(lag) = DOMAIN outputs \ Gone(lag)
         /\ Held!Sizes(Held!Keep(Gone(lag))) = SizeOf(Swept(lag))
<1>1. /\ DOMAIN Swept(lag) \subseteq DOMAIN outputs
      /\ \A id \in DOMAIN Swept(lag) : Swept(lag)[id] = outputs[id]
      /\ DOMAIN Docs = DOMAIN outputs
  BY SweptPart DEF Docs
<1>2. DOMAIN Swept(lag) = DOMAIN outputs \ Gone(lag)
  BY <1>1 DEF Gone
<1>3. Held!Keep(Gone(lag)) = [id \in DOMAIN Swept(lag) |-> Doc(Swept(lag)[id])]
  BY <1>1, <1>2 DEF Held!Keep, Docs
<1>4. Held!Sizes(Held!Keep(Gone(lag))) = SizeOf(Swept(lag))
  BY <1>3 DEF Held!Sizes, SizeOf, Doc
<1>5. QED
  BY <1>2, <1>3, <1>4

\* A refused call is an abstract refusal.
LEMMA RefusedImplements ==
  ASSUME TypeOK, TimesAgree, NEW lag \in 0 .. MaxStall,
         outputs' = Swept(lag), issued' = issued
  PROVE  Held!Refuse(Gone(lag))
<1>1. Docs' = Held!Keep(Gone(lag))
  BY KeepIsSwept DEF Docs, Doc
<1>2. Retired' = Retired \cup Gone(lag)
  BY KeepIsSwept DEF Retired, Gone, TypeOK
<1>3. QED
  BY <1>1, <1>2, SweepIsExpiry DEF Held!Refuse

\* An insertion is an abstract one: its id is fresh and its document fits.
LEMMA HoldImplements ==
  ASSUME TypeOK, TimesAgree, WithinBudget(outputs), NEW lag \in 0 .. MaxStall,
         NEW id \in Id \ issued, NEW size \in 0 .. MaxOutputBytes,
         ~ Cardinality(DOMAIN Swept(lag)) >= MaxLiveOutputs,
         ~ HeldBytes(Swept(lag)) + size > MaxTotalBytes,
         outputs' = WithOutput(Swept(lag), id, [size |-> size, idle |-> lag, unread |-> lag]),
         issued' = issued \cup {id}
  PROVE  Held!Hold(Gone(lag), id, size)
<1> DEFINE held == Swept(lag)
           gone == Gone(lag)
<1>1. /\ Held!Expiry(gone)
      /\ Held!Keep(gone) = [i \in DOMAIN held |-> Doc(held[i])]
      /\ DOMAIN held = DOMAIN outputs \ gone
      /\ Held!Sizes(Held!Keep(gone)) = SizeOf(held)
      /\ gone \subseteq DOMAIN outputs
      /\ DOMAIN Docs = DOMAIN outputs
  BY SweepIsExpiry, KeepIsSwept DEF Docs
<1>2. id \notin DOMAIN Docs \cup Retired
  BY <1>1 DEF Retired, TypeOK
<1>3. Held!Fits(Held!Keep(gone), size)
  <2>1. WithinBudget(held)
    <3>1. \A i \in DOMAIN held : held[i].size = outputs[i].size
      BY SweptPart
    <3>2. QED
      BY <1>1, <3>1, BudgetOfPart
  <2>2. /\ Cardinality(DOMAIN held) \in Nat
        /\ HeldBytes(held) \in Nat
    BY <2>1, FS_CardinalityType DEF WithinBudget, HeldBytes, TotalBytes
  <2>3. DOMAIN Held!Keep(gone) = DOMAIN held
    BY <1>1
  <2> HIDE DEF held, gone
  <2>4. Held!TotalBytes(Held!Sizes(Held!Keep(gone))) = HeldBytes(held)
    <3>1. Held!Bytes(SizeOf(held)) = Bytes(SizeOf(held))
      BY DEF Held!Bytes, Bytes
    <3>2. Held!TotalBytes(SizeOf(held)) = HeldBytes(held)
      BY <3>1, SameCount DEF Held!TotalBytes, TotalBytes, HeldBytes
    <3>3. QED
      BY <1>1, <3>2
  <2>5. /\ Cardinality(DOMAIN held) < MaxLiveOutputs
        /\ HeldBytes(held) + size <= MaxTotalBytes
    BY <2>2, StoreAssumption DEF held
  <2>6. size <= MaxOutputBytes
    BY StoreAssumption
  <2>7. /\ Cardinality(DOMAIN Held!Keep(gone)) < MaxLiveOutputs
        /\ Held!TotalBytes(Held!Sizes(Held!Keep(gone))) + size <= MaxTotalBytes
    BY <2>3, <2>4, <2>5
  <2>8. QED
    BY <2>6, <2>7, SameCount DEF Held!Fits
<1>4. Docs' = [i \in DOMAIN Held!Keep(gone) \cup {id} |->
                 IF i = id THEN [size |-> size, unread |-> lag] ELSE Docs[i]]
  <2>1. Docs' = [i \in DOMAIN held \cup {id} |->
                   IF i = id THEN [size |-> size, unread |-> lag] ELSE Doc(held[i])]
    BY DEF Docs, Doc, WithOutput
  <2>2. \A i \in DOMAIN held : Docs[i] = Doc(held[i])
    BY <1>1, SweptPart DEF Docs
  <2>3. QED
    BY <1>1, <2>1, <2>2
<1>5. Retired' = Retired \cup gone
  <2>1. DOMAIN outputs' = DOMAIN held \cup {id}
    BY DEF WithOutput
  <2>2. QED
    BY <1>1, <2>1 DEF Retired, TypeOK
<1> HIDE DEF held, gone
<1>6. Held!Hold(gone, id, size)
  BY <1>1, <1>2, <1>3, <1>4, <1>5 DEF Held!Hold
<1>7. QED
  BY <1>6 DEF gone

\* A read that is not refused is an abstract one: it never shortens the time
\* the document is kept.
LEMMA ReadImplements ==
  ASSUME TypeOK, TimesAgree, NEW lag \in 0 .. MaxStall,
         NEW id \in DOMAIN Swept(lag), NEW got,
         outputs' = WithOutput(Swept(lag), id, Touched(Swept(lag)[id], lag, got)),
         issued' = issued
  PROVE  Held!Read(Gone(lag), id)
<1> DEFINE held == Swept(lag)
           gone == Gone(lag)
           touched == Touched(held[id], lag, got)
<1>1. /\ Held!Expiry(gone)
      /\ Held!Keep(gone) = [i \in DOMAIN held |-> Doc(held[i])]
      /\ DOMAIN held = DOMAIN outputs \ gone
      /\ gone \subseteq DOMAIN outputs
      /\ DOMAIN Docs = DOMAIN outputs
      /\ Docs[id] = Doc(held[id])
  BY SweepIsExpiry, KeepIsSwept, SweptPart DEF Docs
<1>2. held[id] \in Output
  BY SweptPart
<1>3. /\ touched.unread \in 0 .. Docs[id].unread
      /\ touched.size = held[id].size
  BY <1>1, <1>2, StoreAssumption DEF Touched, Output, Smaller, Doc, IdleCap
<1>4. Docs' = [Held!Keep(gone) EXCEPT ![id].unread = touched.unread]
  <2>1. Docs' = [i \in DOMAIN held |-> IF i = id THEN Doc(touched) ELSE Doc(held[i])]
    BY DEF Docs, Doc, WithOutput
  <2>2. Doc(touched) = [Doc(held[id]) EXCEPT !.unread = touched.unread]
    BY <1>3 DEF Doc
  <2> HIDE DEF touched, held, gone
  <2>3. QED
    BY <1>1, <2>1, <2>2
<1>5. Retired' = Retired \cup gone
  <2>1. DOMAIN outputs' = DOMAIN held
    BY DEF WithOutput
  <2>2. QED
    BY <1>1, <2>1 DEF Retired, TypeOK
<1>6. id \in DOMAIN Docs \ gone
  BY <1>1
<1> HIDE DEF held, gone, touched
<1>7. Held!Read(gone, id)
  BY <1>1, <1>3, <1>4, <1>5, <1>6 DEF Held!Read
<1>8. QED
  BY <1>7 DEF gone

\* A release that is not refused is an abstract one: it takes exactly the
\* output it names.
LEMMA ReleaseImplements ==
  ASSUME TypeOK, TimesAgree, NEW lag \in 0 .. MaxStall, NEW id \in DOMAIN Swept(lag),
         outputs' = Without(Swept(lag), id), issued' = issued
  PROVE  Held!Release(Gone(lag), id)
<1> DEFINE held == Swept(lag)
           gone == Gone(lag)
<1>1. /\ Held!Expiry(gone)
      /\ DOMAIN held = DOMAIN outputs \ gone
      /\ gone \subseteq DOMAIN outputs
      /\ DOMAIN Docs = DOMAIN outputs
      /\ \A i \in DOMAIN held : Docs[i] = Doc(held[i])
  BY SweepIsExpiry, KeepIsSwept, SweptPart DEF Docs
<1>2. Docs' = Held!Keep(gone \cup {id})
  <2>1. Docs' = [i \in DOMAIN held \ {id} |-> Doc(held[i])]
    BY DEF Docs, Without
  <2>2. Held!Keep(gone \cup {id}) = [i \in DOMAIN held \ {id} |-> Docs[i]]
    BY <1>1 DEF Held!Keep
  <2>3. QED
    BY <1>1, <2>1, <2>2
<1>3. Retired' = Retired \cup gone \cup {id}
  <2>1. DOMAIN outputs' = DOMAIN held \ {id}
    BY DEF Without
  <2>2. QED
    BY <1>1, <2>1 DEF Retired, TypeOK
<1> HIDE DEF held, gone
<1>4. Held!Release(gone, id)
  BY <1>1, <1>2, <1>3 DEF Held!Release, held
<1>5. QED
  BY <1>4 DEF gone

-----------------------------------------------------------------------------

\* What happens under the lock is one step of the abstract store.
LEMMA CommitImplements ==
  ASSUME TypeOK, TimesAgree, WithinBudget(outputs), NEW w \in Worker, Commit(w)
  PROVE  Held!HeldNext
<1> DEFINE lag == call[w].lag
           held == Swept(lag)
           gone == Gone(lag)
           req == call[w].req
<1>1. lag \in 0 .. MaxStall
  BY TimedCall DEF Commit, CommitInsert, CommitRead, CommitRelease, InLock
<1>2. /\ gone \in SUBSET DOMAIN Docs
      /\ DOMAIN held \subseteq DOMAIN Docs
  BY <1>1, SweepIsExpiry, SweptPart DEF Docs
<1> HIDE DEF lag
<1>3. CASE outputs' = held /\ issued' = issued
  BY <1>1, <1>2, <1>3, RefusedImplements DEF Held!HeldNext
<1>4. CASE CommitInsert(w)
  <2>1. CASE /\ ~ Cardinality(DOMAIN held) >= MaxLiveOutputs
             /\ ~ HeldBytes(held) + req.size > MaxTotalBytes
             /\ HoldOutput(w, held)
    <3>1. PICK id \in Id \ issued :
            /\ outputs' = WithOutput(held, id,
                            [size |-> req.size, idle |-> lag, unread |-> lag])
            /\ issued' = issued \cup {id}
      BY <2>1 DEF HoldOutput, lag
    <3>2. req.size \in 0 .. MaxOutputBytes
      BY <1>4, InsertRequest DEF CommitInsert
    <3> HIDE DEF req
    <3>3. Held!Hold(gone, id, req.size)
      BY <1>1, <2>1, <3>1, <3>2, HoldImplements
    <3>4. QED
      BY <1>2, <3>2, <3>3 DEF Held!HeldNext
  <2>2. QED
    BY <1>3, <1>4, <2>1 DEF CommitInsert, Refused, lag
<1>5. CASE CommitRead(w)
  <2>1. CASE \E got : /\ req.id \in DOMAIN held
                      /\ outputs' = WithOutput(held, req.id, Touched(held[req.id], lag, got))
                      /\ issued' = issued
    <3> HIDE DEF req
    <3>1. Held!Read(gone, req.id)
      BY <1>1, <2>1, ReadImplements
    <3>2. QED
      BY <1>2, <2>1, <3>1 DEF Held!HeldNext
  <2>2. QED
    BY <1>3, <1>5, <2>1 DEF CommitRead, Refused, lag
<1>6. CASE CommitRelease(w)
  <2>1. CASE /\ req.id \in DOMAIN held
             /\ outputs' = Without(held, req.id)
             /\ issued' = issued
    <3> HIDE DEF req
    <3>1. Held!Release(gone, req.id)
      BY <1>1, <2>1, ReleaseImplements
    <3>2. QED
      BY <1>2, <2>1, <3>1 DEF Held!HeldNext
  <2>2. QED
    BY <1>3, <1>6, <2>1 DEF CommitRelease, Refused, lag
<1>7. QED
  BY <1>4, <1>5, <1>6 DEF Commit

\* Time passing is the Tick of the abstract store.
LEMMA TickImplements ==
  ASSUME TypeOK, Tick
  PROVE  Held!Tick
<1>1. /\ DOMAIN outputs' = DOMAIN outputs
      /\ \A id \in DOMAIN outputs :
           /\ outputs[id] \in Output
           /\ outputs'[id].size = outputs[id].size
           /\ outputs'[id].unread = Older(outputs[id].unread, IdleCap)
  BY DEF Tick, TypeOK, Output
<1>2. Docs' = [id \in DOMAIN outputs |-> Doc(outputs'[id])]
  BY <1>1 DEF Docs, Doc
<1>3. \A id \in DOMAIN outputs :
        Doc(outputs'[id]) = [Docs[id] EXCEPT !.unread = IF @ < IdleCap THEN @ + 1 ELSE @]
  BY <1>1 DEF Docs, Doc, Older
<1>4. Held!IdleCap = IdleCap
  BY DEF Held!IdleCap, IdleCap
<1>5. DOMAIN Docs = DOMAIN outputs
  BY DEF Docs
<1>6. Retired' = Retired
  BY <1>1 DEF Retired, Tick
<1>7. QED
  BY <1>2, <1>3, <1>4, <1>5, <1>6 DEF Held!Tick

\* Every behaviour of the store, seen through Docs and Retired, is one of the
\* abstract store.
THEOREM Implements == Spec => ImplementsHeldOutputs
<1>1. Init => Held!HeldInit
  BY DEF Init, Held!HeldInit, Docs, Retired
<1>2. TypeOK /\ TimesAgree /\ WithinBudget(outputs) /\ [Next]_vars
        => [Held!HeldNext]_(Held!heldVars)
  <2>1. SUFFICES ASSUME TypeOK, TimesAgree, WithinBudget(outputs), [Next]_vars
                 PROVE  [Held!HeldNext]_(Held!heldVars)
    OBVIOUS
  <2>2. ASSUME NEW w \in Worker, Commit(w) PROVE Held!HeldNext
    BY <2>1, <2>2, CommitImplements
  <2>3. CASE Tick
    BY <2>1, <2>3, TickImplements DEF Held!HeldNext
  <2>4. CASE outputs' = outputs /\ issued' = issued
    <3>1. Docs' = Docs /\ Retired' = Retired
      BY <2>4 DEF Docs, Retired
    <3>2. QED
      BY <3>1 DEF Held!heldVars
  <2>5. QED
    BY <2>1, <2>2, <2>3, <2>4 DEF Next, vars, BeginInsert, BeginRead, BeginRelease, Finish
<1>3. QED
  BY <1>1, <1>2, TypeCorrect, TimesAlwaysAgree, AlwaysWithinBudget, PTL
  DEF Spec, ImplementsHeldOutputs, Held!HeldSpec
=============================================================================
