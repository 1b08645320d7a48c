------------------------ MODULE DocumentsServiceProofs -----------------------
(***************************************************************************)
(* Proofs about DocumentsService: it uses the store only through its       *)
(* operations, nothing is held without an owner, and batches are answered  *)
(* whole, for every number of tasks and ids, every method, and batches of  *)
(* every length.                                                           *)
(***************************************************************************)
EXTENDS DocumentsService, OutputStoreImplements, SequenceLemmas

-----------------------------------------------------------------------------
(* The inductive invariant.                                                *)

Batched == {"holding", "undoing", "replied"}

\* A task and the store call it waits for belong together: an insertion while it
\* holds its products, the release of the first page left while it undoes them;
\* and an output that a release has named, or an UnknownOutput was said of, is
\* gone.
InOrder(w) ==
  /\ InHand(w) \subseteq issued
  /\ task[w].at \in Batched => IsInjective(task[w].pages)
  /\ task[w].at = "holding" =>
       /\ call[w].stage = "timed" => call[w].req.op = "insert"
       /\ call[w].stage = "returned" /\ call[w].result = "Ok" =>
            call[w].id \notin ToSet(task[w].pages)
  /\ task[w].at = "undoing" =>
       /\ call[w].stage # "idle" => task[w].pages # <<>>
       /\ call[w].stage = "timed" =>
            call[w].req.op = "release" /\ call[w].req.id = Head(task[w].pages)
       /\ call[w].stage = "returned" => Head(task[w].pages) \notin DOMAIN outputs
  /\ task[w].at = "accessing" =>
       /\ call[w].stage = "timed" =>
            call[w].req.op \in {"read", "release"} /\ call[w].req.id \in Nameable
       /\ call[w].stage = "returned" =>
            /\ call[w].id \in Nameable
            /\ call[w].result = "UnknownOutput" => call[w].id \notin DOMAIN outputs
  /\ task[w].at = "replied" =>
       /\ task[w].about \in Nameable
       /\ task[w].result = "UnknownOutput" => task[w].about \notin DOMAIN outputs

ServiceInv ==
  /\ TypeOK
  /\ TaskTypeOK
  /\ OneOwner
  /\ \A w \in Worker : InOrder(w)

-----------------------------------------------------------------------------
(* Tasks and what they own.                                                *)

\* The fields of a task by its state.
LEMMA TaskTyped ==
  ASSUME TaskTypeOK, NEW w \in Worker
  PROVE  /\ task[w].at \in {"free", "working", "holding", "undoing", "accessing", "replied"}
         /\ task[w].at = "working" => task[w].method \in Method /\ task[w].todo \in Seq(Stage)
         /\ task[w].at = "holding" =>
              /\ task[w].sizes \in Seq(Size) /\ task[w].sizes # <<>>
              /\ task[w].pages \in Seq(Id)
         /\ task[w].at = "undoing" =>
              task[w].pages \in Seq(Id) /\ task[w].error \in ErrorName
         /\ task[w].at = "replied" =>
              /\ task[w].pages \in Seq(Id)
              /\ task[w].result \in {"Ok"} \cup ErrorName
              /\ task[w].about \in Id \cup {NoId}
<1>1. task[w] \in Task
  BY DEF TaskTypeOK
<1>2. QED
  BY <1>1 DEF Task

\* The states of a task are typed.
LEMMA TaskStates ==
  /\ Free \in Task
  /\ Accessing \in Task
  /\ \A m \in Method, todo \in Seq(Stage) : Working(m, todo) \in Task
  /\ \A sizes \in Seq(Size), pages \in Seq(Id) : AfterHold(sizes, pages) \in Task
  /\ \A pages \in Seq(Id), error \in ErrorName : Undoing(pages, error) \in Task
  /\ \A result \in {"Ok"} \cup ErrorName, pages \in Seq(Id), about \in Id \cup {NoId} :
       Replied(result, pages, about) \in Task
BY DEF Free, Accessing, Working, AfterHold, Holding, Undoing, Replied, Task

\* What a task owns, without the set comprehension.
LEMMA Owning ==
  ASSUME NEW w \in Worker
  PROVE  InHand(w) =
           (IF task[w].at \in Batched THEN ToSet(task[w].pages) ELSE {})
             \cup (IF task[w].at = "holding" /\ call[w].stage = "returned" /\ call[w].result = "Ok"
                   THEN {call[w].id} ELSE {})
BY DEF InHand, Batched

-----------------------------------------------------------------------------
(* Any step of one task.                                                   *)

\* The other tasks are not disturbed by a step that leaves them and their calls
\* alone and holds outputs under new ids only.
LEMMA OthersInOrder ==
  ASSUME TypeOK, NEW w \in Worker, InOrder(w), TaskTypeOK,
         task'[w] = task[w], call'[w] = call[w], issued \subseteq issued',
         DOMAIN outputs' \cap issued \subseteq DOMAIN outputs,
         DOMAIN outputs' \subseteq issued', issued' \subseteq Id
  PROVE  InOrder(w)' /\ InHand(w)' = InHand(w)
<1>1. InHand(w)' = InHand(w)
  BY DEF InHand
<1>2. NoId \notin issued'
  BY StoreAssumption
<1>3. \A id \in Nameable : id \in DOMAIN outputs' => id \in DOMAIN outputs
  BY <1>2 DEF Nameable
<1>4. ASSUME task[w].at = "undoing", call[w].stage = "returned"
      PROVE  Head(task[w].pages) \notin DOMAIN outputs'
  <2>1. task[w].pages \in Seq(Id) /\ task[w].pages # <<>>
    BY <1>4, TaskTyped DEF InOrder
  <2>2. Head(task[w].pages) \in InHand(w)
    BY <1>4, <2>1, ElementsOfTail, Owning DEF Batched
  <2>3. QED
    BY <1>4, <2>2 DEF InOrder
<1>5. Nameable \subseteq Nameable'
  BY DEF Nameable
<1>6. QED
  BY <1>1, <1>3, <1>4, <1>5 DEF InOrder

\* What a task takes into its hands is new, what it lets go is not held.
LEMMA OwnersKept ==
  ASSUME OneOwner, NEW w \in Worker, given \cup lost \subseteq issued,
         \A v \in Worker : InHand(v) \subseteq issued,
         UNCHANGED <<given, lost>>,
         \A v \in Worker \ {w} : InHand(v)' = InHand(v),
         InHand(w)' \cap issued \subseteq InHand(w),
         DOMAIN outputs' \subseteq DOMAIN outputs \cup InHand(w)',
         DOMAIN outputs' \cap InHand(w) \subseteq InHand(w)'
  PROVE  OneOwner'
<1>1. DOMAIN outputs' \subseteq given \cup lost \cup UNION {InHand(v)' : v \in Worker}
  <2>1. SUFFICES ASSUME NEW id \in DOMAIN outputs', id \notin given \cup lost
                 PROVE  \E v \in Worker : id \in InHand(v)'
    OBVIOUS
  <2>2. CASE id \in InHand(w)'
    BY <2>2
  <2>3. CASE id \notin InHand(w)'
    <3>1. PICK v \in Worker : id \in InHand(v)
      BY <2>1, <2>3 DEF OneOwner
    <3>2. v # w
      BY <2>3, <3>1
    <3>3. QED
      BY <3>1, <3>2
  <2>4. QED
    BY <2>2, <2>3
<1>2. ASSUME NEW u \in Worker, NEW v \in Worker
      PROVE  /\ InHand(u)' \cap (given \cup lost) = {}
             /\ u # v => InHand(u)' \cap InHand(v)' = {}
  BY DEF OneOwner
<1>3. QED
  BY <1>1, <1>2 DEF OneOwner

\* A step of one task keeps the invariant if it leaves the others alone, takes
\* nothing into its hands but what is new, and lets go only what is not held.
LEMMA StepOfOne ==
  ASSUME ServiceInv, NEW w \in Worker, TypeOK',
         UNCHANGED <<given, lost>>, issued \subseteq issued',
         DOMAIN outputs' \cap issued \subseteq DOMAIN outputs,
         \A v \in Worker \ {w} : task'[v] = task[v] /\ call'[v] = call[v],
         NEW state \in Task, task' = [task EXCEPT ![w] = state],
         IF call'[w].stage = "idle" THEN state.at # "accessing"
         ELSE state.at \in {"holding", "undoing", "accessing"},
         InOrder(w)',
         InHand(w)' \cap issued \subseteq InHand(w),
         DOMAIN outputs' \subseteq DOMAIN outputs \cup InHand(w)',
         DOMAIN outputs' \cap InHand(w) \subseteq InHand(w)'
  PROVE  ServiceInv'
<1> USE DEF ServiceInv
<1>1. \A v \in Worker \ {w} : InOrder(v)' /\ InHand(v)' = InHand(v)
  <2>1. DOMAIN outputs' \subseteq issued' /\ issued' \subseteq Id
    BY DEF TypeOK
  <2>2. QED
    BY <2>1, OthersInOrder
<1>2. OneOwner'
  <2>1. given \cup lost \subseteq issued
    BY DEF TaskTypeOK
  <2>2. \A v \in Worker : InHand(v) \subseteq issued
    BY DEF InOrder
  <2>3. QED
    BY <1>1, <2>1, <2>2, OwnersKept
<1>3. TaskTypeOK'
  <2>1. task' \in [Worker -> Task] /\ task'[w] = state
    BY DEF TaskTypeOK
  <2>2. given' \subseteq issued' /\ lost' \subseteq issued'
    BY DEF TaskTypeOK
  <2>3. \A v \in Worker : IF call'[v].stage = "idle" THEN task'[v].at # "accessing"
                          ELSE task'[v].at \in {"holding", "undoing", "accessing"}
    BY <2>1 DEF TaskTypeOK
  <2>4. QED
    BY <2>1, <2>2, <2>3 DEF TaskTypeOK
<1>4. \A v \in Worker : InOrder(v)'
  BY <1>1
<1>5. QED
  BY <1>2, <1>3, <1>4

-----------------------------------------------------------------------------
(* Steps of a task that leave the store alone.                             *)

PagesOf(state) == IF state.at \in Batched THEN ToSet(state.pages) ELSE {}

\* A task whose state has no call under way, and that answers for no more than
\* before: nothing else needs to be checked.
LEMMA StepOutsideStore ==
  ASSUME ServiceInv, NEW w \in Worker, NEW state \in Task, Moves(w, state),
         UNCHANGED <<outputs, issued, given, lost>>,
         \/ UNCHANGED call /\ task[w].at \notin {"holding", "undoing", "accessing"}
         \/ UNCHANGED call /\ call[w].stage = "idle"
         \/ Finish(w),
         state.at # "accessing",
         PagesOf(state) \subseteq InHand(w),
         DOMAIN outputs \cap InHand(w) \subseteq PagesOf(state),
         state.at \in Batched => IsInjective(state.pages),
         state.at = "replied" =>
           /\ state.about \in Nameable
           /\ state.result = "UnknownOutput" => state.about \notin DOMAIN outputs
  PROVE  ServiceInv'
<1> USE DEF ServiceInv
<1>1. /\ call'[w].stage = "idle"
      /\ \A v \in Worker \ {w} : call'[v] = call[v]
      /\ TypeOK'
  <2>1. CASE Finish(w)
    <3>1. call' = [call EXCEPT ![w] = Idle] /\ call \in [Worker -> Call]
      BY <2>1 DEF Finish, TypeOK
    <3>2. [Next]_vars
      BY <2>1 DEF Next
    <3>3. QED
      BY <3>1, <3>2, NextTyped DEF Idle
  <2>2. CASE UNCHANGED call /\ call[w].stage = "idle"
    BY <2>2 DEF TypeOK
  <2>3. CASE UNCHANGED call /\ task[w].at \notin {"holding", "undoing", "accessing"}
    BY <2>2, <2>3 DEF TaskTypeOK
  <2>4. QED
    BY <2>1, <2>2, <2>3
<1>2. task'[w] = state /\ \A v \in Worker \ {w} : task'[v] = task[v]
  BY DEF Moves, TaskTypeOK
<1>3. InHand(w)' = PagesOf(state)
  BY <1>1, <1>2 DEF InHand, PagesOf, Batched
<1>4. InOrder(w)'
  <2>1. InHand(w)' \subseteq issued'
    BY <1>3 DEF InOrder
  <2>2. Nameable' = Nameable
    BY DEF Nameable
  <2>3. QED
    BY <1>1, <1>2, <2>1, <2>2 DEF InOrder
<1>5. QED
  BY <1>1, <1>2, <1>3, <1>4, StepOfOne DEF Moves

\* What a method does in order: it starts with a stage.
LEMMA Plans ==
  ASSUME NEW m \in Method
  PROVE  Plan(m) \in Seq(Stage)
<1>1. \A a, b, c \in Stage : <<a, b>> \in Seq(Stage) /\ <<a, b, c>> \in Seq(Stage)
  OBVIOUS
<1>2. {"validate", "stream", "resolve", "image", "work"} \subseteq Stage
  BY DEF Stage
<1>3. QED
  BY <1>1, <1>2 DEF Plan

\* A stage fails under a wire name that says what failed.
LEMMA FailuresTyped ==
  ASSUME NEW stage \in Stage, NEW m
  PROVE  Failures(stage, m) \subseteq ErrorName
BY DEF Failures, Stage, ErrorName

\* What the blocking work yields has the sizes of documents.
LEMMA ProductsTyped ==
  ASSUME NEW m, NEW sizes \in Products(m)
  PROVE  sizes \in Seq(Size)
<1>1. CASE sizes \in Batch
  BY <1>1, ServiceAssumption
<1>2. ASSUME NEW size \in Size, sizes = <<size>>
      PROVE  sizes \in Seq(Size)
  BY <1>2
<1>3. CASE sizes = <<>>
  BY <1>3
<1>4. QED
  BY <1>1, <1>2, <1>3 DEF Products

\* The steps before anything is held, and the end of a rollback.
LEMMA WorkInOrder ==
  ASSUME ServiceInv, NEW w \in Worker,
         \/ \E m \in Method : Accept(w, m)
         \/ Proceed(w)
         \/ \E error \in ErrorName : Fail(w, error)
         \/ \E sizes : WorkDone(w, sizes)
         \/ UndoDone(w)
  PROVE  ServiceInv'
<1> USE DEF ServiceInv
<1>0. ToSet(<<>>) = {} /\ IsInjective(<<>>) /\ <<>> \in Seq(Id)
  BY DEF ToSet, IsInjective
<1>1. ASSUME NEW state \in Task, Moves(w, state),
             UNCHANGED <<vars, given, lost>>,
             \/ task[w].at \in {"free", "working"}
             \/ task[w].at = "undoing" /\ task[w].pages = <<>>,
             \/ state.at \in {"working"}
             \/ state.at \in {"holding", "replied"} /\ state.pages = <<>>,
             state.at = "replied" => state.about = NoId
      PROVE  ServiceInv'
  <2>1. UNCHANGED <<outputs, issued, call, given, lost>>
    BY <1>1 DEF vars
  <2>2. InHand(w) = {} /\ PagesOf(state) = {}
    BY <1>0, <1>1, Owning DEF PagesOf, Batched
  <2>3. \/ task[w].at \notin {"holding", "undoing", "accessing"}
        \/ call[w].stage = "idle"
    BY <1>1 DEF InOrder
  <2>4. NoId \in Nameable /\ NoId \notin DOMAIN outputs
    BY StoreAssumption DEF Nameable, TypeOK
  <2>5. /\ state.at # "accessing"
        /\ state.at \in Batched => IsInjective(state.pages)
        /\ state.at = "replied" =>
             /\ state.about \in Nameable
             /\ state.result = "UnknownOutput" => state.about \notin DOMAIN outputs
    BY <1>0, <1>1, <2>4 DEF Batched
  <2>6. QED
    BY <1>1, <2>1, <2>2, <2>3, <2>5, StepOutsideStore
<1>2. ASSUME NEW m \in Method, Accept(w, m) PROVE ServiceInv'
  <2>1. Working(m, Plan(m)) \in Task
    BY Plans, TaskStates
  <2>2. QED
    BY <1>1, <1>2, <2>1 DEF Accept, Free, Working
<1>3. CASE Proceed(w)
  <2>1. task[w].method \in Method /\ Tail(task[w].todo) \in Seq(Stage)
    BY <1>3, TaskTyped DEF Proceed
  <2>2. Working(task[w].method, Tail(task[w].todo)) \in Task
    BY <2>1, TaskStates
  <2>3. QED
    BY <1>1, <1>3, <2>2 DEF Proceed, Working
<1>4. ASSUME NEW error \in ErrorName, Fail(w, error) PROVE ServiceInv'
  BY <1>0, <1>1, <1>4, StoreAssumption, TaskStates DEF Fail, Replied
<1>5. ASSUME NEW sizes, WorkDone(w, sizes) PROVE ServiceInv'
  <2>1. AfterHold(sizes, <<>>) \in Task
    BY <1>0, <1>5, ProductsTyped, TaskStates DEF WorkDone
  <2>2. QED
    BY <1>1, <1>5, <2>1 DEF WorkDone, AfterHold, Holding, Replied
<1>6. CASE UndoDone(w)
  <2>1. task[w].error \in ErrorName
    BY <1>6, TaskTyped DEF UndoDone
  <2>2. QED
    BY <1>0, <1>1, <1>6, <2>1, TaskStates DEF UndoDone, Replied
<1>7. QED
  BY <1>2, <1>3, <1>4, <1>5, <1>6

-----------------------------------------------------------------------------
(* The reply of the store is taken.                                        *)

\* A reply of the store has its type, and a wire name that keeps apart what the
\* task tells apart.
LEMMA ReplyTyped ==
  ASSUME TypeOK, NEW w \in Worker, call[w].stage = "returned"
  PROVE  /\ call[w].result \in {"Ok"} \cup OutputError
         /\ call[w].id \in Id \cup {NoId}
         /\ WireName(call[w].result) \in {"Ok"} \cup ErrorName
         /\ call[w].result # "Ok" => WireName(call[w].result) \in ErrorName
         /\ WireName(call[w].result) = "UnknownOutput" => call[w].result = "UnknownOutput"
<1>1. call[w] \in Call
  BY DEF TypeOK
<1>2. call[w].result \in {"Ok"} \cup OutputError /\ call[w].id \in Id \cup {NoId}
  BY <1>1 DEF Call
<1>3. \A result \in OutputError :
        /\ WireName(result) \in ErrorName
        /\ WireName(result) = "UnknownOutput" => result = "UnknownOutput"
  BY DEF WireName, OutputError, ErrorName
<1>4. WireName("Ok") = "Ok"
  BY DEF WireName
<1>5. QED
  BY <1>2, <1>3, <1>4

\* After an insertion: the next page, the reply, or the rollback.
LEMMA HoldReturnInOrder ==
  ASSUME ServiceInv, NEW w \in Worker, HoldReturn(w)
  PROVE  ServiceInv'
<1> USE DEF ServiceInv
<1>1. /\ task[w].at = "holding"
      /\ call[w].stage = "returned"
      /\ Finish(w)
      /\ UNCHANGED <<outputs, issued, given, lost>>
  BY DEF HoldReturn, Finish
<1>2. /\ task[w].sizes \in Seq(Size) /\ task[w].sizes # <<>>
      /\ task[w].pages \in Seq(Id)
      /\ IsInjective(task[w].pages)
  BY <1>1, TaskTyped DEF InOrder, Batched
<1>3. CASE call[w].result = "Ok"
  <2> DEFINE pages == Append(task[w].pages, call[w].id)
             state == AfterHold(Tail(task[w].sizes), pages)
  <2>1. InHand(w) = ToSet(task[w].pages) \cup {call[w].id}
    BY <1>1, <1>3, Owning DEF Batched
  <2>2. call[w].id \in Id /\ call[w].id \notin ToSet(task[w].pages)
    BY <1>1, <1>3, <2>1 DEF InOrder, TypeOK
  <2>3. pages \in Seq(Id) /\ ToSet(pages) = InHand(w) /\ IsInjective(pages)
    BY <1>2, <2>1, <2>2, ElementsOfAppend, InjectiveAppend
  <2> HIDE DEF pages
  <2>4. Tail(task[w].sizes) \in Seq(Size)
    BY <1>2, ElementsOfTail
  <2>5. state \in Task
    BY <2>3, <2>4, TaskStates
  <2>6. /\ state.at \in {"holding", "replied"} /\ state.pages = pages
        /\ state.at = "replied" => state.result = "Ok" /\ state.about = NoId
    BY DEF AfterHold, Holding, Replied
  <2>7. Moves(w, state)
    BY <1>3 DEF HoldReturn, pages
  <2> HIDE DEF state
  <2>8. PagesOf(state) = InHand(w) /\ NoId \in Nameable
    BY <2>3, <2>6 DEF PagesOf, Batched, Nameable
  <2>9. QED
    BY <1>1, <2>3, <2>5, <2>6, <2>7, <2>8, StepOutsideStore
<1>4. CASE call[w].result # "Ok"
  <2> DEFINE state == Undoing(task[w].pages, WireName(call[w].result))
  <2>1. state \in Task
    BY <1>1, <1>2, <1>4, ReplyTyped, TaskStates
  <2>2. state.at = "undoing" /\ state.pages = task[w].pages
    BY DEF Undoing
  <2>3. Moves(w, state)
    BY <1>4 DEF HoldReturn
  <2> HIDE DEF state
  <2>4. PagesOf(state) = InHand(w)
    BY <1>1, <1>4, <2>2, Owning DEF PagesOf, Batched
  <2>5. QED
    BY <1>1, <1>2, <2>1, <2>2, <2>3, <2>4, StepOutsideStore
<1>5. QED
  BY <1>3, <1>4

\* After a release of the rollback: the page is gone, whatever the reply says.
LEMMA UndoReturnInOrder ==
  ASSUME ServiceInv, NEW w \in Worker, UndoReturn(w)
  PROVE  ServiceInv'
<1> USE DEF ServiceInv
<1> DEFINE state == Undoing(Tail(task[w].pages), task[w].error)
<1>1. /\ task[w].at = "undoing"
      /\ call[w].stage = "returned"
      /\ Finish(w)
      /\ UNCHANGED <<outputs, issued, given, lost>>
      /\ Moves(w, state)
  BY DEF UndoReturn, Finish
<1>2. /\ task[w].pages \in Seq(Id) /\ task[w].pages # <<>>
      /\ task[w].error \in ErrorName
      /\ IsInjective(task[w].pages)
      /\ Head(task[w].pages) \notin DOMAIN outputs
  BY <1>1, TaskTyped DEF InOrder, Batched
<1>3. /\ Tail(task[w].pages) \in Seq(Id) /\ IsInjective(Tail(task[w].pages))
      /\ ToSet(task[w].pages) = {Head(task[w].pages)} \cup ToSet(Tail(task[w].pages))
  BY <1>2, ElementsOfTail, InjectiveTail
<1>4. state \in Task /\ state.at = "undoing" /\ state.pages = Tail(task[w].pages)
  BY <1>2, <1>3, TaskStates DEF Undoing
<1> HIDE DEF state
<1>5. /\ InHand(w) = ToSet(task[w].pages)
      /\ PagesOf(state) = ToSet(Tail(task[w].pages))
  BY <1>1, <1>4, Owning DEF PagesOf, Batched
<1>6. QED
  BY <1>1, <1>2, <1>3, <1>4, <1>5, StepOutsideStore

\* After a read or a release for a caller.
LEMMA AccessReturnInOrder ==
  ASSUME ServiceInv, NEW w \in Worker, AccessReturn(w)
  PROVE  ServiceInv'
<1> USE DEF ServiceInv
<1> DEFINE state == Replied(WireName(call[w].result), <<>>, call[w].id)
<1>1. /\ task[w].at = "accessing"
      /\ call[w].stage = "returned"
      /\ Finish(w)
      /\ UNCHANGED <<outputs, issued, given, lost>>
      /\ Moves(w, state)
  BY DEF AccessReturn, Finish
<1>2. ToSet(<<>>) = {} /\ IsInjective(<<>>) /\ <<>> \in Seq(Id)
  BY DEF ToSet, IsInjective
<1>3. /\ state \in Task
      /\ state.at = "replied" /\ state.pages = <<>>
      /\ state.result = WireName(call[w].result) /\ state.about = call[w].id
  BY <1>1, <1>2, ReplyTyped, TaskStates DEF Replied
<1> HIDE DEF state
<1>4. PagesOf(state) = {} /\ InHand(w) = {}
  BY <1>1, <1>2, <1>3, Owning DEF PagesOf, Batched
<1>5. /\ state.about \in Nameable
      /\ state.result = "UnknownOutput" => state.about \notin DOMAIN outputs
  BY <1>1, <1>3, ReplyTyped DEF InOrder
<1>6. QED
  BY <1>1, <1>2, <1>3, <1>4, <1>5, StepOutsideStore

-----------------------------------------------------------------------------
(* The store is called.                                                    *)

\* A task that waits for the store owns what it owned, and what it waits for is
\* in order: nothing else needs to be checked.
LEMMA StepIntoStore ==
  ASSUME ServiceInv, NEW w \in Worker, TypeOK', NEW state \in Task, Moves(w, state),
         UNCHANGED <<outputs, issued, given, lost>>,
         NEW next, call' = [call EXCEPT ![w] = next],
         next.stage \in {"timed", "returned"},
         next.stage = "returned" => next.result # "Ok",
         state.at \in {"holding", "undoing", "accessing"},
         PagesOf(state) = PagesOf(task[w]), call[w].stage = "idle",
         InOrder(w)'
  PROVE  ServiceInv'
<1> USE DEF ServiceInv
<1>1. call'[w] = next /\ \A v \in Worker \ {w} : call'[v] = call[v]
  BY DEF TypeOK
<1>2. task'[w] = state /\ \A v \in Worker \ {w} : task'[v] = task[v]
  BY DEF Moves, TaskTypeOK
<1>3. InHand(w) = PagesOf(task[w])
  BY Owning DEF PagesOf
<1>4. InHand(w)' = PagesOf(state)
  BY <1>1, <1>2 DEF InHand, PagesOf, Batched
<1>5. IF call'[w].stage = "idle" THEN state.at # "accessing"
      ELSE state.at \in {"holding", "undoing", "accessing"}
  BY <1>1
<1>6. outputs' = outputs /\ issued' = issued /\ InHand(w)' = InHand(w)
  BY <1>3, <1>4
<1>7. QED
  BY <1>1, <1>2, <1>5, <1>6, StepOfOne DEF Moves

\* The next page is inserted.
LEMMA HoldNextInOrder ==
  ASSUME ServiceInv, NEW w \in Worker, HoldNext(w)
  PROVE  ServiceInv' /\ \E size \in Size : BeginInsert(w, size)
<1> USE DEF ServiceInv
<1> DEFINE size == Head(task[w].sizes)
<1>1. task[w].at = "holding" /\ BeginInsert(w, size) /\ UNCHANGED <<task, given, lost>>
  BY DEF HoldNext
<1>2. size \in Size
  BY <1>1, TaskTyped, ElementsOfTail
<1>3. TypeOK'
  BY <1>1, <1>2, BeginTyped
<1>4. Moves(w, task[w]) /\ task[w] \in Task
  BY <1>1 DEF Moves, TaskTypeOK
<1>5. call[w].stage = "idle" /\ UNCHANGED <<outputs, issued, task>>
  BY <1>1 DEF BeginInsert
<1>6. PICK next : /\ call' = [call EXCEPT ![w] = next]
                  /\ \/ next.stage = "returned" /\ next.result = "OutputTooLarge"
                     \/ next.stage = "timed" /\ next.req.op = "insert"
  <2>1. CASE Returns(w, "OutputTooLarge", NoId, 0)
    <3> DEFINE reply == Returned("OutputTooLarge", NoId, 0)
    <3>1. call' = [call EXCEPT ![w] = reply]
      BY <2>1 DEF Returns
    <3>2. reply.stage = "returned" /\ reply.result = "OutputTooLarge"
      BY DEF Returned
    <3>3. QED
      BY <3>1, <3>2
  <2>2. CASE Waits(w, [op |-> "insert", size |-> size])
    <3> DEFINE wait == Timed([op |-> "insert", size |-> size])
    <3>1. call' = [call EXCEPT ![w] = wait]
      BY <2>2 DEF Waits
    <3>2. wait.stage = "timed" /\ wait.req.op = "insert"
      BY DEF Timed
    <3>3. QED
      BY <3>1, <3>2
  <2>3. QED
    BY <1>1, <2>1, <2>2 DEF BeginInsert
<1>7. call'[w] = next
  BY <1>6 DEF TypeOK
<1>8. InHand(w)' = InHand(w)
  BY <1>5, <1>6, <1>7 DEF InHand
<1>9. InOrder(w)'
  BY <1>1, <1>5, <1>6, <1>7, <1>8 DEF InOrder
<1>10. QED
  BY <1>1, <1>2, <1>3, <1>4, <1>5, <1>6, <1>9, StepIntoStore

\* The first page left is released.
LEMMA UndoNextInOrder ==
  ASSUME ServiceInv, NEW w \in Worker, UndoNext(w)
  PROVE  ServiceInv' /\ \E id \in Nameable : BeginRelease(w, id)
<1> USE DEF ServiceInv
<1> DEFINE id == Head(task[w].pages)
           next == Timed([op |-> "release", id |-> id])
<1>1. /\ task[w].at = "undoing" /\ task[w].pages # <<>>
      /\ BeginRelease(w, id) /\ UNCHANGED <<task, given, lost>>
  BY DEF UndoNext
<1>2. id \in Nameable
  <2>1. task[w].pages \in Seq(Id)
    BY <1>1, TaskTyped
  <2>2. id \in InHand(w)
    BY <1>1, <2>1, ElementsOfTail, Owning DEF Batched
  <2>3. QED
    BY <2>2 DEF InOrder, Nameable
<1>3. TypeOK'
  BY <1>1, <1>2, BeginTyped
<1>4. Moves(w, task[w]) /\ task[w] \in Task
  BY <1>1 DEF Moves, TaskTypeOK
<1>5. /\ call[w].stage = "idle" /\ UNCHANGED <<outputs, issued, task>>
      /\ call' = [call EXCEPT ![w] = next]
  BY <1>1 DEF BeginRelease, Waits
<1>6. next.stage = "timed" /\ next.req.op = "release" /\ next.req.id = id
  BY DEF Timed
<1> HIDE DEF next
<1>7. call'[w] = next
  BY <1>5 DEF TypeOK
<1>8. InHand(w)' = InHand(w)
  BY <1>1, <1>5 DEF InHand
<1>9. InOrder(w)'
  BY <1>1, <1>5, <1>6, <1>7, <1>8 DEF InOrder
<1>10. QED
  BY <1>1, <1>2, <1>3, <1>4, <1>5, <1>6, <1>9, StepIntoStore

\* A caller names an output that was issued, or none.
LEMMA NamedNameable ==
  ASSUME ServiceInv
  PROVE  Named \subseteq Nameable
BY DEF Named, Nameable, ServiceInv, TaskTypeOK

\* A caller's read or release begins.
LEMMA AccessInOrder ==
  ASSUME ServiceInv, NEW w \in Worker, NEW id \in Named,
         \/ \E offset \in Offset, len \in Length : ReadOutput(w, id, offset, len)
         \/ ReleaseOutput(w, id)
  PROVE  /\ ServiceInv'
         /\ \/ \E offset \in Offset, len \in Length : BeginRead(w, id, offset, len)
            \/ BeginRelease(w, id)
<1> USE DEF ServiceInv
<1>1. id \in Nameable
  BY NamedNameable
<1>2. /\ \/ \E offset \in Offset, len \in Length : BeginRead(w, id, offset, len)
         \/ BeginRelease(w, id)
      /\ task[w] = Free /\ Moves(w, Accessing) /\ UNCHANGED <<given, lost>>
  BY DEF ReadOutput, ReleaseOutput
<1>3. TypeOK'
  BY <1>1, <1>2, BeginTyped
<1>4. call[w].stage = "idle" /\ UNCHANGED <<outputs, issued>>
  BY <1>2 DEF BeginRead, BeginRelease
<1>5. PICK next : /\ call' = [call EXCEPT ![w] = next]
                  /\ \/ /\ next.stage = "returned" /\ next.result = "ChunkTooLarge"
                        /\ next.id = id
                     \/ /\ next.stage = "timed" /\ next.req.op \in {"read", "release"}
                        /\ next.req.id = id
  <2> DEFINE Called(next) ==
               /\ call' = [call EXCEPT ![w] = next]
               /\ \/ /\ next.stage = "returned" /\ next.result = "ChunkTooLarge"
                     /\ next.id = id
                  \/ /\ next.stage = "timed" /\ next.req.op \in {"read", "release"}
                     /\ next.req.id = id
  <2>1. ASSUME NEW offset \in Offset, NEW len \in Length, BeginRead(w, id, offset, len)
        PROVE  \E next : Called(next)
    <3>1. CASE Returns(w, "ChunkTooLarge", id, 0)
      <4>1. Called(Returned("ChunkTooLarge", id, 0))
        BY <3>1 DEF Returns, Returned
      <4>2. QED
        BY <4>1
    <3>2. CASE Waits(w, [op |-> "read", id |-> id, offset |-> offset, len |-> len])
      <4>1. Called(Timed([op |-> "read", id |-> id, offset |-> offset, len |-> len]))
        BY <3>2 DEF Waits, Timed
      <4>2. QED
        BY <4>1
    <3>3. QED
      BY <2>1, <3>1, <3>2 DEF BeginRead
  <2>2. ASSUME BeginRelease(w, id)
        PROVE  \E next : Called(next)
    <3>1. Called(Timed([op |-> "release", id |-> id]))
      BY <2>2 DEF BeginRelease, Waits, Timed
    <3>2. QED
      BY <3>1
  <2>3. \E next : Called(next)
    <3> HIDE DEF Called
    <3>1. QED
      BY <1>2, <2>1, <2>2
  <2>4. QED
    BY <2>3
<1>6. call'[w] = next
  BY <1>5 DEF TypeOK
<1>7. /\ Accessing \in Task /\ Accessing.at = "accessing"
      /\ PagesOf(Accessing) = {} /\ PagesOf(task[w]) = {}
  BY <1>2, TaskStates DEF PagesOf, Accessing, Free, Batched
<1>8. task'[w] = Accessing
  BY <1>2 DEF Moves, TaskTypeOK
<1>9. InHand(w)' = {}
  BY <1>7, <1>8 DEF InHand
<1>10. InOrder(w)'
  <2>1. Nameable' = Nameable
    BY <1>4 DEF Nameable
  <2>2. QED
    BY <1>1, <1>5, <1>6, <1>7, <1>8, <1>9, <2>1 DEF InOrder, Batched
<1>11. QED
  BY <1>2, <1>3, <1>4, <1>5, <1>7, <1>10, StepIntoStore

-----------------------------------------------------------------------------
(* A step of the store under its lock, as a task sees it.                  *)

\* What is held only gets less, and the reply to a release or an UnknownOutput is
\* true of the store as the call leaves it.
Lessens(w) ==
  /\ issued' = issued
  /\ DOMAIN outputs' \subseteq DOMAIN outputs
  /\ call[w].req.op = "insert" => call'[w].result # "Ok"
  /\ call[w].req.op \in {"read", "release"} =>
       /\ call'[w].id = call[w].req.id
       /\ call'[w].result = "UnknownOutput" => call[w].req.id \notin DOMAIN outputs'
  /\ call[w].req.op = "release" => call[w].req.id \notin DOMAIN outputs'

\* One new output is held.
Holds(w, id) ==
  /\ call[w].req.op = "insert"
  /\ id \notin issued
  /\ issued' = issued \cup {id}
  /\ DOMAIN outputs' \subseteq DOMAIN outputs \cup {id}
  /\ call'[w].id = id /\ call'[w].result = "Ok"

\* A refused call drops what has expired, and says what it was about.
LEMMA RefusedCommit ==
  ASSUME TypeOK, NEW w \in Worker, NEW lag \in 0 .. MaxStall, NEW result, NEW id,
         Refused(w, Swept(lag), result, id)
  PROVE  /\ issued' = issued
         /\ DOMAIN outputs' = DOMAIN Swept(lag) /\ DOMAIN outputs' \subseteq DOMAIN outputs
         /\ call'[w].result = result /\ call'[w].id = id
BY SweptPart DEF Refused, Returns, Returned, TypeOK

\* A commit either holds one new output or lessens what is held.
LEMMA Committed ==
  ASSUME TypeOK, NEW w \in Worker, Commit(w)
  PROVE  /\ call[w].stage = "timed" /\ call'[w].stage = "returned"
         /\ \A v \in Worker \ {w} : call'[v] = call[v]
         /\ Lessens(w) \/ \E id \in Id : Holds(w, id)
<1> DEFINE lag == call[w].lag
           held == Swept(lag)
           req == call[w].req
<1>1. call[w].stage = "timed" /\ lag \in 0 .. MaxStall
  BY TimedCall DEF Commit, CommitInsert, CommitRead, CommitRelease, InLock
<1>2. DOMAIN held \subseteq DOMAIN outputs
  BY <1>1, SweptPart
<1>3. PICK reply : reply.stage = "returned" /\ call' = [call EXCEPT ![w] = reply]
  <2>1. \E result, id, got : Returns(w, result, id, got)
    BY DEF Commit, CommitInsert, CommitRead, CommitRelease, HoldOutput, Refused
  <2>2. PICK result, id, got : Returns(w, result, id, got)
    BY <2>1
  <2>3. Returned(result, id, got).stage = "returned"
    BY DEF Returned
  <2>4. QED
    BY <2>2, <2>3 DEF Returns
<1>4. call'[w].stage = "returned" /\ \A v \in Worker \ {w} : call'[v] = call[v]
  BY <1>3 DEF TypeOK
<1>5. CASE CommitInsert(w)
  <2>1. req.op = "insert"
    BY <1>5 DEF CommitInsert, InLock
  <2>2. CASE \E result \in {"TooManyOutputs", "StoreFull"} : Refused(w, held, result, NoId)
    <3>1. Lessens(w)
      BY <1>1, <2>1, <2>2, RefusedCommit DEF Lessens
    <3>2. QED
      BY <1>1, <1>4, <3>1
  <2>3. CASE HoldOutput(w, held)
    <3>1. PICK id \in Id \ issued :
            /\ outputs' = WithOutput(held, id, [size |-> req.size, idle |-> lag, unread |-> lag])
            /\ issued' = issued \cup {id}
            /\ Returns(w, "Ok", id, 0)
      BY <2>3 DEF HoldOutput
    <3>2. DOMAIN outputs' = DOMAIN held \cup {id}
      BY <3>1 DEF WithOutput
    <3>3. call'[w].id = id /\ call'[w].result = "Ok"
      BY <3>1 DEF Returns, Returned, TypeOK
    <3>4. Holds(w, id)
      BY <1>2, <2>1, <3>1, <3>2, <3>3 DEF Holds
    <3>5. QED
      BY <1>1, <1>4, <3>4
  <2>4. QED
    BY <1>5, <2>2, <2>3 DEF CommitInsert
<1>6. CASE CommitRead(w)
  <2>1. req.op = "read"
    BY <1>6 DEF CommitRead, InLock
  <2>2. CASE Refused(w, held, "UnknownOutput", req.id) /\ req.id \notin DOMAIN held
    <3>1. Lessens(w)
      BY <1>1, <2>1, <2>2, RefusedCommit DEF Lessens
    <3>2. QED
      BY <1>1, <1>4, <3>1
  <2>3. CASE Refused(w, held, "ReadPastEnd", req.id)
    <3>1. Lessens(w)
      BY <1>1, <2>1, <2>3, RefusedCommit DEF Lessens
    <3>2. QED
      BY <1>1, <1>4, <3>1
  <2>4. CASE \E output, got : /\ req.id \in DOMAIN held
                              /\ outputs' = WithOutput(held, req.id, output)
                              /\ Returns(w, "Ok", req.id, got)
                              /\ UNCHANGED issued
    <3>1. PICK output, got : /\ req.id \in DOMAIN held
                             /\ outputs' = WithOutput(held, req.id, output)
                             /\ Returns(w, "Ok", req.id, got)
                             /\ UNCHANGED issued
      BY <2>4
    <3>2. DOMAIN outputs' = DOMAIN held
      BY <3>1 DEF WithOutput
    <3>3. call'[w].id = req.id /\ call'[w].result = "Ok"
      BY <3>1 DEF Returns, Returned, TypeOK
    <3>4. Lessens(w)
      BY <1>2, <2>1, <3>1, <3>2, <3>3 DEF Lessens
    <3>5. QED
      BY <1>1, <1>4, <3>4
  <2>5. QED
    BY <1>6, <2>2, <2>3, <2>4 DEF CommitRead
<1>7. CASE CommitRelease(w)
  <2>1. req.op = "release"
    BY <1>7 DEF CommitRelease, InLock
  <2>2. CASE Refused(w, held, "UnknownOutput", req.id) /\ req.id \notin DOMAIN held
    <3>1. Lessens(w)
      BY <1>1, <2>1, <2>2, RefusedCommit DEF Lessens
    <3>2. QED
      BY <1>1, <1>4, <3>1
  <2>3. CASE /\ outputs' = Without(held, req.id)
             /\ Returns(w, "Ok", req.id, 0)
             /\ UNCHANGED issued
    <3>1. DOMAIN outputs' = DOMAIN held \ {req.id}
      BY <2>3 DEF Without
    <3>2. call'[w].id = req.id /\ call'[w].result = "Ok"
      BY <2>3 DEF Returns, Returned, TypeOK
    <3>3. Lessens(w)
      BY <1>2, <2>1, <2>3, <3>1, <3>2 DEF Lessens
    <3>4. QED
      BY <1>1, <1>4, <3>3
  <2>4. QED
    BY <1>7, <2>2, <2>3 DEF CommitRelease
<1>8. QED
  BY <1>5, <1>6, <1>7 DEF Commit

\* The store commits the call of a task.
LEMMA StoreCommitInOrder ==
  ASSUME ServiceInv, NEW w \in Worker, StoreCommit(w)
  PROVE  ServiceInv'
<1> USE DEF ServiceInv
<1>1. Commit(w) /\ UNCHANGED <<task, given, lost>>
  BY DEF StoreCommit
<1>2. /\ call[w].stage = "timed" /\ call'[w].stage = "returned"
      /\ \A v \in Worker \ {w} : call'[v] = call[v]
      /\ Lessens(w) \/ \E id \in Id : Holds(w, id)
  BY <1>1, Committed
<1>3. TypeOK'
  BY <1>1, CommitTyped
<1>4. /\ task[w] \in Task /\ task' = [task EXCEPT ![w] = task[w]]
      /\ \A v \in Worker : task'[v] = task[v]
      /\ task[w].at \in {"holding", "undoing", "accessing"}
  BY <1>1, <1>2 DEF TaskTypeOK
<1>5. InHand(w) = PagesOf(task[w]) /\ InHand(w) \subseteq issued
  BY <1>2, Owning DEF PagesOf, InOrder
<1>6. CASE Lessens(w)
  <2>1. InHand(w)' = InHand(w)
    <3>1. task[w].at = "holding" => call'[w].result # "Ok"
      BY <1>2, <1>6 DEF InOrder, Lessens
    <3>2. QED
      BY <1>4, <1>5, <3>1 DEF InHand, PagesOf, Batched
  <2>2. InOrder(w)'
    <3>1. Nameable' = Nameable
      BY <1>6 DEF Lessens, Nameable
    <3>2. CASE task[w].at = "holding"
      BY <1>2, <1>4, <1>5, <1>6, <2>1, <3>2 DEF InOrder, Lessens
    <3>3. CASE task[w].at = "undoing"
      BY <1>2, <1>4, <1>5, <1>6, <2>1, <3>3 DEF InOrder, Lessens
    <3>4. CASE task[w].at = "accessing"
      BY <1>2, <1>4, <1>5, <1>6, <2>1, <3>1, <3>4 DEF InOrder, Lessens, Batched
    <3>5. QED
      BY <1>4, <3>2, <3>3, <3>4
  <2>3. QED
    BY <1>1, <1>2, <1>3, <1>4, <1>6, <2>1, <2>2, StepOfOne DEF Lessens
<1>7. ASSUME NEW id \in Id, Holds(w, id)
      PROVE  ServiceInv'
  <2>1. task[w].at = "holding"
    BY <1>2, <1>4, <1>7 DEF InOrder, Holds
  <2>2. InHand(w)' = InHand(w) \cup {id}
    BY <1>2, <1>4, <1>5, <1>7, <2>1 DEF InHand, PagesOf, Batched, Holds
  <2>3. ToSet(task[w].pages) \subseteq issued
    BY <1>5, <2>1 DEF PagesOf, Batched
  <2>4. InOrder(w)'
    BY <1>2, <1>4, <1>5, <1>7, <2>1, <2>2, <2>3 DEF InOrder, Holds
  <2>5. QED
    BY <1>1, <1>2, <1>3, <1>4, <1>5, <1>7, <2>2, <2>4, StepOfOne DEF Holds, TypeOK
<1>8. QED
  BY <1>2, <1>6, <1>7

-----------------------------------------------------------------------------
(* Replies that reach a caller or nobody, and time.                        *)

\* What a task had in its hands passes to its caller, or is lost.
LEMMA RepliedInOrder ==
  ASSUME ServiceInv, NEW w \in Worker, Deliver(w) \/ Lose(w)
  PROVE  ServiceInv'
<1> USE DEF ServiceInv
<1> DEFINE pages == ToSet(task[w].pages)
<1>1. /\ task[w].at = "replied" /\ Moves(w, Free) /\ UNCHANGED <<outputs, issued, call>>
      /\ \/ given' = given \cup pages /\ lost' = lost
         \/ lost' = lost \cup pages /\ given' = given
  BY DEF Deliver, Lose, vars
<1>2. InHand(w) = pages /\ pages \subseteq issued
  BY <1>1, Owning DEF Batched, InOrder
<1> HIDE DEF pages
<1>3. task'[w] = Free /\ \A v \in Worker \ {w} : task'[v] = task[v]
  BY <1>1 DEF Moves, TaskTypeOK
<1>4. InHand(w)' = {} /\ \A v \in Worker \ {w} : InHand(v)' = InHand(v)
  BY <1>1, <1>3 DEF InHand, Free
<1>5. TypeOK'
  BY <1>1 DEF TypeOK
<1>6. TaskTypeOK'
  <2>1. task' \in [Worker -> Task]
    BY <1>1, TaskStates DEF Moves, TaskTypeOK
  <2>2. call[w].stage = "idle"
    BY <1>1 DEF TaskTypeOK
  <2>3. \A v \in Worker : IF call'[v].stage = "idle" THEN task'[v].at # "accessing"
                          ELSE task'[v].at \in {"holding", "undoing", "accessing"}
    BY <1>1, <1>3, <2>2 DEF TaskTypeOK, Free
  <2>4. given' \subseteq issued' /\ lost' \subseteq issued'
    BY <1>1, <1>2 DEF TaskTypeOK
  <2>5. QED
    BY <2>1, <2>3, <2>4 DEF TaskTypeOK
<1>7. OneOwner'
  <2>1. given' \cup lost' = given \cup lost \cup pages
    BY <1>1
  <2>2. DOMAIN outputs' \subseteq given' \cup lost' \cup UNION {InHand(v)' : v \in Worker}
    <3>1. SUFFICES ASSUME NEW id \in DOMAIN outputs, id \notin given \cup lost \cup pages
                   PROVE  \E v \in Worker : id \in InHand(v)'
      BY <1>1, <2>1
    <3>2. PICK v \in Worker : id \in InHand(v)
      BY <3>1 DEF OneOwner
    <3>3. QED
      BY <1>2, <1>4, <3>1, <3>2
  <2>3. given' \cap lost' = {}
    BY <1>1, <1>2 DEF OneOwner
  <2>4. ASSUME NEW u \in Worker, NEW v \in Worker
        PROVE  /\ InHand(u)' \cap (given' \cup lost') = {}
               /\ u # v => InHand(u)' \cap InHand(v)' = {}
    BY <1>2, <1>4, <2>1 DEF OneOwner
  <2>5. QED
    BY <2>2, <2>3, <2>4 DEF OneOwner
<1>8. \A v \in Worker : InOrder(v)'
  <2>1. Nameable' = Nameable
    BY <1>1 DEF Nameable
  <2>2. InOrder(w)'
    BY <1>3, <1>4 DEF InOrder, Free, Batched
  <2>3. ASSUME NEW v \in Worker \ {w} PROVE InOrder(v)'
    BY <1>1, <1>3, <1>4, <2>1 DEF InOrder
  <2>4. QED
    BY <2>2, <2>3
<1>9. QED
  BY <1>5, <1>6, <1>7, <1>8

\* Time passing changes nothing that the invariant speaks of.
LEMMA TickInOrder ==
  ASSUME ServiceInv, ServiceTick
  PROVE  ServiceInv'
<1> USE DEF ServiceInv
<1>1. TypeOK' /\ UNCHANGED <<task, given, lost, issued>> /\ DOMAIN outputs' = DOMAIN outputs
  BY TickTyped DEF ServiceTick, Tick
<1>2. ASSUME NEW w \in Worker
      PROVE  /\ call'[w].stage = call[w].stage
             /\ call[w].stage = "timed" => call'[w].req = call[w].req
             /\ call[w].stage = "returned" => call'[w] = call[w]
  <2>1. CASE call[w].stage = "timed"
    <3>1. /\ call'[w] = [call[w] EXCEPT !.lag = @ + 1]
          /\ call[w] \in [stage : {"timed"}, req : Request, lag : 0 .. MaxStall]
      BY <2>1, TimedCall DEF ServiceTick, Tick
    <3>2. QED
      BY <2>1, <3>1
  <2>2. CASE call[w].stage # "timed"
    BY <2>2 DEF ServiceTick, Tick
  <2>3. QED
    BY <2>1, <2>2
<1>3. \A w \in Worker : InHand(w)' = InHand(w)
  BY <1>1, <1>2 DEF InHand
<1>4. TaskTypeOK'
  BY <1>1, <1>2 DEF TaskTypeOK
<1>5. OneOwner'
  <2>1. UNION {InHand(v)' : v \in Worker} = UNION {InHand(v) : v \in Worker}
    BY <1>3
  <2>2. QED
    BY <1>1, <1>3, <2>1 DEF OneOwner
<1>6. ASSUME NEW w \in Worker PROVE InOrder(w)'
  <2>1. Nameable' = Nameable
    BY <1>1 DEF Nameable
  <2>2. task'[w] = task[w]
    BY <1>1
  <2>3. QED
    BY <1>1, <1>2, <1>3, <2>1, <2>2 DEF InOrder
<1>7. QED
  BY <1>1, <1>4, <1>5, <1>6

-----------------------------------------------------------------------------
(* The whole service.                                                      *)

\* A step of the service keeps its invariant and is a step of the store, or one
\* that the store does not see.
LEMMA ServiceStep ==
  ASSUME ServiceInv, [ServiceNext]_serviceVars
  PROVE  ServiceInv' /\ [Next]_vars
<1>1. ASSUME NEW w \in Worker, NEW m \in Method, Accept(w, m)
      PROVE  ServiceInv' /\ UNCHANGED vars
  BY <1>1, WorkInOrder DEF Accept
<1>2. ASSUME NEW w \in Worker, NEW id \in Named,
             \/ \E offset \in Offset, len \in Length : ReadOutput(w, id, offset, len)
             \/ ReleaseOutput(w, id)
      PROVE  ServiceInv' /\ Next
  BY <1>2, AccessInOrder, NamedNameable DEF Next
<1>3. ASSUME NEW w \in Worker, Serve(w)
      PROVE  ServiceInv' /\ [Next]_vars
  <2>1. ASSUME NEW error \in Failures("work", "GenerateDocx") \cup Failures("work", "ExtractText")
                               \cup Failures("resolve", "GeneratePptx"), Fail(w, error)
        PROVE  ServiceInv' /\ UNCHANGED vars
    <3>1. error \in ErrorName
      BY <2>1, FailuresTyped DEF Stage
    <3>2. QED
      BY <2>1, <3>1, WorkInOrder DEF Fail
  <2>2. CASE Proceed(w)
    BY <2>2, WorkInOrder DEF Proceed
  <2>3. ASSUME NEW sizes, WorkDone(w, sizes)
        PROVE  ServiceInv' /\ UNCHANGED vars
    BY <2>3, WorkInOrder DEF WorkDone
  <2>4. CASE HoldNext(w)
    BY <2>4, HoldNextInOrder DEF Next
  <2>5. CASE HoldReturn(w)
    <3>1. Finish(w)
      BY <2>5 DEF HoldReturn
    <3>2. QED
      BY <2>5, <3>1, HoldReturnInOrder DEF Next
  <2>6. CASE UndoNext(w)
    BY <2>6, UndoNextInOrder DEF Next
  <2>7. CASE UndoReturn(w)
    <3>1. Finish(w)
      BY <2>7 DEF UndoReturn
    <3>2. QED
      BY <2>7, <3>1, UndoReturnInOrder DEF Next
  <2>8. CASE UndoDone(w)
    BY <2>8, WorkInOrder DEF UndoDone
  <2>9. CASE StoreCommit(w)
    <3>1. Commit(w)
      BY <2>9 DEF StoreCommit
    <3>2. QED
      BY <2>9, <3>1, StoreCommitInOrder DEF Next
  <2>10. CASE AccessReturn(w)
    <3>1. Finish(w)
      BY <2>10 DEF AccessReturn
    <3>2. QED
      BY <2>10, <3>1, AccessReturnInOrder DEF Next
  <2>11. CASE Deliver(w) \/ Lose(w)
    BY <2>11, RepliedInOrder DEF Deliver, Lose
  <2>12. QED
    BY <1>3, <2>1, <2>2, <2>3, <2>4, <2>5, <2>6, <2>7, <2>8, <2>9, <2>10, <2>11 DEF Serve
<1>4. CASE ServiceTick
  BY <1>4, TickInOrder DEF ServiceTick, Next
<1>5. CASE UNCHANGED serviceVars
  <2>1. /\ UNCHANGED <<outputs, issued, call, task, given, lost>>
        /\ UNCHANGED vars
    BY <1>5 DEF serviceVars, vars
  <2>2. TypeOK'
    BY <2>1 DEF ServiceInv, TypeOK
  <2>3. TaskTypeOK'
    BY <2>1 DEF ServiceInv, TaskTypeOK
  <2>4. \A w \in Worker : InHand(w)' = InHand(w)
    BY <2>1 DEF InHand
  <2>5. OneOwner'
    <3>1. UNION {InHand(v)' : v \in Worker} = UNION {InHand(v) : v \in Worker}
      BY <2>4
    <3>2. QED
      BY <2>1, <2>4, <3>1 DEF ServiceInv, OneOwner
  <2>6. ASSUME NEW w \in Worker PROVE InOrder(w)'
    BY <2>1, <2>4 DEF ServiceInv, InOrder, Nameable
  <2>7. QED
    BY <2>1, <2>2, <2>3, <2>5, <2>6 DEF ServiceInv
<1>6. QED
  BY <1>1, <1>2, <1>3, <1>4, <1>5 DEF ServiceNext

\* The inductive invariant holds in every run of the service.
LEMMA AlwaysInOrder == ServiceSpec => []ServiceInv
<1>1. ServiceInit => ServiceInv
  <2>1. SUFFICES ASSUME ServiceInit PROVE ServiceInv
    OBVIOUS
  <2>2. /\ Init /\ task = [w \in Worker |-> Free] /\ given = {} /\ lost = {}
        /\ DOMAIN outputs = {}
    BY <2>1 DEF ServiceInit, Init
  <2>3. TypeOK
    BY <2>2 DEF Init, TypeOK, Idle, Call
  <2>4. TaskTypeOK
    BY <2>2, TaskStates DEF Init, TaskTypeOK, Free, Idle
  <2>5. \A w \in Worker : InHand(w) = {}
    BY <2>2 DEF InHand, Free
  <2>6. OneOwner
    BY <2>2, <2>5 DEF OneOwner
  <2>7. \A w \in Worker : InOrder(w)
    BY <2>2, <2>5 DEF InOrder, Free, Batched
  <2>8. QED
    BY <2>3, <2>4, <2>6, <2>7 DEF ServiceInv
<1>2. ServiceInv /\ [ServiceNext]_serviceVars => ServiceInv'
  BY ServiceStep
<1>3. QED
  BY <1>1, <1>2, PTL DEF ServiceSpec

\* Tasks have their types, and a store call is under way only in a task that
\* waits for it.
THEOREM TasksTyped == ServiceSpec => []TaskTypeOK
<1>1. ServiceInv => TaskTypeOK
  BY DEF ServiceInv
<1>2. QED
  BY <1>1, AlwaysInOrder, PTL

\* Whatever the store holds is in the hands of exactly one task, was given to a
\* caller or was lost with one, whatever fails, expires or is rolled back.
THEOREM NothingLeftBehind == ServiceSpec => []OneOwner
<1>1. ServiceInv => OneOwner
  BY DEF ServiceInv
<1>2. QED
  BY <1>1, AlwaysInOrder, PTL

-----------------------------------------------------------------------------
(* Batches.                                                                *)

\* As long as it is held, the i-th output is the i-th document.
HeldAsMade(w) ==
  \A i \in 1 .. Len(produced[w].held) : produced[w].held[i] \in DOMAIN outputs =>
    outputs[produced[w].held[i]].size = produced[w].made[i]

\* What a task has recorded and what is left to be held make up its batch; what a
\* rollback has not come to yet is all that is left of it.
BatchOK(w) ==
  LET b == produced[w] IN
  /\ b.made \in Seq(Size) /\ b.held \in Seq(Id) /\ ToSet(b.held) \subseteq issued
  /\ task[w].at \in {"free", "working", "accessing"} => b = Nothing
  /\ task[w].at = "holding" =>
       /\ b.held = task[w].pages /\ HeldAsMade(w)
       /\ Len(b.made) = Len(b.held) + Len(task[w].sizes)
       /\ \A i \in 1 .. Len(task[w].sizes) : task[w].sizes[i] = b.made[Len(b.held) + i]
       /\ call[w].stage = "timed" => call[w].req.size = Head(task[w].sizes)
       /\ call[w].stage = "returned" /\ call[w].result = "Ok" /\ call[w].id \in DOMAIN outputs =>
            outputs[call[w].id].size = Head(task[w].sizes)
  /\ task[w].at = "undoing" => ToSet(b.held) \cap DOMAIN outputs \subseteq ToSet(task[w].pages)
  /\ task[w].at = "replied" =>
       IF task[w].result = "Ok"
       THEN b.held = task[w].pages /\ Len(b.made) = Len(b.held) /\ HeldAsMade(w)
       ELSE ToSet(b.held) \cap DOMAIN outputs = {}

BatchInv == produced \in [Worker -> [made : Seq(Size), held : Seq(Id)]] /\ \A w \in Worker : BatchOK(w)

\* What a step of the store leaves in it was there with the same size, or is new.
Preserved ==
  /\ issued \subseteq issued'
  /\ \A id \in issued \cap DOMAIN outputs' :
       id \in DOMAIN outputs /\ outputs'[id].size = outputs[id].size

\* A call is what it was, except that it may have waited longer.
SameCall(w) ==
  /\ call'[w].stage = call[w].stage
  /\ call[w].stage = "timed" => call'[w].req = call[w].req
  /\ call[w].stage = "returned" => call'[w] = call[w]

\* A commit preserves what it does not drop, and holds a document as it is.
LEMMA CommitPreserves ==
  ASSUME TypeOK, NEW w \in Worker, Commit(w)
  PROVE  /\ Preserved
         /\ call[w].req.op = "insert" /\ call'[w].result = "Ok" =>
              outputs'[call'[w].id].size = call[w].req.size
<1> DEFINE lag == call[w].lag
           held == Swept(lag)
           req == call[w].req
<1>1. lag \in 0 .. MaxStall
  BY TimedCall DEF Commit, CommitInsert, CommitRead, CommitRelease, InLock
<1>2. /\ DOMAIN held \subseteq DOMAIN outputs /\ DOMAIN outputs \subseteq issued
      /\ \A id \in DOMAIN held : held[id] = outputs[id] /\ held[id] \in Output
  BY <1>1, SweptPart DEF TypeOK
<1> HIDE DEF held
<1>3. ASSUME NEW result, result # "Ok", NEW id, Refused(w, held, result, id)
      PROVE  Preserved /\ call'[w].result # "Ok"
  BY <1>2, <1>3 DEF Refused, Returns, Returned, TypeOK, Preserved
<1>4. CASE CommitInsert(w)
  <2>1. CASE HoldOutput(w, held)
    <3>1. PICK id \in Id \ issued :
            /\ outputs' = WithOutput(held, id, [size |-> req.size, idle |-> lag, unread |-> lag])
            /\ issued' = issued \cup {id}
            /\ Returns(w, "Ok", id, 0)
      BY <2>1 DEF HoldOutput
    <3>2. call'[w].id = id
      BY <3>1 DEF Returns, Returned, TypeOK
    <3>3. outputs'[id].size = req.size
      BY <3>1 DEF WithOutput
    <3>4. Preserved
      BY <1>2, <3>1 DEF WithOutput, Preserved
    <3>5. QED
      BY <3>2, <3>3, <3>4
  <2>2. QED
    BY <1>3, <1>4, <2>1 DEF CommitInsert, held
<1>5. CASE CommitRead(w)
  <2>1. req.op = "read"
    BY <1>5 DEF CommitRead, InLock
  <2>2. CASE \E got : /\ req.id \in DOMAIN held
                      /\ outputs' = WithOutput(held, req.id, Touched(held[req.id], lag, got))
                      /\ UNCHANGED issued
    <3>1. PICK got : /\ req.id \in DOMAIN held
                     /\ outputs' = WithOutput(held, req.id, Touched(held[req.id], lag, got))
                     /\ UNCHANGED issued
      BY <2>2
    <3>2. Touched(held[req.id], lag, got).size = held[req.id].size
      BY <1>2, <3>1 DEF Touched, Output
    <3>3. Preserved
      BY <1>2, <3>1, <3>2 DEF WithOutput, Preserved
    <3>4. QED
      BY <2>1, <3>3
  <2>3. QED
    BY <1>3, <1>5, <2>1, <2>2 DEF CommitRead, held
<1>6. CASE CommitRelease(w)
  <2>1. req.op = "release"
    BY <1>6 DEF CommitRelease, InLock
  <2>2. CASE outputs' = Without(held, req.id) /\ UNCHANGED issued
    BY <1>2, <2>1, <2>2 DEF Without, Preserved
  <2>3. QED
    BY <1>3, <1>6, <2>1, <2>2 DEF CommitRelease, held
<1>7. QED
  BY <1>4, <1>5, <1>6 DEF Commit

\* What is held of a batch stays what it is as long as it is held.
LEMMA HeldStays ==
  ASSUME Preserved, NEW w \in Worker, produced'[w] = produced[w],
         produced[w].held \in Seq(Id), ToSet(produced[w].held) \subseteq issued
  PROVE  /\ HeldAsMade(w) => HeldAsMade(w)'
         /\ ToSet(produced[w].held) \cap DOMAIN outputs' \subseteq DOMAIN outputs
         /\ ToSet(produced[w].held) \subseteq issued'
<1>1. \A i \in 1 .. Len(produced[w].held) : produced[w].held[i] \in issued
  BY DEF ToSet
<1>2. QED
  BY <1>1 DEF HeldAsMade, Preserved

\* A task that takes no step keeps its batch, whatever the store does.
LEMMA BatchUndisturbed ==
  ASSUME Preserved, NEW w \in Worker, InOrder(w), BatchOK(w), SameCall(w),
         task'[w] = task[w], produced'[w] = produced[w]
  PROVE  BatchOK(w)'
<1>1. /\ produced[w].held \in Seq(Id) /\ ToSet(produced[w].held) \subseteq issued
      /\ produced[w].made \in Seq(Size)
  BY DEF BatchOK
<1>2. /\ HeldAsMade(w) => HeldAsMade(w)'
      /\ ToSet(produced[w].held) \cap DOMAIN outputs' \subseteq DOMAIN outputs
      /\ ToSet(produced[w].held) \subseteq issued'
  BY <1>1, HeldStays
<1>3. ASSUME task[w].at = "holding", call'[w].stage = "returned", call'[w].result = "Ok",
             call'[w].id \in DOMAIN outputs'
      PROVE  outputs'[call'[w].id].size = Head(task[w].sizes)
  <2>1. call[w].stage = "returned" /\ call'[w] = call[w]
    BY <1>3 DEF SameCall
  <2>2. call[w].id \in issued
    BY <1>3, <2>1, Owning DEF InOrder
  <2>3. QED
    BY <1>3, <2>1, <2>2 DEF Preserved, BatchOK
<1>4. CASE task[w].at = "holding"
  BY <1>1, <1>2, <1>3, <1>4 DEF BatchOK, SameCall
<1>5. CASE task[w].at # "holding"
  BY <1>1, <1>2, <1>5 DEF BatchOK
<1>6. QED
  BY <1>4, <1>5

\* The steps of a task that leave the store and its call alone.
LEMMA WorkBatch ==
  ASSUME ServiceInv, BatchInv, NEW w \in Worker,
         \/ \E m \in Method : Accept(w, m)
         \/ Proceed(w)
         \/ \E error \in ErrorName : Fail(w, error)
         \/ \E sizes : WorkDone(w, sizes)
         \/ UndoDone(w) \/ Deliver(w) \/ Lose(w)
  PROVE  BatchOK(w)'
<1> USE DEF BatchInv
<1>1. UNCHANGED <<outputs, issued, call>> /\ task \in [Worker -> Task]
  BY DEF Accept, Proceed, Fail, WorkDone, UndoDone, Deliver, Lose, vars, ServiceInv, TaskTypeOK
<1>2. /\ <<>> \in Seq(Size) /\ <<>> \in Seq(Id) /\ ToSet(<<>>) = {} /\ Len(<<>>) = 0
      /\ \A i : i \notin 1 .. 0
  BY DEF ToSet
<1>3. ASSUME NEW state, Moves(w, state), state.at \in {"free", "working"},
             \/ Records(w, <<>>, <<>>)
             \/ UNCHANGED produced /\ task[w].at \in {"free", "working"}
      PROVE  BatchOK(w)'
  <2>1. task'[w] = state
    BY <1>1, <1>3 DEF Moves
  <2>2. produced'[w] = Nothing
    BY <1>3 DEF Records, BatchOK, Nothing
  <2>3. QED
    BY <1>2, <1>3, <2>1, <2>2 DEF BatchOK, Nothing
<1>4. ASSUME NEW m \in Method, Accept(w, m) PROVE BatchOK(w)'
  BY <1>3, <1>4 DEF Accept, Working, Free
<1>5. CASE Proceed(w)
  BY <1>3, <1>5 DEF Proceed, Working
<1>6. CASE Deliver(w) \/ Lose(w)
  BY <1>3, <1>6 DEF Deliver, Lose, Free
<1>7. ASSUME NEW error \in ErrorName, Moves(w, Replied(error, <<>>, NoId)), UNCHANGED produced,
             ToSet(produced[w].held) \cap DOMAIN outputs = {}
      PROVE  BatchOK(w)'
  <2>1. /\ task'[w].at = "replied" /\ task'[w].result = error
        /\ error # "Ok"
    BY <1>1, <1>7 DEF Moves, Replied, ErrorName
  <2>2. /\ produced[w].made \in Seq(Size) /\ produced[w].held \in Seq(Id)
        /\ ToSet(produced[w].held) \subseteq issued
    BY DEF BatchOK
  <2>3. QED
    BY <1>1, <1>7, <2>1, <2>2 DEF BatchOK
<1>8. ASSUME NEW error \in ErrorName, Fail(w, error) PROVE BatchOK(w)'
  <2>1. produced[w] = Nothing
    BY <1>8 DEF Fail, BatchOK
  <2>2. QED
    BY <1>2, <1>7, <1>8, <2>1 DEF Fail, Nothing
<1>11. CASE UndoDone(w)
  <2>1. task[w].error \in ErrorName
    BY <1>11, TaskTyped DEF UndoDone, ServiceInv
  <2>2. ToSet(produced[w].held) \cap DOMAIN outputs = {}
    BY <1>2, <1>11 DEF UndoDone, BatchOK
  <2>3. QED
    BY <1>7, <1>11, <2>1, <2>2 DEF UndoDone
<1>9. ASSUME NEW sizes, WorkDone(w, sizes) PROVE BatchOK(w)'
  <2>1. sizes \in Seq(Size)
    BY <1>9, ProductsTyped DEF WorkDone
  <2>2. /\ task'[w] = AfterHold(sizes, <<>>)
        /\ produced'[w] = [made |-> sizes, held |-> <<>>]
        /\ call'[w].stage = "idle"
    BY <1>1, <1>9 DEF WorkDone, Moves, Records, ServiceInv, TaskTypeOK
  <2>3. CASE sizes = <<>>
    BY <1>2, <2>2, <2>3 DEF BatchOK, AfterHold, Replied, HeldAsMade
  <2>4. CASE sizes # <<>>
    <3>1. Len(sizes) = 0 + Len(sizes) /\ \A i \in 1 .. Len(sizes) : 0 + i = i
      BY <2>1
    <3>2. QED
      BY <1>2, <2>1, <2>2, <2>4, <3>1 DEF BatchOK, AfterHold, Holding, HeldAsMade
  <2>5. QED
    BY <2>3, <2>4
<1>10. QED
  BY <1>4, <1>5, <1>6, <1>8, <1>9, <1>11

\* An insertion has returned: what it held is the document that came next.
LEMMA HoldReturnBatch ==
  ASSUME ServiceInv, BatchInv, NEW w \in Worker, HoldReturn(w)
  PROVE  BatchOK(w)'
<1> DEFINE made == produced[w].made
           pages == task[w].pages
           sizes == task[w].sizes
           id == call[w].id
<1>1. /\ task[w].at = "holding" /\ call[w].stage = "returned" /\ call'[w] = Idle
      /\ UNCHANGED <<outputs, issued>> /\ task \in [Worker -> Task]
  BY DEF HoldReturn, Finish, ServiceInv, TypeOK, TaskTypeOK
<1>2. /\ sizes \in Seq(Size) /\ sizes # <<>> /\ pages \in Seq(Id)
      /\ made \in Seq(Size) /\ produced[w].held = pages /\ ToSet(pages) \subseteq issued
      /\ Len(made) = Len(pages) + Len(sizes) /\ HeldAsMade(w)
      /\ \A i \in 1 .. Len(sizes) : sizes[i] = made[Len(pages) + i]
  BY <1>1, TaskTyped DEF ServiceInv, BatchInv, BatchOK
<1>3. CASE call[w].result # "Ok"
  <2>1. task'[w] = Undoing(pages, WireName(call[w].result)) /\ UNCHANGED produced
    BY <1>1, <1>3 DEF HoldReturn, Retains, Moves
  <2>2. QED
    BY <1>1, <1>2, <2>1 DEF BatchOK, Undoing
<1>4. CASE call[w].result = "Ok"
  <2> DEFINE more == Append(pages, id)
  <2>1. /\ task'[w] = AfterHold(Tail(sizes), more)
        /\ produced'[w] = [made |-> made, held |-> more]
    BY <1>1, <1>2, <1>4 DEF HoldReturn, Retains, Records, Moves, BatchInv
  <2>2. id \in issued /\ id \in Id /\ (id \in DOMAIN outputs => outputs[id].size = sizes[1])
    <3>1. id \in issued /\ issued \subseteq Id
      BY <1>1, <1>4, Owning DEF ServiceInv, InOrder, TypeOK
    <3>2. Head(sizes) = sizes[1]
      BY <1>2
    <3>3. QED
      BY <1>1, <1>4, <3>1, <3>2 DEF BatchInv, BatchOK
  <2>3. /\ more \in Seq(Id) /\ Len(more) = Len(pages) + 1 /\ more[Len(pages) + 1] = id
        /\ \A i \in 1 .. Len(pages) : more[i] = pages[i]
        /\ ToSet(more) \subseteq issued
    BY <1>2, <2>2, ElementsOfAppend
  <2> HIDE DEF more, made, sizes, pages, id
  <2>4. /\ Tail(sizes) \in Seq(Size) /\ Len(Tail(sizes)) = Len(sizes) - 1
        /\ Len(sizes) \in Nat \ {0} /\ Len(pages) \in Nat
        /\ \A i \in 1 .. Len(sizes) - 1 : Tail(sizes)[i] = sizes[i + 1]
    BY <1>2
  <2>11. /\ Len(made) = Len(more) + Len(Tail(sizes))
         /\ sizes[1] = made[Len(pages) + 1]
    <3>1. 1 \in 1 .. Len(sizes)
      BY <2>4
    <3>2. QED
      BY <1>2, <2>3, <2>4, <3>1
  <2>5. \A i \in 1 .. Len(Tail(sizes)) : Tail(sizes)[i] = made[Len(more) + i]
    <3>1. ASSUME NEW i \in 1 .. Len(Tail(sizes)) PROVE Tail(sizes)[i] = made[Len(more) + i]
      <4>1. /\ i + 1 \in 1 .. Len(sizes) /\ Len(more) + i = Len(pages) + (i + 1)
            /\ Tail(sizes)[i] = sizes[i + 1]
        BY <1>2, <2>3, <2>4
      <4>2. QED
        BY <1>2, <4>1
    <3>2. QED
      BY <3>1
  <2>6. \A i \in 1 .. Len(more) : more[i] \in DOMAIN outputs => outputs[more[i]].size = made[i]
    <3>1. ASSUME NEW i \in 1 .. Len(more), more[i] \in DOMAIN outputs
          PROVE  outputs[more[i]].size = made[i]
      <4>1. CASE i = Len(pages) + 1
        BY <2>2, <2>3, <2>11, <3>1, <4>1
      <4>2. CASE i # Len(pages) + 1
        <5>1. i \in 1 .. Len(pages) /\ more[i] = pages[i]
          BY <1>2, <2>3, <3>1, <4>2
        <5>2. QED
          BY <1>2, <3>1, <5>1 DEF HeldAsMade, made, pages
      <4>3. QED
        BY <4>1, <4>2
    <3>2. QED
      BY <3>1
  <2>7. HeldAsMade(w)'
    BY <1>1, <2>1, <2>6 DEF HeldAsMade
  <2>8. CASE Tail(sizes) = <<>>
    <3>1. task'[w].at = "replied" /\ task'[w].result = "Ok" /\ task'[w].pages = more
      BY <2>1, <2>8 DEF AfterHold, Replied
    <3>2. Len(made) = Len(more)
      <4>1. Len(<<>>) = 0
        OBVIOUS
      <4>2. Len(Tail(sizes)) = 0
        BY <2>8, <4>1, Zenon
      <4>3. Len(more) \in Nat
        BY <2>3, <2>4
      <4>4. \A x \in Nat : x + 0 = x
        OBVIOUS
      <4>5. QED
        BY <2>11, <4>2, <4>3, <4>4, Zenon
    <3>3. QED
      BY <1>1, <1>2, <2>1, <2>3, <2>7, <3>1, <3>2 DEF BatchOK
  <2>9. CASE Tail(sizes) # <<>>
    <3>1. task'[w].at = "holding" /\ task'[w].sizes = Tail(sizes) /\ task'[w].pages = more
      BY <2>1, <2>9 DEF AfterHold, Holding
    <3>2. produced'[w].made = made /\ produced'[w].held = more
      BY <2>1
    <3>3. ToSet(produced'[w].held) \subseteq issued'
      BY <1>1, <2>3, <3>2
    <3>4. call'[w].stage = "idle"
      BY <1>1 DEF Idle
    <3>5. Len(produced'[w].made) = Len(produced'[w].held) + Len(task'[w].sizes)
      BY <2>11, <3>1, <3>2
    <3>6. \A i \in 1 .. Len(task'[w].sizes) :
            task'[w].sizes[i] = produced'[w].made[Len(produced'[w].held) + i]
      BY <2>5, <3>1, <3>2
    <3>7. QED
      BY <1>2, <2>3, <2>7, <3>1, <3>2, <3>3, <3>4, <3>5, <3>6 DEF BatchOK
  <2>10. QED
    BY <2>8, <2>9
<1>5. QED
  BY <1>3, <1>4

\* A release of the rollback has returned, or the access of a caller.
LEMMA ReturnBatch ==
  ASSUME ServiceInv, BatchInv, NEW w \in Worker, UndoReturn(w) \/ AccessReturn(w)
  PROVE  BatchOK(w)'
<1>1. /\ call[w].stage = "returned"
      /\ UNCHANGED <<outputs, issued, produced>> /\ task \in [Worker -> Task] /\ BatchOK(w)
  BY DEF UndoReturn, AccessReturn, Finish, ServiceInv, TaskTypeOK, BatchInv
<1>2. CASE UndoReturn(w)
  <2>1. task[w].at = "undoing" /\ task'[w] = Undoing(Tail(task[w].pages), task[w].error)
    BY <1>1, <1>2 DEF UndoReturn, Moves
  <2>2. /\ task[w].pages \in Seq(Id) /\ task[w].pages # <<>>
        /\ Head(task[w].pages) \notin DOMAIN outputs
    BY <1>1, <2>1, TaskTyped DEF ServiceInv, InOrder
  <2>3. ToSet(task[w].pages) = {Head(task[w].pages)} \cup ToSet(Tail(task[w].pages))
    BY <2>2, ElementsOfTail
  <2>4. QED
    BY <1>1, <2>1, <2>2, <2>3 DEF BatchOK, Undoing
<1>3. CASE AccessReturn(w)
  <2>1. /\ task[w].at = "accessing"
        /\ task'[w] = Replied(WireName(call[w].result), <<>>, call[w].id)
    BY <1>1, <1>3 DEF AccessReturn, Moves
  <2>2. produced[w] = Nothing /\ ToSet(<<>>) = {} /\ Len(<<>>) = 0
    BY <1>1, <2>1 DEF BatchOK, ToSet
  <2>3. QED
    BY <1>1, <2>1, <2>2 DEF BatchOK, Replied, Nothing, HeldAsMade
<1>4. QED
  BY <1>2, <1>3

\* A task calls the store: with the size of its next document, if it holds.
LEMMA CallBatch ==
  ASSUME ServiceInv, BatchInv, NEW w \in Worker,
         \/ HoldNext(w) \/ UndoNext(w)
         \/ \E id \in Named, offset \in Offset, len \in Length : ReadOutput(w, id, offset, len)
         \/ \E id \in Named : ReleaseOutput(w, id)
  PROVE  BatchOK(w)'
<1>1. /\ UNCHANGED <<outputs, issued, produced>>
      /\ task \in [Worker -> Task] /\ call \in [Worker -> Call] /\ BatchOK(w)
  BY DEF HoldNext, UndoNext, ReadOutput, ReleaseOutput, BeginInsert, BeginRead, BeginRelease,
         ServiceInv, TaskTypeOK, TypeOK, BatchInv
<1>2. CASE HoldNext(w)
  <2>1. task[w].at = "holding" /\ task'[w] = task[w]
    BY <1>2 DEF HoldNext
  <2>2. \/ call'[w] = Returned("OutputTooLarge", NoId, 0)
        \/ call'[w] = Timed([op |-> "insert", size |-> Head(task[w].sizes)])
    BY <1>1, <1>2 DEF HoldNext, BeginInsert, Returns, Waits
  <2>3. /\ call'[w].stage = "timed" => call'[w].req.size = Head(task[w].sizes)
        /\ call'[w].stage = "returned" => call'[w].result # "Ok"
    BY <2>2 DEF Returned, Timed
  <2>4. HeldAsMade(w) => HeldAsMade(w)'
    BY <1>1 DEF HeldAsMade
  <2>5. QED
    BY <1>1, <2>1, <2>3, <2>4 DEF BatchOK
<1>3. CASE UndoNext(w)
  <2>1. task[w].at = "undoing" /\ task'[w] = task[w]
    BY <1>3 DEF UndoNext
  <2>2. QED
    BY <1>1, <2>1 DEF BatchOK
<1>4. CASE task[w] = Free /\ Moves(w, Accessing)
  <2>1. task[w].at = "free" /\ task'[w].at = "accessing"
    BY <1>1, <1>4 DEF Moves, Free, Accessing
  <2>2. QED
    BY <1>1, <2>1 DEF BatchOK
<1>5. QED
  BY <1>2, <1>3, <1>4 DEF ReadOutput, ReleaseOutput

\* The store commits the call of a task.
LEMMA CommitBatch ==
  ASSUME ServiceInv, BatchInv, NEW w \in Worker, StoreCommit(w)
  PROVE  BatchOK(w)'
<1>1. Commit(w) /\ UNCHANGED <<task, produced>> /\ TypeOK /\ BatchOK(w) /\ InOrder(w)
  BY DEF StoreCommit, ServiceInv, BatchInv
<1>2. /\ Preserved
      /\ call[w].req.op = "insert" /\ call'[w].result = "Ok" =>
           outputs'[call'[w].id].size = call[w].req.size
      /\ call[w].stage = "timed" /\ call'[w].stage = "returned"
  BY <1>1, CommitPreserves, Committed
<1>3. /\ HeldAsMade(w) => HeldAsMade(w)'
      /\ ToSet(produced[w].held) \cap DOMAIN outputs' \subseteq DOMAIN outputs
      /\ ToSet(produced[w].held) \subseteq issued'
  BY <1>1, <1>2, HeldStays DEF BatchOK
<1>4. task[w].at \in {"holding", "undoing", "accessing"}
  BY <1>2 DEF ServiceInv, TaskTypeOK
<1>5. CASE task[w].at = "holding"
  <2>1. call[w].req.op = "insert" /\ call[w].req.size = Head(task[w].sizes)
    BY <1>1, <1>2, <1>5 DEF InOrder, BatchOK
  <2>2. QED
    BY <1>1, <1>2, <1>3, <1>5, <2>1 DEF BatchOK
<1>6. CASE task[w].at # "holding"
  BY <1>1, <1>3, <1>4, <1>6 DEF BatchOK
<1>7. QED
  BY <1>5, <1>6

\* Time passing changes no call but for how long it has waited.
LEMMA TickPreserves ==
  ASSUME TypeOK, Tick
  PROVE  Preserved /\ \A w \in Worker : SameCall(w)
<1>1. Preserved
  BY DEF Tick, Preserved, TypeOK, Output
<1>2. ASSUME NEW w \in Worker PROVE SameCall(w)
  <2>1. CASE call[w].stage = "timed"
    <3>1. /\ call'[w] = [call[w] EXCEPT !.lag = @ + 1]
          /\ call[w] \in [stage : {"timed"}, req : Request, lag : 0 .. MaxStall]
      BY <2>1, TimedCall DEF Tick
    <3>2. QED
      BY <2>1, <3>1 DEF SameCall
  <2>2. CASE call[w].stage # "timed"
    BY <2>2 DEF Tick, SameCall
  <2>3. QED
    BY <2>1, <2>2
<1>3. QED
  BY <1>1, <1>2

\* A step of one task keeps all batches if it keeps its own.
LEMMA BatchOfOne ==
  ASSUME ServiceInv, BatchInv, NEW w \in Worker, BatchOK(w)', Preserved,
         produced' \in [Worker -> [made : Seq(Size), held : Seq(Id)]],
         \A v \in Worker \ {w} : /\ task'[v] = task[v] /\ call'[v] = call[v]
                                 /\ produced'[v] = produced[v]
  PROVE  BatchInv'
<1>1. ASSUME NEW v \in Worker \ {w} PROVE BatchOK(v)'
  BY BatchUndisturbed DEF ServiceInv, BatchInv, SameCall
<1>2. QED
  BY <1>1 DEF BatchInv

\* Every step of the service keeps the batches.
LEMMA BatchStep ==
  ASSUME ServiceInv, BatchInv, [ServiceNext]_serviceVars
  PROVE  BatchInv'
<1>1. /\ task \in [Worker -> Task] /\ call \in [Worker -> Call]
      /\ produced \in [Worker -> [made : Seq(Size), held : Seq(Id)]]
      /\ <<>> \in Seq(Size) /\ <<>> \in Seq(Id)
  BY DEF ServiceInv, TypeOK, TaskTypeOK, BatchInv
<1>2. UNCHANGED <<outputs, issued>> => Preserved
  BY DEF Preserved, ServiceInv, TypeOK
<1>3. ASSUME NEW w \in Worker, NEW made \in Seq(Size), NEW held \in Seq(Id), Records(w, made, held)
      PROVE  /\ produced' \in [Worker -> [made : Seq(Size), held : Seq(Id)]]
             /\ \A v \in Worker \ {w} : produced'[v] = produced[v]
  BY <1>1, <1>3 DEF Records
<1>4. ASSUME NEW w \in Worker,
             \/ \E m \in Method : Accept(w, m)
             \/ Proceed(w)
             \/ \E error \in ErrorName : Fail(w, error)
             \/ UndoDone(w)
      PROVE  BatchInv'
  <2>1. BatchOK(w)'
    BY <1>4, WorkBatch
  <2>2. /\ UNCHANGED <<outputs, issued, call, produced>>
        /\ \A v \in Worker \ {w} : task'[v] = task[v]
    BY <1>1, <1>4 DEF Accept, Proceed, Fail, UndoDone, Moves, vars
  <2>3. QED
    BY <1>1, <1>2, <2>1, <2>2, BatchOfOne
<1>5. ASSUME NEW w \in Worker, \/ \E sizes : WorkDone(w, sizes)
                               \/ Deliver(w) \/ Lose(w)
      PROVE  BatchInv'
  <2>1. BatchOK(w)'
    BY <1>5, WorkBatch
  <2>2. /\ UNCHANGED <<outputs, issued, call>>
        /\ \A v \in Worker \ {w} : task'[v] = task[v]
    BY <1>1, <1>5 DEF WorkDone, Deliver, Lose, Moves, vars
  <2>3. \E made \in Seq(Size) : Records(w, made, <<>>)
    BY <1>1, <1>5, ProductsTyped DEF WorkDone, Deliver, Lose
  <2>4. /\ produced' \in [Worker -> [made : Seq(Size), held : Seq(Id)]]
        /\ \A v \in Worker \ {w} : produced'[v] = produced[v]
    BY <1>1, <1>3, <2>3
  <2>5. QED
    BY <1>2, <2>1, <2>2, <2>4, BatchOfOne
<1>6. ASSUME NEW w \in Worker, HoldReturn(w) PROVE BatchInv'
  <2>1. BatchOK(w)'
    BY <1>6, HoldReturnBatch
  <2>2. /\ UNCHANGED <<outputs, issued>>
        /\ \A v \in Worker \ {w} : task'[v] = task[v] /\ call'[v] = call[v]
    BY <1>1, <1>6 DEF HoldReturn, Finish, Moves
  <2>3. /\ produced' \in [Worker -> [made : Seq(Size), held : Seq(Id)]]
        /\ \A v \in Worker \ {w} : produced'[v] = produced[v]
    <3>1. CASE call[w].result = "Ok"
      <4>1. Records(w, produced[w].made, Append(produced[w].held, call[w].id))
        BY <1>6, <3>1 DEF HoldReturn, Retains
      <4>2. call[w].id \in Id
        <5>1. task[w].at = "holding" /\ call[w].stage = "returned"
          BY <1>6 DEF HoldReturn, Finish
        <5>2. QED
          BY <3>1, <5>1, Owning DEF ServiceInv, InOrder, TypeOK
      <4>3. /\ produced[w].made \in Seq(Size)
            /\ Append(produced[w].held, call[w].id) \in Seq(Id)
        BY <1>1, <4>2
      <4>4. QED
        BY <1>3, <4>1, <4>3
    <3>2. CASE call[w].result # "Ok"
      BY <1>1, <1>6, <3>2 DEF HoldReturn, Retains
    <3>3. QED
      BY <3>1, <3>2
  <2>4. QED
    BY <1>2, <2>1, <2>2, <2>3, BatchOfOne
<1>7. ASSUME NEW w \in Worker, UndoReturn(w) \/ AccessReturn(w) PROVE BatchInv'
  <2>1. BatchOK(w)'
    BY <1>7, ReturnBatch
  <2>2. /\ UNCHANGED <<outputs, issued, produced>>
        /\ \A v \in Worker \ {w} : task'[v] = task[v] /\ call'[v] = call[v]
    BY <1>1, <1>7 DEF UndoReturn, AccessReturn, Finish, Moves
  <2>3. QED
    BY <1>1, <1>2, <2>1, <2>2, BatchOfOne
<1>8. ASSUME NEW w \in Worker,
             \/ HoldNext(w) \/ UndoNext(w)
             \/ \E id \in Named, offset \in Offset, len \in Length : ReadOutput(w, id, offset, len)
             \/ \E id \in Named : ReleaseOutput(w, id)
      PROVE  BatchInv'
  <2>1. BatchOK(w)'
    BY <1>8, CallBatch
  <2>2. UNCHANGED <<outputs, issued, produced>>
    BY <1>8 DEF HoldNext, UndoNext, ReadOutput, ReleaseOutput, BeginInsert, BeginRead, BeginRelease
  <2>3. \A v \in Worker \ {w} : task'[v] = task[v] /\ call'[v] = call[v]
    BY <1>1, <1>8 DEF HoldNext, UndoNext, ReadOutput, ReleaseOutput, BeginInsert, BeginRead,
                      BeginRelease, Returns, Waits, Moves
  <2>4. QED
    BY <1>1, <1>2, <2>1, <2>2, <2>3, BatchOfOne
<1>9. ASSUME NEW w \in Worker, StoreCommit(w) PROVE BatchInv'
  <2>1. BatchOK(w)'
    BY <1>9, CommitBatch
  <2>2. Commit(w) /\ UNCHANGED <<task, produced>> /\ TypeOK
    BY <1>9 DEF StoreCommit, ServiceInv
  <2>3. Preserved
    BY <2>2, CommitPreserves
  <2>4. \A v \in Worker \ {w} : call'[v] = call[v]
    BY <2>2, Committed
  <2>5. QED
    BY <1>1, <2>1, <2>2, <2>3, <2>4, BatchOfOne
<1>10. CASE ServiceTick
  <2>1. Preserved /\ \A w \in Worker : SameCall(w)
    BY <1>10, TickPreserves DEF ServiceTick, ServiceInv
  <2>2. ASSUME NEW w \in Worker PROVE BatchOK(w)'
    BY <1>10, <2>1, BatchUndisturbed DEF ServiceTick, ServiceInv, BatchInv
  <2>3. QED
    BY <1>1, <1>10, <2>2 DEF ServiceTick, BatchInv
<1>11. CASE UNCHANGED serviceVars
  <2>1. UNCHANGED <<outputs, issued, call, task, produced>>
    BY <1>11 DEF serviceVars
  <2>2. ASSUME NEW w \in Worker PROVE BatchOK(w)'
    BY <1>2, <2>1, BatchUndisturbed DEF SameCall, ServiceInv, BatchInv
  <2>3. QED
    BY <1>1, <2>1, <2>2 DEF BatchInv
<1>12. ASSUME NEW w \in Worker, Serve(w) PROVE BatchInv'
  <2>1. \A error \in Failures("work", "GenerateDocx") \cup Failures("work", "ExtractText")
                     \cup Failures("resolve", "GeneratePptx") : error \in ErrorName
    BY FailuresTyped DEF Stage
  <2>2. QED
    BY <1>4, <1>5, <1>6, <1>7, <1>8, <1>9, <1>12, <2>1 DEF Serve
<1>13. QED
  BY <1>4, <1>8, <1>10, <1>11, <1>12 DEF ServiceNext

LEMMA AlwaysBatched == ServiceSpec => []BatchInv
<1>1. ServiceInit => BatchInv
  <2>1. SUFFICES ASSUME ServiceInit PROVE BatchInv
    OBVIOUS
  <2>2. /\ task = [w \in Worker |-> Free] /\ produced = [w \in Worker |-> Nothing]
        /\ <<>> \in Seq(Size) /\ <<>> \in Seq(Id) /\ ToSet(<<>>) = {}
    BY <2>1 DEF ServiceInit, ToSet
  <2>3. ASSUME NEW w \in Worker PROVE BatchOK(w)
    BY <2>2 DEF BatchOK, Free, Nothing
  <2>4. QED
    BY <2>2, <2>3 DEF BatchInv, Nothing
<1>2. ServiceInv /\ BatchInv /\ [ServiceNext]_serviceVars => BatchInv'
  BY BatchStep
<1>3. QED
  BY <1>1, <1>2, AlwaysInOrder, PTL DEF ServiceSpec

\* A rendering is answered with all of its pages or with none: an Ok names one
\* output for each page in order, each of the page's own size while it is held,
\* and an error leaves no page that the call has held, wherever the store refused
\* one and whichever pages expired on the way.
THEOREM BatchesAreWhole == ServiceSpec => []WholeBatches
<1>1. ASSUME ServiceInv, BatchInv PROVE WholeBatches
  <2>1. ASSUME NEW w \in Worker, task[w].at = "replied"
        PROVE  IF task[w].result = "Ok"
               THEN /\ Len(task[w].pages) = Len(produced[w].made)
                    /\ IsInjective(task[w].pages)
                    /\ \A i \in 1 .. Len(task[w].pages) : task[w].pages[i] \in DOMAIN outputs =>
                         outputs[task[w].pages[i]].size = produced[w].made[i]
               ELSE ToSet(produced[w].held) \cap DOMAIN outputs = {}
    <3>1. BatchOK(w) /\ InOrder(w)
      BY <1>1 DEF ServiceInv, BatchInv
    <3>2. IsInjective(task[w].pages)
      BY <2>1, <3>1 DEF InOrder, Batched
    <3>3. QED
      BY <2>1, <3>1, <3>2 DEF BatchOK, HeldAsMade
  <2>2. QED
    BY <2>1 DEF WholeBatches
<1>2. QED
  BY <1>1, AlwaysInOrder, AlwaysBatched, PTL

\* An output that a caller is told is gone is gone.
THEOREM UnknownStaysUnknown == ServiceSpec => []UnknownIsFinal
<1>1. ServiceInv => UnknownIsFinal
  BY DEF ServiceInv, InOrder, UnknownIsFinal
<1>2. QED
  BY <1>1, AlwaysInOrder, PTL

\* Every run of the service is a run of the store.
THEOREM ServiceUsesStore == ServiceSpec => UsesStore
<1>1. ServiceInit => Init
  BY DEF ServiceInit
<1>2. ServiceInv /\ [ServiceNext]_serviceVars => [Next]_vars
  BY ServiceStep
<1>3. QED
  BY <1>1, <1>2, AlwaysInOrder, PTL DEF ServiceSpec, UsesStore, Spec

\* The budgets of the store hold of the service, whose tasks call it in any order.
THEOREM ServiceWithinBounds == ServiceSpec => []Bounds
BY ServiceUsesStore, AlwaysWithinBounds, PTL DEF UsesStore

\* So the service keeps the promise of the store that the client relies on.
THEOREM ServiceKeepsPromise == ServiceSpec => ImplementsHeldOutputs
BY ServiceUsesStore, Implements, PTL DEF UsesStore
=============================================================================
