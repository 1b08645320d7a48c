--------------------------- MODULE DocumentsService --------------------------
(***************************************************************************)
(* The served object: crates/tinydocs-module/src/service/mod.rs.           *)
(*                                                                         *)
(* Each worker is a task that serves one bus call at a time.  A call that  *)
(* produces documents first reads its stream, validates and works on the   *)
(* blocking pool, with an await in between; then it holds what it produced *)
(* by calls of the OutputStore, and a PDF rendering holds its pages one by *)
(* one: if the store refuses one, those already held are released again.   *)
(* Every step of the store is a step of OutputStore; the service decides   *)
(* which call comes next and what becomes of its reply.                    *)
(***************************************************************************)
EXTENDS OutputStore, SequencesExt

CONSTANTS
  Method,      \* the bus methods that do not address a held output
  Batch,       \* the page sizes of PDF renderings, as sequences
  MaxBatch     \* bound: pages of one rendering

ASSUME ServiceAssumption ==
  /\ Method \subseteq {"GenerateDocx", "GeneratePptx", "ExtractText", "ConvertMarkdown",
                       "RenderPdf", "ExtractDocument", "InspectImage"}
  /\ Batch \subseteq Seq(Size)
  /\ MaxBatch \in Nat /\ \A sizes \in Batch : Len(sizes) <= MaxBatch
  /\ \A sizes \in Batch : \A i \in 1 .. Len(sizes) : sizes[i] <= MaxOutputBytes

VARIABLES
  task,    \* what each worker is serving
  given,   \* ids whose reply reached the caller
  lost,    \* ids whose reply reached nobody: the caller was gone
  produced \* what the work of each call has yielded, and what was held of it

serviceVars == <<outputs, issued, call, task, given, lost, produced>>

-----------------------------------------------------------------------------
(* The wire names of errors.                                               *)

WireName(result) ==
  CASE result = "Ok" -> "Ok"
    [] result = "UnknownOutput" -> "UnknownOutput"
    [] result \in {"StoreFull", "TooManyOutputs", "OutputTooLarge"} -> "OutputRefused"
    [] result \in {"ChunkTooLarge", "ReadPastEnd"} -> "TransferFailed"

\* What a method does before it holds anything, in order.
Plan(m) ==
  CASE m = "GenerateDocx" -> <<"validate", "work">>
    [] m = "GeneratePptx" -> <<"resolve", "validate", "work">>
    [] m = "InspectImage" -> <<"image", "work">>
    [] OTHER -> <<"stream", "work">>

\* How a stage fails.  A panic on the blocking pool is a ModuleFailed.
Failures(stage, m) ==
  CASE stage = "validate" -> {"InvalidInput"}
    [] stage = "stream"   -> {"TransferFailed"}
    [] stage \in {"resolve", "image"} -> {"InvalidInput", "TransferFailed"}
    [] stage = "work" ->
         {"ModuleFailed", "InvalidInput",
          IF m \in {"GenerateDocx", "GeneratePptx"} THEN "GenerationFailed"
                                                    ELSE "ExtractionFailed"}

-----------------------------------------------------------------------------
(* The states of a task.                                                   *)

Free == [at |-> "free"]
Working(m, todo) == [at |-> "working", method |-> m, todo |-> todo]
\* pages: the ids held so far; sizes: the documents still to be held.
Holding(sizes, pages) == [at |-> "holding", sizes |-> sizes, pages |-> pages]
Undoing(pages, error) == [at |-> "undoing", pages |-> pages, error |-> error]
Accessing == [at |-> "accessing"]
\* about: the output that a ReadOutput or a ReleaseOutput named.
Replied(result, pages, about) ==
  [at |-> "replied", result |-> result, pages |-> pages, about |-> about]

Stage == {"validate", "stream", "resolve", "image", "work"}
ErrorName == {"InvalidInput", "TransferFailed", "ModuleFailed", "GenerationFailed",
              "ExtractionFailed", "UnknownOutput", "OutputRefused"}

Task ==
  [at : {"free"}]
    \cup [at : {"working"}, method : Method, todo : Seq(Stage)]
    \cup [at : {"holding"}, sizes : Seq(Size) \ {<<>>}, pages : Seq(Id)]
    \cup [at : {"undoing"}, pages : Seq(Id), error : ErrorName]
    \cup [at : {"accessing"}]
    \cup [at : {"replied"}, result : {"Ok"} \cup ErrorName, pages : Seq(Id),
          about : Id \cup {NoId}]

Moves(w, state) == task' = [task EXCEPT ![w] = state]

\* History, not state of the code: the documents that the call of a worker has
\* produced, in order, and the ids under which the store has held them.
Nothing == [made |-> <<>>, held |-> <<>>]
Records(w, made, held) == produced' = [produced EXCEPT ![w] = [made |-> made, held |-> held]]

Producing == {w \in Worker : task[w].at \in {"working", "holding"}}

-----------------------------------------------------------------------------
(* Before anything is held.                                                *)

\* A call arrives.  The guard only keeps the ids that a behaviour can use up
\* within MaxIssued.
Accept(w, m) ==
  /\ task[w] = Free
  /\ Cardinality(issued) + MaxBatch * (Cardinality(Producing) + 1) <= MaxIssued
  /\ Moves(w, Working(m, Plan(m)))
  /\ UNCHANGED <<vars, given, lost, produced>>

\* A stage before the last one is done.
Proceed(w) ==
  /\ task[w].at = "working" /\ Len(task[w].todo) > 1
  /\ Moves(w, Working(task[w].method, Tail(task[w].todo)))
  /\ UNCHANGED <<vars, given, lost, produced>>

\* A stage fails: the call is answered and nothing was held.
Fail(w, error) ==
  /\ task[w].at = "working"
  /\ error \in Failures(Head(task[w].todo), task[w].method)
  /\ Moves(w, Replied(error, <<>>, NoId))
  /\ UNCHANGED <<vars, given, lost, produced>>

\* The blocking work is done.  It yields one document, a batch of pages, or a
\* typed reply that needs no holding.  Only extracted text and Markdown can
\* exceed what the store takes: the limits of the specs and of a rendering keep
\* the other products smaller.
Products(m) ==
  CASE m = "RenderPdf" -> Batch
    [] m \in {"ExtractText", "ConvertMarkdown"} -> {<<size>> : size \in Size}
    [] m \in {"GenerateDocx", "GeneratePptx"} ->
         {<<size>> : size \in Size \cap (0 .. MaxOutputBytes)}
    [] OTHER -> {<<>>}

\* What follows when these sizes are left: the next insertion, or the reply.
AfterHold(sizes, pages) ==
  IF sizes = <<>> THEN Replied("Ok", pages, NoId) ELSE Holding(sizes, pages)

WorkDone(w, sizes) ==
  /\ task[w].at = "working" /\ Len(task[w].todo) = 1
  /\ sizes \in Products(task[w].method)
  /\ Moves(w, AfterHold(sizes, <<>>))
  /\ Records(w, sizes, <<>>)
  /\ UNCHANGED <<vars, given, lost>>

-----------------------------------------------------------------------------
(* Holding what was produced.                                              *)

HoldNext(w) ==
  /\ task[w].at = "holding"
  /\ BeginInsert(w, Head(task[w].sizes))
  /\ UNCHANGED <<task, given, lost, produced>>

\* The reply of an insertion that succeeded says under which id.
Retains(w) ==
  IF call[w].result = "Ok" THEN Records(w, produced[w].made, Append(produced[w].held, call[w].id))
                           ELSE UNCHANGED produced

\* Bug: the rollback forgets what was held.
HoldReturnNoRollback(w) ==
  /\ task[w].at = "holding"
  /\ Finish(w)
  /\ Retains(w)
  /\ IF call[w].result = "Ok"
     THEN Moves(w, AfterHold(Tail(task[w].sizes), Append(task[w].pages, call[w].id)))
     ELSE Moves(w, Undoing(<<>>, WireName(call[w].result)))
  /\ UNCHANGED <<given, lost>>

\* Bug: a later page that is refused ends the batch, which is answered as it is.
HoldReturnBreaks(w) ==
  /\ task[w].at = "holding"
  /\ Finish(w)
  /\ Retains(w)
  /\ IF call[w].result = "Ok"
     THEN Moves(w, AfterHold(Tail(task[w].sizes), Append(task[w].pages, call[w].id)))
     ELSE Moves(w, IF task[w].pages # <<>>
                   THEN Replied("Ok", task[w].pages, NoId)
                   ELSE Undoing(<<>>, WireName(call[w].result)))
  /\ UNCHANGED <<given, lost>>

\* Bug: the store's own error is passed on under no wire name.
HoldReturnUnmapped(w) ==
  /\ task[w].at = "holding"
  /\ Finish(w)
  /\ Retains(w)
  /\ IF call[w].result = "Ok"
     THEN Moves(w, AfterHold(Tail(task[w].sizes), Append(task[w].pages, call[w].id)))
     ELSE Moves(w, Undoing(task[w].pages, call[w].result))
  /\ UNCHANGED <<given, lost>>

\* The insertion returned: go on with the next page, or roll the batch back.
HoldReturn(w) ==
  /\ task[w].at = "holding"
  /\ Finish(w)
  /\ Retains(w)
  /\ IF call[w].result = "Ok"
     THEN Moves(w, AfterHold(Tail(task[w].sizes), Append(task[w].pages, call[w].id)))
     ELSE Moves(w, Undoing(task[w].pages, WireName(call[w].result)))
  /\ UNCHANGED <<given, lost>>

\* Bug: the rollback removes the page itself, without a sweep.
UndoNextDirect(w) ==
  /\ task[w].at = "undoing" /\ task[w].pages # <<>>
  /\ outputs' = Without(outputs, Head(task[w].pages))
  /\ Returns(w, "Ok", Head(task[w].pages), 0)
  /\ UNCHANGED <<issued, task, given, lost, produced>>

UndoNext(w) ==
  /\ task[w].at = "undoing" /\ task[w].pages # <<>>
  /\ BeginRelease(w, Head(task[w].pages))
  /\ UNCHANGED <<task, given, lost, produced>>

\* Bug: a release that fails is tried again.
UndoReturnRetry(w) ==
  /\ task[w].at = "undoing"
  /\ Finish(w)
  /\ IF call[w].result = "Ok"
     THEN Moves(w, Undoing(Tail(task[w].pages), task[w].error))
     ELSE UNCHANGED task
  /\ UNCHANGED <<given, lost, produced>>

\* The result of the release is ignored: a page may have expired.
UndoReturn(w) ==
  /\ task[w].at = "undoing"
  /\ Finish(w)
  /\ Moves(w, Undoing(Tail(task[w].pages), task[w].error))
  /\ UNCHANGED <<given, lost, produced>>

UndoDone(w) ==
  /\ task[w].at = "undoing" /\ task[w].pages = <<>>
  /\ Moves(w, Replied(task[w].error, <<>>, NoId))
  /\ UNCHANGED <<vars, given, lost, produced>>

-----------------------------------------------------------------------------
(* Held outputs.  A caller names an id it was given, or none that exists.  *)

Named == given \cup {NoId}

ReadOutput(w, id, offset, len) ==
  /\ task[w] = Free
  /\ BeginRead(w, id, offset, len)
  /\ Moves(w, Accessing)
  /\ UNCHANGED <<given, lost, produced>>

ReleaseOutput(w, id) ==
  /\ task[w] = Free
  /\ BeginRelease(w, id)
  /\ Moves(w, Accessing)
  /\ UNCHANGED <<given, lost, produced>>

AccessReturn(w) ==
  /\ task[w].at = "accessing"
  /\ Finish(w)
  /\ Moves(w, Replied(WireName(call[w].result), <<>>, call[w].id))
  /\ UNCHANGED <<given, lost, produced>>

-----------------------------------------------------------------------------
(* The store, the replies, and the whole.                                  *)

StoreCommit(w) == Commit(w) /\ UNCHANGED <<task, given, lost, produced>>

\* The bus delivers the reply.
Deliver(w) ==
  /\ task[w].at = "replied"
  /\ given' = given \cup ToSet(task[w].pages)
  /\ Moves(w, Free) /\ Records(w, <<>>, <<>>)
  /\ UNCHANGED <<vars, lost>>

\* The caller is gone: nobody will ever name these outputs.
Lose(w) ==
  /\ task[w].at = "replied"
  /\ lost' = lost \cup ToSet(task[w].pages)
  /\ Moves(w, Free) /\ Records(w, <<>>, <<>>)
  /\ UNCHANGED <<vars, given>>

ServiceTick == Tick /\ UNCHANGED <<task, given, lost, produced>>

ServiceInit ==
  /\ Init
  /\ task = [w \in Worker |-> Free]
  /\ given = {}
  /\ lost = {}
  /\ produced = [w \in Worker |-> Nothing]

\* The steps a worker takes once it has a call.
Serve(w) ==
  \/ Proceed(w)
  \/ \E error \in Failures("work", "GenerateDocx") \cup Failures("work", "ExtractText")
                    \cup Failures("resolve", "GeneratePptx") : Fail(w, error)
  \/ \E sizes \in Batch \cup {<<size>> : size \in Size} \cup {<<>>} : WorkDone(w, sizes)
  \/ HoldNext(w) \/ HoldReturn(w)
  \/ UndoNext(w) \/ UndoReturn(w) \/ UndoDone(w)
  \/ StoreCommit(w)
  \/ AccessReturn(w)
  \/ Deliver(w) \/ Lose(w)

ServiceNext ==
  \/ \E w \in Worker :
       \/ \E m \in Method : Accept(w, m)
       \/ \E id \in Named, offset \in Offset, len \in Length : ReadOutput(w, id, offset, len)
       \/ \E id \in Named : ReleaseOutput(w, id)
       \/ Serve(w)
  \/ ServiceTick

ServiceSpec == ServiceInit /\ [][ServiceNext]_serviceVars

\* Streams complete or time out on the bus, blocking work ends, and a task
\* that can run does.  Nobody has to call, and time need not pass.
FairServiceSpec == ServiceSpec /\ \A w \in Worker : WF_serviceVars(Serve(w))

-----------------------------------------------------------------------------
(* Properties.                                                             *)

\* The outputs a task answers for: those it has recorded, and the one whose
\* insertion has just returned.
InHand(w) ==
  (IF task[w].at \in {"holding", "undoing", "replied"} THEN ToSet(task[w].pages) ELSE {})
    \cup {call[v].id : v \in {v \in {w} : /\ task[v].at = "holding"
                                         /\ call[v].stage = "returned"
                                         /\ call[v].result = "Ok"}}

\* Tasks have their types, and a store call is under way only in a task that
\* waits for it.
TaskTypeOK ==
  /\ given \subseteq issued /\ lost \subseteq issued
  /\ task \in [Worker -> Task]
  /\ \A w \in Worker :
       IF call[w].stage = "idle" THEN task[w].at # "accessing"
       ELSE task[w].at \in {"holding", "undoing", "accessing"}

\* Nothing is held without an owner: whatever the store holds is in the hands
\* of exactly one task, was given to a caller, or was lost with a caller.  So
\* a call answered with an error, a rendering rolled back half way included,
\* has left nothing behind, and a rollback releases nobody else's output.
OneOwner ==
  /\ DOMAIN outputs \subseteq given \cup lost \cup UNION {InHand(w) : w \in Worker}
  /\ given \cap lost = {}
  /\ \A v, w \in Worker :
       /\ InHand(w) \cap (given \cup lost) = {}
       /\ v # w => InHand(v) \cap InHand(w) = {}

\* An UnknownOutput is final: when the caller hears that a document it was
\* given is gone, it is gone, however late the answer.
UnknownIsFinal ==
  \A w \in Worker :
    task[w].at = "replied" /\ task[w].result = "UnknownOutput" =>
      task[w].about \notin DOMAIN outputs

\* A batch is answered with all of its pages or with none.  An Ok names one output
\* for each document that the work yielded, in order: as long as it is held it has
\* the size of that document, and no two are the same.  After an error nothing that
\* the call has held is left, whether the rollback released it or it expired before.
WholeBatches ==
  \A w \in Worker : task[w].at = "replied" =>
    IF task[w].result = "Ok"
    THEN /\ Len(task[w].pages) = Len(produced[w].made)
         /\ IsInjective(task[w].pages)
         /\ \A i \in 1 .. Len(task[w].pages) : task[w].pages[i] \in DOMAIN outputs =>
              outputs[task[w].pages[i]].size = produced[w].made[i]
    ELSE ToSet(produced[w].held) \cap DOMAIN outputs = {}

\* The service uses the store only through its operations, so what is proved
\* of OutputStore holds of every run of the service.
UsesStore == Spec

\* Every call is answered.
Answered == \A w \in Worker : task[w].at = "working" ~> task[w].at = "replied"

-----------------------------------------------------------------------------
(* What the documentation says and the code does not do.                   *)

\* docs/specs/tinybus-module.md: OutputRefused means a budget is full and the
\* same request may succeed later, so the refused document would fit in an
\* empty store.
RefusedMayRetry ==
  \A w \in Worker :
    /\ task[w].at = "holding" /\ call[w].stage = "returned"
    /\ WireName(call[w].result) = "OutputRefused"
    => Head(task[w].sizes) <= MaxOutputBytes
=============================================================================
