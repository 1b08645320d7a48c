---------------------------- MODULE OutputClient ----------------------------
(***************************************************************************)
(* The client that turns held outputs back into bytes:                     *)
(* crates/tinydocs-client/src/client.rs, composed with the promise of the  *)
(* store, HeldOutputs, which the other end of the bus keeps.               *)
(*                                                                         *)
(* An operation is one future.  It awaits one bus call at a time and may   *)
(* be dropped at any await; what it still owes the store is then released  *)
(* by tasks that its drop guards spawn, if there is a runtime to spawn     *)
(* them on.  A call that the bus gives up may be executed all the same.    *)
(***************************************************************************)
EXTENDS HeldOutputs, SequencesExt

CONSTANTS
  Op,               \* operations of the client, each run once
  ReadChunkBytes,   \* READ_CHUNK_BYTES
  MaxDocumentBytes, \* MAX_DOCUMENT_BYTES of the client
  MaxPages,         \* bound: pages of one rendering
  Faulty            \* whether the module may misdeclare a size or garble a chunk

ASSUME ClientAssumption ==
  /\ ReadChunkBytes \in Nat \ {0} /\ MaxDocumentBytes \in Nat
  /\ MaxPages \in Nat \ {0} /\ Faulty \in BOOLEAN

VARIABLES
  op,        \* where each operation is
  net,       \* the bus call each operation awaits
  stray,     \* calls given up by their caller that may still be executed
  pending,   \* render_pdf's guard: pages not yet collected
  guard,     \* collect's guard: the output being collected
  cleanup,   \* outputs that spawned tasks are still to release
  stranded   \* outputs the client cannot or will not release: left to expire

clientVars == <<docs, retired, op, net, stray, pending, guard, cleanup, stranded>>

-----------------------------------------------------------------------------
(* Calls, replies, and the states of an operation.                         *)

NoCall == [at |-> "none"]
Sent(req) == [at |-> "sent", req |-> req]
Answered(reply) == [at |-> "answered", reply |-> reply]

\* made: what the module holds for the call so far.
Produce(made) == [kind |-> "produce", made |-> made]
ReadReq(id, offset) == [kind |-> "read", id |-> id, offset |-> offset]
ReleaseReq(id) == [kind |-> "release", id |-> id]

\* An OutputRef: its id, its declared length, and in place of its digest the
\* length of the one document that has it.
Handle(id, total, sha) == [id |-> id, total |-> total, sha |-> sha]

Handles(made) == [kind |-> "handles", handles |-> made]
Chunk(n, sound) == [kind |-> "chunk", n |-> n, sound |-> sound]
Unit == [kind |-> "unit"]
Failure(name) == [kind |-> "failure", name |-> name]
Failed(reply) == reply.kind = "failure"

\* classify_failure.
Classify(name) ==
  CASE name = "InvalidInput" -> "InvalidInput"
    [] name = "ModuleUnavailable" -> "Unavailable"
    [] OTHER -> "Failed"

Idle == [at |-> "idle"]
Producing(render) == [at |-> "producing", render |-> render]
\* k: the handle being collected; have, sound: what was read of it; result: what
\* read_all returned; pages: what was collected; error: first_error, or "Ok".
Collecting(handles) ==
  [at |-> "reading", handles |-> handles, k |-> 1, have |-> 0, sound |-> TRUE,
   result |-> "Ok", pages |-> <<>>, error |-> "Ok"]
Ended(result, pages, handles) ==
  [at |-> "ended", result |-> result, pages |-> pages, handles |-> handles]
Dropped == [at |-> "dropped"]

Current(s) == s.handles[s.k]
Ids(handles) == {h.id : h \in ToSet(handles)}
Under(o, kind) == net[o].at = "answered" /\ op[o].at = kind

Goes(o, state) == op' = [op EXCEPT ![o] = state]
Sends(o, req) == net' = [net EXCEPT ![o] = Sent(req)]
Guards(o, waiting, armed) ==
  /\ pending' = [pending EXCEPT ![o] = waiting]
  /\ guard' = [guard EXCEPT ![o] = armed]

-----------------------------------------------------------------------------
(* The operation.  From one await to the next is one step.                 *)

\* bind, output_client, and the producing call.
Start(o, render) ==
  /\ op[o] = Idle
  /\ Goes(o, Producing(render))
  /\ Sends(o, Produce(<<>>))
  /\ UNCHANGED <<docs, retired, stray, pending, guard, cleanup, stranded>>

\* read_all has its result: collect awaits the release.
Settle(o, s, result) ==
  /\ Goes(o, [s EXCEPT !.at = "releasing", !.result = result])
  /\ Sends(o, ReleaseReq(Current(s).id))

\* Bug: the digest is not compared.
ReadOnUndigested(o, s) ==
  LET h == Current(s) IN
  \/ h.total > MaxDocumentBytes /\ Settle(o, s, "Failed")
  \/ /\ h.total <= MaxDocumentBytes /\ s.have < h.total
     /\ Goes(o, s) /\ Sends(o, ReadReq(h.id, s.have))
  \/ h.total <= MaxDocumentBytes /\ s.have >= h.total /\ Settle(o, s, "Ok")

\* The loop of read_all: refuse the declared length, read on, or compare the
\* digest of what was read.
ReadOn(o, s) ==
  LET h == Current(s) IN
  \/ h.total > MaxDocumentBytes /\ Settle(o, s, "Failed")
  \/ /\ h.total <= MaxDocumentBytes /\ s.have < h.total
     /\ Goes(o, s) /\ Sends(o, ReadReq(h.id, s.have))
  \/ /\ h.total <= MaxDocumentBytes /\ s.have >= h.total
     /\ Settle(o, s, IF s.sound /\ s.have = h.sha THEN "Ok" ELSE "Failed")

\* The outputs of handles k, k+1, ...
Left(s, k) == Ids(SubSeq(s.handles, k, Len(s.handles)))

\* Bug: the guard of collect takes over every page that is left.
CollectAll(o, s) ==
  IF s.k > Len(s.handles)
  THEN /\ Goes(o, Ended(s.error, s.pages, s.handles))
       /\ net' = [net EXCEPT ![o] = NoCall]
       /\ Guards(o, {}, {})
  ELSE /\ Guards(o, {}, Left(s, s.k))
       /\ ReadOn(o, s)

\* Bug: the guard of collect is not armed before the first await.
CollectUnguarded(o, s) ==
  IF s.k > Len(s.handles)
  THEN /\ Goes(o, Ended(s.error, s.pages, s.handles))
       /\ net' = [net EXCEPT ![o] = NoCall]
       /\ Guards(o, {}, {})
  ELSE /\ Guards(o, Left(s, s.k + 1), {})
       /\ ReadOn(o, s)

\* collect for handle k, or, past the last one, the end of the operation.  The
\* page moves from the guard of the rendering to that of collect before any
\* await.
Collect(o, s) ==
  IF s.k > Len(s.handles)
  THEN /\ Goes(o, Ended(s.error, s.pages, s.handles))
       /\ net' = [net EXCEPT ![o] = NoCall]
       /\ Guards(o, {}, {})
  ELSE /\ Guards(o, Left(s, s.k + 1), {Current(s).id})
       /\ ReadOn(o, s)

\* The producing call returns.
Produced(o) ==
  /\ Under(o, "producing")
  /\ LET reply == net[o].reply IN
     IF Failed(reply)
     THEN /\ Goes(o, Ended(Classify(reply.name), <<>>, <<>>))
          /\ net' = [net EXCEPT ![o] = NoCall]
          /\ UNCHANGED <<pending, guard>>
     ELSE Collect(o, Collecting(reply.handles))
  /\ UNCHANGED <<docs, retired, stray, cleanup, stranded>>

\* Bug: an empty chunk is not an end.
GotChunkEmpty(o) ==
  /\ Under(o, "reading")
  /\ LET reply == net[o].reply
         s == op[o]
     IN \/ Failed(reply) /\ Settle(o, s, Classify(reply.name))
        \/ /\ ~Failed(reply)
           /\ s.have + reply.n > Current(s).total
           /\ Settle(o, s, "Failed")
        \/ /\ ~Failed(reply)
           /\ s.have + reply.n <= Current(s).total
           /\ ReadOn(o, [s EXCEPT !.have = @ + reply.n, !.sound = @ /\ reply.sound])
  /\ UNCHANGED <<docs, retired, stray, pending, guard, cleanup, stranded>>

\* A read returns.  An empty chunk stands also for one that is not base64.
GotChunk(o) ==
  /\ Under(o, "reading")
  /\ LET reply == net[o].reply
         s == op[o]
     IN \/ Failed(reply) /\ Settle(o, s, Classify(reply.name))
        \/ /\ ~Failed(reply)
           /\ reply.n = 0 \/ s.have + reply.n > Current(s).total
           /\ Settle(o, s, "Failed")
        \/ /\ ~Failed(reply)
           /\ reply.n > 0 /\ s.have + reply.n <= Current(s).total
           /\ ReadOn(o, [s EXCEPT !.have = @ + reply.n, !.sound = @ /\ reply.sound])
  /\ UNCHANGED <<docs, retired, stray, pending, guard, cleanup, stranded>>

\* Where a rendering goes when the release of handle k has returned.
AfterPage(s) ==
  [s EXCEPT !.at = "reading", !.k = @ + 1, !.have = 0, !.sound = TRUE,
            !.result = "Ok",
            !.error = IF @ = "Ok" THEN s.result ELSE @,
            !.pages = IF s.result = "Ok" /\ s.error = "Ok"
                      THEN Append(@, [id |-> Current(s).id, have |-> s.have, sound |-> s.sound])
                      ELSE @]

\* A release that failed is not repeated; one that found nothing is as good.
Unreleased(o) ==
  LET reply == net[o].reply IN
  IF Failed(reply) /\ reply.name # "UnknownOutput" THEN {Current(op[o]).id} ELSE {}

\* Bug: after an error the pages still pending are released at once, although
\* the rendering goes on reading them.
ReleasedEager(o) ==
  /\ Under(o, "releasing")
  /\ Collect(o, AfterPage(op[o]))
  /\ stranded' = stranded \cup Unreleased(o)
  /\ cleanup' = [cleanup EXCEPT ![o] = @ \cup IF op[o].result # "Ok" THEN pending[o] ELSE {}]
  /\ UNCHANGED <<docs, retired, stray>>

\* The release returns, whatever it says: the guard is disarmed, and the
\* rendering goes on with the next page, also after an error.
Released(o) ==
  /\ Under(o, "releasing")
  /\ Collect(o, AfterPage(op[o]))
  /\ stranded' = stranded \cup Unreleased(o)
  /\ UNCHANGED <<docs, retired, stray, cleanup>>

-----------------------------------------------------------------------------
(* Calls that are given up, and operations that are dropped.               *)

\* What the module has made for a call whose reply nobody will get.
Unclaimed(o) ==
  CASE net[o].at = "sent" /\ net[o].req.kind = "produce" -> Ids(net[o].req.made)
    [] net[o].at = "answered" /\ net[o].reply.kind = "handles" -> Ids(net[o].reply.handles)
    [] OTHER -> {}

\* The call itself may still reach the module.
Abandoned(o) ==
  IF net[o].at # "sent" THEN {}
  ELSE IF net[o].req.kind = "produce" THEN {Produce(<<>>)} ELSE {net[o].req}

\* The bus fails the call: the peer is gone, or a deadline of the host passed.
GiveUp(o) ==
  /\ net[o].at = "sent"
  /\ net' = [net EXCEPT ![o] = Answered(Failure("ModuleUnavailable"))]
  /\ stray' = stray \cup Abandoned(o)
  /\ stranded' = stranded \cup Unclaimed(o)
  /\ UNCHANGED <<docs, retired, op, pending, guard, cleanup>>

\* Bug: the guard of the rendering is forgotten.
CancelPending(o, runtime) ==
  /\ op[o].at \in {"producing", "reading", "releasing"}
  /\ Goes(o, Dropped)
  /\ net' = [net EXCEPT ![o] = NoCall]
  /\ stray' = stray \cup Abandoned(o)
  /\ cleanup' = [cleanup EXCEPT ![o] = @ \cup IF runtime THEN guard[o] ELSE {}]
  /\ stranded' = stranded \cup Unclaimed(o) \cup IF runtime THEN {} ELSE guard[o]
  /\ Guards(o, {}, {})
  /\ UNCHANGED heldVars

\* OutputReleaseGuard::drop for both guards of an operation dropped at an
\* await: a task releases what they name, unless there is no runtime.
Cancel(o, runtime) ==
  /\ op[o].at \in {"producing", "reading", "releasing"}
  /\ Goes(o, Dropped)
  /\ net' = [net EXCEPT ![o] = NoCall]
  /\ stray' = stray \cup Abandoned(o)
  /\ LET owed == pending[o] \cup guard[o] IN
     /\ cleanup' = [cleanup EXCEPT ![o] = @ \cup IF runtime THEN owed ELSE {}]
     /\ stranded' = stranded \cup Unclaimed(o) \cup IF runtime THEN {} ELSE owed
  /\ Guards(o, {}, {})
  /\ UNCHANGED heldVars

-----------------------------------------------------------------------------
(* The module at the other end, as HeldOutputs promises it.                *)

\* What the module does for a read or a release, and what it answers.  A faulty
\* module answers a read with something else.
Performs(req, gone, reply) ==
  \/ /\ req.kind = "read" /\ req.id \in DOMAIN docs \ gone
     /\ LET size == docs[req.id].size
            upto == req.offset + ReadChunkBytes
            n == (IF upto < size THEN upto ELSE size) - req.offset
        IN \/ req.offset < size /\ Read(gone, req.id) /\ reply = Chunk(n, TRUE)
           \/ req.offset = size /\ Refuse(gone) /\ reply = Chunk(0, TRUE)
           \/ req.offset > size /\ Refuse(gone) /\ reply = Failure("TransferFailed")
           \/ /\ Faulty /\ Refuse(gone)
              /\ reply \in {Chunk(m, FALSE) : m \in 0 .. ReadChunkBytes + 1}
  \/ /\ req.kind = "release" /\ req.id \in DOMAIN docs \ gone
     /\ Release(gone, req.id)
     /\ reply = Unit
  \/ /\ req.kind \in {"read", "release"} /\ req.id \notin DOMAIN docs \ gone
     /\ Refuse(gone)
     /\ reply = Failure("UnknownOutput")

Replies == {Unit, Failure("UnknownOutput"), Failure("TransferFailed")}
             \cup {Chunk(n, sound) : n \in 0 .. ReadChunkBytes + 1, sound \in BOOLEAN}

Perform(o, gone, reply) ==
  /\ net[o].at = "sent"
  /\ Performs(net[o].req, gone, reply)
  /\ net' = [net EXCEPT ![o] = Answered(reply)]
  /\ UNCHANGED <<op, stray, pending, guard, cleanup, stranded>>

\* The module holds one more document for the call.
MakeOne(o, gone, id, n, total) ==
  /\ net[o].at = "sent" /\ net[o].req.kind = "produce"
  /\ Len(net[o].req.made) < (IF op[o].render THEN MaxPages ELSE 1)
  /\ total # n => Faulty
  /\ Hold(gone, id, n)
  /\ Sends(o, Produce(Append(net[o].req.made, Handle(id, total, n))))
  /\ UNCHANGED <<op, stray, pending, guard, cleanup, stranded>>

AnswerProduce(o) ==
  /\ net[o].at = "sent" /\ net[o].req.kind = "produce" /\ net[o].req.made # <<>>
  /\ net' = [net EXCEPT ![o] = Answered(Handles(net[o].req.made))]
  /\ UNCHANGED <<docs, retired, op, stray, pending, guard, cleanup, stranded>>

\* A refusal leaves nothing behind (OneOwner of DocumentsService).
RefuseProduce(o, gone, name) ==
  /\ net[o].at = "sent" /\ net[o].req.kind = "produce" /\ net[o].req.made = <<>>
  /\ Refuse(gone)
  /\ net' = [net EXCEPT ![o] = Answered(Failure(name))]
  /\ UNCHANGED <<op, stray, pending, guard, cleanup, stranded>>

\* A call that was given up is executed after all.
PerformStray(req, gone, reply) ==
  /\ req \in stray
  /\ Performs(req, gone, reply)
  /\ stray' = stray \ {req}
  /\ UNCHANGED <<op, net, pending, guard, cleanup, stranded>>

\* One more document for a call that was given up: its id reaches nobody.
MakeStray(gone, id, n) ==
  /\ Produce(<<>>) \in stray
  /\ Hold(gone, id, n)
  /\ stranded' = stranded \cup {id}
  /\ UNCHANGED <<op, net, stray, pending, guard, cleanup>>

\* A spawned task releases one of its outputs, or fails to and goes on.
CleanUp(o, id, gone, reply) ==
  /\ id \in cleanup[o]
  /\ Performs(ReleaseReq(id), gone, reply)
  /\ cleanup' = [cleanup EXCEPT ![o] = @ \ {id}]
  /\ UNCHANGED <<op, net, stray, pending, guard, stranded>>

CleanUpFails(o, id) ==
  /\ id \in cleanup[o]
  /\ cleanup' = [cleanup EXCEPT ![o] = @ \ {id}]
  /\ stray' = stray \cup {ReleaseReq(id)}
  /\ stranded' = stranded \cup {id}
  /\ UNCHANGED <<docs, retired, op, net, pending, guard>>

ClientTick == Tick /\ UNCHANGED <<op, net, stray, pending, guard, cleanup, stranded>>

-----------------------------------------------------------------------------

ClientInit ==
  /\ HeldInit
  /\ op = [o \in Op |-> Idle]
  /\ net = [o \in Op |-> NoCall]
  /\ stray = {}
  /\ pending = [o \in Op |-> {}]
  /\ guard = [o \in Op |-> {}]
  /\ cleanup = [o \in Op |-> {}]
  /\ stranded = {}

Continue(o) == Produced(o) \/ GotChunk(o) \/ Released(o)

Serve(o) ==
  \/ AnswerProduce(o)
  \/ \E gone \in SUBSET DOMAIN docs :
       \/ \E reply \in Replies : Perform(o, gone, reply)
       \/ \E name \in {"InvalidInput", "OutputRefused"} : RefuseProduce(o, gone, name)

Make(o) ==
  \E gone \in SUBSET DOMAIN docs, id \in Id, n \in 0 .. MaxOutputBytes,
     total \in 0 .. MaxDocumentBytes + 1 : MakeOne(o, gone, id, n, total)

Tidy(o) ==
  \E id \in cleanup[o], gone \in SUBSET DOMAIN docs, reply \in Replies :
    CleanUp(o, id, gone, reply)

ClientNext ==
  \/ \E o \in Op :
       \/ \E render \in BOOLEAN : Start(o, render)
       \/ Continue(o) \/ Serve(o) \/ Make(o) \/ Tidy(o)
       \/ GiveUp(o)
       \/ \E runtime \in BOOLEAN : Cancel(o, runtime)
       \/ \E id \in cleanup[o] : CleanUpFails(o, id)
  \/ \E gone \in SUBSET DOMAIN docs :
       \/ \E req \in stray, reply \in Replies : PerformStray(req, gone, reply)
       \/ \E id \in Id, n \in 0 .. MaxOutputBytes : MakeStray(gone, id, n)
  \/ ClientTick

ClientSpec == ClientInit /\ [][ClientNext]_clientVars

\* Futures that can go on are polled, the module answers what it is asked, and
\* spawned tasks run.  The bus need not fail, nobody need cancel, and time need
\* not pass.
FairClientSpec ==
  /\ ClientSpec
  /\ \A o \in Op : /\ WF_clientVars(Continue(o))
                   /\ WF_clientVars(Serve(o))
                   /\ WF_clientVars(Tidy(o))

-----------------------------------------------------------------------------
(* Properties.                                                             *)

\* The guards hold ids, a guard of collect at most one of them, and an operation
\* awaits a call exactly while it is under way.
ClientTypeOK ==
  /\ stranded \subseteq Id
  /\ \A req \in stray : \/ req = Produce(<<>>)
                        \/ req.kind \in {"read", "release"} /\ req.id \in Id
  /\ \A o \in Op :
       /\ pending[o] \subseteq Id /\ guard[o] \subseteq Id /\ cleanup[o] \subseteq Id
       /\ Cardinality(guard[o]) <= 1
       /\ net[o].at = "none" <=> op[o].at \in {"idle", "ended", "dropped"}

\* The outputs operation o answers for.
Owned(o) == Unclaimed(o) \cup pending[o] \cup guard[o] \cup cleanup[o]

\* At every await, and so wherever an operation may be dropped, each output that
\* is still held is answered for exactly once: it is in the reply that is on
\* its way, or one guard or one spawned task is to release it; or its release
\* has failed and it is left to expire.
Covered ==
  /\ DOMAIN docs \subseteq stranded \cup UNION {Owned(o) : o \in Op}
  /\ \A o \in Op :
       /\ pending[o] \cap guard[o] = {}
       /\ cleanup[o] \cap (pending[o] \cup guard[o]) = {}
  /\ \A o, p \in Op : o # p => Owned(o) \cap Owned(p) = {}

\* What an Ok hands to the host is every document the call was answered with, in
\* the order of the answer, each complete and unaltered, whatever sizes the
\* module declared and whatever chunks it sent.
ResultIsDocuments ==
  \A o \in Op : op[o].at = "ended" /\ op[o].result = "Ok" =>
    op[o].pages = [k \in 1 .. Len(op[o].handles) |->
                     [id |-> op[o].handles[k].id, have |-> op[o].handles[k].sha,
                      sound |-> TRUE]]

\* No release, not one that was given up or that cleans up after another
\* operation, takes away a document that an operation has still to read: it can
\* only expire.
LeavesByExpiry ==
  [][\A o \in Op : op[o].at = "reading" =>
       Left(op[o], op[o].k) \cap DOMAIN docs \subseteq DOMAIN docs' \cup MayExpire]_clientVars

\* Every operation ends, also when the module declares too much or sends chunks
\* that lead nowhere.
Ends == \A o \in Op : op[o].at = "reading" ~> op[o].at \in {"ended", "dropped"}

\* Whatever an operation answers for is released or given up to expiry, also
\* when the operation is dropped half way.
GivenBack ==
  \A o \in Op, id \in Id :
    id \in pending[o] \cup guard[o] \cup cleanup[o] ~> id \in stranded \/ id \notin DOMAIN docs
=============================================================================
