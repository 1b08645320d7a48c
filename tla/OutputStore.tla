----------------------------- MODULE OutputStore -----------------------------
(***************************************************************************)
(* The store that holds a produced document until its caller has read it:  *)
(* crates/tinydocs-module/src/outputs/mod.rs.                              *)
(*                                                                         *)
(* Several threads call it.  A call takes two steps, because the caller    *)
(* evaluates Instant::now() before the store takes its lock: Begin*        *)
(* samples the clock and makes the checks that precede the lock, Commit*   *)
(* is everything that happens under it.  Between the two, other threads    *)
(* may commit with later samples.                                          *)
(*                                                                         *)
(* Time is relative.  Instead of the instants the code keeps, the model    *)
(* keeps their distance to the present: idle for `last_read`, lag for the  *)
(* `now` of a call under way.  `now - last_read` is then idle - lag.       *)
(*                                                                         *)
(* Ids are 128 random bits: they are taken to be fresh.                    *)
(***************************************************************************)
EXTENDS ByteBudget

CONSTANTS
  Worker,           \* threads that execute calls
  Id,               \* output ids
  NoId,             \* an id that names no output
  MaxChunkBytes, MaxOutputBytes, MaxTotalBytes, MaxLiveOutputs, IdleTtl,
  Size,             \* sizes of the documents that are produced
  Offset, Length,   \* arguments of ReadOutput
  MaxStall,         \* ticks a thread may spend between its sample and the lock
  MaxIssued         \* bound: outputs ever produced in a behaviour

ASSUME StoreAssumption ==
  /\ NoId \notin Id
  /\ MaxChunkBytes \in Nat /\ MaxOutputBytes \in Nat
  /\ MaxTotalBytes \in Nat /\ MaxLiveOutputs \in Nat
  /\ IdleTtl \in Nat /\ MaxStall \in Nat /\ MaxIssued \in Nat
  /\ Size \subseteq Nat /\ Offset \subseteq Nat /\ Length \subseteq Nat

VARIABLES
  outputs,   \* Inner::outputs, id |-> [size, idle, unread]
  issued,    \* every id allocate_id has returned
  call       \* the call each thread is in

vars == <<outputs, issued, call>>

\* Distances in time are told apart up to here: a sweep with the oldest
\* possible sample drops whatever is this idle.
IdleCap == IdleTtl + MaxStall + 1

\* `unread` is history, not state of the code: the distance to the latest
\* sample any read that returned bytes was made with.
Output == [size : 0 .. MaxOutputBytes, idle : 0 .. IdleCap, unread : 0 .. IdleCap]

Request ==
  [op : {"insert"}, size : Size \cap (0 .. MaxOutputBytes)]
    \cup [op : {"read"}, id : Id \cup {NoId}, offset : Offset, len : Length \cap (0 .. MaxChunkBytes)]
    \cup [op : {"release"}, id : Id \cup {NoId}]

OutputError == {"OutputTooLarge", "StoreFull", "TooManyOutputs",
                "UnknownOutput", "ChunkTooLarge", "ReadPastEnd"}

Idle == [stage |-> "idle"]
Timed(req) == [stage |-> "timed", req |-> req, lag |-> 0]
\* id: the output that was held, read or released; got: the bytes read.
Returned(result, id, got) ==
  [stage |-> "returned", result |-> result, id |-> id, got |-> got]

Call ==
  [stage : {"idle"}]
    \cup [stage : {"timed"}, req : Request, lag : 0 .. MaxStall]
    \cup [stage : {"returned"}, result : {"Ok"} \cup OutputError,
          id : Id \cup {NoId}, got : 0 .. MaxChunkBytes]

-----------------------------------------------------------------------------
(* Helpers, as in the code.                                                *)

Smaller(a, b) == IF a <= b THEN a ELSE b

\* Inner::held_bytes.  The bounds keep the sum far below 2^64.
SizeOf(held) == [id \in DOMAIN held |-> held[id].size]
HeldBytes(held) == TotalBytes(SizeOf(held))

\* Inner::sweep_expired with a sample taken lag ticks ago: what is retained.
\* A sample older than last_read saturates at zero, so nothing expires by it.
Swept(lag) ==
  [id \in {i \in DOMAIN outputs : outputs[i].idle - lag <= IdleTtl} |-> outputs[id]]

WithOutput(held, id, output) ==
  [i \in DOMAIN held \cup {id} |-> IF i = id THEN output ELSE held[i]]

Without(held, id) == [i \in DOMAIN held \ {id} |-> held[i]]

Inserting == {w \in Worker : call[w].stage = "timed" /\ call[w].req.op = "insert"}

-----------------------------------------------------------------------------
(* Before the lock.                                                        *)

Returns(w, result, id, got) == call' = [call EXCEPT ![w] = Returned(result, id, got)]
Waits(w, req) == call' = [call EXCEPT ![w] = Timed(req)]

\* Bug: the per-output limit is forgotten.
BeginInsertAnySize(w, size) ==
  /\ call[w].stage = "idle"
  /\ Cardinality(issued) + Cardinality(Inserting) < MaxIssued
  /\ Waits(w, [op |-> "insert", size |-> size])
  /\ UNCHANGED <<outputs, issued>>

\* OutputStore::insert up to the lock.  MaxIssued is the bound on insertions.
BeginInsert(w, size) ==
  /\ call[w].stage = "idle"
  /\ Cardinality(issued) + Cardinality(Inserting) < MaxIssued
  /\ \/ size > MaxOutputBytes  /\ Returns(w, "OutputTooLarge", NoId, 0)
     \/ size <= MaxOutputBytes /\ Waits(w, [op |-> "insert", size |-> size])
  /\ UNCHANGED <<outputs, issued>>

\* OutputStore::read_chunk up to the lock.
BeginRead(w, id, offset, len) ==
  /\ call[w].stage = "idle"
  /\ \/ len > MaxChunkBytes  /\ Returns(w, "ChunkTooLarge", id, 0)
     \/ len <= MaxChunkBytes
        /\ Waits(w, [op |-> "read", id |-> id, offset |-> offset, len |-> len])
  /\ UNCHANGED <<outputs, issued>>

\* OutputStore::release up to the lock.
BeginRelease(w, id) ==
  /\ call[w].stage = "idle"
  /\ Waits(w, [op |-> "release", id |-> id])
  /\ UNCHANGED <<outputs, issued>>

-----------------------------------------------------------------------------
(* Under the lock.                                                         *)

InLock(w, op) == call[w].stage = "timed" /\ call[w].req.op = op

\* Bug: the id of an output that is gone is used again.
HoldOutputReusing(w, held) ==
  \E id \in Id \ DOMAIN held :
    LET lag == call[w].lag IN
    /\ outputs' = WithOutput(held, id,
                    [size |-> call[w].req.size, idle |-> lag, unread |-> lag])
    /\ issued' = issued \cup {id}
    /\ Returns(w, "Ok", id, 0)

\* Inner::allocate_id, and the insertion under the new id.
HoldOutput(w, held) ==
  \E id \in Id \ issued :
    LET lag == call[w].lag IN
    /\ outputs' = WithOutput(held, id,
                    [size |-> call[w].req.size, idle |-> lag, unread |-> lag])
    /\ issued' = issued \cup {id}
    /\ Returns(w, "Ok", id, 0)

Refused(w, held, result, id) ==
  /\ outputs' = held
  /\ Returns(w, result, id, 0)
  /\ UNCHANGED issued

\* Bug: the count is checked off by one.
CommitInsertOneMore(w) ==
  /\ InLock(w, "insert")
  /\ LET held == Swept(call[w].lag)
         full == Cardinality(DOMAIN held) > MaxLiveOutputs
         over == HeldBytes(held) + call[w].req.size > MaxTotalBytes
     IN \/ full /\ Refused(w, held, "TooManyOutputs", NoId)
        \/ ~full /\ over /\ Refused(w, held, "StoreFull", NoId)
        \/ ~full /\ ~over /\ HoldOutput(w, held)

CommitInsert(w) ==
  /\ InLock(w, "insert")
  /\ LET held == Swept(call[w].lag)
         full == Cardinality(DOMAIN held) >= MaxLiveOutputs
         over == HeldBytes(held) + call[w].req.size > MaxTotalBytes
     IN \/ full /\ Refused(w, held, "TooManyOutputs", NoId)
        \/ ~full /\ over /\ Refused(w, held, "StoreFull", NoId)
        \/ ~full /\ ~over /\ HoldOutput(w, held)

\* Bug: reads do not count as activity.
TouchedNever(output, lag, got) ==
  IF got > 0 THEN [output EXCEPT !.unread = Smaller(@, lag)] ELSE output

\* Bug: every read counts as activity, also one that returns nothing.
TouchedAlways(output, lag, got) ==
  [output EXCEPT !.idle = lag, !.unread = Smaller(@, lag)]

\* Only a read that returned bytes counts as activity.  It sets last_read to
\* its own sample, whatever was there.
Touched(output, lag, got) ==
  IF got > 0
  THEN [output EXCEPT !.idle = lag, !.unread = Smaller(@, lag)]
  ELSE output

CommitRead(w) ==
  /\ InLock(w, "read")
  /\ LET held == Swept(call[w].lag)
         req  == call[w].req
         got  == Smaller(req.offset + req.len, held[req.id].size) - req.offset
     IN \/ req.id \notin DOMAIN held /\ Refused(w, held, "UnknownOutput", req.id)
        \/ /\ req.id \in DOMAIN held
           /\ req.offset > held[req.id].size
           /\ Refused(w, held, "ReadPastEnd", req.id)
        \/ /\ req.id \in DOMAIN held
           /\ req.offset <= held[req.id].size
           /\ outputs' = WithOutput(held, req.id, Touched(held[req.id], call[w].lag, got))
           /\ Returns(w, "Ok", req.id, got)
           /\ UNCHANGED issued

\* Bug: a release does not sweep.
CommitReleaseUnswept(w) ==
  /\ InLock(w, "release")
  /\ LET id == call[w].req.id
     IN \/ id \notin DOMAIN outputs /\ Refused(w, outputs, "UnknownOutput", id)
        \/ /\ id \in DOMAIN outputs
           /\ outputs' = Without(outputs, id)
           /\ Returns(w, "Ok", id, 0)
           /\ UNCHANGED issued

CommitRelease(w) ==
  /\ InLock(w, "release")
  /\ LET held == Swept(call[w].lag)
         id   == call[w].req.id
     IN \/ id \notin DOMAIN held /\ Refused(w, held, "UnknownOutput", id)
        \/ /\ id \in DOMAIN held
           /\ outputs' = Without(held, id)
           /\ Returns(w, "Ok", id, 0)
           /\ UNCHANGED issued

Commit(w) == CommitInsert(w) \/ CommitRead(w) \/ CommitRelease(w)

\* The caller takes the reply.
Finish(w) ==
  /\ call[w].stage = "returned"
  /\ call' = [call EXCEPT ![w] = Idle]
  /\ UNCHANGED <<outputs, issued>>

-----------------------------------------------------------------------------

Older(t, cap) == IF t < cap THEN t + 1 ELSE t

\* Time passes.  No thread is held up between its sample and the lock for more
\* than MaxStall ticks.
Tick ==
  /\ \A w \in Worker : call[w].stage = "timed" => call[w].lag < MaxStall
  /\ outputs' = [id \in DOMAIN outputs |->
                   [outputs[id] EXCEPT !.idle = Older(@, IdleCap),
                                       !.unread = Older(@, IdleCap)]]
  /\ call' = [w \in Worker |->
                IF call[w].stage = "timed" THEN [call[w] EXCEPT !.lag = @ + 1]
                                           ELSE call[w]]
  /\ UNCHANGED issued

Init ==
  /\ outputs = <<>>
  /\ issued = {}
  /\ call = [w \in Worker |-> Idle]

\* A caller names an output it was given, or, with NoId, one that never was.
Nameable == issued \cup {NoId}

Next ==
  \/ \E w \in Worker :
       \/ \E size \in Size : BeginInsert(w, size)
       \/ \E id \in Nameable, offset \in Offset, len \in Length :
            BeginRead(w, id, offset, len)
       \/ \E id \in Nameable : BeginRelease(w, id)
       \/ Commit(w)
       \/ Finish(w)
  \/ Tick

Spec == Init /\ [][Next]_vars

\* A thread that has sampled the clock gets the lock and does its work; a
\* reply is taken; time goes on whatever the threads do.  Nobody is obliged to
\* call again.
FairSpec ==
  /\ Spec
  /\ SF_vars(Tick)
  /\ \A w \in Worker : WF_vars(Commit(w)) /\ WF_vars(Finish(w))

-----------------------------------------------------------------------------
(* Properties.                                                             *)

\* The store, the ids and the calls under way are what the code can hold; in
\* particular no held document exceeds the per-output limit.
TypeOK ==
  /\ DOMAIN outputs \subseteq issued
  /\ outputs \in [DOMAIN outputs -> Output]
  /\ issued \subseteq Id
  /\ call \in [Worker -> Call]

\* However the calls of the threads interleave, what is held stays within the
\* count and the byte budget: the check and the insertion are under one lock.
Bounds ==
  /\ Cardinality(DOMAIN outputs) <= MaxLiveOutputs
  /\ HeldBytes(outputs) <= MaxTotalBytes

\* last_read is never ahead of the latest sample a productive read was made
\* with, and a late commit of an old sample puts it behind by MaxStall at most.
\* This is why a document being read is not dropped before IdleTtl - MaxStall.
TimesAgree ==
  \A id \in DOMAIN outputs :
    /\ outputs[id].unread <= outputs[id].idle
    /\ outputs[id].idle <= outputs[id].unread + MaxStall

Doc(output) == [size |-> output.size, unread |-> output.unread]
Docs == [id \in DOMAIN outputs |-> Doc(outputs[id])]
Retired == issued \ DOMAIN outputs

Held == INSTANCE HeldOutputs
          WITH docs <- Docs, retired <- Retired, Slack <- MaxStall

\* The store does what HeldOutputs promises: a document leaves only when it is
\* released by name or unread for too long, never comes back, and is gone when
\* an operation runs after its time; a refused call changes nothing else.
ImplementsHeldOutputs == Held!HeldSpec

\* The call of w that this step commits returned bytes of the output.
ReadBytes(w, id) ==
  /\ InLock(w, "read")
  /\ call'[w].stage = "returned" /\ call'[w].id = id /\ call'[w].got > 0

\* As long as calls keep reaching the store, an output is dropped sooner or
\* later unless reads keep returning bytes of it: reads at the end of the
\* document, empty reads and refused ones do not pin it.
Reclaimed ==
  []<><<\E w \in Worker : Commit(w)>>_vars =>
    \A id \in Id : \/ []<>(id \notin DOMAIN outputs)
                   \/ []<><<\E w \in Worker : ReadBytes(w, id)>>_vars

-----------------------------------------------------------------------------
(* What the documentation says and the code does not do.                   *)

\* The comment of IDLE_TTL: how long an output may go unread before it is
\* dropped.  No output goes by expiry although a read of it that returned
\* bytes was made at most IdleTtl before the sample of the sweep.
DroppedOnlyUnread ==
  [][\A id \in DOMAIN outputs \ DOMAIN outputs' : \E w \in Worker :
       /\ call[w].stage = "timed" /\ call'[w].stage = "returned"
       /\ \/ call[w].req.op = "release" /\ call[w].req.id = id
          \/ outputs[id].unread - call[w].lag > IdleTtl]_vars
=============================================================================
