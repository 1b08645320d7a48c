------------------------- MODULE OutputClientProofs -------------------------
(***************************************************************************)
(* Proofs about OutputClient: whatever is dropped, given up or misdeclared, *)
(* each held output is answered for exactly once, and an Ok carries whole  *)
(* documents; for every number of operations, ids and pages.               *)
(***************************************************************************)
EXTENDS OutputClient, SequenceLemmas, FiniteSetTheorems

-----------------------------------------------------------------------------
(* The inductive invariant.                                                *)

OutputHandle == [id : Id, total : 0 .. MaxDocumentBytes + 1, sha : 0 .. MaxOutputBytes]
Page == [id : Id, have : Nat, sound : BOOLEAN]
Outcome == {"Ok", "Failed", "InvalidInput", "Unavailable"}

\* An operation that collects.
Job == [at : {"reading", "releasing"}, handles : Seq(OutputHandle), k : Nat, have : Nat,
        sound : BOOLEAN, result : Outcome, pages : Seq(Page), error : Outcome]

Batch == {made \in Seq(OutputHandle) :
            \A i, j \in 1 .. Len(made) : made[i].id = made[j].id => i = j}

\* The document that a handle stands for, as the host gets it.
Whole(h) == [id |-> h.id, have |-> h.sha, sound |-> TRUE]

\* Every id that was ever held.
Seen == DOMAIN docs \cup retired

Rests(o) == net[o].at = "none" /\ pending[o] = {} /\ guard[o] = {}

Produces(o) ==
  /\ pending[o] = {} /\ guard[o] = {}
  /\ \/ /\ net[o].at = "sent" /\ net[o].req.kind = "produce"
        /\ net[o].req.made \in Batch
     \/ /\ net[o].at = "answered" /\ net[o].reply.kind = "handles"
        /\ net[o].reply.handles \in Batch
     \/ net[o].at = "answered" /\ net[o].reply.kind = "failure"

Chunks == {Chunk(n, sound) : n \in 0 .. ReadChunkBytes + 1, sound \in BOOLEAN}

\* What was collected so far, if there was no error.
Kept(s, n) ==
  s.error = "Ok" => Len(s.pages) = n /\ \A j \in 1 .. n : s.pages[j] = Whole(s.handles[j])

\* The guards name what is left, the call is about the handle being collected,
\* and its release has returned only when the output is gone, or stranded.
Collects(o) ==
  LET s == op[o] IN
  /\ s \in Job /\ s.handles \in Batch /\ s.k \in 1 .. Len(s.handles)
  /\ Kept(s, s.k - 1)
  /\ pending[o] = Left(s, s.k + 1) /\ guard[o] = {Current(s).id}
  /\ \/ /\ net[o].at = "sent" /\ net[o].req.id = Current(s).id
        /\ net[o].req.kind = IF s.at = "reading" THEN "read" ELSE "release"
     \/ /\ net[o].at = "answered"
        /\ s.at = "reading" => net[o].reply.kind = "failure" \/ net[o].reply \in Chunks
        /\ s.at = "releasing" =>
             /\ net[o].reply.kind \in {"unit", "failure"}
             /\ Unreleased(o) = {} => Current(s).id \notin DOMAIN docs
  /\ s.at = "releasing" /\ s.result = "Ok" => s.sound /\ s.have = Current(s).sha

\* What has been collected is what was asked for.
Delivers(o) ==
  op[o].result = "Ok" => op[o].pages = [k \in 1 .. Len(op[o].handles) |-> Whole(op[o].handles[k])]

OpOK(o) ==
  /\ op[o].at \in {"idle", "producing", "reading", "releasing", "ended", "dropped"}
  /\ op[o].at \in {"idle", "ended", "dropped"} => Rests(o)
  /\ op[o].at = "producing" => Produces(o)
  /\ op[o].at \in {"reading", "releasing"} => Collects(o)
  /\ op[o].at = "ended" => Delivers(o)
  /\ cleanup[o] \subseteq Id
  /\ cleanup[o] # {} => op[o].at = "dropped"
  /\ Owned(o) \subseteq Seen

\* Calls that were given up are about outputs that were held, and none releases
\* what an operation has still to read.
Spares(o) ==
  \A req \in stray : req.kind = "release" =>
    /\ req.id \notin Unclaimed(o) \cup pending[o]
    /\ op[o].at = "reading" => req.id \notin guard[o]

StrayOK ==
  \A req \in stray : \/ req = Produce(<<>>)
                     \/ req.kind \in {"read", "release"} /\ req.id \in Id \cap Seen

Shaped ==
  /\ op = [o \in Op |-> op[o]] /\ net = [o \in Op |-> net[o]]
  /\ pending = [o \in Op |-> pending[o]] /\ guard = [o \in Op |-> guard[o]]
  /\ cleanup = [o \in Op |-> cleanup[o]]
  /\ stranded \subseteq Id

ClientInv ==
  /\ Shaped
  /\ StrayOK
  /\ \A o \in Op : OpOK(o) /\ Spares(o)
  /\ Covered

-----------------------------------------------------------------------------
(* Handles and their ids.                                                  *)

\* The ids of a batch, by position.
LEMMA IdsByPosition ==
  ASSUME NEW made \in Seq(OutputHandle)
  PROVE  /\ Ids(made) = {made[i].id : i \in 1 .. Len(made)}
         /\ Ids(made) \subseteq Id
<1>1. DOMAIN made = 1 .. Len(made) /\ \A i \in 1 .. Len(made) : made[i] \in OutputHandle
  OBVIOUS
<1>2. QED
  BY <1>1 DEF Ids, ToSet, OutputHandle

\* One more handle, with a new id.
LEMMA OneMoreHandle ==
  ASSUME NEW made \in Batch, NEW h \in OutputHandle, h.id \notin Ids(made)
  PROVE  Append(made, h) \in Batch /\ Ids(Append(made, h)) = Ids(made) \cup {h.id}
<1>1. /\ Append(made, h) \in Seq(OutputHandle)
      /\ Len(Append(made, h)) = Len(made) + 1
      /\ Append(made, h)[Len(made) + 1] = h
      /\ \A i \in 1 .. Len(made) : Append(made, h)[i] = made[i]
      /\ Len(made) \in Nat
  BY DEF Batch
<1>2. \A i \in 1 .. Len(made) : made[i].id # h.id
  BY IdsByPosition DEF Batch
<1>3. Append(made, h) \in Batch
  <2>1. SUFFICES ASSUME NEW i \in 1 .. Len(made) + 1, NEW j \in 1 .. Len(made) + 1,
                        Append(made, h)[i].id = Append(made, h)[j].id
                 PROVE  i = j
    BY <1>1 DEF Batch
  <2>2. CASE i \in 1 .. Len(made) /\ j \in 1 .. Len(made)
    BY <1>1, <2>1, <2>2 DEF Batch
  <2>3. CASE i = Len(made) + 1 \/ j = Len(made) + 1
    BY <1>1, <1>2, <2>1, <2>3
  <2>4. QED
    BY <1>1, <2>2, <2>3
<1>4. Ids(Append(made, h)) = Ids(made) \cup {h.id}
  BY ElementsOfAppend DEF Ids, Batch
<1>5. QED
  BY <1>3, <1>4

\* What is left from handle k on: the handle itself, and, apart from it, what is
\* left after it.
LEMMA LeftFrom ==
  ASSUME NEW s, s.handles \in Batch, NEW k \in Nat \ {0}
  PROVE  /\ Left(s, k) \subseteq Id
         /\ k > Len(s.handles) => Left(s, k) = {}
         /\ k <= Len(s.handles) =>
              /\ s.handles[k] \in OutputHandle
              /\ Left(s, k) = {s.handles[k].id} \cup Left(s, k + 1)
              /\ s.handles[k].id \notin Left(s, k + 1)
         /\ Left(s, 1) = Ids(s.handles)
<1> DEFINE h == s.handles
<1>1. h \in Seq(OutputHandle) /\ Len(h) \in Nat
  BY DEF Batch
<1>2. ASSUME NEW j \in Nat \ {0}
      PROVE  Left(s, j) = {h[i].id : i \in j .. Len(h)}
  <2> DEFINE rest == SubSeq(h, j, Len(h))
  <2>1. CASE j <= Len(h)
    <3>1. /\ rest \in Seq(OutputHandle)
          /\ Len(rest) = Len(h) - j + 1
          /\ \A i \in 1 .. Len(h) - j + 1 : rest[i] = h[i + j - 1]
      BY <1>1, <2>1
    <3>2. Ids(rest) = {rest[i].id : i \in 1 .. Len(h) - j + 1}
      BY <3>1, IdsByPosition
    <3>3. \A i \in j .. Len(h) : i - j + 1 \in 1 .. Len(h) - j + 1 /\ rest[i - j + 1] = h[i]
      BY <1>1, <2>1, <3>1
    <3>4. \A i \in 1 .. Len(h) - j + 1 : i + j - 1 \in j .. Len(h)
      BY <1>1, <2>1
    <3>5. Ids(rest) \subseteq {h[i].id : i \in j .. Len(h)}
      BY <3>1, <3>2, <3>4
    <3>6. {h[i].id : i \in j .. Len(h)} \subseteq Ids(rest)
      BY <3>2, <3>3
    <3>7. QED
      BY <3>5, <3>6 DEF Left
  <2>2. CASE j > Len(h)
    <3>1. rest = <<>> /\ j .. Len(h) = {}
      BY <1>1, <2>2
    <3>2. Ids(<<>>) = {}
      BY DEF Ids, ToSet
    <3>3. QED
      BY <3>1, <3>2 DEF Left
  <2>3. QED
    BY <1>1, <2>1, <2>2
<1>3. \A i \in 1 .. Len(h) : h[i] \in OutputHandle /\ h[i].id \in Id
  <2>1. \A i \in 1 .. Len(h) : h[i] \in OutputHandle
    BY <1>1
  <2>2. QED
    BY <2>1 DEF OutputHandle
<1>4. Left(s, k) = {h[i].id : i \in k .. Len(h)} /\ Left(s, k + 1) = {h[i].id : i \in k + 1 .. Len(h)}
  BY <1>2
<1>5. Left(s, 1) = Ids(h)
  <2>1. Left(s, 1) = {h[i].id : i \in 1 .. Len(h)}
    BY <1>2
  <2>2. QED
    BY <1>1, <2>1, IdsByPosition
<1>6. \A i \in k + 1 .. Len(h) : k <= Len(h) => h[i].id # h[k].id
  BY <1>1 DEF Batch
<1>7. QED
  BY <1>1, <1>3, <1>4, <1>5, <1>6

-----------------------------------------------------------------------------
(* Any step of one operation, or of none.                                  *)

\* An operation is not disturbed by a step that leaves it alone, holds documents
\* under new ids only, and gives up no release of what it answers for.
LEMMA OtherKept ==
  ASSUME NEW o \in Op, OpOK(o), Spares(o),
         op'[o] = op[o], net'[o] = net[o], pending'[o] = pending[o],
         guard'[o] = guard[o], cleanup'[o] = cleanup[o],
         Seen \subseteq Seen', DOMAIN docs' \cap Seen \subseteq DOMAIN docs,
         \A req \in stray' : req.kind = "release" => req \in stray \/ req.id \notin Owned(o)
  PROVE  /\ OpOK(o)' /\ Spares(o)'
         /\ Owned(o)' = Owned(o)
<1>1. Unclaimed(o)' = Unclaimed(o) /\ Owned(o)' = Owned(o) /\ Unreleased(o)' = Unreleased(o)
  BY DEF Unclaimed, Owned, Unreleased
<1>2. ASSUME op[o].at \in {"reading", "releasing"} PROVE Collects(o)'
  <2>1. Collects(o) /\ guard[o] \subseteq Seen
    BY <1>2 DEF OpOK, Owned
  <2>2. Current(op[o]).id \in Seen
    BY <2>1 DEF Collects
  <2>3. Current(op[o]).id \notin DOMAIN docs => Current(op[o]).id \notin DOMAIN docs'
    BY <2>2
  <2>4. QED
    BY <1>1, <2>1, <2>3 DEF Collects
<1>3. OpOK(o)'
  BY <1>1, <1>2 DEF OpOK, Rests, Produces, Delivers
<1>4. Spares(o)'
  BY <1>1 DEF Spares, Owned
<1>5. QED
  BY <1>1, <1>3, <1>4

\* Within one operation nothing is answered for twice.
LEMMA OwnParts ==
  ASSUME NEW o \in Op, OpOK(o)
  PROVE  /\ pending[o] \cap guard[o] = {}
         /\ cleanup[o] \cap (pending[o] \cup guard[o]) = {}
         /\ pending[o] \subseteq Id /\ guard[o] \subseteq Id
         /\ guard[o] = {} \/ \E id \in Id : guard[o] = {id}
<1>1. CASE op[o].at \in {"reading", "releasing"}
  <2> DEFINE s == op[o]
  <2>1. /\ s.handles \in Batch /\ s.k \in Nat \ {0} /\ s.k <= Len(s.handles)
        /\ pending[o] = Left(s, s.k + 1) /\ guard[o] = {s.handles[s.k].id}
        /\ s.k + 1 \in Nat \ {0}
        /\ cleanup[o] = {}
    BY <1>1 DEF OpOK, Collects, Current, Job
  <2> HIDE DEF s
  <2>2. /\ s.handles[s.k] \in OutputHandle
        /\ s.handles[s.k].id \notin Left(s, s.k + 1)
        /\ Left(s, s.k + 1) \subseteq Id
    BY <2>1, LeftFrom
  <2>3. QED
    BY <2>1, <2>2 DEF OutputHandle
<1>2. CASE op[o].at \notin {"reading", "releasing"}
  BY <1>2 DEF OpOK, Rests, Produces
<1>3. QED
  BY <1>1, <1>2

\* A step of the operation in S, if any, keeps the invariant if it keeps its own
\* part of it, takes over only new outputs, drops only what is not held or
\* stranded, and gives up releases of its own outputs only.
LEMMA StepOfSome ==
  ASSUME ClientInv, NEW S \in SUBSET Op, \A o, p \in S : o = p,
         Shaped', StrayOK',
         \A p \in Op \ S : /\ op'[p] = op[p] /\ net'[p] = net[p] /\ pending'[p] = pending[p]
                           /\ guard'[p] = guard[p] /\ cleanup'[p] = cleanup[p],
         Seen \subseteq Seen', DOMAIN docs' \cap Seen \subseteq DOMAIN docs,
         stranded \subseteq stranded',
         \A o \in S : /\ OpOK(o)' /\ Spares(o)'
                      /\ Owned(o)' \cap Seen \subseteq Owned(o)
                      /\ DOMAIN docs' \cap Owned(o) \subseteq Owned(o)' \cup stranded',
         DOMAIN docs' \subseteq DOMAIN docs \cup stranded' \cup UNION {Owned(o)' : o \in S},
         \A req \in stray' : req.kind = "release" =>
           req \in stray \/ \E o \in S : req.id \in Owned(o)
  PROVE  ClientInv'
<1> USE DEF ClientInv
<1>1. ASSUME NEW p \in Op \ S
      PROVE  OpOK(p)' /\ Spares(p)' /\ Owned(p)' = Owned(p)
  <2>1. \A req \in stray' : req.kind = "release" => req \in stray \/ req.id \notin Owned(p)
    BY DEF Covered
  <2>2. QED
    BY <2>1, OtherKept
<1>2. \A o \in Op : OpOK(o)' /\ Spares(o)'
  BY <1>1
<1>3. DOMAIN docs' \subseteq stranded' \cup UNION {Owned(o)' : o \in Op}
  <2>1. SUFFICES ASSUME NEW id \in DOMAIN docs', id \notin stranded',
                        id \notin UNION {Owned(o)' : o \in S}
                 PROVE  \E o \in Op : id \in Owned(o)'
    OBVIOUS
  <2>2. id \in DOMAIN docs
    BY <2>1
  <2>3. PICK o \in Op : id \in Owned(o)
    BY <2>1, <2>2 DEF Covered
  <2>4. QED
    BY <1>1, <2>1, <2>3
<1>4. ASSUME NEW o \in Op
      PROVE  pending'[o] \cap guard'[o] = {} /\ cleanup'[o] \cap (pending'[o] \cup guard'[o]) = {}
  <2>1. CASE op'[o].at \in {"reading", "releasing"}
    <3> DEFINE s == op'[o]
    <3>1. /\ s.handles \in Batch /\ s.k \in Nat \ {0} /\ s.k <= Len(s.handles)
          /\ pending'[o] = Left(s, s.k + 1) /\ guard'[o] = {s.handles[s.k].id}
          /\ cleanup'[o] = {}
      BY <1>2, <2>1 DEF OpOK, Collects, Current, Job
    <3> HIDE DEF s
    <3>2. s.handles[s.k].id \notin Left(s, s.k + 1)
      BY <3>1, LeftFrom
    <3>3. QED
      BY <3>1, <3>2
  <2>2. CASE op'[o].at \notin {"reading", "releasing"}
    BY <1>2, <2>2 DEF OpOK, Rests, Produces
  <2>3. QED
    BY <2>1, <2>2
<1>5. ASSUME NEW o \in Op, NEW p \in Op, o # p
      PROVE  Owned(o)' \cap Owned(p)' = {}
  <2>1. /\ Owned(o) \cap Owned(p) = {} /\ Owned(o) \subseteq Seen /\ Owned(p) \subseteq Seen
    BY <1>5 DEF Covered, OpOK
  <2>2. CASE o \in S
    BY <1>1, <1>5, <2>1, <2>2
  <2>3. CASE p \in S
    BY <1>1, <1>5, <2>1, <2>3
  <2>4. CASE o \notin S /\ p \notin S
    BY <1>1, <2>1, <2>4
  <2>5. QED
    BY <2>2, <2>3, <2>4
<1>6. Covered'
  BY <1>3, <1>4, <1>5 DEF Covered
<1>7. QED
  BY <1>2, <1>6

-----------------------------------------------------------------------------
(* The module at the other end.                                            *)

\* Expiry takes only what may expire.
LEMMA Expired ==
  ASSUME NEW gone, Expiry(gone)
  PROVE  gone \subseteq MayExpire /\ MayExpire \subseteq DOMAIN docs
BY DEF Expiry, MayExpire

\* A refused operation.
LEMMA Refusal ==
  ASSUME NEW gone, Refuse(gone)
  PROVE  /\ Seen' = Seen
         /\ DOMAIN docs' = DOMAIN docs \ gone
         /\ gone \subseteq MayExpire
BY Expired DEF Refuse, Keep, Seen

\* Nothing is held again that was let go, and nothing but the new document is
\* held that was not.
LEMMA Holding ==
  ASSUME NEW gone, NEW id, NEW n, Hold(gone, id, n)
  PROVE  /\ id \notin Seen
         /\ Seen' = Seen \cup {id}
         /\ DOMAIN docs' = (DOMAIN docs \ gone) \cup {id}
         /\ gone \subseteq MayExpire
<1>1. DOMAIN docs' = (DOMAIN docs \ gone) \cup {id}
  BY DEF Hold, Keep
<1>2. id \notin Seen /\ retired' = retired \cup gone /\ gone \subseteq MayExpire
      /\ gone \subseteq DOMAIN docs
  BY Expired DEF Hold, Seen
<1>3. QED
  BY <1>1, <1>2 DEF Seen

\* A read or a release takes nothing but what may expire and what it releases,
\* and after the answer to a release the output is gone.
LEMMA Performed ==
  ASSUME NEW req, NEW gone, NEW reply, Performs(req, gone, reply)
  PROVE  /\ req.kind \in {"read", "release"}
         /\ Seen' = Seen
         /\ DOMAIN docs' \subseteq DOMAIN docs
         /\ gone \subseteq MayExpire
         /\ \A id \in DOMAIN docs \ DOMAIN docs' :
              id \in MayExpire \/ (req.kind = "release" /\ id = req.id)
         /\ reply.kind \in {"chunk", "failure", "unit"}
         /\ req.kind = "read" => reply.kind \in {"chunk", "failure"}
         /\ req.kind = "release" =>
              req.id \notin DOMAIN docs' /\ reply \in {Unit, Failure("UnknownOutput")}
<1>1. CASE Refuse(gone)
  <2>1. Seen' = Seen /\ DOMAIN docs' = DOMAIN docs \ gone /\ gone \subseteq MayExpire
    BY <1>1, Refusal
  <2>2. /\ reply.kind \in {"chunk", "failure", "unit"}
        /\ req.kind = "read" => reply.kind \in {"chunk", "failure"}
    BY DEF Performs, Chunk, Failure, Unit
  <2>3. \/ req.kind = "read"
        \/ reply = Failure("UnknownOutput") /\ req.id \notin DOMAIN docs \ gone
        \/ reply = Unit /\ Release(gone, req.id)
    BY DEF Performs
  <2>4. ASSUME reply = Unit, Release(gone, req.id) PROVE req.id \notin DOMAIN docs'
    BY <2>4 DEF Release, Keep
  <2>5. QED
    BY <2>1, <2>2, <2>3, <2>4 DEF Performs
<1>2. CASE req.kind = "read" /\ Read(gone, req.id) /\ \E n : reply = Chunk(n, TRUE)
  <2>1. DOMAIN docs' = DOMAIN docs \ gone /\ retired' = retired \cup gone
    BY <1>2 DEF Read, Keep
  <2>2. gone \subseteq MayExpire /\ gone \subseteq DOMAIN docs
    BY <1>2, Expired DEF Read
  <2>3. QED
    BY <1>2, <2>1, <2>2 DEF Seen, Chunk
<1>3. CASE req.kind = "release" /\ Release(gone, req.id) /\ reply = Unit
  <2>1. /\ DOMAIN docs' = DOMAIN docs \ (gone \cup {req.id})
        /\ retired' = retired \cup gone \cup {req.id}
        /\ req.id \in DOMAIN docs
    BY <1>3 DEF Release, Keep
  <2>2. gone \subseteq MayExpire /\ gone \subseteq DOMAIN docs
    BY <1>3, Expired DEF Release
  <2>3. QED
    BY <1>3, <2>1, <2>2 DEF Seen, Unit
<1>4. QED
  BY <1>1, <1>2, <1>3 DEF Performs

\* Time passing keeps what is held.
LEMMA Ticked ==
  ASSUME Tick
  PROVE  DOMAIN docs' = DOMAIN docs /\ Seen' = Seen
BY DEF Tick, Seen

-----------------------------------------------------------------------------
(* From one await to the next.                                             *)

\* A function on the operations, changed for one of them.
LEMMA Updated ==
  ASSUME NEW f, f = [x \in Op |-> f[x]], NEW o \in Op, NEW e,
         NEW g, g = [f EXCEPT ![o] = e]
  PROVE  /\ g = [x \in Op |-> g[x]]
         /\ g[o] = e
         /\ \A p \in Op \ {o} : g[p] = f[p]
OBVIOUS

\* Where an operation stands, apart from the others and from the store.
Advances(o) ==
  /\ op' = [x \in Op |-> op'[x]] /\ net' = [x \in Op |-> net'[x]]
  /\ \A p \in Op \ {o} : op'[p] = op[p] /\ net'[p] = net[p]

\* The handle s.k is being collected.
Reading(s) ==
  /\ s \in Job /\ s.at = "reading" /\ s.handles \in Batch
  /\ s.k \in 1 .. Len(s.handles) /\ Kept(s, s.k - 1)

\* read_all is done: an Ok says that what was read is the document.
LEMMA SettleCollects ==
  ASSUME Shaped, NEW o \in Op, NEW s, Reading(s), NEW result \in Outcome, Settle(o, s, result),
         result = "Ok" => s.sound /\ s.have = Current(s).sha,
         pending'[o] = Left(s, s.k + 1), guard'[o] = {Current(s).id}
  PROVE  Advances(o) /\ Collects(o)' /\ Unclaimed(o)' = {} /\ op'[o].at = "releasing"
<1> DEFINE t == [s EXCEPT !.at = "releasing", !.result = result]
           c == Sent(ReleaseReq(Current(s).id))
<1>1. op' = [op EXCEPT ![o] = t] /\ net' = [net EXCEPT ![o] = c]
  BY DEF Settle, Goes, Sends
<1>2. /\ t \in Job /\ t.at = "releasing" /\ t.result = result
      /\ t.handles = s.handles /\ t.k = s.k /\ t.have = s.have /\ t.sound = s.sound
      /\ t.pages = s.pages /\ t.error = s.error
  BY DEF Reading, Job
<1>3. c.at = "sent" /\ c.req.kind = "release" /\ c.req.id = Current(s).id
  BY DEF Sent, ReleaseReq
<1> HIDE DEF t, c
<1>4. Advances(o) /\ op'[o] = t /\ net'[o] = c
  BY <1>1, Updated DEF Shaped, Advances
<1>5. /\ Current(t) = Current(s) /\ Left(t, t.k + 1) = Left(s, s.k + 1)
      /\ Kept(t, t.k - 1)
  BY <1>2 DEF Current, Left, Kept, Reading
<1>6. Collects(o)'
  BY <1>2, <1>3, <1>4, <1>5 DEF Collects, Reading
<1>7. Unclaimed(o)' = {}
  BY <1>3, <1>4 DEF Unclaimed
<1>8. QED
  BY <1>2, <1>4, <1>6, <1>7

\* The loop of read_all goes on or settles.
LEMMA ReadOnCollects ==
  ASSUME Shaped, NEW o \in Op, NEW s, Reading(s), ReadOn(o, s),
         pending'[o] = Left(s, s.k + 1), guard'[o] = {Current(s).id}
  PROVE  /\ Advances(o) /\ Collects(o)' /\ Unclaimed(o)' = {}
         /\ op'[o].at \in {"reading", "releasing"}
<1>1. CASE Settle(o, s, "Failed")
  BY <1>1, SettleCollects DEF Outcome
<1>2. CASE Settle(o, s, IF s.sound /\ s.have = Current(s).sha THEN "Ok" ELSE "Failed")
  <2> DEFINE result == IF s.sound /\ s.have = Current(s).sha THEN "Ok" ELSE "Failed"
  <2>1. result \in Outcome /\ (result = "Ok" => s.sound /\ s.have = Current(s).sha)
    BY DEF Outcome
  <2> HIDE DEF result
  <2>2. Settle(o, s, result)
    BY <1>2 DEF result
  <2>3. QED
    BY <2>1, <2>2, SettleCollects
<1>3. CASE Goes(o, s) /\ Sends(o, ReadReq(Current(s).id, s.have))
  <2> DEFINE c == Sent(ReadReq(Current(s).id, s.have))
  <2>1. op' = [op EXCEPT ![o] = s] /\ net' = [net EXCEPT ![o] = c]
    BY <1>3 DEF Goes, Sends
  <2>2. c.at = "sent" /\ c.req.kind = "read" /\ c.req.id = Current(s).id
    BY DEF Sent, ReadReq
  <2> HIDE DEF c
  <2>3. Advances(o) /\ op'[o] = s /\ net'[o] = c
    BY <2>1, Updated DEF Shaped, Advances
  <2>4. Collects(o)'
    BY <2>2, <2>3 DEF Collects, Reading
  <2>5. Unclaimed(o)' = {}
    BY <2>2, <2>3 DEF Unclaimed
  <2>6. QED
    BY <2>3, <2>4, <2>5 DEF Reading
<1>4. QED
  BY <1>1, <1>2, <1>3 DEF ReadOn, Current

\* collect starts on the next handle, or the operation ends with what it has.
LEMMA CollectGoesOn ==
  ASSUME Shaped, NEW o \in Op, NEW s \in Job, s.at = "reading", s.handles \in Batch,
         s.k \in 1 .. Len(s.handles) + 1, Kept(s, s.k - 1), Collect(o, s)
  PROVE  /\ Advances(o)
         /\ pending' = [x \in Op |-> pending'[x]] /\ guard' = [x \in Op |-> guard'[x]]
         /\ \A p \in Op \ {o} : pending'[p] = pending[p] /\ guard'[p] = guard[p]
         /\ Unclaimed(o)' = {}
         /\ pending'[o] \cup guard'[o] = Left(s, s.k)
         /\ \/ op'[o].at \in {"reading", "releasing"} /\ Collects(o)'
            \/ op'[o].at = "ended" /\ Rests(o)' /\ Delivers(o)'
<1>0. Len(s.handles) \in Nat /\ s.k \in Nat \ {0}
  BY DEF Batch
<1>1. CASE s.k > Len(s.handles)
  <2> DEFINE t == Ended(s.error, s.pages, s.handles)
  <2>1. /\ op' = [op EXCEPT ![o] = t] /\ net' = [net EXCEPT ![o] = NoCall]
        /\ pending' = [pending EXCEPT ![o] = {}] /\ guard' = [guard EXCEPT ![o] = {}]
    BY <1>1 DEF Collect, Goes, Guards
  <2>2. t.at = "ended" /\ t.result = s.error /\ t.pages = s.pages /\ t.handles = s.handles
    BY DEF Ended
  <2> HIDE DEF t
  <2>3. /\ Advances(o) /\ op'[o] = t /\ net'[o] = NoCall
        /\ pending'[o] = {} /\ guard'[o] = {}
        /\ pending' = [x \in Op |-> pending'[x]] /\ guard' = [x \in Op |-> guard'[x]]
        /\ \A p \in Op \ {o} : pending'[p] = pending[p] /\ guard'[p] = guard[p]
    BY <2>1, Updated DEF Shaped, Advances
  <2>4. s.k - 1 = Len(s.handles) /\ s.pages \in Seq(Page)
    BY <1>0, <1>1 DEF Job
  <2>5. s.error = "Ok" => s.pages = [j \in 1 .. Len(s.handles) |-> Whole(s.handles[j])]
    BY <2>4 DEF Kept
  <2>6. Delivers(o)'
    BY <2>2, <2>3, <2>5 DEF Delivers
  <2>7. Left(s, s.k) = {}
    BY <1>0, <1>1, LeftFrom
  <2>8. QED
    BY <2>2, <2>3, <2>6, <2>7 DEF Rests, Unclaimed, NoCall
<1>2. CASE s.k <= Len(s.handles)
  <2>1. Guards(o, Left(s, s.k + 1), {Current(s).id}) /\ ReadOn(o, s)
    BY <1>0, <1>2 DEF Collect
  <2>2. /\ pending'[o] = Left(s, s.k + 1) /\ guard'[o] = {Current(s).id}
        /\ pending' = [x \in Op |-> pending'[x]] /\ guard' = [x \in Op |-> guard'[x]]
        /\ \A p \in Op \ {o} : pending'[p] = pending[p] /\ guard'[p] = guard[p]
    BY <2>1, Updated DEF Guards, Shaped
  <2>3. Reading(s)
    BY <1>0, <1>2 DEF Reading
  <2>4. /\ Advances(o) /\ Collects(o)' /\ Unclaimed(o)' = {}
        /\ op'[o].at \in {"reading", "releasing"}
    BY <2>1, <2>2, <2>3, ReadOnCollects
  <2>5. Left(s, s.k) = pending'[o] \cup guard'[o]
    BY <1>0, <1>2, <2>2, LeftFrom DEF Current
  <2>6. QED
    BY <2>2, <2>4, <2>5
<1>3. QED
  BY <1>0, <1>1, <1>2

-----------------------------------------------------------------------------
(* The steps of an operation.                                              *)

\* The case of StepOfSome for a step of one operation.
LEMMA StepOfOp ==
  ASSUME ClientInv, NEW o \in Op, Shaped', StrayOK',
         \A p \in Op \ {o} : /\ op'[p] = op[p] /\ net'[p] = net[p] /\ pending'[p] = pending[p]
                             /\ guard'[p] = guard[p] /\ cleanup'[p] = cleanup[p],
         Seen \subseteq Seen', DOMAIN docs' \cap Seen \subseteq DOMAIN docs,
         stranded \subseteq stranded',
         OpOK(o)', Spares(o)', Owned(o)' \cap Seen \subseteq Owned(o),
         DOMAIN docs' \cap Owned(o) \subseteq Owned(o)' \cup stranded',
         DOMAIN docs' \subseteq DOMAIN docs \cup stranded' \cup Owned(o)',
         \A req \in stray' : req.kind = "release" => req \in stray \/ req.id \in Owned(o)
  PROVE  ClientInv'
<1> DEFINE S == {o}
<1>1. S \in SUBSET Op /\ (\A a, b \in S : a = b) /\ (\A p \in Op \ S : p \in Op \ {o}) /\ o \in S
  OBVIOUS
<1>2. \A x \in S : /\ OpOK(x)' /\ Spares(x)'
                   /\ Owned(x)' \cap Seen \subseteq Owned(x)
                   /\ DOMAIN docs' \cap Owned(x) \subseteq Owned(x)' \cup stranded'
  <2>1. SUFFICES ASSUME NEW x \in S PROVE x = o
    BY Zenon
  <2>2. QED
    OBVIOUS
<1> HIDE DEF S
<1>3. Owned(o)' \subseteq UNION {Owned(x)' : x \in S}
  BY <1>1
<1>4. QED
  BY <1>1, <1>2, <1>3, StepOfSome

\* It may also leave the store and the calls given up alone.
LEMMA QuietStep ==
  ASSUME ClientInv, NEW o \in Op, Shaped', UNCHANGED <<docs, retired, stray>>,
         \A p \in Op \ {o} : /\ op'[p] = op[p] /\ net'[p] = net[p] /\ pending'[p] = pending[p]
                             /\ guard'[p] = guard[p] /\ cleanup'[p] = cleanup[p],
         stranded \subseteq stranded',
         OpOK(o)', Spares(o)', Owned(o)' \subseteq Owned(o),
         DOMAIN docs \cap Owned(o) \subseteq Owned(o)' \cup stranded'
  PROVE  ClientInv'
<1>1. Seen' = Seen /\ StrayOK'
  BY DEF Seen, ClientInv, StrayOK
<1>2. QED
  BY <1>1, StepOfOp

\* collect goes on: what was left stays answered for, handle by handle.
LEMMA CollectInOrder ==
  ASSUME ClientInv, NEW o \in Op, NEW s \in Job, s.at = "reading", s.handles \in Batch,
         s.k \in 1 .. Len(s.handles) + 1, Kept(s, s.k - 1), Collect(o, s),
         UNCHANGED <<docs, retired, stray, cleanup>>, cleanup[o] = {},
         stranded \subseteq stranded', stranded' \subseteq Id,
         Left(s, s.k) \subseteq Unclaimed(o) \cup pending[o],
         DOMAIN docs \cap Owned(o) \subseteq Left(s, s.k) \cup stranded'
  PROVE  ClientInv'
<1>1. Shaped
  BY DEF ClientInv
<1>2. /\ Advances(o)
      /\ pending' = [x \in Op |-> pending'[x]] /\ guard' = [x \in Op |-> guard'[x]]
      /\ \A p \in Op \ {o} : pending'[p] = pending[p] /\ guard'[p] = guard[p]
      /\ Unclaimed(o)' = {}
      /\ pending'[o] \cup guard'[o] = Left(s, s.k)
      /\ \/ op'[o].at \in {"reading", "releasing"} /\ Collects(o)'
         \/ op'[o].at = "ended" /\ Rests(o)' /\ Delivers(o)'
  BY <1>1, CollectGoesOn
<1>3. Shaped'
  BY <1>1, <1>2 DEF Shaped, Advances
<1>4. Owned(o)' = Left(s, s.k) /\ Left(s, s.k) \subseteq Owned(o)
  BY <1>2 DEF Owned
<1>5. OpOK(o)'
  <2>1. Owned(o)' \subseteq Seen'
    BY <1>4 DEF ClientInv, OpOK, Seen
  <2>2. QED
    BY <1>2, <2>1 DEF OpOK
<1>6. Spares(o)'
  BY <1>2 DEF ClientInv, Spares
<1>7. QED
  BY <1>2, <1>3, <1>4, <1>5, <1>6, QuietStep DEF Advances

\* The producing call is sent.
LEMMA StartInOrder ==
  ASSUME ClientInv, NEW o \in Op, NEW render, Start(o, render)
  PROVE  ClientInv'
<1> DEFINE c == Sent(Produce(<<>>))
           t == Producing(render)
<1>1. /\ op[o] = Idle /\ op' = [op EXCEPT ![o] = t] /\ net' = [net EXCEPT ![o] = c]
      /\ UNCHANGED <<docs, retired, stray, pending, guard, cleanup, stranded>>
  BY DEF Start, Goes, Sends
<1>2. /\ t.at = "producing"
      /\ c.at = "sent" /\ c.req.kind = "produce" /\ c.req.made = <<>>
  BY DEF Producing, Sent, Produce
<1> HIDE DEF c, t
<1>3. Advances(o) /\ op'[o] = t /\ net'[o] = c
  BY <1>1, Updated DEF ClientInv, Shaped, Advances
<1>4. <<>> \in Batch /\ Ids(<<>>) = {}
  BY DEF Batch, Ids, ToSet
<1>5. pending[o] = {} /\ guard[o] = {} /\ cleanup[o] = {} /\ Owned(o) = {}
  BY <1>1 DEF ClientInv, OpOK, Rests, Idle, Owned, Unclaimed
<1>6. Unclaimed(o)' = {} /\ Owned(o)' = {}
  BY <1>1, <1>2, <1>3, <1>4, <1>5 DEF Unclaimed, Owned
<1>7. OpOK(o)' /\ Spares(o)'
  BY <1>1, <1>2, <1>3, <1>4, <1>5, <1>6 DEF OpOK, Produces, Spares
<1>8. Shaped'
  BY <1>1, <1>3 DEF ClientInv, Shaped, Advances
<1>9. QED
  BY <1>1, <1>3, <1>5, <1>6, <1>7, <1>8, QuietStep DEF Advances

\* The producing call has returned.
LEMMA ProducedInOrder ==
  ASSUME ClientInv, NEW o \in Op, Produced(o)
  PROVE  ClientInv'
<1> DEFINE reply == net[o].reply
<1>1. /\ op[o].at = "producing" /\ net[o].at = "answered"
      /\ UNCHANGED <<docs, retired, stray, cleanup, stranded>>
      /\ pending[o] = {} /\ guard[o] = {} /\ cleanup[o] = {}
      /\ \/ reply.kind = "handles" /\ reply.handles \in Batch
         \/ reply.kind = "failure"
  BY DEF Produced, Under, ClientInv, OpOK, Produces
<1>2. CASE reply.kind = "failure"
  <2> DEFINE t == Ended(Classify(reply.name), <<>>, <<>>)
  <2>1. /\ op' = [op EXCEPT ![o] = t] /\ net' = [net EXCEPT ![o] = NoCall]
        /\ UNCHANGED <<pending, guard>>
    BY <1>2 DEF Produced, Failed, Goes
  <2>2. t.at = "ended" /\ t.result # "Ok"
    BY DEF Ended, Classify
  <2> HIDE DEF t
  <2>3. Advances(o) /\ op'[o] = t /\ net'[o] = NoCall
    BY <2>1, Updated DEF ClientInv, Shaped, Advances
  <2>4. Owned(o) = {} /\ Owned(o)' = {} /\ Unclaimed(o)' = {}
    BY <1>1, <1>2, <2>1, <2>3 DEF Owned, Unclaimed, NoCall
  <2>5. OpOK(o)' /\ Spares(o)'
    BY <1>1, <2>1, <2>2, <2>3, <2>4 DEF OpOK, Rests, Delivers, Spares, NoCall
  <2>6. Shaped'
    BY <1>1, <2>1, <2>3 DEF ClientInv, Shaped, Advances
  <2>7. QED
    BY <1>1, <2>1, <2>3, <2>4, <2>5, <2>6, QuietStep DEF Advances
<1>3. CASE reply.kind = "handles"
  <2> DEFINE s == Collecting(reply.handles)
  <2>1. Collect(o, s) /\ reply.handles \in Batch
    BY <1>1, <1>3 DEF Produced, Failed
  <2>2. s \in Job /\ s.at = "reading" /\ s.handles = reply.handles /\ s.k = 1 /\ s.pages = <<>>
    BY <2>1 DEF Collecting, Job, Batch, Outcome
  <2> HIDE DEF s
  <2>3. s.handles \in Batch /\ Len(s.handles) \in Nat /\ Kept(s, s.k - 1)
    BY <2>1, <2>2 DEF Batch, Kept
  <2>4. Left(s, s.k) = Unclaimed(o) /\ Owned(o) = Unclaimed(o)
    BY <1>1, <1>3, <2>2, <2>3, LeftFrom DEF Unclaimed, Owned
  <2>5. stranded' \subseteq Id
    BY <1>1 DEF ClientInv, Shaped
  <2>6. QED
    BY <1>1, <2>1, <2>2, <2>3, <2>4, <2>5, CollectInOrder
<1>4. QED
  BY <1>1, <1>2, <1>3

\* A read has returned.
LEMMA GotChunkInOrder ==
  ASSUME ClientInv, NEW o \in Op, GotChunk(o)
  PROVE  ClientInv'
<1> DEFINE reply == net[o].reply
           s == op[o]
           t == [s EXCEPT !.have = @ + reply.n, !.sound = @ /\ reply.sound]
<1>1. /\ s.at = "reading" /\ net[o].at = "answered"
      /\ UNCHANGED <<docs, retired, stray, pending, guard, cleanup, stranded>>
      /\ Collects(o) /\ cleanup[o] = {}
  BY DEF GotChunk, Under, ClientInv, OpOK
<1>2. /\ Reading(s) /\ Shaped
      /\ pending'[o] = Left(s, s.k + 1) /\ guard'[o] = {Current(s).id}
      /\ reply.kind = "failure" \/ reply \in Chunks
  BY <1>1 DEF Collects, Reading, ClientInv
<1>3. /\ Advances(o) /\ Collects(o)' /\ Unclaimed(o)' = {}
      /\ op'[o].at \in {"reading", "releasing"}
  <2>1. ASSUME NEW result \in Outcome \ {"Ok"}, Settle(o, s, result)
        PROVE  Advances(o) /\ Collects(o)' /\ Unclaimed(o)' = {} /\ op'[o].at = "releasing"
    BY <1>2, <2>1, SettleCollects
  <2>2. "Failed" \in Outcome \ {"Ok"} /\ \A name : Classify(name) \in Outcome \ {"Ok"}
    BY DEF Outcome, Classify
  <2>3. CASE ~Failed(reply) /\ ReadOn(o, t)
    <3>1. reply.n \in Nat /\ reply.sound \in BOOLEAN
      <4>1. reply \in Chunks
        BY <1>2, <2>3 DEF Failed
      <4>2. PICK n \in 0 .. ReadChunkBytes + 1, sound \in BOOLEAN : reply = Chunk(n, sound)
        BY <4>1 DEF Chunks
      <4>3. QED
        BY <4>2, ClientAssumption DEF Chunk
    <3> DEFINE have == s.have + reply.n
               sound == s.sound /\ reply.sound
    <3>2. /\ t = [s EXCEPT !.have = have, !.sound = sound]
          /\ have \in Nat /\ sound \in BOOLEAN
      BY <1>2, <3>1 DEF Reading, Job
    <3> HIDE DEF have, sound, t
    <3>3. /\ t \in Job /\ t.at = "reading" /\ t.handles = s.handles /\ t.k = s.k
          /\ t.pages = s.pages /\ t.error = s.error
      BY <1>2, <3>1, <3>2 DEF Reading, Job
    <3>4. Reading(t) /\ Current(t) = Current(s) /\ Left(t, t.k + 1) = Left(s, s.k + 1)
      BY <1>2, <3>3 DEF Reading, Kept, Current, Left
    <3>5. ReadOn(o, t)
      BY <2>3
    <3>6. QED
      BY <1>2, <3>4, <3>5, ReadOnCollects
  <2>4. QED
    BY <2>1, <2>2, <2>3 DEF GotChunk
<1> HIDE DEF t
<1>4. Unclaimed(o) = {} /\ Owned(o)' = Owned(o)
  <2>1. Unclaimed(o) = {}
    BY <1>1, <1>2 DEF Unclaimed, Chunks, Chunk
  <2>2. QED
    BY <1>1, <1>3, <2>1 DEF Owned
<1>5. OpOK(o)'
  <2>1. Owned(o)' \subseteq Seen'
    BY <1>1, <1>4 DEF ClientInv, OpOK, Seen
  <2>2. QED
    BY <1>1, <1>3, <2>1 DEF OpOK
<1>6. Spares(o)'
  BY <1>1, <1>3 DEF ClientInv, Spares
<1>7. Shaped'
  BY <1>1, <1>3 DEF ClientInv, Shaped, Advances
<1>8. QED
  BY <1>1, <1>3, <1>4, <1>5, <1>6, <1>7, QuietStep DEF Advances

\* A release has returned: the output is gone, or stranded if the release failed.
LEMMA ReleasedInOrder ==
  ASSUME ClientInv, NEW o \in Op, Released(o)
  PROVE  ClientInv'
<1> DEFINE s == op[o]
           t == AfterPage(s)
<1>1. /\ s.at = "releasing" /\ net[o].at = "answered"
      /\ UNCHANGED <<docs, retired, stray, cleanup>>
      /\ stranded' = stranded \cup Unreleased(o)
      /\ Collect(o, t)
      /\ Collects(o) /\ cleanup[o] = {}
  BY DEF Released, Under, ClientInv, OpOK
<1>2. /\ s \in Job /\ s.handles \in Batch /\ s.k \in 1 .. Len(s.handles) /\ Kept(s, s.k - 1)
      /\ Len(s.handles) \in Nat /\ s.k \in Nat \ {0}
      /\ pending[o] = Left(s, s.k + 1) /\ guard[o] = {Current(s).id}
      /\ net[o].reply.kind \in {"unit", "failure"}
      /\ Unreleased(o) = {} => Current(s).id \notin DOMAIN docs
      /\ s.result = "Ok" => s.sound /\ s.have = Current(s).sha
  BY <1>1 DEF Collects, Batch
<1>3. Current(s) \in OutputHandle
  BY <1>2, LeftFrom DEF Current
<1> DEFINE page == [id |-> Current(s).id, have |-> s.have, sound |-> s.sound]
           error == IF s.error = "Ok" THEN s.result ELSE s.error
           pages == IF s.result = "Ok" /\ s.error = "Ok" THEN Append(s.pages, page) ELSE s.pages
<1>4. /\ error \in Outcome /\ pages \in Seq(Page)
      /\ error = "Ok" => /\ s.error = "Ok" /\ page = Whole(s.handles[s.k])
                         /\ pages = Append(s.pages, page)
      /\ page \in Page /\ s.pages \in Seq(Page)
  <2>1. page \in Page /\ s.pages \in Seq(Page) /\ s.error \in Outcome /\ s.result \in Outcome
    BY <1>2, <1>3 DEF Job, Page, OutputHandle
  <2>2. s.result = "Ok" => page = Whole(s.handles[s.k])
    BY <1>2 DEF Whole, Current, Job
  <2> HIDE DEF page
  <2>3. QED
    BY <2>1, <2>2
<1>5. t = [s EXCEPT !.at = "reading", !.k = s.k + 1, !.have = 0, !.sound = TRUE,
                    !.result = "Ok", !.error = error, !.pages = pages]
  BY <1>2 DEF AfterPage, Job
<1> HIDE DEF page, error, pages, t
<1>6. /\ t \in Job /\ t.at = "reading" /\ t.handles = s.handles /\ t.k = s.k + 1
      /\ t.error = error /\ t.pages = pages
  <2> DEFINE u == [s EXCEPT !.at = "reading", !.k = s.k + 1, !.have = 0]
             v == [u EXCEPT !.sound = TRUE, !.result = "Ok"]
             w == [v EXCEPT !.error = error, !.pages = pages]
  <2>1. u \in Job /\ u.at = "reading" /\ u.handles = s.handles /\ u.k = s.k + 1
    <3>1. s.k + 1 \in Nat /\ 0 \in Nat
      BY <1>2
    <3> DEFINE k == s.k + 1
    <3> HIDE DEF k
    <3>2. k \in Nat => /\ [s EXCEPT !.at = "reading", !.k = k] \in Job
                       /\ [s EXCEPT !.at = "reading", !.k = k].k = k
                       /\ [s EXCEPT !.at = "reading", !.k = k].handles = s.handles
                       /\ [s EXCEPT !.at = "reading", !.k = k].at = "reading"
      BY <1>2 DEF Job
    <3>3. QED
      BY <3>1, <3>2 DEF Job, k
  <2>2. t = w
    BY <1>2, <1>5 DEF Job
  <2> HIDE DEF u
  <2>3. v \in Job /\ v.at = "reading" /\ v.handles = s.handles /\ v.k = s.k + 1
    BY <2>1 DEF Job, Outcome
  <2> HIDE DEF v
  <2>4. /\ w \in Job /\ w.at = "reading" /\ w.handles = s.handles /\ w.k = s.k + 1
        /\ w.error = error /\ w.pages = pages
    BY <1>4, <2>3 DEF Job
  <2>5. QED
    BY <2>2, <2>4
<1>7. Kept(t, t.k - 1)
  <2>1. SUFFICES ASSUME error = "Ok"
                 PROVE  Len(pages) = s.k /\ \A j \in 1 .. s.k : pages[j] = Whole(s.handles[j])
    BY <1>2, <1>6 DEF Kept
  <2>2. /\ Len(s.pages) = s.k - 1
        /\ \A j \in 1 .. s.k - 1 : s.pages[j] = Whole(s.handles[j])
        /\ pages = Append(s.pages, page) /\ page = Whole(s.handles[s.k])
        /\ s.pages \in Seq(Page)
    BY <1>2, <1>4, <2>1 DEF Kept
  <2>3. /\ Len(pages) = Len(s.pages) + 1 /\ pages[Len(s.pages) + 1] = page
        /\ \A j \in 1 .. Len(s.pages) : pages[j] = s.pages[j]
    BY <1>4, <2>2
  <2>4. QED
    BY <1>2, <2>2, <2>3
<1>8. Left(t, t.k) = pending[o]
  BY <1>2, <1>6 DEF Left
<1>9. Unreleased(o) \subseteq {Current(s).id} /\ stranded' \subseteq Id
  BY <1>1, <1>3 DEF Unreleased, ClientInv, Shaped, OutputHandle
<1>10. Owned(o) = pending[o] \cup {Current(s).id}
  BY <1>1, <1>2 DEF Owned, Unclaimed
<1>11. DOMAIN docs \cap Owned(o) \subseteq Left(t, t.k) \cup stranded'
  BY <1>1, <1>2, <1>8, <1>9, <1>10
<1>12. t.handles \in Batch /\ t.k \in 1 .. Len(t.handles) + 1
  BY <1>2, <1>6
<1>13. QED
  BY <1>1, <1>6, <1>7, <1>8, <1>9, <1>11, <1>12, CollectInOrder

\* What a given-up call leaves behind is about the outputs of its operation.
LEMMA GivenUp ==
  ASSUME ClientInv, NEW o \in Op
  PROVE  /\ Unclaimed(o) \subseteq Id
         /\ \A req \in Abandoned(o) :
              \/ req = Produce(<<>>)
              \/ req.kind = "read" /\ req.id \in guard[o]
              \/ req.kind = "release" /\ req.id \in guard[o] /\ op[o].at = "releasing"
<1>1. OpOK(o)
  BY DEF ClientInv
<1>2. CASE op[o].at \in {"idle", "ended", "dropped"}
  BY <1>1, <1>2 DEF OpOK, Rests, Unclaimed, Abandoned
<1>3. CASE op[o].at = "producing"
  <2>1. \A made \in Batch : Ids(made) \subseteq Id
    BY IdsByPosition DEF Batch
  <2>2. QED
    BY <1>1, <1>3, <2>1 DEF OpOK, Produces, Unclaimed, Abandoned
<1>4. CASE op[o].at \in {"reading", "releasing"}
  <2>1. Collects(o)
    BY <1>1, <1>4 DEF OpOK
  <2>2. Unclaimed(o) = {}
    BY <1>4, <2>1 DEF Collects, Unclaimed, Chunks, Chunk
  <2>3. QED
    BY <1>4, <2>1, <2>2 DEF Collects, Abandoned
<1>5. QED
  BY <1>1, <1>2, <1>3, <1>4 DEF OpOK

\* The bus gives the call up: what the module made for it is stranded.
LEMMA GiveUpInOrder ==
  ASSUME ClientInv, NEW o \in Op, GiveUp(o)
  PROVE  ClientInv'
<1> DEFINE c == Answered(Failure("ModuleUnavailable"))
<1>1. /\ net[o].at = "sent" /\ net' = [net EXCEPT ![o] = c]
      /\ stray' = stray \cup Abandoned(o)
      /\ stranded' = stranded \cup Unclaimed(o)
      /\ UNCHANGED <<docs, retired, op, pending, guard, cleanup>>
  BY DEF GiveUp
<1>2. /\ c.at = "answered" /\ c.reply.kind = "failure" /\ c.reply.name = "ModuleUnavailable"
  BY DEF Answered, Failure
<1> HIDE DEF c
<1>3. Shaped /\ OpOK(o) /\ Spares(o) /\ StrayOK
  BY DEF ClientInv
<1>4. /\ net' = [x \in Op |-> net'[x]] /\ net'[o] = c
      /\ \A p \in Op \ {o} : net'[p] = net[p]
  BY <1>1, <1>3, Updated DEF Shaped
<1>5. Unclaimed(o)' = {} /\ Owned(o)' = pending[o] \cup guard[o] \cup cleanup[o]
  BY <1>1, <1>2, <1>4 DEF Unclaimed, Owned
<1>6. Owned(o) = Unclaimed(o) \cup Owned(o)' /\ Seen' = Seen
  BY <1>1, <1>5 DEF Owned, Seen
<1>7. OpOK(o)'
  <2>1. op[o].at \in {"producing", "reading", "releasing"}
    BY <1>1, <1>3 DEF OpOK, Rests
  <2>2. op[o].at = "producing" => Produces(o)'
    BY <1>1, <1>2, <1>3, <1>4 DEF OpOK, Produces
  <2>3. Unreleased(o)' = {Current(op[o]).id}
    BY <1>1, <1>2, <1>4 DEF Unreleased, Failed
  <2>4. op[o].at \in {"reading", "releasing"} => Collects(o)'
    BY <1>1, <1>2, <1>3, <1>4, <2>3 DEF OpOK, Collects
  <2>5. Owned(o)' \subseteq Seen'
    BY <1>3, <1>6 DEF OpOK
  <2>6. QED
    BY <1>1, <1>3, <2>1, <2>2, <2>4, <2>5 DEF OpOK
<1>8. \A req \in stray' : \/ req \in stray
                          \/ req = Produce(<<>>)
                          \/ req.kind = "read" /\ req.id \in guard[o]
                          \/ req.kind = "release" /\ req.id \in guard[o] /\ op[o].at = "releasing"
  BY <1>1, GivenUp
<1>9. /\ guard[o] \subseteq Id \cap Seen /\ guard[o] \subseteq Owned(o)
      /\ pending[o] \cap guard[o] = {}
      /\ Produce(<<>>).kind # "release"
  BY <1>3, OwnParts DEF OpOK, Owned, Produce
<1>10. StrayOK'
  BY <1>3, <1>6, <1>8, <1>9 DEF StrayOK
<1>11. Spares(o)'
  BY <1>1, <1>3, <1>5, <1>8, <1>9 DEF Spares
<1>12. Shaped'
  BY <1>1, <1>3, <1>4, GivenUp DEF Shaped
<1>13. \A req \in stray' : req.kind = "release" => req \in stray \/ req.id \in Owned(o)
  BY <1>8, <1>9
<1>14. QED
  BY <1>1, <1>4, <1>6, <1>7, <1>10, <1>11, <1>12, <1>13, StepOfOp DEF Seen

\* The operation is dropped: what its guards name is cleaned up, or stranded.
LEMMA CancelInOrder ==
  ASSUME ClientInv, NEW o \in Op, NEW runtime, Cancel(o, runtime)
  PROVE  ClientInv'
<1> DEFINE owed == pending[o] \cup guard[o]
           cleaned == cleanup[o] \cup IF runtime THEN owed ELSE {}
<1>1. /\ op[o].at \in {"producing", "reading", "releasing"}
      /\ op' = [op EXCEPT ![o] = Dropped] /\ net' = [net EXCEPT ![o] = NoCall]
      /\ stray' = stray \cup Abandoned(o)
      /\ cleanup' = [cleanup EXCEPT ![o] = cleaned]
      /\ stranded' = stranded \cup Unclaimed(o) \cup IF runtime THEN {} ELSE owed
      /\ pending' = [pending EXCEPT ![o] = {}] /\ guard' = [guard EXCEPT ![o] = {}]
      /\ UNCHANGED <<docs, retired>>
  BY DEF Cancel, Goes, Guards, heldVars, ClientInv, Shaped
<1>2. Shaped /\ OpOK(o) /\ StrayOK
  BY DEF ClientInv
<1>3. /\ cleaned \subseteq owed /\ owed \subseteq Id /\ Seen' = Seen
      /\ owed \subseteq cleaned \cup stranded'
      /\ Owned(o) = Unclaimed(o) \cup owed
  BY <1>1, <1>2, OwnParts DEF OpOK, Owned, Seen
<1> HIDE DEF owed, cleaned
<1>4. /\ op'[o] = Dropped /\ net'[o] = NoCall /\ cleanup'[o] = cleaned
      /\ pending'[o] = {} /\ guard'[o] = {}
      /\ \A p \in Op \ {o} : /\ op'[p] = op[p] /\ net'[p] = net[p] /\ pending'[p] = pending[p]
                             /\ guard'[p] = guard[p] /\ cleanup'[p] = cleanup[p]
  BY <1>1, <1>2, Updated DEF Shaped
<1>5. Shaped'
  <2>1. /\ op' = [x \in Op |-> op'[x]] /\ net' = [x \in Op |-> net'[x]]
        /\ pending' = [x \in Op |-> pending'[x]] /\ guard' = [x \in Op |-> guard'[x]]
        /\ cleanup' = [x \in Op |-> cleanup'[x]]
    BY <1>1, <1>2, Updated DEF Shaped
  <2>2. stranded' \subseteq Id
    BY <1>1, <1>2, <1>3, GivenUp DEF Shaped
  <2>3. QED
    BY <2>1, <2>2 DEF Shaped
<1>6. Unclaimed(o)' = {} /\ Owned(o)' = cleaned
  BY <1>4 DEF Unclaimed, Owned, NoCall
<1>7. OpOK(o)' /\ Spares(o)'
  <2>1. Owned(o)' \subseteq Seen' /\ cleanup'[o] \subseteq Id
    BY <1>2, <1>3, <1>4, <1>6 DEF OpOK
  <2>2. QED
    BY <1>4, <1>6, <2>1 DEF OpOK, Rests, Spares, Dropped, NoCall
<1>8. \A req \in stray' : \/ req \in stray
                          \/ req = Produce(<<>>)
                          \/ req.kind \in {"read", "release"} /\ req.id \in guard[o]
  BY <1>1, GivenUp
<1>9. guard[o] \subseteq Id \cap Seen /\ guard[o] \subseteq Owned(o) /\ Produce(<<>>).kind # "release"
  BY <1>2, OwnParts DEF OpOK, Owned, Produce
<1>10. StrayOK'
  BY <1>2, <1>3, <1>8, <1>9 DEF StrayOK
<1>11. \A req \in stray' : req.kind = "release" => req \in stray \/ req.id \in Owned(o)
  BY <1>8, <1>9
<1>12. /\ Owned(o)' \subseteq Owned(o)
       /\ Owned(o) \subseteq Owned(o)' \cup stranded'
       /\ stranded \subseteq stranded'
  BY <1>1, <1>3, <1>6
<1>13. QED
  BY <1>1, <1>3, <1>4, <1>5, <1>7, <1>10, <1>11, <1>12, StepOfOp

-----------------------------------------------------------------------------
(* The steps of the module, and of the tasks that clean up.                *)

\* The state of the awaited call changes, and of the operation nothing else.
LEMMA CallChanged ==
  ASSUME Shaped, NEW o \in Op, NEW c, net' = [net EXCEPT ![o] = c],
         UNCHANGED <<op, pending, guard, cleanup, stranded>>
  PROVE  /\ Shaped' /\ net'[o] = c
         /\ \A p \in Op \ {o} : /\ op'[p] = op[p] /\ net'[p] = net[p] /\ pending'[p] = pending[p]
                                /\ guard'[p] = guard[p] /\ cleanup'[p] = cleanup[p]
BY Updated DEF Shaped

\* A read or a release is performed and answered.
LEMMA PerformInOrder ==
  ASSUME ClientInv, NEW o \in Op, NEW gone, NEW reply \in Replies, Perform(o, gone, reply)
  PROVE  ClientInv'
<1> DEFINE req == net[o].req
           c == Answered(reply)
<1>1. /\ net[o].at = "sent" /\ Performs(req, gone, reply)
      /\ net' = [net EXCEPT ![o] = c]
      /\ UNCHANGED <<op, stray, pending, guard, cleanup, stranded>>
  BY DEF Perform
<1>2. Shaped /\ OpOK(o) /\ Spares(o) /\ StrayOK
  BY DEF ClientInv
<1>3. /\ req.kind \in {"read", "release"}
      /\ Seen' = Seen
      /\ DOMAIN docs' \subseteq DOMAIN docs
      /\ reply.kind \in {"chunk", "failure", "unit"}
      /\ req.kind = "read" => reply.kind \in {"chunk", "failure"}
      /\ req.kind = "release" =>
           req.id \notin DOMAIN docs' /\ reply \in {Unit, Failure("UnknownOutput")}
  BY <1>1, Performed
<1>4. /\ op[o].at \in {"reading", "releasing"} /\ Collects(o)
      /\ req.id = Current(op[o]).id
      /\ req.kind = IF op[o].at = "reading" THEN "read" ELSE "release"
  BY <1>1, <1>2, <1>3 DEF OpOK, Rests, Produces, Collects
<1>5. c.at = "answered" /\ c.reply = reply
  BY DEF Answered
<1> HIDE DEF c
<1>6. /\ Shaped' /\ net'[o] = c
      /\ \A p \in Op \ {o} : /\ op'[p] = op[p] /\ net'[p] = net[p] /\ pending'[p] = pending[p]
                             /\ guard'[p] = guard[p] /\ cleanup'[p] = cleanup[p]
  BY <1>1, <1>2, CallChanged
<1>7. Collects(o)'
  <2>1. reply.kind = "chunk" => reply \in Chunks
    BY DEF Replies, Chunks, Chunk, Unit, Failure
  <2>2. op[o].at = "releasing" => reply.kind \in {"unit", "failure"}
    BY <1>3, <1>4 DEF Unit, Failure
  <2>3. QED
    BY <1>1, <1>3, <1>4, <1>5, <1>6, <2>1, <2>2 DEF Collects
<1>8. Unclaimed(o) = {} /\ Unclaimed(o)' = {} /\ Owned(o)' = Owned(o)
  BY <1>1, <1>3, <1>5, <1>6 DEF Unclaimed, Owned
<1>9. OpOK(o)' /\ Spares(o)' /\ StrayOK'
  BY <1>1, <1>2, <1>3, <1>4, <1>7, <1>8 DEF OpOK, Spares, StrayOK
<1>10. QED
  BY <1>1, <1>3, <1>6, <1>8, <1>9, StepOfOp

\* One more document is held for the producing call.
LEMMA MakeOneInOrder ==
  ASSUME ClientInv, NEW o \in Op, NEW gone, NEW id \in Id, NEW n \in 0 .. MaxOutputBytes,
         NEW total \in 0 .. MaxDocumentBytes + 1, MakeOne(o, gone, id, n, total)
  PROVE  ClientInv'
<1> DEFINE made == net[o].req.made
           more == Append(made, Handle(id, total, n))
           c == Sent(Produce(more))
<1>1. /\ net[o].at = "sent" /\ net[o].req.kind = "produce"
      /\ net' = [net EXCEPT ![o] = c]
      /\ Hold(gone, id, n)
      /\ UNCHANGED <<op, stray, pending, guard, cleanup, stranded>>
  BY DEF MakeOne, Sends
<1>2. Shaped /\ OpOK(o) /\ Spares(o) /\ StrayOK
  BY DEF ClientInv
<1>3. /\ id \notin Seen /\ Seen' = Seen \cup {id}
      /\ DOMAIN docs' = (DOMAIN docs \ gone) \cup {id}
  BY <1>1, Holding
<1>4. op[o].at = "producing" /\ made \in Batch /\ Unclaimed(o) = Ids(made)
  BY <1>1, <1>2 DEF OpOK, Rests, Produces, Collects, Unclaimed
<1>5. /\ c.at = "sent" /\ c.req.kind = "produce" /\ c.req.made = more
      /\ Handle(id, total, n) \in OutputHandle /\ Handle(id, total, n).id = id
  BY DEF Sent, Produce, Handle, OutputHandle
<1>6. id \notin Owned(o) /\ id \notin Ids(made)
  BY <1>2, <1>3, <1>4 DEF OpOK, Owned
<1>7. more \in Batch /\ Ids(more) = Ids(made) \cup {id}
  BY <1>4, <1>5, <1>6, OneMoreHandle
<1> HIDE DEF c, more
<1>8. /\ Shaped' /\ net'[o] = c
      /\ \A p \in Op \ {o} : /\ op'[p] = op[p] /\ net'[p] = net[p] /\ pending'[p] = pending[p]
                             /\ guard'[p] = guard[p] /\ cleanup'[p] = cleanup[p]
  BY <1>1, <1>2, CallChanged
<1>9. Unclaimed(o)' = Unclaimed(o) \cup {id} /\ Owned(o)' = Owned(o) \cup {id}
  BY <1>1, <1>4, <1>5, <1>7, <1>8 DEF Unclaimed, Owned
<1>10. OpOK(o)'
  <2>1. Produces(o)'
    BY <1>1, <1>2, <1>4, <1>5, <1>7, <1>8 DEF OpOK, Produces
  <2>2. QED
    BY <1>1, <1>2, <1>3, <1>4, <1>9, <2>1 DEF OpOK
<1>11. Spares(o)' /\ StrayOK'
  <2>1. \A req \in stray : req.kind = "release" => req.id \in Seen
    BY <1>2 DEF StrayOK, Produce
  <2>2. QED
    BY <1>1, <1>2, <1>3, <1>4, <1>9, <2>1 DEF Spares, StrayOK
<1>12. QED
  BY <1>1, <1>3, <1>8, <1>9, <1>10, <1>11, StepOfOp

\* The producing call is answered: the reply carries what was made.
LEMMA AnswerProduceInOrder ==
  ASSUME ClientInv, NEW o \in Op, AnswerProduce(o)
  PROVE  ClientInv'
<1> DEFINE made == net[o].req.made
           c == Answered(Handles(made))
<1>1. /\ net[o].at = "sent" /\ net[o].req.kind = "produce"
      /\ net' = [net EXCEPT ![o] = c]
      /\ UNCHANGED <<docs, retired, op, stray, pending, guard, cleanup, stranded>>
  BY DEF AnswerProduce
<1>2. Shaped /\ OpOK(o) /\ Spares(o)
  BY DEF ClientInv
<1>3. op[o].at = "producing" /\ Produces(o) /\ made \in Batch /\ Unclaimed(o) = Ids(made)
  BY <1>1, <1>2 DEF OpOK, Rests, Produces, Collects, Unclaimed
<1>4. c.at = "answered" /\ c.reply.kind = "handles" /\ c.reply.handles = made
  BY DEF Answered, Handles
<1> HIDE DEF c
<1>5. /\ Shaped' /\ net'[o] = c
      /\ \A p \in Op \ {o} : /\ op'[p] = op[p] /\ net'[p] = net[p] /\ pending'[p] = pending[p]
                             /\ guard'[p] = guard[p] /\ cleanup'[p] = cleanup[p]
  BY <1>1, <1>2, CallChanged
<1>6. Unclaimed(o)' = Unclaimed(o) /\ Owned(o)' = Owned(o)
  BY <1>1, <1>3, <1>4, <1>5 DEF Unclaimed, Owned
<1>7. OpOK(o)'
  <2>1. Produces(o)'
    BY <1>1, <1>3, <1>4, <1>5 DEF Produces
  <2>2. QED
    BY <1>1, <1>2, <1>3, <1>6, <2>1 DEF OpOK, Seen
<1>8. Spares(o)'
  BY <1>1, <1>2, <1>3, <1>6 DEF Spares
<1>9. QED
  BY <1>1, <1>5, <1>6, <1>7, <1>8, QuietStep

\* The producing call is refused: it had made nothing.
LEMMA RefuseProduceInOrder ==
  ASSUME ClientInv, NEW o \in Op, NEW gone, NEW name, RefuseProduce(o, gone, name)
  PROVE  ClientInv'
<1> DEFINE c == Answered(Failure(name))
<1>1. /\ net[o].at = "sent" /\ net[o].req.kind = "produce" /\ net[o].req.made = <<>>
      /\ net' = [net EXCEPT ![o] = c]
      /\ Refuse(gone)
      /\ UNCHANGED <<op, stray, pending, guard, cleanup, stranded>>
  BY DEF RefuseProduce
<1>2. Shaped /\ OpOK(o) /\ Spares(o) /\ StrayOK
  BY DEF ClientInv
<1>3. Seen' = Seen /\ DOMAIN docs' = DOMAIN docs \ gone
  BY <1>1, Refusal
<1>4. op[o].at = "producing" /\ Produces(o)
  BY <1>1, <1>2 DEF OpOK, Rests, Collects
<1>5. c.at = "answered" /\ c.reply.kind = "failure" /\ Ids(<<>>) = {}
  BY DEF Answered, Failure, Ids, ToSet
<1> HIDE DEF c
<1>6. /\ Shaped' /\ net'[o] = c
      /\ \A p \in Op \ {o} : /\ op'[p] = op[p] /\ net'[p] = net[p] /\ pending'[p] = pending[p]
                             /\ guard'[p] = guard[p] /\ cleanup'[p] = cleanup[p]
  BY <1>1, <1>2, CallChanged
<1>7. Unclaimed(o) = {} /\ Unclaimed(o)' = {} /\ Owned(o)' = Owned(o)
  BY <1>1, <1>5, <1>6 DEF Unclaimed, Owned
<1>8. OpOK(o)' /\ Spares(o)' /\ StrayOK'
  <2>1. Produces(o)'
    BY <1>1, <1>4, <1>5, <1>6 DEF Produces
  <2>2. QED
    BY <1>1, <1>2, <1>3, <1>4, <1>7, <2>1 DEF OpOK, Spares, StrayOK
<1>9. QED
  BY <1>1, <1>3, <1>6, <1>7, <1>8, StepOfOp

\* A step that touches no operation keeps the invariant if it holds only what is
\* stranded.
LEMMA StepOfNone ==
  ASSUME ClientInv, UNCHANGED <<op, net, pending, guard, cleanup>>,
         stray' \subseteq stray, stranded \subseteq stranded', stranded' \subseteq Id,
         Seen \subseteq Seen', DOMAIN docs' \cap Seen \subseteq DOMAIN docs,
         DOMAIN docs' \subseteq DOMAIN docs \cup stranded'
  PROVE  ClientInv'
<1> DEFINE S == {}
<1>1. Shaped' /\ StrayOK'
  BY DEF ClientInv, Shaped, StrayOK
<1>2. S \in SUBSET Op /\ \A o \in S : FALSE
  OBVIOUS
<1> HIDE DEF S
<1>3. QED
  BY <1>1, <1>2, StepOfSome

\* Calls that were given up are executed, and time passes.
LEMMA StrayInOrder ==
  ASSUME ClientInv,
         \/ \E gone, req, reply : PerformStray(req, gone, reply)
         \/ \E gone, n : \E id \in Id : MakeStray(gone, id, n)
         \/ ClientTick
  PROVE  ClientInv'
<1>1. stranded \subseteq Id
  BY DEF ClientInv, Shaped
<1>2. ASSUME NEW gone, NEW req, NEW reply, PerformStray(req, gone, reply)
      PROVE  ClientInv'
  BY <1>1, <1>2, Performed, StepOfNone DEF PerformStray
<1>3. ASSUME NEW gone, NEW n, NEW id \in Id, MakeStray(gone, id, n)
      PROVE  ClientInv'
  <2>1. /\ UNCHANGED <<op, net, stray, pending, guard, cleanup>>
        /\ stranded' = stranded \cup {id} /\ Hold(gone, id, n)
    BY <1>3 DEF MakeStray
  <2>2. /\ id \notin Seen /\ Seen' = Seen \cup {id}
        /\ DOMAIN docs' = (DOMAIN docs \ gone) \cup {id}
    BY <2>1, Holding
  <2>3. QED
    BY <1>1, <2>1, <2>2, StepOfNone
<1>4. CASE ClientTick
  BY <1>1, <1>4, Ticked, StepOfNone DEF ClientTick
<1>5. QED
  BY <1>2, <1>3, <1>4

\* A spawned task releases an output, or fails to and strands it.
LEMMA CleanUpInOrder ==
  ASSUME ClientInv, NEW o \in Op, NEW id,
         (\E gone, reply : CleanUp(o, id, gone, reply)) \/ CleanUpFails(o, id)
  PROVE  ClientInv'
<1>1. /\ id \in cleanup[o]
      /\ cleanup' = [cleanup EXCEPT ![o] = cleanup[o] \ {id}]
      /\ UNCHANGED <<op, net, pending, guard>>
  BY DEF CleanUp, CleanUpFails, ClientInv, Shaped
<1>2. Shaped /\ OpOK(o) /\ StrayOK
  BY DEF ClientInv
<1>3. /\ cleanup'[o] = cleanup[o] \ {id} /\ cleanup' = [x \in Op |-> cleanup'[x]]
      /\ \A p \in Op \ {o} : cleanup'[p] = cleanup[p]
  BY <1>1, <1>2, Updated DEF Shaped
<1>4. op[o].at = "dropped" /\ Rests(o) /\ id \in Id /\ id \in Seen
  BY <1>1, <1>2 DEF OpOK, Owned
<1>5. Owned(o) = cleanup[o] /\ Unclaimed(o)' = {} /\ Owned(o)' = cleanup[o] \ {id}
  BY <1>1, <1>3, <1>4 DEF Owned, Unclaimed, Rests
<1>6. /\ Seen' = Seen /\ DOMAIN docs' \subseteq DOMAIN docs
      /\ id \notin DOMAIN docs' \/ id \in stranded'
      /\ stranded \subseteq stranded' /\ stranded' \subseteq Id
      /\ stray' \subseteq stray \cup {ReleaseReq(id)}
  <2>1. ASSUME NEW gone, NEW reply, CleanUp(o, id, gone, reply)
        PROVE  /\ Seen' = Seen /\ DOMAIN docs' \subseteq DOMAIN docs
               /\ id \notin DOMAIN docs'
               /\ UNCHANGED <<stray, stranded>>
    <3>1. Performs(ReleaseReq(id), gone, reply) /\ UNCHANGED <<stray, stranded>>
      BY <2>1 DEF CleanUp
    <3>2. ReleaseReq(id).kind = "release" /\ ReleaseReq(id).id = id
      BY DEF ReleaseReq
    <3>3. QED
      BY <3>1, <3>2, Performed
  <2>2. CASE CleanUpFails(o, id)
    BY <1>2, <1>4, <2>2 DEF CleanUpFails, Seen, Shaped
  <2>3. QED
    BY <1>2, <2>1, <2>2 DEF Shaped
<1>7. ReleaseReq(id).kind = "release" /\ ReleaseReq(id).id = id
  BY DEF ReleaseReq
<1>8. OpOK(o)' /\ Spares(o)' /\ StrayOK' /\ Shaped'
  <2>1. Owned(o)' \subseteq Seen'
    BY <1>2, <1>5, <1>6 DEF OpOK
  <2>2. OpOK(o)'
    BY <1>1, <1>2, <1>3, <1>4, <2>1 DEF OpOK, Rests
  <2>3. Spares(o)'
    BY <1>1, <1>4, <1>5 DEF Spares, Rests
  <2>4. StrayOK'
    BY <1>2, <1>4, <1>6, <1>7 DEF StrayOK
  <2>5. Shaped'
    BY <1>1, <1>2, <1>3, <1>6 DEF Shaped
  <2>6. QED
    BY <2>2, <2>3, <2>4, <2>5
<1>9. \A req \in stray' : req.kind = "release" => req \in stray \/ req.id \in Owned(o)
  BY <1>1, <1>5, <1>6, <1>7
<1>10. QED
  BY <1>1, <1>3, <1>5, <1>6, <1>8, <1>9, StepOfOp

-----------------------------------------------------------------------------
(* The whole client.                                                       *)

\* Every step keeps the invariant.
LEMMA ClientStep ==
  ASSUME ClientInv, [ClientNext]_clientVars
  PROVE  ClientInv'
<1>1. ASSUME NEW o \in Op, Continue(o) PROVE ClientInv'
  BY <1>1, ProducedInOrder, GotChunkInOrder, ReleasedInOrder DEF Continue
<1>2. ASSUME NEW o \in Op, Serve(o) PROVE ClientInv'
  BY <1>2, AnswerProduceInOrder, PerformInOrder, RefuseProduceInOrder DEF Serve
<1>3. ASSUME NEW o \in Op, Make(o) PROVE ClientInv'
  BY <1>3, MakeOneInOrder DEF Make
<1>4. ASSUME NEW o \in Op, Tidy(o) PROVE ClientInv'
  BY <1>4, CleanUpInOrder DEF Tidy
<1>5. ASSUME NEW o \in Op,
             \/ \E render \in BOOLEAN : Start(o, render)
             \/ GiveUp(o)
             \/ \E runtime \in BOOLEAN : Cancel(o, runtime)
             \/ \E id \in cleanup[o] : CleanUpFails(o, id)
      PROVE  ClientInv'
  BY <1>5, StartInOrder, GiveUpInOrder, CancelInOrder, CleanUpInOrder
<1>6. CASE \/ \E gone \in SUBSET DOMAIN docs :
                \/ \E req \in stray, reply \in Replies : PerformStray(req, gone, reply)
                \/ \E id \in Id, n \in 0 .. MaxOutputBytes : MakeStray(gone, id, n)
           \/ ClientTick
  BY <1>6, StrayInOrder
<1>7. CASE UNCHANGED clientVars
  <2>1. /\ UNCHANGED <<docs, retired, op, net, stray, pending, guard, cleanup, stranded>>
        /\ Seen' = Seen
    BY <1>7 DEF clientVars, Seen
  <2>2. stranded' \subseteq Id
    BY <2>1 DEF ClientInv, Shaped
  <2>3. QED
    BY <2>1, <2>2, StepOfNone
<1>8. QED
  BY <1>1, <1>2, <1>3, <1>4, <1>5, <1>6, <1>7 DEF ClientNext

\* The inductive invariant holds in every run of the client.
LEMMA AlwaysAnsweredFor == ClientSpec => []ClientInv
<1>1. ClientInit => ClientInv
  <2>1. SUFFICES ASSUME ClientInit PROVE ClientInv
    OBVIOUS
  <2>2. /\ DOMAIN docs = {} /\ stray = {} /\ stranded = {}
        /\ op = [o \in Op |-> Idle] /\ net = [o \in Op |-> NoCall]
        /\ pending = [o \in Op |-> {}] /\ guard = [o \in Op |-> {}]
        /\ cleanup = [o \in Op |-> {}]
    BY <2>1 DEF ClientInit, HeldInit
  <2>3. Shaped /\ StrayOK
    BY <2>2 DEF Shaped, StrayOK
  <2>4. \A o \in Op : Owned(o) = {}
    BY <2>2 DEF Owned, Unclaimed, NoCall
  <2>5. \A o \in Op : OpOK(o) /\ Spares(o)
    BY <2>2, <2>4 DEF OpOK, Rests, Spares, Idle, NoCall
  <2>6. Covered
    BY <2>2, <2>4 DEF Covered
  <2>7. QED
    BY <2>3, <2>5, <2>6 DEF ClientInv
<1>2. ClientInv /\ [ClientNext]_clientVars => ClientInv'
  BY ClientStep
<1>3. QED
  BY <1>1, <1>2, PTL DEF ClientSpec

\* The guards hold ids, a guard of collect at most one of them, and an operation
\* awaits a call exactly while it is under way.
THEOREM ClientTyped == ClientSpec => []ClientTypeOK
<1>1. ClientInv => ClientTypeOK
  <2>1. SUFFICES ASSUME ClientInv PROVE ClientTypeOK
    OBVIOUS
  <2>2. stranded \subseteq Id /\ StrayOK
    BY <2>1 DEF ClientInv, Shaped
  <2>3. ASSUME NEW o \in Op
        PROVE  /\ pending[o] \subseteq Id /\ guard[o] \subseteq Id /\ cleanup[o] \subseteq Id
               /\ Cardinality(guard[o]) <= 1
               /\ net[o].at = "none" <=> op[o].at \in {"idle", "ended", "dropped"}
    <3>1. OpOK(o)
      BY <2>1 DEF ClientInv
    <3>2. Cardinality(guard[o]) <= 1
      <4>1. CASE guard[o] = {}
        BY <4>1, FS_EmptySet
      <4>2. ASSUME NEW id, guard[o] = {id} PROVE Cardinality(guard[o]) = 1
        BY <4>2, FS_Singleton
      <4>3. QED
        BY <3>1, <4>1, <4>2, OwnParts
    <3>3. net[o].at = "none" <=> op[o].at \in {"idle", "ended", "dropped"}
      BY <3>1 DEF OpOK, Rests, Produces, Collects
    <3>4. QED
      BY <3>1, <3>2, <3>3, OwnParts DEF OpOK
  <2>4. QED
    BY <2>2, <2>3 DEF ClientTypeOK, StrayOK
<1>2. QED
  BY <1>1, AlwaysAnsweredFor, PTL

\* At every await each output that is still held is answered for exactly once.
THEOREM EverythingCovered == ClientSpec => []Covered
<1>1. ClientInv => Covered
  BY DEF ClientInv
<1>2. QED
  BY <1>1, AlwaysAnsweredFor, PTL

\* An Ok hands over every document of the answer, in order, complete and
\* unaltered, whatever the module declared or sent.
THEOREM OkIsWhole == ClientSpec => []ResultIsDocuments
<1>1. ClientInv => ResultIsDocuments
  BY DEF ClientInv, OpOK, Delivers, Whole, ResultIsDocuments
<1>2. QED
  BY <1>1, AlwaysAnsweredFor, PTL

-----------------------------------------------------------------------------
(* What a step may take away.                                              *)

\* An output goes because it may expire, or because a release names it: that of
\* an operation that has read it, that of a spawned task, or one given up.
LEMMA WhatLeaves ==
  ASSUME ClientInv, [ClientNext]_clientVars, NEW id \in DOMAIN docs, id \notin DOMAIN docs'
  PROVE  \/ id \in MayExpire
         \/ \E p \in Op : op[p].at = "releasing" /\ id \in guard[p]
         \/ \E p \in Op : op[p].at = "dropped" /\ id \in cleanup[p]
         \/ \E req \in stray : req.kind = "release" /\ req.id = id
<1> DEFINE Goal == \/ id \in MayExpire
                   \/ \E p \in Op : op[p].at = "releasing" /\ id \in guard[p]
                   \/ \E p \in Op : op[p].at = "dropped" /\ id \in cleanup[p]
                   \/ \E req \in stray : req.kind = "release" /\ req.id = id
<1>1. ASSUME NEW gone, NEW i, NEW n, Hold(gone, i, n) PROVE Goal
  BY <1>1, Holding
<1>2. ASSUME NEW gone, Refuse(gone) PROVE Goal
  BY <1>2, Refusal
<1>3. ASSUME NEW o \in Op, NEW gone, NEW reply, Perform(o, gone, reply) PROVE Goal
  <2>1. net[o].at = "sent" /\ Performs(net[o].req, gone, reply)
    BY <1>3 DEF Perform
  <2>2. \/ id \in MayExpire
        \/ net[o].req.kind = "release" /\ id = net[o].req.id
    BY <2>1, Performed
  <2>3. ASSUME net[o].req.kind = "release" PROVE op[o].at = "releasing" /\ net[o].req.id \in guard[o]
    <3>1. OpOK(o)
      BY DEF ClientInv
    <3>2. QED
      BY <2>1, <2>3, <3>1 DEF OpOK, Rests, Produces, Collects
  <2>4. QED
    BY <2>2, <2>3
<1>4. ASSUME NEW gone, NEW req, NEW reply, PerformStray(req, gone, reply) PROVE Goal
  BY <1>4, Performed DEF PerformStray
<1>5. ASSUME NEW o \in Op, NEW i, NEW gone, NEW reply, CleanUp(o, i, gone, reply) PROVE Goal
  <2>1. i \in cleanup[o] /\ Performs(ReleaseReq(i), gone, reply) /\ ReleaseReq(i).id = i
    BY <1>5 DEF CleanUp, ReleaseReq
  <2>2. op[o].at = "dropped"
    BY <2>1 DEF ClientInv, OpOK
  <2>3. id \in MayExpire \/ id = i
    BY <2>1, Performed
  <2>4. QED
    BY <2>1, <2>2, <2>3
<1>6. ~ UNCHANGED docs /\ ~ClientTick
  BY Ticked DEF ClientTick
<1> HIDE DEF Goal
<1>7. ASSUME NEW o \in Op, \/ \E render \in BOOLEAN : Start(o, render)
                           \/ Continue(o) \/ Serve(o) \/ Make(o) \/ Tidy(o)
                           \/ GiveUp(o)
                           \/ \E runtime \in BOOLEAN : Cancel(o, runtime)
                           \/ \E i \in cleanup[o] : CleanUpFails(o, i)
      PROVE  Goal
  <2>1. \/ Serve(o) \/ Make(o) \/ Tidy(o)
    BY <1>6, <1>7 DEF Start, Continue, Produced, GotChunk, Released, GiveUp, Cancel, CleanUpFails,
                      heldVars
  <2>2. CASE Serve(o)
    BY <1>2, <1>3, <1>6, <2>2 DEF Serve, AnswerProduce, RefuseProduce
  <2>3. CASE Make(o)
    BY <1>1, <2>3 DEF Make, MakeOne
  <2>4. CASE Tidy(o)
    BY <1>5, <2>4 DEF Tidy
  <2>5. QED
    BY <2>1, <2>2, <2>3, <2>4
<1>8. ASSUME NEW gone,
             \/ \E req \in stray, reply \in Replies : PerformStray(req, gone, reply)
             \/ \E i \in Id, n \in 0 .. MaxOutputBytes : MakeStray(gone, i, n)
      PROVE  Goal
  BY <1>1, <1>4, <1>8 DEF MakeStray
<1>9. ~ UNCHANGED clientVars
  BY <1>6 DEF clientVars
<1>10. Goal
  BY <1>6, <1>7, <1>8, <1>9 DEF ClientNext
<1>11. QED
  BY <1>10 DEF Goal

\* A document that an operation has still to read can only expire.
THEOREM OnlyExpiryTakesUnread == ClientSpec => LeavesByExpiry
<1> DEFINE Spared == \A o \in Op : op[o].at = "reading" =>
              Left(op[o], op[o].k) \cap DOMAIN docs \subseteq DOMAIN docs' \cup MayExpire
<1>1. ClientInv /\ [ClientNext]_clientVars => Spared
  <2>1. SUFFICES ASSUME ClientInv, [ClientNext]_clientVars,
                        NEW o \in Op, op[o].at = "reading",
                        NEW id \in Left(op[o], op[o].k) \cap DOMAIN docs, id \notin DOMAIN docs'
                 PROVE  id \in MayExpire
    OBVIOUS
  <2>2. OpOK(o) /\ Spares(o) /\ Collects(o)
    BY <2>1 DEF ClientInv, OpOK
  <2>3. id \in pending[o] \cup guard[o]
    <3> DEFINE s == op[o]
    <3>1. /\ s.handles \in Batch /\ s.k \in Nat \ {0} /\ s.k <= Len(s.handles)
          /\ pending[o] = Left(s, s.k + 1) /\ guard[o] = {s.handles[s.k].id}
          /\ id \in Left(s, s.k)
      BY <2>1, <2>2 DEF Collects, Current, Batch
    <3> HIDE DEF s
    <3>2. QED
      BY <3>1, LeftFrom
  <2>4. ASSUME NEW p \in Op, op[p].at # "reading" PROVE id \notin guard[p] \cup cleanup[p]
    BY <2>1, <2>3, <2>4 DEF ClientInv, Covered, Owned
  <2>5. \A req \in stray : req.kind = "release" => req.id # id
    BY <2>1, <2>2, <2>3 DEF Spares
  <2>6. QED
    BY <2>1, <2>4, <2>5, WhatLeaves
<1>2. QED
  BY <1>1, AlwaysAnsweredFor, PTL DEF ClientSpec, LeavesByExpiry

-----------------------------------------------------------------------------
(* The client and the store.                                               *)

\* Every step of the client is a step of the store it is composed with, or one
\* that the store does not see.
THEOREM ClientUsesHeldOutputs == ClientSpec => HeldSpec
<1>1. ClientInit => HeldInit
  BY DEF ClientInit
<1>2. [ClientNext]_clientVars => [HeldNext]_heldVars
  <2>1. SUFFICES ASSUME [ClientNext]_clientVars PROVE [HeldNext]_heldVars
    OBVIOUS
  <2>2. ASSUME NEW req, NEW gone \in SUBSET DOMAIN docs, NEW reply, Performs(req, gone, reply)
        PROVE  HeldNext
    BY <2>2 DEF Performs, HeldNext
  <2>3. ASSUME NEW gone \in SUBSET DOMAIN docs,
               \/ Refuse(gone)
               \/ \E id \in Id, n \in 0 .. MaxOutputBytes : Hold(gone, id, n)
        PROVE  HeldNext
    BY <2>3 DEF HeldNext
  <2>4. ASSUME NEW o \in Op, Serve(o) \/ Make(o) \/ Tidy(o)
        PROVE  HeldNext \/ UNCHANGED heldVars
    <3>1. CASE Serve(o)
      BY <2>2, <2>3, <3>1 DEF Serve, AnswerProduce, Perform, RefuseProduce, heldVars
    <3>2. CASE Make(o)
      BY <2>3, <3>2 DEF Make, MakeOne
    <3>3. CASE Tidy(o)
      BY <2>2, <3>3 DEF Tidy, CleanUp
    <3>4. QED
      BY <2>4, <3>1, <3>2, <3>3
  <2>5. ASSUME NEW o \in Op, \/ \E render \in BOOLEAN : Start(o, render)
                             \/ Continue(o)
                             \/ GiveUp(o)
                             \/ \E runtime \in BOOLEAN : Cancel(o, runtime)
                             \/ \E id \in cleanup[o] : CleanUpFails(o, id)
        PROVE  UNCHANGED heldVars
    BY <2>5 DEF Start, Continue, Produced, GotChunk, Released, GiveUp, Cancel, CleanUpFails, heldVars
  <2>6. ASSUME NEW gone \in SUBSET DOMAIN docs,
               \/ \E req \in stray, reply \in Replies : PerformStray(req, gone, reply)
               \/ \E id \in Id, n \in 0 .. MaxOutputBytes : MakeStray(gone, id, n)
        PROVE  HeldNext
    BY <2>2, <2>3, <2>6 DEF PerformStray, MakeStray
  <2>7. CASE ClientTick
    BY <2>7 DEF ClientTick, HeldNext
  <2>8. CASE UNCHANGED clientVars
    BY <2>8 DEF clientVars, heldVars
  <2>9. QED
    BY <2>1, <2>4, <2>5, <2>6, <2>7, <2>8 DEF ClientNext
<1>3. QED
  BY <1>1, <1>2, PTL DEF ClientSpec, HeldSpec
=============================================================================
