----------------------------- MODULE HeldOutputs -----------------------------
(***************************************************************************)
(* What the output store of the module promises to everyone who uses it,   *)
(* said without threads, locks or time samples.                            *)
(*                                                                         *)
(* A produced document is held under a fresh id until it is released or    *)
(* until it has gone unread for too long.  "Too long" has some slack: an   *)
(* operation works with a clock it sampled up to Slack ticks ago, so a     *)
(* document unread for less than IdleTtl - Slack is certainly still held,  *)
(* and one unread for more than IdleTtl + Slack is certainly gone once an  *)
(* operation has run.  What is held never exceeds the three bounds, and an *)
(* id that was let go never comes back.                                    *)
(*                                                                         *)
(* OutputStore implements this specification, and the client is composed   *)
(* with it.                                                                *)
(***************************************************************************)
EXTENDS ByteBudget

CONSTANTS
  Id,               \* the 128-bit random ids, as a set
  MaxOutputBytes,   \* largest single document
  MaxTotalBytes,    \* largest total of all held documents
  MaxLiveOutputs,   \* most documents held at once
  IdleTtl,          \* how long a document may go unread
  Slack             \* how old the clock sample of an operation may be

VARIABLES
  docs,      \* held documents: id |-> [size, unread]
  retired    \* ids that were held once and are not any more

heldVars == <<docs, retired>>

\* Unread times are told apart up to here: past it, nothing changes any more.
IdleCap == IdleTtl + Slack + 1

Doc == [size : 0 .. MaxOutputBytes, unread : 0 .. IdleCap]

Sizes(d) == [id \in DOMAIN d |-> d[id].size]

\* A document of n bytes fits beside the documents d.
Fits(d, n) ==
  /\ n <= MaxOutputBytes
  /\ Cardinality(DOMAIN d) < MaxLiveOutputs
  /\ TotalBytes(Sizes(d)) + n <= MaxTotalBytes

-----------------------------------------------------------------------------

MayExpire  == {id \in DOMAIN docs : docs[id].unread + Slack > IdleTtl}
MustExpire == {id \in DOMAIN docs : docs[id].unread > IdleTtl + Slack}

\* What an operation that expires the documents gone leaves to work with.
Keep(gone) == [id \in DOMAIN docs \ gone |-> docs[id]]

Expiry(gone) == MustExpire \subseteq gone /\ gone \subseteq MayExpire

-----------------------------------------------------------------------------

HeldInit == docs = <<>> /\ retired = {}

\* Time passes for every document.
Tick ==
  /\ docs' = [id \in DOMAIN docs |->
                [docs[id] EXCEPT !.unread = IF @ < IdleCap THEN @ + 1 ELSE @]]
  /\ UNCHANGED retired

\* A document of n bytes is held under the fresh id.
Hold(gone, id, n) ==
  /\ Expiry(gone)
  /\ id \notin DOMAIN docs \cup retired
  /\ Fits(Keep(gone), n)
  /\ \E u \in 0 .. Slack :
       docs' = [i \in DOMAIN Keep(gone) \cup {id} |->
                  IF i = id THEN [size |-> n, unread |-> u] ELSE docs[i]]
  /\ retired' = retired \cup gone

\* Reading some bytes of a held document keeps it for longer, never for less.
Read(gone, id) ==
  /\ Expiry(gone)
  /\ id \in DOMAIN docs \ gone
  /\ \E u \in 0 .. docs[id].unread :
       docs' = [Keep(gone) EXCEPT ![id].unread = u]
  /\ retired' = retired \cup gone

\* Exactly the released document goes, and what expired.
Release(gone, id) ==
  /\ Expiry(gone)
  /\ id \in DOMAIN docs \ gone
  /\ docs' = Keep(gone \cup {id})
  /\ retired' = retired \cup gone \cup {id}

\* An operation that is refused, or names an unknown id, only expires.
Refuse(gone) ==
  /\ Expiry(gone)
  /\ docs' = Keep(gone)
  /\ retired' = retired \cup gone

HeldNext ==
  \/ Tick
  \/ \E gone \in SUBSET DOMAIN docs :
       \/ \E id \in Id, n \in 0 .. MaxOutputBytes : Hold(gone, id, n)
       \/ \E id \in DOMAIN docs : Read(gone, id) \/ Release(gone, id)
       \/ Refuse(gone)

HeldSpec == HeldInit /\ [][HeldNext]_heldVars
=============================================================================
