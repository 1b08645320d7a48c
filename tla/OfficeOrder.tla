----------------------------- MODULE OfficeOrder -----------------------------
(***************************************************************************)
(* The order of slides or sheets in an Office archive:                     *)
(* src/intake/office_order.rs.                                             *)
(*                                                                         *)
(* Two XML documents are walked, element by element.  The manifest lists   *)
(* identifiers: its `item` elements right below a `container`.  The        *)
(* relationships map identifiers to targets: their `item` elements right   *)
(* below a `container`.  Then the identifiers are resolved to members of   *)
(* the archive.  What quick_xml rejects, and elements beyond the limits on *)
(* names and attributes, are one action, MalformedXml.                        *)
(***************************************************************************)
EXTENDS Integers, SequencesExt, Functions

CONSTANTS
  RelId,         \* identifiers of relationships
  Missing,       \* an attribute that is not there
  Relationship,  \* [id, relevant, external, target], where a target as it is written is
                 \* [absolute |-> BOOLEAN, steps |-> path components]
  Home,          \* the directory of the manifest
  Member,        \* paths of the members of the archive
  MaxPath,       \* components of a path
  MaxReferences, \* MAX_ENTRIES
  MaxNesting,    \* XML elements that may be open
  MaxElements    \* bound: tags of the manifest

ASSUME OrderAssumption ==
  /\ Missing \notin RelId
  /\ \A r \in Relationship :
       r.id \in RelId \cup {Missing} /\ r.relevant \in BOOLEAN /\ r.external \in BOOLEAN
  /\ MaxPath \in Nat /\ MaxReferences \in Nat /\ MaxNesting \in Nat /\ MaxElements \in Nat

VARIABLES
  orderStage, \* "manifest", "relationships", "resolving", "ordered", "invalid"
  log,        \* history: the tags of the manifest
  parents,    \* names of the elements that are open
  ids,        \* the identifiers that the manifest lists
  written,    \* history: the relationships that were accepted
  targets,    \* identifiers to paths, or to Missing for one that cannot be used
  ordered     \* the paths resolved so far

orderVars == <<orderStage, log, parents, ids, written, targets, ordered>>

\* Elements as the walk tells them apart; only those of items have attributes.
Listing == [name : {"item"}, id : RelId \cup {Missing}]
Plain == [name : {"container", "other"}, id : {Missing}]

Parent == IF parents = <<>> THEN "" ELSE Last(parents)
Invalid == orderStage' = "invalid"

-----------------------------------------------------------------------------
(* resolve_target.  A path that climbs out of the package stays outside.   *)

Outside == <<"..">>

Follow(path, step) ==
  IF path = Outside \/ step = "." THEN path
  ELSE IF step # ".." THEN Append(path, step)
  ELSE IF path = <<>> THEN Outside ELSE Front(path)

Located(target) == FoldLeft(Follow, IF target.absolute THEN <<>> ELSE <<Home>>, target.steps)

Usable(path) == path # Outside /\ path # <<>> /\ Len(path) <= MaxPath

-----------------------------------------------------------------------------

OrderInit ==
  /\ orderStage = "manifest"
  /\ log = <<>> /\ parents = <<>> /\ ids = <<>> /\ written = {}
  /\ targets = <<>> /\ ordered = <<>>

\* Bug: a self-closing element is taken for one that stays open.
EnterAlways(name, empty) == parents' = Append(parents, name)

Enter(name, empty) == parents' = IF empty THEN parents ELSE Append(parents, name)

\* An element of the manifest.
ListElement(element, empty) ==
  /\ orderStage = "manifest" /\ Len(log) < MaxElements
  /\ log' = Append(log, [tag |-> IF empty THEN "empty" ELSE "open",
                          name |-> element.name, id |-> element.id])
  /\ LET listed == element.name = "item" /\ Parent = "container" IN
     IF \/ Len(parents) >= MaxNesting
        \/ listed /\ (element.id = Missing \/ Len(ids) >= MaxReferences)
     THEN Invalid /\ UNCHANGED <<parents, ids>>
     ELSE /\ Enter(element.name, empty)
          /\ ids' = IF listed THEN Append(ids, element.id) ELSE ids
          /\ UNCHANGED orderStage
  /\ UNCHANGED <<written, targets, ordered>>

\* Another element than an item among the relationships.
PassElement(name, empty) ==
  /\ orderStage = "relationships"
  /\ IF Len(parents) >= MaxNesting THEN Invalid /\ UNCHANGED parents
     ELSE Enter(name, empty) /\ UNCHANGED orderStage
  /\ UNCHANGED <<log, ids, written, targets, ordered>>

\* An item among them.
RelateElement(r, empty) ==
  /\ orderStage = "relationships"
  /\ LET listed == Parent = "container"
         used   == r.relevant /\ ~r.external
         path   == Located(r.target)
     IN IF \/ Len(parents) >= MaxNesting
           \/ listed /\ \/ r.id = Missing
                        \/ used /\ (r.target = Missing \/ ~Usable(path))
                        \/ Cardinality(DOMAIN targets) >= MaxReferences
                        \/ r.id \in DOMAIN targets
        THEN Invalid /\ UNCHANGED <<parents, written, targets>>
        ELSE /\ Enter("item", empty)
             /\ IF listed
                THEN /\ targets' = [id \in DOMAIN targets \cup {r.id} |->
                                    IF id # r.id THEN targets[id] ELSE IF used THEN path ELSE Missing]
                     /\ written' = written \cup {r}
                ELSE UNCHANGED <<written, targets>>
             /\ UNCHANGED orderStage
  /\ UNCHANGED <<log, ids, ordered>>

\* The end of an element, which quick_xml has matched with its start.
EndElement ==
  /\ orderStage \in {"manifest", "relationships"} /\ parents # <<>>
  /\ orderStage = "manifest" => Len(log) < MaxElements
  /\ log' = IF orderStage = "manifest"
            THEN Append(log, [tag |-> "close", name |-> Parent, id |-> Missing]) ELSE log
  /\ parents' = Front(parents)
  /\ UNCHANGED <<orderStage, ids, written, targets, ordered>>

EndOfFile ==
  /\ orderStage \in {"manifest", "relationships"}
  /\ IF parents # <<>> THEN Invalid
     ELSE orderStage' = IF orderStage = "manifest" THEN "relationships" ELSE "resolving"
  /\ log' = <<>>
  /\ UNCHANGED <<parents, ids, written, targets, ordered>>

MalformedXml ==
  /\ orderStage \in {"manifest", "relationships"}
  /\ Invalid
  /\ UNCHANGED <<log, parents, ids, written, targets, ordered>>

\* The identifier that is resolved next, and where it leads.
Following == Len(ordered) + 1
Leads(id) == IF id \in DOMAIN targets THEN targets[id] ELSE Missing

\* Bug: what must not be repeated is the identifier, not the part.
RepeatedId == \E i \in 1 .. Len(ordered) : ids[i] = ids[Following]

Repeated == Contains(ordered, Leads(ids[Following]))

Resolve ==
  /\ orderStage = "resolving" /\ Len(ordered) < Len(ids)
  /\ IF Leads(ids[Following]) = Missing \/ Leads(ids[Following]) \notin Member \/ Repeated
     THEN Invalid /\ UNCHANGED ordered
     ELSE ordered' = Append(ordered, Leads(ids[Following])) /\ UNCHANGED orderStage
  /\ UNCHANGED <<log, parents, ids, written, targets>>

\* A document without slides or sheets is refused by office_parts.
Ordered ==
  /\ orderStage = "resolving" /\ Len(ordered) = Len(ids)
  /\ orderStage' = IF ordered = <<>> THEN "invalid" ELSE "ordered"
  /\ UNCHANGED <<log, parents, ids, written, targets, ordered>>

OrderNext ==
  \/ \E empty \in BOOLEAN : \/ \E element \in Listing \cup Plain : ListElement(element, empty)
                            \/ \E name \in {"container", "other"} : PassElement(name, empty)
                            \/ \E r \in Relationship : RelateElement(r, empty)
  \/ EndElement \/ EndOfFile \/ MalformedXml \/ Resolve \/ Ordered

OrderSpec == OrderInit /\ [][OrderNext]_orderVars

-----------------------------------------------------------------------------
(* Properties.                                                             *)

Tags(tag, i, j) == Cardinality({k \in i .. j : log[k].tag = tag})

\* The element around the i-th tag: the last one opened before it in between
\* which and the tag as many elements end as begin; 0 at the top.
Around(i) ==
  LET open == {j \in 1 .. i - 1 :
                 log[j].tag = "open" /\ Tags("open", j + 1, i - 1) = Tags("close", j + 1, i - 1)}
  IN IF open = {} THEN 0 ELSE CHOOSE j \in open : \A k \in open : k <= j

Listed(i) ==
  /\ log[i].tag # "close" /\ log[i].name = "item"
  /\ Around(i) # 0 /\ log[Around(i)].name = "container"

\* The identifiers are those of the elements right below a container, in the
\* order of the manifest, however deep and in whatever company they stand.
ListedInOrder ==
  orderStage = "manifest" =>
    ids = FlattenSeq([i \in 1 .. Len(log) |-> IF Listed(i) THEN <<log[i].id>> ELSE <<>>])

\* Every reference of the manifest becomes a section, in its order: the member
\* that its only relationship names, which is not external; and no member twice,
\* under whatever spellings and identifiers it was named.
OrderedFaithfully ==
  orderStage = "ordered" =>
    /\ Len(ordered) = Len(ids) /\ IsInjective(ordered)
    /\ \A i \in 1 .. Len(ids) :
         /\ ordered[i] \in Member
         /\ \E r \in written :
              /\ r.id = ids[i] /\ r.relevant /\ ~r.external /\ Located(r.target) = ordered[i]
              /\ \A s \in written : s.id = r.id => s = r
=============================================================================
