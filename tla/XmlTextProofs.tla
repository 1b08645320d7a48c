--------------------------- MODULE XmlTextProofs -----------------------------
(***************************************************************************)
(* Proofs about XmlText, for every schema that SchemaAssumption allows and *)
(* every value of the limits: while a document is read, its text is what   *)
(* its elements say.                                                       *)
(***************************************************************************)
EXTENDS XmlText, SequenceLemmas

Element == [name : DOMAIN Children, shared : BOOLEAN, text : Seq(Char)]

\* The same elements, whatever they have said.
Alike(p, q) ==
  /\ Len(p) = Len(q)
  /\ \A i \in 1 .. Len(p) : p[i].name = q[i].name /\ p[i].shared = q[i].shared

\* Elements that are open stand in one another as the schema allows.
Nested(path, kind) ==
  /\ path \in Seq(Element)
  /\ path # <<>> => path[1].name \in Children[kind]
  /\ \A i \in 2 .. Len(path) : path[i].name \in Children[path[i - 1].name]
  /\ \A j \in 1 .. Len(path) : \A i \in 1 .. j - 1 : path[j].name \in Inside[path[i].name]

\* `depth` is that of the outermost rPh.
Muted(path, depth) ==
  /\ depth \in 0 .. Len(path)
  /\ depth > 0 => path[depth].name = "rPh"
  /\ \A i \in 1 .. Len(path) : path[i].name = "rPh" => depth \in 1 .. i

\* Only cells refer to shared strings, and `refers` says of the one that is open
\* whether it does.
Celled(path, refers) ==
  \A i \in 1 .. Len(path) :
    /\ path[i].shared => path[i].name = "c"
    /\ path[i].name = "c" => path[i].shared = refers

\* What the innermost element itself has said, and what all have.
Own(path) == IF Refers(path) THEN <<>> ELSE Last(path).text
Sayings(path) == [i \in 1 .. Len(path) |-> IF Refers(SubSeq(path, 1, i)) THEN <<>> ELSE path[i].text]
Said(path) == FlattenSeq(Sayings(path))

-----------------------------------------------------------------------------

\* What the tags of a part stand for is text.
LEMMA BreaksTyped ==
  ASSUME NEW name
  PROVE  Breaks(name) \in Seq(Char) /\ <<Newline>> \in Seq(Char) /\ <<>> \in Seq(Char)
<1>1. Newline \in Char /\ Tab \in Char
  BY XmlAssumption
<1>2. <<Newline>> \in Seq(Char) /\ <<Tab>> \in Seq(Char) /\ <<>> \in Seq(Char)
  BY <1>1
<1>3. Breaks(name) \in {<<Newline>>, <<Tab>>, <<>>}
  BY DEF Breaks
<1>4. QED
  BY <1>2, <1>3

\* What stands in an element, and what stands in that, is inside the element.
LEMMA InsideIsClosed ==
  ASSUME NEW e \in DOMAIN Children
  PROVE  /\ Inside[e] \subseteq DOMAIN Children
         /\ Children[e] \subseteq Inside[e]
         /\ \A d \in Inside[e] : Children[d] \subseteq Inside[e]
<1>1. Children[e] \subseteq DOMAIN Children /\ \A d \in DOMAIN Children : Children[d] \subseteq DOMAIN Children
  BY XmlAssumption
<1>2. Inside[e] = {n \in DOMAIN Children : \A X \in SUBSET DOMAIN Children :
        Children[e] \subseteq X /\ (\A d \in X : Children[d] \subseteq X) => n \in X}
  BY DEF Inside
<1>3. Children[e] \subseteq Inside[e]
  BY <1>1, <1>2
<1>4. ASSUME NEW d \in Inside[e], NEW n \in Children[d] PROVE n \in Inside[e]
  <2>1. n \in DOMAIN Children
    BY <1>1, <1>2
  <2>2. ASSUME NEW X \in SUBSET DOMAIN Children,
               Children[e] \subseteq X, \A x \in X : Children[x] \subseteq X
        PROVE  n \in X
    BY <1>2, <2>2
  <2>3. QED
    BY <1>2, <2>1, <2>2
<1>5. QED
  BY <1>2, <1>3, <1>4

\* An element of a sequence, by its fields.
LEMMA ElementTyped ==
  ASSUME NEW path \in Seq(Element), NEW i \in 1 .. Len(path)
  PROVE  /\ path[i] \in Element /\ path[i].name \in DOMAIN Children
         /\ path[i].shared \in BOOLEAN /\ path[i].text \in Seq(Char)
<1>1. path[i] \in Element
  OBVIOUS
<1>2. QED
  BY <1>1 DEF Element

\* One more element that may stand where it does.
LEMMA NestedGrows ==
  ASSUME NEW kind \in DOMAIN Children, NEW path, Nested(path, kind), NEW e \in Element,
         e.name \in Children[IF path = <<>> THEN kind ELSE Last(path).name]
  PROVE  Nested(Append(path, e), kind)
<1> DEFINE q == Append(path, e)
           n == Len(path)
<1>1. /\ path \in Seq(Element) /\ n \in Nat /\ q \in Seq(Element) /\ Len(q) = n + 1 /\ q[n + 1] = e
      /\ \A i \in 1 .. n : q[i] = path[i]
      /\ path = <<>> <=> n = 0
  BY DEF Nested
<1>2. path # <<>> => Last(path) = path[n]
  BY DEF Last
<1> HIDE DEF q, n
<1>3. q[1].name \in Children[kind]
  BY <1>1 DEF Nested, n
<1>4. ASSUME NEW i \in 2 .. n + 1 PROVE q[i].name \in Children[q[i - 1].name]
  <2>1. CASE i = n + 1
    <3>1. n # 0 /\ n \in 1 .. n /\ i - 1 = n
      BY <1>1, <1>4, <2>1
    <3>2. QED
      BY <1>1, <1>2, <2>1, <3>1
  <2>2. CASE i # n + 1
    <3>1. i \in 2 .. n /\ i \in 1 .. n /\ i - 1 \in 1 .. n
      BY <1>1, <1>4, <2>2
    <3>2. QED
      BY <1>1, <3>1 DEF Nested, n
  <2>3. QED
    BY <2>1, <2>2
<1>5. ASSUME NEW j \in 1 .. n + 1, NEW i \in 1 .. j - 1 PROVE q[j].name \in Inside[q[i].name]
  <2>1. i \in 1 .. n /\ q[i] = path[i] /\ path[i].name \in DOMAIN Children
    BY <1>1, ElementTyped DEF n
  <2>2. CASE j = n + 1
    <3>1. n # 0 /\ n \in 1 .. n /\ e.name \in Children[path[n].name]
      BY <1>1, <1>2, <2>1
    <3>2. CASE i = n
      BY <1>1, <2>1, <2>2, <3>1, <3>2, InsideIsClosed
    <3>3. CASE i # n
      <4>1. i \in 1 .. n - 1
        BY <1>1, <2>1, <3>3
      <4>2. path[n].name \in Inside[path[i].name]
        BY <3>1, <4>1 DEF Nested, n
      <4>3. QED
        BY <1>1, <2>1, <2>2, <3>1, <4>2, InsideIsClosed
    <3>4. QED
      BY <3>2, <3>3
  <2>3. CASE j # n + 1
    <3>1. j \in 1 .. n
      BY <1>1, <2>3
    <3>2. QED
      BY <1>1, <2>1, <3>1 DEF Nested, n
  <2>4. QED
    BY <2>2, <2>3
<1>6. QED
  BY <1>1, <1>3, <1>4, <1>5 DEF Nested, q

\* What is known of the elements depends neither on their texts nor on those
\* that are inside.
LEMMA ShapeOfBeginning ==
  ASSUME NEW kind, NEW path, Nested(path, kind), NEW q \in Seq(Element), Len(q) <= Len(path),
         \A i \in 1 .. Len(q) : q[i].name = path[i].name /\ q[i].shared = path[i].shared
  PROVE  /\ Nested(q, kind)
         /\ \A refers : Celled(path, refers) => Celled(q, refers)
         /\ \A depth \in 0 .. Len(q) : Muted(path, depth) => Muted(q, depth)
<1>1. /\ path \in Seq(Element) /\ Len(path) \in Nat /\ Len(q) \in Nat
      /\ \A i \in 1 .. Len(q) : i \in 1 .. Len(path)
  BY DEF Nested
<1>2. Nested(q, kind)
  <2>1. q # <<>> => q[1].name \in Children[kind]
    <3>1. q # <<>> => path # <<>> /\ 1 \in 1 .. Len(q)
      BY <1>1
    <3>2. QED
      BY <3>1 DEF Nested
  <2>2. ASSUME NEW i \in 2 .. Len(q) PROVE q[i].name \in Children[q[i - 1].name]
    <3>1. i \in 2 .. Len(path) /\ i \in 1 .. Len(q) /\ i - 1 \in 1 .. Len(q)
      BY <1>1
    <3>2. QED
      BY <3>1 DEF Nested
  <2>3. ASSUME NEW j \in 1 .. Len(q), NEW i \in 1 .. j - 1 PROVE q[j].name \in Inside[q[i].name]
    <3>1. j \in 1 .. Len(path) /\ i \in 1 .. Len(q)
      BY <1>1
    <3>2. QED
      BY <3>1 DEF Nested
  <2>4. QED
    BY <2>1, <2>2, <2>3 DEF Nested
<1>3. \A refers : Celled(path, refers) => Celled(q, refers)
  BY <1>1 DEF Celled
<1>4. ASSUME NEW depth \in 0 .. Len(q), Muted(path, depth) PROVE Muted(q, depth)
  <2>1. depth > 0 => q[depth].name = "rPh"
    BY <1>1, <1>4 DEF Muted
  <2>2. \A i \in 1 .. Len(q) : q[i].name = "rPh" => depth \in 1 .. i
    BY <1>1, <1>4 DEF Muted
  <2>3. QED
    BY <2>1, <2>2 DEF Muted
<1>5. QED
  BY <1>2, <1>3, <1>4

\* Nothing stands in t and v; a value stands in a cell, and not in a pronunciation.
LEMMA LeavesAreLast ==
  ASSUME NEW kind \in {"strings", "section"}, NEW path, Nested(path, kind), path # <<>>
  PROVE  /\ Last(path) \in Element /\ Last(path).name \in DOMAIN Children
         /\ Front(path) # <<>> => Last(Front(path)).name \notin {"t", "v"}
         /\ Last(path).name = "v" => ~Pronounced(path)
         /\ Last(path).name = "v" => Front(path) # <<>> /\ Last(Front(path)).name = "c"
<1> DEFINE n == Len(path)
<1>1. path \in Seq(Element) /\ kind \in DOMAIN Children
  BY XmlAssumption DEF Nested
<1>2. /\ Front(path) \in Seq(Element) /\ Last(path) \in Element /\ n \in Nat \ {0}
      /\ Len(Front(path)) = n - 1 /\ Last(path) = path[n]
      /\ \A i \in 1 .. n - 1 : Front(path)[i] = path[i]
  BY <1>1, FrontAndLast
<1>3. \A i \in 1 .. n : path[i].name \in DOMAIN Children
  BY <1>1, ElementTyped
<1>4. /\ Front(path) # <<>> <=> n > 1
      /\ n > 1 => Last(Front(path)) = path[n - 1]
  <2>1. Front(path) # <<>> <=> Len(Front(path)) # 0
    BY <1>2
  <2>2. n > 1 => n - 1 \in 1 .. n - 1
    BY <1>2
  <2>3. Last(Front(path)) = Front(path)[n - 1]
    BY <1>2 DEF Last
  <2>4. QED
    BY <1>2, <2>1, <2>2, <2>3
<1> HIDE DEF n
<1>5. n > 1 => path[n].name \in Children[path[n - 1].name] /\ path[n - 1].name \in DOMAIN Children
  <2>1. n > 1 => n \in 2 .. n /\ n - 1 \in 1 .. n
    BY <1>2
  <2>2. QED
    BY <1>3, <2>1 DEF Nested, n
<1>6. n > 1 => path[n - 1].name \notin {"t", "v"}
  BY <1>5, SchemaAssumption
<1>7. ASSUME Last(path).name = "v" PROVE n > 1 /\ path[n - 1].name = "c"
  <2>1. CASE n > 1
    BY <1>2, <1>5, <1>7, <2>1, SchemaAssumption
  <2>2. CASE ~ n > 1
    <3>1. n = 1
      BY <1>2, <2>2
    <3>2. "v" \in Children[kind]
      BY <1>2, <1>7, <3>1 DEF Nested
    <3>3. QED
      BY <1>1, <3>2, SchemaAssumption
  <2>3. QED
    BY <2>1, <2>2
<1>8. ASSUME Last(path).name = "v", Pronounced(path) PROVE FALSE
  <2>1. PICK i \in 1 .. n : path[i].name = "rPh"
    BY <1>8 DEF Pronounced, n
  <2>2. n \in 1 .. n /\ i \in 1 .. n - 1
    <3>1. i # n
      BY <1>2, <1>8, <2>1
    <3>2. QED
      BY <1>2, <3>1
  <2>3. "v" \in Inside["rPh"] /\ "rPh" \in DOMAIN Children
    BY <1>2, <1>3, <1>8, <2>1, <2>2 DEF Nested, n
  <2>4. QED
    BY <2>3, SchemaAssumption
<1>9. QED
  BY <1>2, <1>3, <1>4, <1>6, <1>7, <1>8

\* A value refers to a shared string if the cell does that is open; nothing else
\* refers.
LEMMA CellRefers ==
  ASSUME NEW kind \in {"strings", "section"}, NEW path, Nested(path, kind), path # <<>>,
         NEW refers \in BOOLEAN, Celled(path, refers)
  PROVE  Refers(path) <=> Last(path).name = "v" /\ refers
<1> DEFINE n == Len(path)
<1>1. path \in Seq(Element) /\ kind \in DOMAIN Children /\ n \in Nat
  BY XmlAssumption DEF Nested
<1>2. ASSUME Refers(path) PROVE Last(path).name = "v" /\ refers
  BY <1>1, <1>2, ElementTyped DEF Refers, Celled
<1>3. ASSUME Last(path).name = "v", refers PROVE Refers(path)
  <2>1. Front(path) # <<>> /\ Last(Front(path)).name = "c"
    BY <1>3, LeavesAreLast
  <2>2. /\ Len(Front(path)) = n - 1 /\ \A i \in 1 .. n - 1 : Front(path)[i] = path[i]
        /\ Front(path) \in Seq(Element)
    BY <1>1, FrontAndLast
  <2>3. n - 1 \in 1 .. n /\ path[n - 1].name = "c"
    <3>1. n - 1 # 0
      BY <2>1, <2>2
    <3>2. n - 1 \in 1 .. n - 1 /\ n - 1 \in 1 .. n
      BY <1>1, <2>2, <3>1
    <3>3. QED
      BY <2>1, <2>2, <3>2 DEF Last
  <2>4. path[n - 1].shared
    BY <1>3, <2>3 DEF Celled
  <2>5. QED
    BY <1>3, <2>3, <2>4 DEF Refers
<1>4. QED
  BY <1>2, <1>3

\* Whether a pronunciation is open is told by the depth of the outermost.
LEMMA MutedTells ==
  ASSUME NEW path \in Seq(Element), NEW depth, Muted(path, depth)
  PROVE  Pronounced(path) <=> depth # 0
<1>1. depth \in Nat /\ Len(path) \in Nat
  BY DEF Muted
<1>2. depth # 0 => depth \in 1 .. Len(path) /\ path[depth].name = "rPh"
  BY <1>1 DEF Muted
<1>3. \A i \in 1 .. Len(path) : path[i].name = "rPh" => depth # 0
  BY <1>1 DEF Muted
<1>4. QED
  BY <1>2, <1>3 DEF Pronounced

\* What all elements have said is what those around the innermost have, and
\* then what it has.
LEMMA SaidSplits ==
  ASSUME NEW path \in Seq(Element), path # <<>>
  PROVE  /\ Said(path) \in Seq(Char) /\ Said(Front(path)) \in Seq(Char)
         /\ Own(path) \in Seq(Char)
         /\ Said(path) = Said(Front(path)) \o Own(path)
         /\ Said(<<>>) = <<>>
<1> DEFINE n == Len(path)
           front == Front(path)
<1>1. /\ front \in Seq(Element) /\ Last(path) \in Element /\ n \in Nat \ {0}
      /\ Len(front) = n - 1 /\ Last(path) = path[n]
      /\ \A i \in 1 .. n - 1 : front[i] = path[i]
  BY FrontAndLast
<1>2. ASSUME NEW p \in Seq(Element) PROVE Sayings(p) \in Seq(Seq(Char)) /\ Len(Sayings(p)) = Len(p)
  <2> DEFINE piece(i) == IF Refers(SubSeq(p, 1, i)) THEN <<>> ELSE p[i].text
  <2>1. Sayings(p) = [i \in 1 .. Len(p) |-> piece(i)] /\ Len(p) \in Nat
    BY DEF Sayings
  <2>2. ASSUME NEW i \in 1 .. Len(p) PROVE piece(i) \in Seq(Char)
    <3>1. p[i].text \in Seq(Char) /\ <<>> \in Seq(Char)
      BY ElementTyped
    <3>2. QED
      BY <3>1
  <2> HIDE DEF piece
  <2>3. QED
    BY <2>1, <2>2
<1>3. Own(path) \in Seq(Char)
  <2>1. Last(path).text \in Seq(Char) /\ <<>> \in Seq(Char)
    BY <1>1 DEF Element
  <2>2. QED
    BY <2>1 DEF Own
<1>4. Sayings(path)[n] = Own(path)
  <2>1. SubSeq(path, 1, n) = path
    <3>1. SubSeq(path, 1, n) \in Seq(Element) /\ Len(SubSeq(path, 1, n)) = n
          /\ \A i \in 1 .. n : SubSeq(path, 1, n)[i] = path[i]
      BY <1>1
    <3>2. QED
      BY <1>1, <3>1, SameSequence
  <2>2. n \in 1 .. n
    BY <1>1
  <2>3. QED
    BY <1>1, <2>1, <2>2 DEF Sayings, Own
<1>5. \A i \in 1 .. n - 1 : Sayings(path)[i] = Sayings(front)[i]
  <2>1. ASSUME NEW i \in 1 .. n - 1 PROVE Sayings(path)[i] = Sayings(front)[i]
    <3>1. SubSeq(path, 1, i) = SubSeq(front, 1, i)
      <4>1. /\ SubSeq(path, 1, i) \in Seq(Element) /\ Len(SubSeq(path, 1, i)) = i
            /\ SubSeq(front, 1, i) \in Seq(Element) /\ Len(SubSeq(front, 1, i)) = i
        BY <1>1
      <4>2. \A k \in 1 .. i : SubSeq(path, 1, i)[k] = path[k] /\ SubSeq(front, 1, i)[k] = front[k]
        BY <1>1
      <4>3. \A k \in 1 .. i : SubSeq(path, 1, i)[k] = SubSeq(front, 1, i)[k]
        BY <1>1, <4>2
      <4>4. QED
        BY <4>1, <4>3, SameSequence
    <3>2. path[i] = front[i] /\ i \in 1 .. Len(path) /\ i \in 1 .. Len(front)
      BY <1>1
    <3>3. QED
      BY <3>1, <3>2 DEF Sayings
  <2>2. QED
    BY <2>1
<1>6. Sayings(path) = Append(Sayings(front), Own(path))
  <2> DEFINE r == Append(Sayings(front), Own(path))
  <2>1. /\ Sayings(front) \in Seq(Seq(Char)) /\ Len(Sayings(front)) = n - 1
        /\ Sayings(path) \in Seq(Seq(Char)) /\ Len(Sayings(path)) = n
    BY <1>1, <1>2
  <2>2. r \in Seq(Seq(Char)) /\ Len(r) = n /\ r[n] = Own(path)
        /\ \A i \in 1 .. n - 1 : r[i] = Sayings(front)[i]
    BY <1>1, <1>3, <2>1
  <2>3. \A i \in 1 .. n : Sayings(path)[i] = r[i]
    <3>1. \A i \in 1 .. n : i = n \/ i \in 1 .. n - 1
      BY <1>1
    <3>2. QED
      BY <1>4, <1>5, <2>2, <3>1
  <2> HIDE DEF r
  <2>4. QED
    BY <2>1, <2>2, <2>3, SameSequence DEF r
<1>7. Sayings(front) \in Seq(Seq(Char)) /\ Sayings(path) \in Seq(Seq(Char))
  BY <1>1, <1>2
<1> HIDE DEF front
<1>8. /\ FlattenSeq(Sayings(front)) \in Seq(Char) /\ FlattenSeq(Sayings(path)) \in Seq(Char)
      /\ FlattenSeq(Sayings(path)) = FlattenSeq(Sayings(front)) \o Own(path)
  BY <1>3, <1>6, <1>7, FlattenTyped, FlattenGrows
<1>9. Said(<<>>) = <<>>
  <2>1. Sayings(<<>>) = <<>>
    BY DEF Sayings
  <2>2. QED
    BY <1>3, <1>7, <2>1, FlattenGrows DEF Said
<1>10. QED
  BY <1>3, <1>8, <1>9 DEF Said, front

\* An element that is new has said what it begins with.
LEMMA SaidOfNew ==
  ASSUME NEW path \in Seq(Element), NEW e \in Element
  PROVE  Said(Append(path, e)) = Said(path) \o Own(Append(path, e))
<1>1. /\ Append(path, e) \in Seq(Element) /\ Append(path, e) # <<>>
      /\ Front(Append(path, e)) = path
  BY FrontOfAppend
<1>2. Said(Append(path, e)) = Said(Front(Append(path, e))) \o Own(Append(path, e))
  BY <1>1, SaidSplits
<1>3. QED
  BY <1>1, <1>2

\* What a document or its innermost element is told is said by it, and nothing
\* else changes; an index that is read is not what is said.
LEMMA HearsInnermost ==
  ASSUME NEW path \in Seq(Element), path # <<>>, NEW text \in Seq(Char), Hears(path, text)
  PROVE  /\ open' \in Seq(Element) /\ Alike(open', path) /\ done' = done
         /\ Last(open').text = Last(path).text \o text
         /\ Said(open') = Said(path) \o (IF Refers(path) THEN <<>> ELSE text)
<1> DEFINE n == Len(path)
           q == [path EXCEPT ![n].text = @ \o text]
           e == [path[n] EXCEPT !.text = @ \o text]
<1>1. open' = q /\ done' = done
  BY DEF Hears
<1>2. /\ n \in Nat \ {0} /\ n \in 1 .. n /\ path[n] \in Element /\ path[n].text \in Seq(Char)
      /\ Last(path) = path[n]
  <2>1. n \in Nat \ {0} /\ Last(path) = path[n]
    BY FrontAndLast
  <2>2. n \in 1 .. n
    BY <2>1
  <2>3. QED
    BY <2>1, <2>2, ElementTyped
<1>3. path[n].text \o text \in Seq(Char)
  BY <1>2
<1>4. /\ e \in Element /\ e.name = path[n].name /\ e.shared = path[n].shared
      /\ e.text = path[n].text \o text
  BY <1>2, <1>3 DEF Element
<1>5. q = [path EXCEPT ![n] = e]
  OBVIOUS
<1> HIDE DEF e
<1>6. /\ q \in Seq(Element) /\ Len(q) = n /\ q[n] = e
      /\ \A i \in 1 .. n : i # n => q[i] = path[i]
  <2> DEFINE r == [i \in 1 .. n |-> IF i = n THEN e ELSE path[i]]
  <2>1. path = [i \in 1 .. n |-> path[i]]
    OBVIOUS
  <2>2. q = r
    BY <1>2, <1>5, <2>1
  <2>3. \A i \in 1 .. n : r[i] \in Element
    BY <1>4
  <2>4. r \in Seq(Element) /\ Len(r) = n
    BY <1>2, <2>3
  <2>5. r[n] = e /\ \A i \in 1 .. n : i # n => r[i] = path[i]
    BY <1>2
  <2> HIDE DEF r, q
  <2>6. QED
    BY <2>2, <2>4, <2>5
<1> HIDE DEF q, n
<1>7. \A i \in 1 .. n : q[i].name = path[i].name /\ q[i].shared = path[i].shared
  <2>1. ASSUME NEW i \in 1 .. n PROVE q[i].name = path[i].name /\ q[i].shared = path[i].shared
    <3>1. CASE i = n
      BY <1>4, <1>6, <3>1
    <3>2. CASE i # n
      BY <1>6, <3>2
    <3>3. QED
      BY <3>1, <3>2
  <2>2. QED
    BY <2>1
<1>8. Alike(q, path)
  BY <1>6, <1>7 DEF Alike, n
<1>9. q # <<>> /\ Last(q) = e
  BY <1>2, <1>6 DEF Last
<1>10. Front(q) = Front(path)
  <2>1. /\ Front(q) \in Seq(Element) /\ Len(Front(q)) = n - 1
        /\ \A i \in 1 .. n - 1 : Front(q)[i] = q[i]
    BY <1>6, <1>9, FrontAndLast
  <2>2. /\ Front(path) \in Seq(Element) /\ Len(Front(path)) = n - 1
        /\ \A i \in 1 .. n - 1 : Front(path)[i] = path[i]
    BY FrontAndLast DEF n
  <2>3. \A i \in 1 .. n - 1 : q[i] = path[i]
    <3>1. \A i \in 1 .. n - 1 : i \in 1 .. n /\ i # n
      BY <1>2
    <3>2. QED
      BY <1>6, <3>1
  <2>4. \A i \in 1 .. Len(Front(q)) : Front(q)[i] = Front(path)[i]
    BY <2>1, <2>2, <2>3
  <2>5. QED
    BY <2>1, <2>2, <2>4, SameSequence
<1>11. Refers(q) <=> Refers(path)
  BY <1>2, <1>4, <1>6, <1>7, <1>9 DEF Refers, n
<1>12. /\ Said(q) = Said(Front(path)) \o Own(q) /\ Said(path) = Said(Front(path)) \o Own(path)
       /\ Said(Front(path)) \in Seq(Char) /\ Own(path) \in Seq(Char)
  BY <1>6, <1>9, <1>10, SaidSplits
<1>13. Own(q) = Own(path) \o (IF Refers(path) THEN <<>> ELSE text)
  <2>1. CASE Refers(path)
    BY <1>11, <2>1 DEF Own
  <2>2. CASE ~Refers(path)
    BY <1>2, <1>4, <1>9, <1>11, <2>2 DEF Own
  <2>3. QED
    BY <2>1, <2>2
<1>14. Said(q) = Said(path) \o (IF Refers(path) THEN <<>> ELSE text)
  <2> DEFINE more == IF Refers(path) THEN <<>> ELSE text
  <2>1. more \in Seq(Char)
    OBVIOUS
  <2> HIDE DEF more
  <2>2. Said(Front(path)) \o (Own(path) \o more) = (Said(Front(path)) \o Own(path)) \o more
    BY <1>12, <2>1
  <2>3. Own(q) = Own(path) \o more
    BY <1>13 DEF more
  <2>4. QED
    BY <1>12, <2>2, <2>3 DEF more
<1>15. QED
  BY <1>1, <1>2, <1>4, <1>6, <1>8, <1>9, <1>14

\* In a part, what is told is said after all that was said before.
LEMMA HearsAll ==
  ASSUME NEW path \in Seq(Element), done \in Seq(Seq(Char)), NEW text \in Seq(Char),
         sink.open, Hears(path, text), path # <<>> /\ Refers(path) => text = <<>>
  PROVE  /\ open' \in Seq(Element) /\ Alike(open', path) /\ done' \in Seq(Seq(Char))
         /\ FlattenSeq(done') \o Said(open') = (FlattenSeq(done) \o Said(path)) \o text
<1>1. FlattenSeq(done) \in Seq(Char) /\ <<>> \in Seq(Char)
  BY FlattenTyped
<1>2. CASE path = <<>>
  <2>1. open' = <<>> /\ done' = <<FlattenSeq(Append(done, text))>>
    BY <1>2 DEF Hears
  <2>2. FlattenSeq(Append(done, text)) = FlattenSeq(done) \o text
    BY FlattenGrows
  <2>3. FlattenSeq(done) \o text \in Seq(Char)
    BY <1>1
  <2>4. FlattenSeq(<<FlattenSeq(done) \o text>>) = FlattenSeq(done) \o text
    BY <2>3, FlattenGrows
  <2>5. Said(<<>>) = <<>>
    <3>1. Sayings(<<>>) = <<>>
      BY DEF Sayings
    <3>2. QED
      BY <3>1, FlattenGrows DEF Said
  <2>6. done' \in Seq(Seq(Char)) /\ open' \in Seq(Element) /\ Alike(open', path)
    BY <1>2, <2>1, <2>2, <2>3 DEF Alike
  <2>7. (FlattenSeq(done) \o text) \o <<>> = (FlattenSeq(done) \o <<>>) \o text
    BY <1>1
  <2>8. QED
    BY <1>2, <2>1, <2>2, <2>4, <2>5, <2>6, <2>7
<1>3. CASE path # <<>>
  <2>1. /\ open' \in Seq(Element) /\ Alike(open', path) /\ done' = done
        /\ Said(open') = Said(path) \o (IF Refers(path) THEN <<>> ELSE text)
    BY <1>3, HearsInnermost
  <2>2. Said(open') = Said(path) \o text
    BY <1>3, <2>1
  <2>3. Said(path) \in Seq(Char)
    BY <1>3, SaidSplits
  <2>4. FlattenSeq(done) \o (Said(path) \o text) = (FlattenSeq(done) \o Said(path)) \o text
    BY <1>1, <2>3, ConcatAssociates
  <2>5. QED
    BY <2>1, <2>2, <2>4
<1>4. QED
  BY <1>2, <1>3

\* What the innermost element has said, and what its end adds, is what it stands for.
LEMMA ContentIsSaid ==
  ASSUME NEW path \in Seq(Element), path # <<>>, NEW strings \in Seq(Seq(Char)),
         Refers(path) => Parsed(Last(path).text) + 1 \in DOMAIN strings
  PROVE  LET more == IF Refers(path) THEN strings[Parsed(Last(path).text) + 1]
                     ELSE IF Last(path).name \in {"p", "c"} THEN <<Newline>> ELSE <<>>
         IN  more \in Seq(Char) /\ Content(path, strings) = Own(path) \o more
<1>1. /\ Last(path).text \in Seq(Char)
      /\ Refers(path) => Last(path).name \notin {"p", "c"}
  <2>1. Last(path) \in Element
    BY FrontAndLast
  <2>2. QED
    BY <2>1 DEF Element, Refers
<1>2. Newline \in Char /\ <<Newline>> \in Seq(Char) /\ <<>> \in Seq(Char)
  BY XmlAssumption
<1>3. CASE Refers(path)
  <2>1. strings[Parsed(Last(path).text) + 1] \in Seq(Char)
    BY <1>3
  <2>2. Content(path, strings) = strings[Parsed(Last(path).text) + 1] /\ Own(path) = <<>>
    BY <1>1, <1>3 DEF Content, Own
  <2>3. QED
    BY <1>3, <2>1, <2>2
<1>4. CASE ~Refers(path) /\ Last(path).name \in {"p", "c"}
  <2>1. Content(path, strings) = Append(Last(path).text, Newline) /\ Own(path) = Last(path).text
    BY <1>4 DEF Content, Own
  <2>2. Append(Last(path).text, Newline) = Last(path).text \o <<Newline>>
    BY <1>1, <1>2, AppendIsConcat
  <2>3. QED
    BY <1>2, <1>4, <2>1, <2>2
<1>5. CASE ~Refers(path) /\ Last(path).name \notin {"p", "c"}
  <2>1. Content(path, strings) = Last(path).text /\ Own(path) = Last(path).text
    BY <1>5 DEF Content, Own
  <2>2. QED
    BY <1>1, <1>2, <1>5, <2>1
<1>6. QED
  BY <1>3, <1>4, <1>5

\* The depth of the outermost rPh is kept when an element starts, and when one ends.
LEMMA MutedGrows ==
  ASSUME NEW path \in Seq(Element), NEW e \in Element, NEW depth, Muted(path, depth)
  PROVE  Muted(Append(path, e), IF e.name = "rPh" /\ depth = 0 THEN Len(path) + 1 ELSE depth)
<1> DEFINE q == Append(path, e)
           n == Len(path)
           deeper == IF e.name = "rPh" /\ depth = 0 THEN n + 1 ELSE depth
<1>1. /\ n \in Nat /\ Len(q) = n + 1 /\ q[n + 1] = e /\ \A i \in 1 .. n : q[i] = path[i]
      /\ depth \in 0 .. n
  BY DEF Muted
<1> HIDE DEF q
<1>2. /\ depth > 0 => path[depth].name = "rPh"
      /\ \A i \in 1 .. n : path[i].name = "rPh" => depth \in 1 .. i
  BY DEF Muted
<1>3. deeper \in 0 .. n + 1 /\ (deeper > 0 => q[deeper].name = "rPh")
  BY <1>1, <1>2
<1>4. ASSUME NEW i \in 1 .. n + 1, q[i].name = "rPh" PROVE deeper \in 1 .. i
  <2>1. CASE i = n + 1
    BY <1>1, <1>4, <2>1
  <2>2. CASE i # n + 1
    BY <1>1, <1>2, <1>4, <2>2
  <2>3. QED
    BY <2>1, <2>2
<1>5. Muted(q, deeper)
  BY <1>1, <1>3, <1>4 DEF Muted
<1>6. QED
  BY <1>5 DEF q

\* An end tag ends the muting if it is that of the rPh with which it began.
LEMMA MutedShrinks ==
  ASSUME NEW path \in Seq(Element), path # <<>>, NEW depth, Muted(path, depth),
         NEW q \in Seq(Element), Alike(q, Front(path))
  PROVE  Muted(q, IF depth = Len(path) THEN 0 ELSE depth)
<1> DEFINE n == Len(path)
<1>1. /\ Len(q) = n - 1 /\ n \in Nat \ {0} /\ depth \in 0 .. n
      /\ \A i \in 1 .. n - 1 : q[i].name = path[i].name
  <2>1. Len(q) = n - 1 /\ n \in Nat \ {0}
    BY FrontAndLast DEF Alike
  <2>2. \A i \in 1 .. n - 1 : q[i].name = Front(path)[i].name /\ Front(path)[i] = path[i]
    BY <2>1, FrontAndLast DEF Alike
  <2>3. QED
    BY <2>1, <2>2 DEF Muted
<1>2. /\ depth > 0 => path[depth].name = "rPh"
      /\ \A i \in 1 .. n : path[i].name = "rPh" => depth \in 1 .. i
  BY DEF Muted
<1> HIDE DEF n
<1>3. CASE depth = n
  <2>1. \A i \in 1 .. n - 1 : q[i].name # "rPh"
    BY <1>1, <1>2, <1>3
  <2>2. Muted(q, 0)
    BY <1>1, <2>1 DEF Muted
  <2>3. QED
    BY <1>3, <2>2 DEF n
<1>4. CASE depth # n
  <2>1. Muted(q, depth)
    BY <1>1, <1>2, <1>4 DEF Muted
  <2>2. QED
    BY <1>4, <2>1 DEF n
<1>5. QED
  BY <1>3, <1>4

\* There is no cell around a cell.
LEMMA CelledGrows ==
  ASSUME NEW kind \in DOMAIN Children, NEW path \in Seq(Element), NEW e \in Element,
         Nested(Append(path, e), kind), NEW refers, Celled(path, refers),
         e.shared => e.name = "c"
  PROVE  Celled(Append(path, e), IF e.name = "c" THEN e.shared ELSE refers)
<1> DEFINE q == Append(path, e)
           n == Len(path)
           now == IF e.name = "c" THEN e.shared ELSE refers
<1>1. /\ n \in Nat /\ q \in Seq(Element) /\ Len(q) = n + 1 /\ q[n + 1] = e
      /\ \A i \in 1 .. n : q[i] = path[i]
  OBVIOUS
<1> HIDE DEF q
<1>2. ASSUME e.name = "c", NEW i \in 1 .. n PROVE path[i].name # "c"
  <2>1. n + 1 \in 1 .. Len(q) /\ i \in 1 .. (n + 1) - 1
    BY <1>1
  <2>2. e.name \in Inside[path[i].name] /\ e.name \in DOMAIN Children
    BY <1>1, <2>1 DEF Nested, Element, q
  <2>3. QED
    BY <1>2, <2>2, SchemaAssumption
<1>3. ASSUME NEW i \in 1 .. n + 1
      PROVE  (q[i].shared => q[i].name = "c") /\ (q[i].name = "c" => q[i].shared = now)
  <2>1. CASE i = n + 1
    BY <1>1, <2>1
  <2>2. CASE i # n + 1
    <3>1. i \in 1 .. n
      BY <1>1, <2>2
    <3>2. QED
      BY <1>1, <1>2, <3>1 DEF Celled
  <2>3. QED
    BY <2>1, <2>2
<1>4. Celled(q, now)
  BY <1>1, <1>3 DEF Celled
<1>5. QED
  BY <1>4 DEF q

\* Elements that have the same names are open as before.
LEMMA ShapeKept ==
  ASSUME NEW kind, NEW path, Nested(path, kind), NEW q \in Seq(Element), Alike(q, path),
         NEW depth, Muted(path, depth), NEW refers, Celled(path, refers)
  PROVE  /\ Nested(q, kind) /\ Muted(q, depth) /\ Celled(q, refers)
         /\ q # <<>> <=> path # <<>>
         /\ path # <<>> => Last(q).name = Last(path).name
<1>1. /\ path \in Seq(Element) /\ Len(q) = Len(path) /\ Len(q) <= Len(path) /\ depth \in 0 .. Len(q)
      /\ \A i \in 1 .. Len(q) : q[i].name = path[i].name /\ q[i].shared = path[i].shared
  BY DEF Nested, Alike, Muted
<1>2. Nested(q, kind) /\ Muted(q, depth) /\ Celled(q, refers)
  BY <1>1, ShapeOfBeginning
<1>3. q # <<>> <=> path # <<>>
  BY <1>1
<1>4. ASSUME path # <<>> PROVE Last(q).name = Last(path).name
  <2>1. Len(path) \in 1 .. Len(q)
    BY <1>1, <1>4
  <2>2. QED
    BY <1>1, <2>1 DEF Last
<1>5. QED
  BY <1>2, <1>3, <1>4

\* So are those around the innermost once it is over.
LEMMA ShapeOfFront ==
  ASSUME NEW kind \in {"strings", "section"}, NEW path, Nested(path, kind), path # <<>>,
         NEW q \in Seq(Element), Alike(q, Front(path)),
         NEW depth, Muted(path, depth), NEW refers, Celled(path, refers)
  PROVE  /\ Nested(q, kind) /\ Celled(q, refers)
         /\ Muted(q, IF depth = Len(path) THEN 0 ELSE depth)
         /\ q # <<>> <=> Front(path) # <<>>
         /\ q # <<>> => Last(q).name = Last(Front(path)).name
         /\ q # <<>> => Last(q).name \notin {"t", "v"}
<1> DEFINE front == Front(path)
<1>1. /\ path \in Seq(Element) /\ front \in Seq(Element) /\ Len(front) = Len(path) - 1
      /\ Len(path) \in Nat \ {0} /\ \A i \in 1 .. Len(path) - 1 : front[i] = path[i]
  BY FrontAndLast DEF Nested
<1>2. /\ Len(q) = Len(front) /\ Len(q) <= Len(path)
      /\ \A i \in 1 .. Len(q) : q[i].name = path[i].name /\ q[i].shared = path[i].shared
  BY <1>1 DEF Alike
<1>3. Nested(q, kind) /\ Celled(q, refers)
  BY <1>2, ShapeOfBeginning
<1>4. Muted(q, IF depth = Len(path) THEN 0 ELSE depth)
  BY <1>1, MutedShrinks
<1>5. q # <<>> <=> front # <<>>
  BY <1>1, <1>2
<1>6. ASSUME q # <<>> PROVE Last(q).name = Last(front).name
  <2>1. Len(q) \in 1 .. Len(q)
    BY <1>6
  <2>2. QED
    BY <1>2, <2>1 DEF Last, Alike
<1>7. q # <<>> => Last(q).name \notin {"t", "v"}
  BY <1>5, <1>6, LeavesAreLast
<1>8. QED
  BY <1>3, <1>4, <1>5, <1>6, <1>7

\* A new element is open inside the others.
LEMMA ShapeOfNew ==
  ASSUME NEW kind \in {"strings", "section"}, NEW path, Nested(path, kind),
         NEW depth, Muted(path, depth), NEW refers, Celled(path, refers),
         NEW e \in Element, e.shared => e.name = "c",
         e.name \in Children[IF path = <<>> THEN kind ELSE Last(path).name]
  PROVE  LET q == Append(path, e)
             now == IF e.name = "rPh" /\ depth = 0 THEN Len(q) ELSE depth
         IN  /\ q \in Seq(Element) /\ q # <<>> /\ Last(q) = e
             /\ Nested(q, kind) /\ Muted(q, now)
             /\ Celled(q, IF e.name = "c" THEN e.shared ELSE refers)
             /\ now = 0 <=> e.name # "rPh" /\ ~Pronounced(path)
             /\ path # <<>> => Last(path).name \notin {"t", "v"}
<1> DEFINE q == Append(path, e)
           now == IF e.name = "rPh" /\ depth = 0 THEN Len(path) + 1 ELSE depth
<1>1. path \in Seq(Element) /\ kind \in DOMAIN Children
  BY XmlAssumption DEF Nested
<1>2. q \in Seq(Element) /\ q # <<>> /\ Last(q) = e /\ Len(q) = Len(path) + 1
  BY <1>1, FrontOfAppend
<1>3. Nested(q, kind)
  BY <1>1, NestedGrows
<1>4. Muted(q, now)
  BY <1>1, MutedGrows
<1>5. Celled(q, IF e.name = "c" THEN e.shared ELSE refers)
  BY <1>1, <1>3, CelledGrows
<1>6. Pronounced(path) <=> depth # 0
  BY <1>1, MutedTells
<1>7. now = 0 <=> e.name # "rPh" /\ depth = 0
  <2>1. Len(path) + 1 # 0
    BY <1>1
  <2>2. QED
    BY <2>1
<1>8. path # <<>> => Last(path).name \notin {"t", "v"}
  <2>1. path # <<>> => Last(path).name \in DOMAIN Children
    BY LeavesAreLast
  <2>2. QED
    BY <2>1, SchemaAssumption
<1>9. QED
  BY <1>2, <1>3, <1>4, <1>5, <1>6, <1>7, <1>8

-----------------------------------------------------------------------------
(* xml_text.                                                               *)

SinkType == [open : BOOLEAN, limit : Nat, whole : Seq(Char), text : Seq(Char), cut : BOOLEAN]

\* What the flags of a walk have to do with the elements that are open, and the
\* index that is read with the innermost.
FlagsOK ==
  /\ inText \in BOOLEAN /\ inValue \in BOOLEAN /\ sharedCell \in BOOLEAN
  /\ inText <=> open # <<>> /\ Last(open).name = "t" /\ phonetic = 0
  /\ inValue <=> open # <<>> /\ Last(open).name = "v"
  /\ current = IF inValue /\ sharedCell THEN Last(open).text ELSE <<>>

\* A part that is read tag by tag: the sink was offered what its elements say.
TagsOK ==
  /\ Nested(open, "section") /\ Muted(open, phonetic) /\ Celled(open, sharedCell)
  /\ FlagsOK
  /\ done \in Seq(Seq(Char))
  /\ sink.whole = FlattenSeq(done) \o Said(open)

\* What is offered to the sink joins what it was offered before.
LEMMA UttersMore ==
  ASSUME sink \in SinkType, NEW piece \in Seq(Char), Utters(piece)
  PROVE  sink'.whole = sink.whole \o piece /\ sink'.open = sink.open
<1>1. sink.whole \in Seq(Char)
  BY DEF SinkType
<1>2. CASE piece = <<>>
  <2>1. sink' = sink
    BY <1>2 DEF Utters
  <2>2. sink.whole \o <<>> = sink.whole
    BY <1>1, ConcatAssociates
  <2>3. QED
    BY <1>2, <2>1, <2>2
<1>3. CASE piece # <<>>
  <2>1. sink' = Taking(sink, piece)
    BY <1>3 DEF Utters
  <2>2. QED
    BY <2>1 DEF Taking, SinkType
<1>4. QED
  BY <1>2, <1>3

\* An empty element says what it stands for, unless it is pronounced.
LEMMA TextEmptySays ==
  ASSUME TagsOK, sink \in SinkType, sink.open, NEW name \in DOMAIN Children, TextEmpty(name)
  PROVE  TagsOK'
<1> DEFINE text == IF Pronounced(open) THEN <<>> ELSE Breaks(name)
<1>1. /\ Nested(open, "section") /\ Muted(open, phonetic) /\ Celled(open, sharedCell) /\ FlagsOK
      /\ done \in Seq(Seq(Char)) /\ sink.whole = FlattenSeq(done) \o Said(open)
      /\ open \in Seq(Element)
  BY DEF TagsOK, Nested
<1>2. /\ name \in Children[IF open = <<>> THEN "section" ELSE Last(open).name]
      /\ Utters(IF phonetic = 0 THEN Breaks(name) ELSE <<>>) /\ Hears(open, text)
      /\ UNCHANGED <<phonetic, flags, current, pool, outcome>>
  BY DEF TextEmpty, MayHold, Told
<1>3. text \in Seq(Char) /\ Utters(text)
  <2>1. Pronounced(open) <=> phonetic # 0
    BY <1>1, MutedTells
  <2>2. QED
    BY <1>2, <2>1, BreaksTyped
<1>4. open # <<>> => Last(open).name \notin {"t", "v"}
  <2>1. open # <<>> => Last(open).name \in DOMAIN Children
    BY <1>1, LeavesAreLast
  <2>2. QED
    BY <1>2, <2>1, SchemaAssumption
<1>5. ~(open # <<>> /\ Refers(open))
  BY <1>4 DEF Refers
<1> HIDE DEF text
<1>6. /\ open' \in Seq(Element) /\ Alike(open', open) /\ done' \in Seq(Seq(Char))
      /\ FlattenSeq(done') \o Said(open') = (FlattenSeq(done) \o Said(open)) \o text
  BY <1>1, <1>2, <1>3, <1>5, HearsAll
<1>7. sink'.whole = FlattenSeq(done') \o Said(open')
  BY <1>1, <1>3, <1>6, UttersMore
<1>8. /\ Nested(open', "section") /\ Muted(open', phonetic) /\ Celled(open', sharedCell)
      /\ open' # <<>> <=> open # <<>>
      /\ open # <<>> => Last(open').name = Last(open).name
  BY <1>1, <1>6, ShapeKept
<1>9. FlagsOK'
  <2>1. ~inText /\ ~inValue /\ current = <<>>
    BY <1>1, <1>4 DEF FlagsOK
  <2>2. UNCHANGED <<inText, inValue, sharedCell, current, phonetic>>
    BY <1>2 DEF flags
  <2>3. QED
    BY <1>1, <1>4, <1>8, <2>1, <2>2 DEF FlagsOK
<1>10. phonetic' = phonetic /\ sharedCell' = sharedCell
  BY <1>2 DEF flags
<1>11. QED
  BY <1>6, <1>7, <1>8, <1>9, <1>10 DEF TagsOK

\* A start tag says what it stands for, unless it is pronounced.
LEMMA TextStartSays ==
  ASSUME TagsOK, sink \in SinkType, NEW name \in DOMAIN Children, NEW shared \in BOOLEAN,
         TextStart(name, shared), ~TooDeep
  PROVE  TagsOK'
<1> DEFINE text == IF Pronounced(open) THEN <<>> ELSE Breaks(name)
           e == [name |-> name, shared |-> shared, text |-> text]
<1>1. /\ Nested(open, "section") /\ Muted(open, phonetic) /\ Celled(open, sharedCell) /\ FlagsOK
      /\ done \in Seq(Seq(Char)) /\ sink.whole = FlattenSeq(done) \o Said(open)
      /\ open \in Seq(Element)
  BY DEF TagsOK, Nested
<1>2. /\ name \in Children[IF open = <<>> THEN "section" ELSE Last(open).name]
      /\ shared => name = "c"
      /\ Starts(name, shared, text)
      /\ inValue' = (name = "v") /\ sharedCell' = CellShared(name, shared)
      /\ Utters(IF phonetic' = 0 THEN Breaks(name) ELSE <<>>)
      /\ UNCHANGED <<current, pool, outcome>>
  BY DEF TextStart, MayHold
<1>3. /\ open' = Append(open, e)
      /\ phonetic' = IF name = "rPh" /\ phonetic = 0 THEN Len(Append(open, e)) ELSE phonetic
      /\ inText' = (name = "t" /\ phonetic' = 0) /\ done' = done
  BY <1>2 DEF Starts
<1>4. text \in Seq(Char)
  BY BreaksTyped
<1>5. e \in Element /\ e.name = name /\ e.shared = shared /\ e.text = text
  BY <1>4 DEF Element
<1> HIDE DEF e
<1>6. /\ open' \in Seq(Element) /\ open' # <<>> /\ Last(open') = e
      /\ Nested(open', "section") /\ Muted(open', phonetic')
      /\ Celled(open', IF name = "c" THEN shared ELSE sharedCell)
      /\ phonetic' = 0 <=> name # "rPh" /\ ~Pronounced(open)
      /\ open # <<>> => Last(open).name \notin {"t", "v"}
  BY <1>1, <1>2, <1>3, <1>5, ShapeOfNew
<1>7. Own(open') = IF phonetic' = 0 THEN Breaks(name) ELSE <<>>
  <2>1. name \in {"rPh", "v"} => Breaks(name) = <<>>
    BY DEF Breaks
  <2>2. Refers(open') => name = "v"
    BY <1>5, <1>6 DEF Refers
  <2>3. Own(open') = IF Refers(open') THEN <<>> ELSE text
    BY <1>5, <1>6 DEF Own
  <2>4. QED
    BY <1>6, <2>1, <2>2, <2>3
<1>8. sink'.whole = sink.whole \o Own(open')
  <2>1. Own(open') \in Seq(Char) /\ Utters(Own(open'))
    BY <1>2, <1>7, BreaksTyped
  <2>2. QED
    BY <2>1, UttersMore
<1>9. Said(open') = Said(open) \o Own(open')
  BY <1>1, <1>3, <1>5, SaidOfNew
<1>10. sink'.whole = FlattenSeq(done') \o Said(open')
  <2>1. FlattenSeq(done) \in Seq(Char) /\ Own(open') \in Seq(Char)
    BY <1>1, <1>7, FlattenTyped, BreaksTyped
  <2>2. Said(open) \in Seq(Char)
    BY <1>3, <1>5, <1>6, <1>1, SaidSplits, FrontOfAppend
  <2>3. (FlattenSeq(done) \o Said(open)) \o Own(open') = FlattenSeq(done) \o (Said(open) \o Own(open'))
    BY <2>1, <2>2, ConcatAssociates
  <2>4. QED
    BY <1>1, <1>3, <1>8, <1>9, <2>3
<1>11. FlagsOK'
  <2>1. ~inValue /\ current = <<>> /\ sharedCell \in BOOLEAN
    BY <1>1, <1>6 DEF FlagsOK
  <2>2. inText' = (Last(open').name = "t" /\ phonetic' = 0) /\ inValue' = (Last(open').name = "v")
    BY <1>2, <1>3, <1>5, <1>6
  <2>3. sharedCell' \in BOOLEAN /\ current' = <<>>
    BY <1>2, <2>1 DEF CellShared
  <2>4. Last(open').name = "v" => Last(open').text = <<>>
    <3>1. name = "v" => Breaks(name) = <<>>
      BY DEF Breaks
    <3>2. QED
      BY <1>5, <1>6, <3>1
  <2>5. QED
    BY <1>6, <2>2, <2>3, <2>4 DEF FlagsOK
<1>12. QED
  BY <1>1, <1>2, <1>3, <1>6, <1>10, <1>11 DEF TagsOK, CellShared

\* A piece of text is said, or it is a piece of an index.
LEMMA TextPieceSays ==
  ASSUME TagsOK, sink \in SinkType, NEW piece \in XmlPiece, TextPiece(piece),
         outcome' # "ExtractionFailed"
  PROVE  TagsOK'
<1> DEFINE leaf == Last(open).name \in {"t", "v"}
           text == IF Pronounced(open) THEN <<>> ELSE IF leaf THEN piece ELSE <<>>
           more == IF Refers(open) THEN <<>> ELSE text
<1>1. /\ Nested(open, "section") /\ Muted(open, phonetic) /\ Celled(open, sharedCell) /\ FlagsOK
      /\ done \in Seq(Seq(Char)) /\ sink.whole = FlattenSeq(done) \o Said(open)
      /\ open \in Seq(Element) /\ open # <<>>
  BY DEF TagsOK, Nested, TextPiece
<1>2. piece \in Seq(Char) /\ text \in Seq(Char) /\ more \in Seq(Char) /\ <<>> \in Seq(Char)
  <2>1. piece \in Seq(Char)
    BY XmlAssumption
  <2>2. QED
    BY <2>1
<1>3. Hears(open, text) /\ UNCHANGED <<phonetic, flags, pool>>
  BY DEF TextPiece, ToldPiece, Told
<1>4. /\ open' \in Seq(Element) /\ Alike(open', open) /\ done' = done
      /\ Last(open').text = Last(open).text \o text
      /\ Said(open') = Said(open) \o more
  <2> HIDE DEF text
  <2>1. QED
    BY <1>1, <1>2, <1>3, HearsInnermost
<1>5. /\ Nested(open', "section") /\ Muted(open', phonetic) /\ Celled(open', sharedCell)
      /\ open' # <<>> /\ Last(open').name = Last(open).name
  BY <1>1, <1>4, ShapeKept
<1>6. /\ Pronounced(open) <=> phonetic # 0
      /\ Last(open).name = "v" => ~Pronounced(open)
      /\ Refers(open) <=> Last(open).name = "v" /\ sharedCell
  BY <1>1, MutedTells, LeavesAreLast, CellRefers DEF FlagsOK
<1>7. /\ inText <=> Last(open).name = "t" /\ phonetic = 0
      /\ inValue <=> Last(open).name = "v"
      /\ current = IF inValue /\ sharedCell THEN Last(open).text ELSE <<>>
      /\ inText \in BOOLEAN /\ inValue \in BOOLEAN /\ sharedCell \in BOOLEAN
  BY <1>1 DEF FlagsOK
<1>8. /\ ~(inText \/ inValue) => text = <<>> /\ more = <<>>
      /\ (inText \/ inValue) => text = piece
      /\ (inText \/ inValue) /\ ~(inValue /\ sharedCell) => more = piece
      /\ inValue /\ sharedCell => more = <<>>
  BY <1>6, <1>7
<1>9. /\ ~(inText \/ inValue) => UNCHANGED <<current, sink>>
      /\ (inText \/ inValue) /\ ~(inValue /\ sharedCell) => Utters(piece) /\ current' = current
      /\ inValue /\ sharedCell => current' = current \o piece /\ sink' = sink
  BY DEF TextPiece, Fails
<1>10. sink'.whole = sink.whole \o more
  <2>1. sink.whole \in Seq(Char)
    BY DEF SinkType
  <2>2. sink.whole \o <<>> = sink.whole
    BY <2>1, ConcatAssociates
  <2>3. CASE (inText \/ inValue) /\ ~(inValue /\ sharedCell)
    BY <1>2, <1>8, <1>9, <2>3, UttersMore
  <2>4. CASE ~((inText \/ inValue) /\ ~(inValue /\ sharedCell))
    BY <1>8, <1>9, <2>2, <2>4
  <2>5. QED
    BY <2>3, <2>4
<1>11. current' = IF inValue /\ sharedCell THEN Last(open').text ELSE <<>>
  BY <1>4, <1>7, <1>8, <1>9
<1> HIDE DEF more, text
<1>12. sink'.whole = FlattenSeq(done') \o Said(open')
  <2>1. FlattenSeq(done) \in Seq(Char) /\ Said(open) \in Seq(Char)
    BY <1>1, FlattenTyped, SaidSplits
  <2>2. (FlattenSeq(done) \o Said(open)) \o more = FlattenSeq(done) \o (Said(open) \o more)
    BY <1>2, <2>1, ConcatAssociates
  <2>3. QED
    BY <1>1, <1>4, <1>10, <2>2
<1>13. UNCHANGED <<inText, inValue, sharedCell, phonetic>>
  BY <1>3 DEF flags
<1>14. FlagsOK'
  BY <1>5, <1>7, <1>11, <1>13 DEF FlagsOK
<1>15. QED
  BY <1>1, <1>4, <1>5, <1>12, <1>13, <1>14 DEF TagsOK

\* The end of an element says what the element stands for beyond what it has said.
LEMMA TextEndSays ==
  ASSUME TagsOK, sink \in SinkType, sink.open, pool \in Seq(Seq(Char)), TextEnd,
         outcome' # "ExtractionFailed"
  PROVE  TagsOK'
<1> DEFINE name == Last(open).name
           leaf == name \in {"t", "v"}
           refers == leaf /\ inValue /\ sharedCell
           more == IF Refers(open) THEN pool[Parsed(Last(open).text) + 1]
                   ELSE IF name \in {"p", "c"} THEN <<Newline>> ELSE <<>>
           content == Content(open, pool)
<1>1. /\ Nested(open, "section") /\ Muted(open, phonetic) /\ Celled(open, sharedCell) /\ FlagsOK
      /\ done \in Seq(Seq(Char)) /\ sink.whole = FlattenSeq(done) \o Said(open)
      /\ open \in Seq(Element) /\ open # <<>>
  BY DEF TagsOK, Nested, TextEnd
<1>2. /\ inText <=> name = "t" /\ phonetic = 0
      /\ inValue <=> name = "v"
      /\ current = IF inValue /\ sharedCell THEN Last(open).text ELSE <<>>
      /\ inText \in BOOLEAN /\ inValue \in BOOLEAN /\ sharedCell \in BOOLEAN
  BY <1>1 DEF FlagsOK
<1>3. /\ Refers(open) <=> name = "v" /\ sharedCell
      /\ refers <=> Refers(open)
      /\ Refers(open) => current = Last(open).text
  <2>1. Refers(open) <=> name = "v" /\ sharedCell
    BY <1>1, <1>2, CellRefers
  <2>2. QED
    BY <1>2, <2>1
<1>4. /\ ~(refers /\ ~Resolves)
      /\ Utters(IF refers THEN pool[Parsed(current) + 1]
                ELSE IF name \in {"p", "c"} THEN <<Newline>> ELSE <<>>)
      /\ Over
  <2>1. IF refers /\ ~Resolves THEN Fails
        ELSE /\ Utters(IF refers THEN pool[Parsed(current) + 1]
                       ELSE IF name \in {"p", "c"} THEN <<Newline>> ELSE <<>>)
             /\ Over
    BY DEF TextEnd
  <2>2. QED
    BY <2>1 DEF Fails
<1>5. /\ current' = IF leaf THEN <<>> ELSE current
      /\ inText' = (inText /\ ~leaf) /\ inValue' = (inValue /\ ~leaf)
      /\ phonetic' = IF phonetic = Len(open) THEN 0 ELSE phonetic
      /\ UNCHANGED <<sharedCell, pool>>
  BY DEF TextEnd, Closes
<1>6. Utters(more)
  BY <1>3, <1>4
<1>7. Refers(open) => Parsed(Last(open).text) + 1 \in DOMAIN pool
  BY <1>3, <1>4 DEF Resolves
<1>8. more \in Seq(Char) /\ content = Own(open) \o more
  BY <1>1, <1>7, ContentIsSaid
<1>9. Hears(Front(open), content)
  BY <1>4 DEF Over
<1> HIDE DEF more, content
<1>10. /\ Said(open) = Said(Front(open)) \o Own(open)
       /\ Said(Front(open)) \in Seq(Char) /\ Own(open) \in Seq(Char) /\ content \in Seq(Char)
  <2>1. /\ Said(open) = Said(Front(open)) \o Own(open)
        /\ Said(Front(open)) \in Seq(Char) /\ Own(open) \in Seq(Char)
    BY <1>1, SaidSplits
  <2>2. QED
    BY <1>8, <2>1, ConcatAssociates
<1>11. /\ Front(open) \in Seq(Element)
       /\ Front(open) # <<>> => Last(Front(open)).name \notin {"t", "v"}
  BY <1>1, FrontAndLast, LeavesAreLast
<1>12. /\ open' \in Seq(Element) /\ Alike(open', Front(open)) /\ done' \in Seq(Seq(Char))
       /\ FlattenSeq(done') \o Said(open') = (FlattenSeq(done) \o Said(Front(open))) \o content
  <2>1. ~(Front(open) # <<>> /\ Refers(Front(open)))
    BY <1>11 DEF Refers
  <2>2. QED
    BY <1>1, <1>9, <1>10, <1>11, <2>1, HearsAll
<1>13. sink'.whole = FlattenSeq(done') \o Said(open')
  <2> DEFINE a == FlattenSeq(done)
             b == Said(Front(open))
             c == Own(open)
  <2>1. sink'.whole = (a \o (b \o c)) \o more
    BY <1>1, <1>6, <1>8, <1>10, UttersMore
  <2>2. FlattenSeq(done') \o Said(open') = (a \o b) \o (c \o more)
    BY <1>8, <1>12
  <2>3. a \in Seq(Char) /\ b \in Seq(Char) /\ c \in Seq(Char) /\ more \in Seq(Char)
    BY <1>1, <1>8, <1>10, FlattenTyped
  <2> HIDE DEF a, b, c
  <2>4. a \o b \in Seq(Char) /\ (a \o b) \o c = a \o (b \o c)
    BY <2>3, ConcatAssociates
  <2>5. ((a \o b) \o c) \o more = (a \o b) \o (c \o more)
    <3> DEFINE d == a \o b
    <3>1. d \in Seq(Char)
      BY <2>4
    <3> HIDE DEF d
    <3>2. (d \o c) \o more = d \o (c \o more)
      BY <2>3, <3>1, ConcatAssociates
    <3>3. QED
      BY <3>2 DEF d
  <2>6. QED
    BY <2>1, <2>2, <2>4, <2>5
<1>14. /\ Nested(open', "section") /\ Muted(open', phonetic') /\ Celled(open', sharedCell)
       /\ open' # <<>> => Last(open').name \notin {"t", "v"}
  BY <1>1, <1>5, <1>12, ShapeOfFront
<1>15. ~inText' /\ ~inValue' /\ inText' \in BOOLEAN /\ inValue' \in BOOLEAN /\ current' = <<>>
  BY <1>2, <1>5
<1>16. FlagsOK'
  BY <1>2, <1>5, <1>14, <1>15 DEF FlagsOK
<1>17. QED
  BY <1>5, <1>12, <1>13, <1>14, <1>16 DEF TagsOK

-----------------------------------------------------------------------------
(* xml_strings.                                                            *)

\* The shared strings are read: those that are collected are the text of the si
\* that are over, and the one that is being read that of the one that is open.
PoolOK ==
  /\ Nested(open, "strings") /\ Muted(open, phonetic) /\ Celled(open, FALSE)
  /\ inText \in BOOLEAN
  /\ inText <=> open # <<>> /\ Last(open).name = "t" /\ phonetic = 0
  /\ done \in Seq(Seq(Char))
  /\ pool = done /\ current = Said(open)

\* Strings are one si after the other, without cells or paragraphs.
LEMMA StringsAreFlat ==
  ASSUME NEW path, Nested(path, "strings"), path # <<>>
  PROVE  /\ Last(path).name = "si" <=> Front(path) = <<>>
         /\ Last(path).name \notin {"p", "c", "v"}
         /\ Last(path).name \in DOMAIN Children
         /\ "si" \notin Children[Last(path).name]
<1> DEFINE n == Len(path)
<1>1. path \in Seq(Element)
  BY DEF Nested
<1>2. /\ n \in Nat \ {0} /\ Last(path) = path[n] /\ Len(Front(path)) = n - 1
      /\ Front(path) \in Seq(Element)
  BY <1>1, FrontAndLast
<1>3. \A i \in 1 .. n : path[i].name \in DOMAIN Children
  BY <1>1, ElementTyped
<1>4. Front(path) = <<>> <=> n = 1
  BY <1>2
<1> HIDE DEF n
<1>5. path[1].name = "si" /\ "si" \in DOMAIN Children
  <2>1. path[1].name \in Children["strings"] /\ 1 \in 1 .. n
    BY <1>2 DEF Nested
  <2>2. QED
    BY <1>3, <2>1, SchemaAssumption
<1>6. n = 1 \/ path[n].name \in Inside["si"]
  <2>1. n # 1 => n \in 1 .. n /\ 1 \in 1 .. n - 1
    BY <1>2
  <2>2. QED
    BY <1>5, <2>1 DEF Nested, n
<1>7. Inside["si"] \cap {"si", "p", "c", "v"} = {}
  BY <1>5, SchemaAssumption
<1>8. path[n].name = "si" <=> n = 1
  BY <1>5, <1>6, <1>7
<1>9. path[n].name \notin {"p", "c", "v"}
  BY <1>5, <1>6, <1>7
<1>10. Children[path[n].name] \subseteq Inside["si"]
  BY <1>5, <1>6, InsideIsClosed
<1>11. n \in 1 .. n
  BY <1>2
<1>12. QED
  BY <1>2, <1>3, <1>4, <1>7, <1>8, <1>9, <1>10, <1>11

\* What an si that is over has collected joins the strings.
LEMMA Collected ==
  ASSUME Collect, outcome' # "ExtractionFailed"
  PROVE  pool' = Append(pool, current) /\ current' = <<>>
BY DEF Collect, Fails

\* A document, and not an element, is told: the string is one of its own.
LEMMA HearsDocument ==
  ASSUME ~sink.open, NEW text, Hears(<<>>, text)
  PROVE  open' = <<>> /\ done' = Append(done, text)
BY DEF Hears

\* Nothing has been said where nothing is open.
LEMMA NothingSaid ==
  /\ Said(<<>>) = <<>> /\ \A kind : Nested(<<>>, kind)
  /\ Muted(<<>>, 0) /\ \A refers : Celled(<<>>, refers)
<1>1. Said(<<>>) = <<>>
  <2>1. Sayings(<<>>) = <<>>
    BY DEF Sayings
  <2>2. QED
    BY <2>1 DEF Said, FlattenSeq
<1>2. <<>> \in Seq(Element) /\ Len(<<>>) = 0
  OBVIOUS
<1>3. QED
  BY <1>1, <1>2 DEF Nested, Muted, Celled

\* A start tag says nothing in a string.
LEMMA StringStartSays ==
  ASSUME PoolOK, NEW name \in DOMAIN Children, StringStart(name), ~TooDeep
  PROVE  PoolOK'
<1> DEFINE e == [name |-> name, shared |-> FALSE, text |-> <<>>]
<1>1. /\ Nested(open, "strings") /\ Muted(open, phonetic) /\ Celled(open, FALSE)
      /\ done \in Seq(Seq(Char)) /\ pool = done /\ current = Said(open) /\ open \in Seq(Element)
  BY DEF PoolOK, Nested
<1>2. /\ name \in Children[IF open = <<>> THEN "strings" ELSE Last(open).name]
      /\ open' = Append(open, e)
      /\ phonetic' = IF name = "rPh" /\ phonetic = 0 THEN Len(Append(open, e)) ELSE phonetic
      /\ inText' = (name = "t" /\ phonetic' = 0) /\ UNCHANGED <<done, current, pool>>
  BY DEF StringStart, MayHold, Starts
<1>3. e \in Element /\ e.name = name /\ e.shared = FALSE /\ e.text = <<>>
  BY BreaksTyped DEF Element
<1> HIDE DEF e
<1>4. /\ open' \in Seq(Element) /\ open' # <<>> /\ Last(open') = e
      /\ Nested(open', "strings") /\ Muted(open', phonetic')
      /\ Celled(open', IF e.name = "c" THEN e.shared ELSE FALSE)
  BY <1>1, <1>2, <1>3, ShapeOfNew
<1>5. Celled(open', FALSE)
  BY <1>3, <1>4
<1>6. Said(open') = Said(open)
  <2>1. Said(open') = Said(open) \o Own(open') /\ Own(open') = <<>>
    BY <1>1, <1>2, <1>3, <1>4, SaidOfNew DEF Own
  <2>2. Said(open) \in Seq(Char)
    BY <1>1, <1>2, <1>3, <1>4, SaidSplits, FrontOfAppend
  <2>3. QED
    BY <2>1, <2>2, ConcatAssociates
<1>7. QED
  BY <1>1, <1>2, <1>3, <1>4, <1>5, <1>6 DEF PoolOK

\* An empty si is an empty string; no other empty element says anything.
LEMMA StringEmptySays ==
  ASSUME PoolOK, ~sink.open, NEW name \in DOMAIN Children, StringEmpty(name),
         outcome' # "ExtractionFailed"
  PROVE  PoolOK'
<1>1. /\ Nested(open, "strings") /\ Muted(open, phonetic) /\ Celled(open, FALSE)
      /\ done \in Seq(Seq(Char)) /\ pool = done /\ current = Said(open) /\ open \in Seq(Element)
      /\ inText \in BOOLEAN /\ <<>> \in Seq(Char)
      /\ inText <=> open # <<>> /\ Last(open).name = "t" /\ phonetic = 0
  BY BreaksTyped DEF PoolOK, Nested
<1>2. /\ name \in Children[IF open = <<>> THEN "strings" ELSE Last(open).name]
      /\ Hears(open, <<>>) /\ phonetic' = phonetic /\ inText' = inText
      /\ IF name = "si" THEN Collect ELSE UNCHANGED <<pool, current>>
  BY DEF StringEmpty, MayHold, Told, flags
<1>3. CASE open = <<>>
  <2>1. name = "si"
    BY <1>2, <1>3, SchemaAssumption
  <2>2. pool' = Append(pool, current) /\ current' = <<>>
    BY <1>2, <2>1, Collected
  <2>3. open' = <<>> /\ done' = Append(done, <<>>)
    BY <1>2, <1>3, HearsDocument
  <2>4. current = <<>> /\ Append(done, <<>>) \in Seq(Seq(Char))
    BY <1>1, <1>3, NothingSaid
  <2>5. phonetic = 0
    BY <1>1, <1>3 DEF Muted
  <2>6. QED
    BY <1>1, <1>2, <1>3, <2>2, <2>3, <2>4, <2>5, NothingSaid DEF PoolOK
<1>4. CASE open # <<>>
  <2>1. name # "si"
    BY <1>1, <1>2, <1>4, StringsAreFlat
  <2>2. /\ open' \in Seq(Element) /\ Alike(open', open) /\ done' = done
        /\ Said(open') = Said(open) \o (IF Refers(open) THEN <<>> ELSE <<>>)
    BY <1>1, <1>2, <1>4, HearsInnermost
  <2>3. Said(open') = Said(open)
    <3>1. Said(open) \in Seq(Char)
      BY <1>1, <1>4, SaidSplits
    <3>2. Said(open') = Said(open) \o <<>>
      BY <2>2
    <3>3. QED
      BY <3>1, <3>2, ConcatAssociates
  <2>4. /\ Nested(open', "strings") /\ Muted(open', phonetic) /\ Celled(open', FALSE)
        /\ open' # <<>> /\ Last(open').name = Last(open).name
    BY <1>1, <1>4, <2>2, ShapeKept
  <2>5. pool' = pool /\ current' = current
    BY <1>2, <2>1
  <2>6. QED
    BY <1>1, <1>2, <1>4, <2>2, <2>3, <2>4, <2>5 DEF PoolOK
<1>5. QED
  BY <1>3, <1>4

\* A piece of text that is not pronounced joins the string that is being read.
LEMMA StringPieceSays ==
  ASSUME PoolOK, NEW piece \in XmlPiece, StringPiece(piece), outcome' # "ExtractionFailed"
  PROVE  PoolOK'
<1> DEFINE text == IF Pronounced(open) THEN <<>>
                   ELSE IF Last(open).name \in {"t", "v"} THEN piece ELSE <<>>
<1>1. /\ Nested(open, "strings") /\ Muted(open, phonetic) /\ Celled(open, FALSE)
      /\ done \in Seq(Seq(Char)) /\ pool = done /\ current = Said(open) /\ open \in Seq(Element)
      /\ inText \in BOOLEAN /\ open # <<>>
      /\ inText <=> Last(open).name = "t" /\ phonetic = 0
  BY DEF PoolOK, Nested, StringPiece
<1>2. piece \in Seq(Char) /\ text \in Seq(Char) /\ <<>> \in Seq(Char)
  <2>1. piece \in Seq(Char)
    BY XmlAssumption
  <2>2. QED
    BY <2>1
<1>3. /\ Hears(open, text) /\ UNCHANGED <<phonetic, flags, pool>>
      /\ current' = IF inText THEN current \o piece ELSE current
  BY DEF StringPiece, ToldPiece, Told, Fails
<1>4. text = IF inText THEN piece ELSE <<>>
  <2>1. Last(open).name # "v" /\ (Pronounced(open) <=> phonetic # 0)
    BY <1>1, StringsAreFlat, MutedTells
  <2>2. QED
    BY <1>1, <2>1
<1>5. ~Refers(open)
  BY <1>1, StringsAreFlat DEF Refers
<1> HIDE DEF text
<1>6. /\ open' \in Seq(Element) /\ Alike(open', open) /\ done' = done
      /\ Said(open') = Said(open) \o text
  BY <1>1, <1>2, <1>3, <1>5, HearsInnermost
<1>7. /\ Nested(open', "strings") /\ Muted(open', phonetic) /\ Celled(open', FALSE)
      /\ open' # <<>> /\ Last(open').name = Last(open).name
  BY <1>1, <1>6, ShapeKept
<1>8. current' = Said(open')
  <2>1. Said(open) \in Seq(Char)
    BY <1>1, SaidSplits
  <2>2. Said(open) \o <<>> = Said(open)
    BY <2>1, ConcatAssociates
  <2>3. QED
    BY <1>1, <1>3, <1>4, <1>6, <2>2
<1>9. phonetic' = phonetic /\ inText' = inText /\ pool' = pool
  BY <1>3 DEF flags
<1>10. QED
  BY <1>1, <1>6, <1>7, <1>8, <1>9 DEF PoolOK

\* The end of an si ends the string; the end of another element keeps what it said.
LEMMA StringEndSays ==
  ASSUME PoolOK, ~sink.open, StringEnd, outcome' # "ExtractionFailed"
  PROVE  PoolOK'
<1>1. /\ Nested(open, "strings") /\ Muted(open, phonetic) /\ Celled(open, FALSE)
      /\ done \in Seq(Seq(Char)) /\ pool = done /\ current = Said(open) /\ open \in Seq(Element)
      /\ open # <<>>
  BY DEF PoolOK, Nested, StringEnd
<1>2. /\ Hears(Front(open), Content(open, pool))
      /\ phonetic' = IF phonetic = Len(open) THEN 0 ELSE phonetic
      /\ inText' = FALSE
      /\ IF Last(open).name = "si" THEN Collect ELSE UNCHANGED <<pool, current>>
  BY DEF StringEnd, Over, Closes
<1>3. /\ Last(open).name = "si" <=> Front(open) = <<>>
      /\ Last(open).name \notin {"p", "c", "v"}
  BY <1>1, StringsAreFlat
<1>4. Content(open, pool) = Own(open)
  BY <1>3 DEF Content, Own, Refers
<1>5. /\ Said(open) = Said(Front(open)) \o Own(open)
      /\ Said(Front(open)) \in Seq(Char) /\ Own(open) \in Seq(Char)
      /\ Front(open) \in Seq(Element)
  BY <1>1, SaidSplits, FrontAndLast
<1>6. CASE Front(open) = <<>>
  <2>1. pool' = Append(pool, current) /\ current' = <<>>
    BY <1>2, <1>3, <1>6, Collected
  <2>2. open' = <<>> /\ done' = Append(done, Own(open))
    BY <1>2, <1>4, <1>6, HearsDocument
  <2>3. current = Own(open)
    BY <1>1, <1>5, <1>6, NothingSaid, ConcatAssociates
  <2>4. phonetic' = 0
    <3>1. Len(open) = 1 /\ phonetic \in 0 .. Len(open)
      <4>1. Len(Front(open)) = Len(open) - 1 /\ Len(open) \in Nat
        BY <1>1, FrontAndLast
      <4>2. QED
        BY <1>1, <1>6, <4>1 DEF Muted
    <3>2. QED
      BY <1>2, <3>1
  <2>5. Append(done, Own(open)) \in Seq(Seq(Char))
    BY <1>1, <1>5
  <2>6. QED
    BY <1>1, <1>2, <2>1, <2>2, <2>3, <2>4, <2>5, NothingSaid DEF PoolOK
<1>7. CASE Front(open) # <<>>
  <2>1. Last(Front(open)).name \notin {"t", "v"}
    BY <1>1, <1>7, LeavesAreLast
  <2>2. /\ open' \in Seq(Element) /\ Alike(open', Front(open)) /\ done' = done
        /\ Said(open') = Said(Front(open)) \o Own(open)
    <3>1. ~Refers(Front(open))
      BY <2>1 DEF Refers
    <3>2. QED
      BY <1>2, <1>4, <1>5, <1>7, <3>1, HearsInnermost
  <2>3. /\ Nested(open', "strings") /\ Muted(open', phonetic') /\ Celled(open', FALSE)
        /\ open' # <<>> => Last(open').name \notin {"t", "v"}
    BY <1>1, <1>2, <2>2, ShapeOfFront
  <2>4. pool' = pool /\ current' = current
    BY <1>2, <1>3, <1>7
  <2>5. QED
    BY <1>1, <1>2, <1>5, <2>2, <2>3, <2>4 DEF PoolOK
<1>8. QED
  BY <1>6, <1>7
=============================================================================
