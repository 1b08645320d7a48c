----------------------------- MODULE ImageStream -----------------------------
(***************************************************************************)
(* GeneratePptx's image stream: Documents::resolve_presentation of         *)
(* crates/tinydocs-module/src/service/mod.rs.                              *)
(*                                                                         *)
(* The images of a deck arrive concatenated in one stream; the deck        *)
(* declares how long each is.  Of the bytes only their number matters, and *)
(* where the signature of an image stands with a header behind it: at the  *)
(* start of a file that is an image, and also inside of files, where a     *)
(* picture is embedded in another one or appended to it.                   *)
(***************************************************************************)
EXTENDS Integers, SequencesExt

CONSTANTS
  WordMax,         \* largest value of a 64-bit word
  MaxImageBytes,   \* MAX_IMAGE_BYTES
  Length,          \* byte_len values a deck may declare
  File,            \* files that a caller may send, images and others
  MaxImages        \* bound: images of a deck, over all its slides

ASSUME ImageAssumption ==
  /\ WordMax \in Nat /\ MaxImageBytes \in 1 .. WordMax
  /\ MaxImages \in Nat /\ Length \subseteq 0 .. WordMax

\* A file has bytes.  Its heads are the places where an image begins, each with
\* the number of bytes that an inspection needs from there; a header at its end
\* may need bytes of what follows it in the stream.
ASSUME FileAssumption ==
  \A file \in File :
    /\ file.len \in Nat \ {0}
    /\ DOMAIN file.heads \subseteq 0 .. file.len - 1
    /\ \A at \in DOMAIN file.heads : file.heads[at] \in Nat \ {0}

VARIABLES
  declared,   \* byte_len of each image, in slide order
  stream,     \* whether a stream was opened
  sent,       \* the files in the stream
  stage,      \* "measure", "read", "slice", "done"
  k,          \* the image that is measured or sliced next
  expected,   \* sum of the lengths measured so far
  payload,    \* bytes read from the stream
  cursor,     \* where the next image begins
  slices,     \* the images resolved so far: [from, to)
  result      \* "Ok" or the error

streamVars == <<declared, stream, sent, stage, k, expected, payload, cursor, slices, result>>
input == <<declared, stream, sent>>

Sum(lengths) == FoldLeft(LAMBDA a, b : a + b, 0, lengths)

\* The true lengths, and where the i-th file that was sent begins and ends.
Lengths == [i \in 1 .. Len(sent) |-> sent[i].len]
Begin(i) == Sum(SubSeq(Lengths, 1, i - 1))
End(i) == Sum(SubSeq(Lengths, 1, i))

Answers(error) == stage' = "done" /\ result' = error

\* A deck, and what the caller sends with it.
StreamInit ==
  /\ declared \in SeqOf(Length, MaxImages)
  /\ stream \in BOOLEAN
  /\ sent \in IF stream THEN SeqOf(File, MaxImages) ELSE {<<>>}
  /\ stage = "measure" /\ k = 1
  /\ expected = 0 /\ payload = 0 /\ cursor = 0
  /\ slices = <<>> /\ result = "Ok"

\* One length: it is bounded before it is added, and the addition is checked.
Measure ==
  /\ stage = "measure" /\ k <= Len(declared)
  /\ \/ /\ declared[k] > MaxImageBytes \/ expected + declared[k] > WordMax
        /\ Answers("InvalidInput")
        /\ UNCHANGED <<k, expected>>
     \/ /\ declared[k] <= MaxImageBytes /\ expected + declared[k] <= WordMax
        /\ expected' = expected + declared[k]
        /\ k' = k + 1
        /\ UNCHANGED <<stage, result>>
  /\ UNCHANGED <<input, payload, cursor, slices>>

\* Without a stream only a deck without image bytes makes sense.
Measured ==
  /\ stage = "measure" /\ k > Len(declared)
  /\ IF ~stream /\ expected # 0 THEN Answers("InvalidInput")
                                ELSE stage' = "read" /\ UNCHANGED result
  /\ UNCHANGED <<input, k, expected, payload, cursor, slices>>

\* Bug: bytes left over at the end of the stream are ignored.
ReadAtLeast ==
  /\ stage = "read"
  /\ payload' = Sum(Lengths)
  /\ IF Sum(Lengths) < expected
     THEN Answers("InvalidInput") /\ UNCHANGED k
     ELSE stage' = "slice" /\ k' = 1 /\ UNCHANGED result
  /\ UNCHANGED <<input, expected, cursor, slices>>

\* The whole stream is read, and its length compared.
Read ==
  /\ stage = "read"
  /\ payload' = Sum(Lengths)
  /\ IF Sum(Lengths) # expected
     THEN Answers("InvalidInput") /\ UNCHANGED k
     ELSE stage' = "slice" /\ k' = 1 /\ UNCHANGED result
  /\ UNCHANGED <<input, expected, cursor, slices>>

\* The transfer does not complete.
ReadFails ==
  /\ stage = "read" /\ stream
  /\ Answers("TransferFailed")
  /\ UNCHANGED <<input, k, expected, payload, cursor, slices>>

\* image::inspect: the slice begins with a signature and has the header behind it.
\* What follows the header does not matter, nor whether a file begins there.
Inspected(from, to) ==
  /\ to - from <= MaxImageBytes
  /\ \E i \in 1 .. Len(sent) : \E at \in DOMAIN sent[i].heads :
       from = Begin(i) + at /\ from + sent[i].heads[at] <= to

\* One image is cut out of the payload and inspected.
Slice ==
  /\ stage = "slice" /\ k <= Len(declared)
  /\ LET end == cursor + declared[k] IN
     IF end <= payload /\ Inspected(cursor, end)
     THEN /\ slices' = Append(slices, [from |-> cursor, to |-> end])
          /\ cursor' = end
          /\ k' = k + 1
          /\ UNCHANGED <<stage, result>>
     ELSE Answers("InvalidInput") /\ UNCHANGED <<slices, cursor, k>>
  /\ UNCHANGED <<input, expected, payload>>

Resolved ==
  /\ stage = "slice" /\ k > Len(declared)
  /\ Answers("Ok")
  /\ UNCHANGED <<input, k, expected, payload, cursor, slices>>

StreamNext == Measure \/ Measured \/ Read \/ ReadFails \/ Slice \/ Resolved

StreamSpec == StreamInit /\ [][StreamNext]_streamVars

-----------------------------------------------------------------------------
(* Properties.                                                             *)

\* The stream is cut only if the lengths that the deck declares really add up to the
\* bytes that arrived, without any wrapping around.  A deck that declares what was
\* sent fails to be cut to the end only for a file that is no image of a size that
\* is allowed.  And if a deck with as many images as were sent is accepted although
\* it declares other lengths, then it cut a file where a picture is embedded in it:
\* without that, the sums and the headers leave no way but to cut between the files.
CutAsSent ==
  /\ stage = "slice" => Sum(declared) = Sum(Lengths)
  /\ stage = "done" /\ result = "InvalidInput"
     /\ declared = Lengths /\ Len(slices) < Len(declared) =>
       \/ Sum(Lengths) > WordMax
       \/ \E i \in 1 .. Len(sent) : ~Inspected(Begin(i), End(i))
  /\ stage = "done" /\ result = "Ok" /\ Len(declared) = Len(sent) =>
       \/ slices = [i \in 1 .. Len(sent) |-> [from |-> Begin(i), to |-> End(i)]]
       \/ \E c \in ToSet(slices) : c.from \notin {Begin(i) : i \in 1 .. Len(sent)}
=============================================================================
