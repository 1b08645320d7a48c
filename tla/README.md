# TLA+ models of tinydocs

tinydocs generates and reads documents (DOCX, PPTX, PDF, images) as a module on
a message bus. The documents themselves are made by external libraries; what
this code adds is the part that is hard to test: a store that holds produced
documents between the call that made them and the caller that fetches them,
a client that fetches them and must not leak any, and walks over untrusted
input that must stay within budgets. Those are what the modules here model.

Paths below are relative to `src/`, the repository.

## 1. Inventory

| component | source | state | operations |
|---|---|---|---|
| Output store | `crates/tinydocs-module/src/outputs/mod.rs` | map of held outputs with `last_read`, behind one mutex | `insert`, `read_chunk`, `release`, the sweep inside each of them |
| Documents service | `crates/tinydocs-module/src/service/mod.rs` | the store; per call, the progress of its task | `generate_docx`, `generate_pptx`, `extract_text`, `extract_document`, `convert_markdown`, `inspect_image`, `render_pdf`, `read_output`, `release_output` |
| TinyDocsClient | `crates/tinydocs-client/src/client.rs` | per operation: what was read, two drop guards | one method per bus method, `collect`, `read_all`, the guards' `drop` |
| Image stream | `service/mod.rs` `resolve_presentation` | expected length, cursor | measure, read, slice |
| Document intake | `src/intake/mod.rs`, `zip_admission.rs`, `office_order.rs` | text budget, expansion budget, sink | `extract` and its section loops, admission of archives, order of parts |
| PDF rendering | `src/pdf_render/mod.rs` | pixel and byte counters | `validate`, the planning loop, the raster loop |
| Slide layout | `src/pptx/mod.rs` | the slot cursor | `place_single_column`, `fit_within` |
| Image inspection | `src/image/mod.rs` | position in the bytes | `inspect`, the JPEG marker walk |
| Specifications | `crates/tinydocs-bus/src/spec/` | none | validation of documents and decks |
| Markdown conversion | `src/markdown/` | the event walk's stack and lines | `convert` per format |
| PDF text, DOCX writer | `src/pdf/mod.rs`, `src/docx/mod.rs` | none | one call each of an external library |
| TinyBus | external | calls, replies, streams | delivery, loss, timeouts, pinning of a peer |

How they interact. A host calls a method of the client; the client makes a bus
call and, for methods that produce bytes, gets back output ids. The service
works in a task per call (reading the inbound stream, validating, working on
the blocking pool), inserts the product in the store and answers with its id.
The client then reads the output chunk by chunk, compares length and digest,
and releases it. Everything the two sides share is the store's promise about an
id: it is held until it is released or unread for too long.

What is hard here, by component:

* **Store.** Threads sample the clock before they lock; expiry is lazy; three
  bounds have to hold at once. Correct: the bounds, and a document leaves only
  by release or expiry and never comes back.
* **Service.** A rendering holds its pages one by one and must give them all
  back if one is refused, while other tasks use the same store and pages may
  expire; replies get lost. Correct: no output without an owner, no partial
  batch, every call answered.
* **Client.** A future may be dropped at any await, in or outside a runtime; a
  call the bus gave up may be executed all the same; the module may misbehave.
  Correct: every output is released exactly once or left to expire, no release
  takes away a document that is being read, what is returned is the document,
  every operation ends.
* **Image stream.** Lengths are the caller's: sums can overflow, cuts can be
  wrong, and only the header of a slice is looked at. Correct: what is cut is what was
  sent, and if it is not, it is known which files allow that.
* **Intake, rendering.** Budgets shared by sections and pages, cuts at
  character boundaries, all-or-nothing answers. In the XML, flags that say
  which text counts, and indices into a list built before. Correct: the budgets,
  and the extracted text is the visible one.
* **Slide layout.** Integer scaling with saturation and rounding.
* **Image inspection.** A walk by lengths that count themselves, over data that
  may look like markers. Correct: the size is that of the frame header, or none.
* **Specifications and builders.** What is blank is decided in one crate for
  validation and in another for rendering. Correct: nothing accepted is lost.
* **Markdown conversion.** Order of slides, grids made from sparse cells, page
  breaks that are white space themselves. Correct: every word once, in place.

`PROJECT.json` lists the hazards line by line with the properties that cover
them.

## 2. Modules

    ByteBudget            bytes held, as a cardinality
      HeldOutputs         the promise of the store (abstract)
        OutputClient      the client, against the promise          MCOutputClient
          OutputClientProofs                                       (proofs)
      OutputStore         the store, threads, lock, clock samples  MCOutputStore
        OutputStoreProofs, OutputStoreImplements                   (proofs)
        DocumentsService  the served object, over the store        MCDocumentsService
          DocumentsServiceProofs                                   (proofs)
    ImageStream, SlideLayout
      DeckImages          a deck's images from the stream to the slides
    Synthesis             texts of a document or deck, validated and rendered
    ImageInspection       what an image file is
    PdfRender             rendering of pages
    Markdown              conversion of a document             MCMarkdown
      SingleCalls         the five above, a call each          MCSingleCalls
        SingleCallsProofs                                          (proofs)
    ZipAdmission, OfficeOrder, Intake
      XmlText             the walks over XML, over Intake
        XmlTextProofs                                              (proofs)
        Extraction        `extract` as a whole                 MCExtraction
          ExtractionProofs                                         (proofs)
    SequenceLemmas        sequences and sums, for all proofs       (lemmas)

The chain is: `DocumentsService` makes only steps of `OutputStore` (checked
and proved, `UsesStore`); `OutputStore` implements `HeldOutputs` (checked and
proved); `OutputClient` is composed with `HeldOutputs` and makes only its steps
(proved, `ClientUsesHeldOutputs`). So what is shown of the client holds against
everything the store can do, not against one implementation.

### OutputStore

`outputs` is `Inner::outputs`, `issued` every id `allocate_id` ever returned,
`call` where each thread is. An operation is two steps: `Begin*` makes the
checks that precede the lock and samples the clock, `Commit*` is everything
under the lock, the sweep included. Between them other threads may commit.

Time is relative. The code keeps instants; the model keeps their distance to
now, `idle` for `last_read` and `lag` for the sample of a call under way, so
that `now - last_read` is `idle - lag`, and `Tick` ages both. Distances past
`IdleTtl + MaxStall + 1` behave alike and are capped there, which makes the
state space finite without bounding time. `MaxStall` bounds how long a thread
may be held up between sample and lock; without a bound on it nothing at all
could be said about expiry. `unread` is history: the distance to the latest
sample a productive read was made with.

Ids are 128 random bits and taken to be fresh. `MaxIssued` bounds how many are
used in a behaviour.

### HeldOutputs

The promise without threads, locks or samples: `Hold`, `Read`, `Release`,
`Refuse`, each of which may drop what is unread for more than
`IdleTtl - Slack` and must drop what is unread for more than
`IdleTtl + Slack`. The refinement maps `Slack` to `MaxStall`.

### DocumentsService

A worker is a task. `task` says at which stage it is: the stages before
anything is held (`Plan`), `holding` (the insertion loop of `hold_images`),
`undoing` (the rollback), `accessing` (`ReadOutput`, `ReleaseOutput`),
`replied`. `given` and `lost` are history: ids that reached a caller, ids whose
reply did not. So is `produced`: what the work of a call has yielded, and under which
ids the store has held it, against which `WholeBatches` compares the reply. Blocking work is one step with any of its outcomes, a panic
among them. What a method can produce is in `Products`: only extracted text and
Markdown can exceed `MaxOutputBytes`, because the limits of the specifications
keep the others smaller.

### OutputClient

One step from one await to the next. `op` is the position of the future, `net`
the call it awaits, `pending` and `guard` the two `OutputReleaseGuard`s,
`cleanup` what spawned tasks still have to release. `GiveUp` fails a call while
it may still be executed (`stray`); `Cancel` drops the future, with or without
a runtime to spawn on. `stranded` is history: outputs the client cannot or will
not release. A digest is represented by the length it belongs to and a flag for
altered bytes, which is all a comparison can tell.

### ImageStream, SlideLayout, DeckImages

`ImageStream` is `resolve_presentation`: `declared` the `byte_len`s of the deck,
`sent` the files in the stream. Of a file only its length matters and its `heads`: the
places where a signature stands and how many bytes the header needs from there.
`image::inspect` looks no further, so a slice passes wherever a head is, at the start of
a file or at a picture embedded in one or appended to it; a file without a head at its
start is no image. `CutAsSent` says what this leaves: a deck that declares what it sends
is cut to the end if each file passes and the sum fits a word, and one that declares anything else for as many images is refused
unless it cuts a file at a picture inside. Such a deck can indeed be accepted with a
slice that joins the end of one file with the next, although the comment of
`resolve_presentation` names that as what the length check is to prevent; the run reaches
it. `SlideLayout` is
`place_single_column`, one action per image, with the saturating arithmetic of
the code. `DeckImages` puts them behind each other the way `generate_pptx`
does: resolve, validate the image counts, lay out slide by slide. The layout
divides the band by the number of images, so it depends on the limit that
validation set before; `Apart` is where that shows. Text limits are a free
choice to refuse there; `Synthesis` has them.

### Synthesis

`DocumentSpec::validate`, `validate_slide_text` and the builders of
`src/docx/mod.rs` and `src/pptx/mod.rs`. A text is its number of characters and
whether it is blank; a section or slide is a sequence of texts with their kinds.
`ValidateGroup` is one iteration of the validation loop with the running `total`, `BuildGroup` one of the builder's
loop. Text limits and totals are as in the code: only paragraphs and bullets of a
DOCX may be long, and only a DOCX has a total. A slide keeps all its captions,
although `src/pptx/mod.rs:21` says that blank entries are dropped "rather than
emitting an empty bullet marker": a blank caption becomes an empty bullet.

### ImageInspection

`image::inspect` behind `InspectImage`. A file is made from a `picture`
(segments, a frame header, what follows), cut off anywhere; `Sniff` looks at the
signature, `Marker` is one round of `jpeg_dimensions`. A cell is a byte or a whole
number, so a length may be off in the small, and a segment may contain what looks
like markers, as a thumbnail does. The files are enumerated, not their bytes.

### Markdown

`convert` for all formats. What the external parsers make of a file is the
`source`; which of it is text, where it goes and what becomes of its white space
is the model. `ReadPart` is an iteration of `read_parts` with the event walk of
`xml_text` folded over the part, `ReadSheet` one of the loop over sheets. Letters
are model values; a cut at `MAX_DECOMPRESSED_BYTES` is never inside a character.
Paragraphs do not nest (text boxes). As in the code, a line break or tab inside a
paragraph is no text, so the words it parts are joined; the reference in
`WordsInPlace` counts them as one word.

### SingleCalls

The calls that keep nothing for the next one, as a disjoint composition: a
behaviour is one of them, and the variables of the others stay at an idle value
(`...Idle`). The modules do not share state, and the code shares none between
these calls; the composition lets one run check them all.

### ZipAdmission, OfficeOrder, Intake, XmlText, Extraction

`ZipAdmission` is `zip_admission.rs` whole. An archive is a sequence of cells, a
signature being two of them and a number one, so that a buffer boundary can
still cut a signature in two; offsets and lengths are laid out as in the
format. `Preflight` is `directory` with the checks up to the loop over the
entries, `WalkEntry` an iteration of that loop, `Walked` its end. The library
is external and reads as it likes: `Seek` anywhere, `Read` any number of cells,
until it is done (`Index`); what it sees is `Seen`. Left out: the distance to
the end beyond which no footer is searched (65,557 bytes), and when a name is
valid UTF-8 (either is possible).

`OfficeOrder` is `office_order.rs`. `elements` is an action per tag; `parents` is
its stack; the callbacks of the two walks are `ListElement` and `RelateElement`.
`log` and `written` are history, the tags and relationships as they stood in the
documents. What quick_xml rejects, and the limits on names and attributes, are
the one action `MalformedXml`.

`Intake` is the loops over sections with `TextSink` and `read_part`. A character
has a width and may be blank; a parser writes any text in any pieces. `whole` is
history: what was written, kept or not.

`XmlText` is `xml_strings`, `xml_events` and `xml_text`. An action is a start tag,
an empty tag, a piece of text or an end tag; `phonetic`, `inText`, `inValue` and
`sharedCell` are the flags of the code, `current` the string or index that is
being read. The documents follow the schema `Children`: nothing is nested inside
`t` or `v`, where the code would lose the text after the nested element. `tab` is
also the name of a tab stop's definition, which the code reads as a tab; the model
has one `tab`. The reference is computed from the elements alone: each open
element has the text said in it so far, and `Content` says what it becomes when
it ends. `VisibleText` compares this with what the sink was offered.

`Extraction` composes the four. A document of one part, after shared strings or
not, may be read tag by tag; the parts of all others write any pieces. `walk`
says which of them is on; a hand-over
passes the number of parts on and resets the rest, so that their state spaces
add up instead of multiplying. The reader really stays open; what it shows
once the archive is indexed is explored before the hand-over.

### PdfRender

`ValidateRequest`, `Plan` per page with the pixel budget, `Raster` per page with the byte
budget. A page is a size; floating point scaling is a free choice around the
exact value; the number of bytes of a PNG is a free choice.

## 3. Runs

| run | bounds | shows |
|---|---|---|
| `store_safety` | 2 threads, 3 ids, TTL 2, stall 1, documents of 0 to 3 bytes, budget 3 | type, `Bounds`, `TimesAgree`, refinement of `HeldOutputs` |
| `store_live` | 2 threads, 2 ids, fairness | `Reclaimed` |
| `store_stale` | 2 threads, 2 ids | `DroppedOnlyUnread` fails, see Findings |
| `service_safety` | 2 tasks, 4 ids, batches of 2 pages of different sizes, documents of 1 to 3 bytes against 2, budget 4, TTL 1 | `OneOwner`, `WholeBatches`, `UnknownIsFinal`, `UsesStore` |
| `service_live` | 2 tasks, 3 ids, fairness | `Answered` |
| `service_retry` | as `service_live` | `RefusedMayRetry` fails, see Findings |
| `client_safety` | 2 operations, 3 ids, 2 pages | `Covered`, `LeavesByExpiry` |
| `client_faulty` | 1 operation, a misbehaving module, documents of 2 chunks, fairness | `ResultIsDocuments`, `Ends`, `GivenBack` |
| `single_calls` | see below | `CutAsSent`, `Apart`, `Undistorted`, `AcceptedIsRendered`, `TotalBounded`, `FrameFound`, `RastersWithinBudget`, `AnswersRequest`, `WordsInPlace` |
| `markdown_partial` | the documents of `single_calls` | `CompleteNotTruncated` fails, see Findings |
| `slide_aspect` | 1 image, extents that saturate | `AspectPreserved` fails, see Findings |
| `extraction` | 11,592 archives; manifests of 5 tags, 2 identifiers, 7 targets; 3 sections; XML of depth 4, 2 shared strings | `OneFooter`, `PayloadIntact`, `MembersChecked`, `ListedInOrder`, `OrderedFaithfully`, `WithinBudgets`, `TruncatedIsExact`, `ScansHaveNoText`, `VisibleText`, `SharedByIndex` |

`single_calls` has, per call: 3 images on 2 slides with words of 3 bits and 5
sizes in pixels, against streams of up to 3 files out of 4 (an image, one over the limit, one
with a picture at its end that needs a byte of the next file, and one that does not begin as an
image but has one inside); 2 sections or slides out of about 20, with texts empty, blank,
short and too long; JPEGs of up to 2 segments out of 5 before a frame header, cut
off anywhere, and PNGs; requests of up to 4 pages of 4 sizes; PDFs of up to 3
pages, DOCX and PPTX with damaged and malformed parts, slides 10 and 2 in any
order, and workbooks of up to 2 sheets with gaps.

Why these bounds are enough to be of interest. Two threads are the fewest for
which a sample can be older than a commit, and the store has no state that
needs a third. Three ids let the store be full at both limits and lose one
before it takes the next. A batch of two has one page to roll back when the
second is refused, and two sizes to tell the pages apart; with four ids two batches meet. For the client two pages are
the fewest with one that waits while another is read, and two operations the
fewest for which a late release could hit somebody else's output. The archives
include signatures in payloads, names, comments and across the first cell of the
directory, with and without a ZIP64 record, with counts and sizes that are one
off. Manifests of five tags can hold a container with a nested and a
self-closing item. XML of depth four holds a pronunciation inside another one and
a cell in a paragraph. A thumbnail in a segment, and fill bytes before and at the
end of one, are what a marker walk can go wrong on. The names of slides 10 and 2
sort the other way round than their numbers.

Bounds that are only there to make the state space finite: `MaxIssued`, the cap
on ages in `OutputStore`, `MaxImages`, `MaxSlides`, `ReadCells`, `MaxElements`,
`Piece`, `XmlPiece`, `SectionChars`, `ElementChars`, `Sections`, `MaxBatch`, the
pictures, texts and documents of `MCSingleCalls` and `MCMarkdown`, and the sets of
sizes, offsets and lengths that are enumerated. `DetailBytes` is what is
decompressed of a part that is read tag by tag. Symmetry over threads, operations and
ids is used in safety runs only. `CHECK_DEADLOCK FALSE` stands where one request
is followed to its answer and nothing comes after it (`single_calls`,
`markdown_partial`, `slide_aspect`, `extraction`); the store, the service and the
client never stop.

## 4. Fairness

* Store: a thread that has sampled the clock gets the lock eventually, because
  every critical section is short and never awaits; time passes. Strong
  fairness of `Tick` is needed as waiting threads hold it back (`MaxStall`).
  Nobody is obliged to call: `Reclaimed` is conditional on calls reaching the
  store, because the sweep runs in operations and nowhere else. An output that
  is abandoned on a module nobody calls any more stays held; the code accepts
  this, and the bounds keep it harmless.
* Service: weak fairness of what a task does by itself (`Serve`). Streams time
  out on the bus and blocking work ends, so a task is never stuck; accepting
  calls, reading and releasing are the caller's and are not fair.
* Client: weak fairness of polling (`Continue`), of the module's answers
  (`Serve`, whose absence the bus turns into a failure), and of spawned tasks
  (`Tidy`). Cancellation, loss and late execution may happen and need not.

## 5. Findings

* `DroppedOnlyUnread` (`store_stale`). `read_chunk` samples the clock before it
  locks and assigns the sample to `last_read`. A read that gets the lock late
  moves `last_read` back behind a read that overtook it, and the output may be
  dropped although that later read is recent. `TimesAgree` bounds the error by
  how long a thread is held up; the promise in `HeldOutputs` carries it as
  `Slack`.
* `RefusedMayRetry` (`service_retry`). A document over the limit per output is
  refused with `OutputRefused`, of which the specification says that the same
  request may succeed later. It never can.
* `AspectPreserved` (`slide_aspect`). Each side saturates on its own when pixels
  are converted to EMU; an image with one very long side is distorted.
  `Undistorted` shows that nothing else distorts one.
* `CompleteNotTruncated` (`markdown_partial`). The documentation of `convert` calls
  the result complete rather than silently truncated. A part or sheet that cannot
  be read is skipped, a malformed part is kept up to its fault, and the answer is
  `Ok` all the same; comments in `ooxml.rs` say that this is meant, so it is the
  promise that goes too far. `WordsInPlace` shows that an intact document is
  complete.

## 6. Proofs

Proved with TLAPS, for every value of the constants that the `ASSUME` of each module
admits: any number of threads, tasks, operations and ids (they need not even be
finite), any limits, any archive, document, text, image and page of the right type.

| theorem | says |
|---|---|
| `OutputStoreProofs!TypeCorrect` | `Spec => []TypeOK` |
| `OutputStoreProofs!AlwaysWithinBounds` | `Spec => []Bounds` |
| `OutputStoreProofs!TimesAlwaysAgree` | `Spec => []TimesAgree` |
| `OutputStoreImplements!Implements` | `Spec => ImplementsHeldOutputs` |
| `DocumentsServiceProofs!TasksTyped` | `ServiceSpec => []TaskTypeOK` |
| `DocumentsServiceProofs!NothingLeftBehind` | `ServiceSpec => []OneOwner` |
| `DocumentsServiceProofs!BatchesAreWhole` | `ServiceSpec => []WholeBatches` |
| `DocumentsServiceProofs!UnknownStaysUnknown` | `ServiceSpec => []UnknownIsFinal` |
| `DocumentsServiceProofs!ServiceUsesStore` | `ServiceSpec => UsesStore` |
| `DocumentsServiceProofs!ServiceWithinBounds` | `ServiceSpec => []Bounds` |
| `DocumentsServiceProofs!ServiceKeepsPromise` | `ServiceSpec => ImplementsHeldOutputs` |
| `OutputClientProofs!ClientTyped` | `ClientSpec => []ClientTypeOK` |
| `OutputClientProofs!EverythingCovered` | `ClientSpec => []Covered` |
| `OutputClientProofs!OkIsWhole` | `ClientSpec => []ResultIsDocuments` |
| `OutputClientProofs!OnlyExpiryTakesUnread` | `ClientSpec => LeavesByExpiry` |
| `OutputClientProofs!ClientUsesHeldOutputs` | `ClientSpec => HeldSpec` |
| `ExtractionProofs!OneFooterShown` | `ExtractSpec => []OneFooter` |
| `ExtractionProofs!PayloadShown` | `ExtractSpec => []PayloadIntact` |
| `ExtractionProofs!DirectoryWalked` | `ExtractSpec => []MembersChecked` |
| `ExtractionProofs!SectionsFollowReferences` | `ExtractSpec => []OrderedFaithfully` |
| `ExtractionProofs!BudgetsHold` | `ExtractSpec => []WithinBudgets` |
| `ExtractionProofs!TruncationIsTold` | `ExtractSpec => []TruncatedIsExact` |
| `ExtractionProofs!ScansAreBlank` | `ExtractSpec => []ScansHaveNoText` |
| `ExtractionProofs!ManifestListed` | `ExtractSpec => []ListedInOrder` |
| `ExtractionProofs!TextIsVisible` | `ExtractSpec => []VisibleText` |
| `ExtractionProofs!StringsByIndex` | `ExtractSpec => []SharedByIndex` |
| `SingleCallsProofs!ImagesCutAsSent` | `CallSpec => []CutAsSent` |
| `SingleCallsProofs!ImagesAreApart` | `CallSpec => []Apart` |
| `SingleCallsProofs!ImagesKeepTheirShape` | `CallSpec => []Undistorted` |
| `SingleCallsProofs!TextsAreBounded` | `CallSpec => []TotalBounded` |
| `SingleCallsProofs!AcceptedTextsRendered` | `CallSpec => []AcceptedIsRendered` |
| `SingleCallsProofs!FrameIsFound` | `CallSpec => []FrameFound` |
| `SingleCallsProofs!RasteringIsBounded` | `CallSpec => []RastersWithinBudget` |
| `SingleCallsProofs!RenderingAnswers` | `CallSpec => []AnswersRequest` |

### The store

`TypeOK` is inductive as it stands. Its part about the store is named
`OutputsOK`, because `WithOutput` and `Without` preserve it whatever they insert
or drop. The type of a waiting call carries two facts that the later proofs
need: its sample is at most `MaxStall` old, and an insertion that waits has
passed the limit per output.

`Bounds` is not easy to carry through a sum: the bytes of a store are a
cardinality in the model (`ByteBudget`: the pairs of an id and a position below
its size), so that no recursive sum has to be reasoned about. the first lemmas of
`OutputStoreProofs` show that a part of a store has no more bytes than the whole, and that one
more output adds its size. The inductive invariant is `WithinBudget(outputs)`
together with `TypeOK`; only `CommitInsert` can disturb it, and its guard is
evaluated on the very store it inserts into.

`TimesAgree` is inductive with `TypeOK`. Its body for one output is `InStep`; a
commit stamps an output with a sample at most `MaxStall` old, and a tick ages
both distances alike, also at the cap.

The refinement maps an output to its size and `unread`, and what was issued and
is no longer held to `retired`. A `Begin`, a `Finish` and a refusal before the
lock stutter. A commit sweeps by `idle - lag`, the promise speaks of `unread`:
`TimesAgree` puts the two within `MaxStall`, which is the slack, and so what the
code drops may be dropped, and what must be dropped is (`SweepIsExpiry`).

### The service

`OneOwner` says who owns what is held; by itself it is not inductive, because a task
and the store call it waits for are separate state. `ServiceInv` adds `InOrder`,
which ties them: a task that holds products waits for an insertion, and an id that
comes back from it is not among its pages; one that undoes waits for the release of
the first page left, and when that release has returned the page is gone; an
output of which `UnknownOutput` was said is gone. What is gone stays gone since the
store issues every id once. A step of a task changes what is in its hands, at
most one id at a time, and a sweep in another task's commit can only take pages
away; these two cases carry the proof. `UnknownIsFinal` is read off the invariant.

`WholeBatches` needs more: `BatchInv`, on top of `ServiceInv`. `BatchOK` ties the history
to the loop: while a task holds its products, what it has held are its pages, each of the
size that the work yielded, and what is left to hold is the rest of the batch, the
insertion under way being the next of it; while it undoes, what is still held of the batch
is among the pages left. A step of another task keeps this because the store never
changes the size of what it holds and never holds anything under an id it has issued
before (`Preserved`).

`ServiceUsesStore` shows that every step is one of `OutputStore` or leaves it alone,
so the theorems of the store hold of the service.

### The client

`Covered` counts who answers for an output: a guard, a spawned release, a call
under way, or history. `ClientInv` adds what each position of an operation
implies (`OpOK`): while handles are collected, the guard of `collect` names the
one being read, and `pending` names exactly those after it; a release has
returned only when its output is gone, or the client gave it up. `Spares` says
that what may still be executed late, or is left to spawned tasks, never names a
document that is yet to be read: this is what makes `LeavesByExpiry` an
invariant of steps. `ResultIsDocuments` is part of `OpOK`, page by page, since length
and digest are compared before a page is kept.

### Extraction

One invariant per walk; `ExtractInv` is their conjunction and that the order waits
during admission.

* `ZipInv`. The directory that was accepted starts inside the archive and nothing
  behind its start looks like another footer; the walk over its entries stays inside
  it, with as many names as entries, all different; and what the library has got is
  `Seen` of each cell, wherever it sought and however its reads were cut. `OneFooter`
  needs a case for two cells on either side of the start of the directory.
* `OrderInv`. What is written has one relationship per identifier, so `targets` is a
  function of it, and `ordered[i]` is the member that `ids[i]` leads to.
* `ManifestInv`. `log` has the tags of the manifest so far, `parents` the names the
  walk has pushed. `Levels` ties them: on every level there is an element that was the
  last to open there, and its name is the one at that place of the stack. The element
  around a tag is the last of the log that opened one level above (`AroundNext`), which
  is what `Parent` reads off the end of the stack; so a listed item is appended to `ids`
  exactly when it becomes the next one of `Lists(log)`. A closing tag leaves all levels
  below alone (`LevelsGrow`).
* `IntakeInv`. A sink keeps a beginning of what was written to it, within its limit, and
  its flag says exactly whether that is less than the whole; `remaining` and the bytes
  of the sections add up to the budget; `truncated` collects the flags and what
  sections were never opened.
* `XmlInv`, which says what holds of a document in the walk it is in. `TagsOK`: what was
  offered to the sink is what the elements that are over say, and then what the open ones
  have said so far (`Said`). For this the flags have to be those of the innermost element,
  although a start tag sets them and an end tag of another element leaves them alone: `Nested`
  says that elements stand in one another as the schema allows, so that no element
  follows inside `t` or `v`; `Muted`, that `phonetic` is the depth of the outermost `rPh`,
  whatever others are in it; `Celled`, that `sharedCell` is that of the one cell that can
  be open. `PoolOK` is the same of shared strings: those that were collected are the
  text of the `si` that are over, in order, empty ones too, so an index means the string
  it counts to.

`SchemaAssumption` is what these two need of Office documents, and it is needed: with a
cell in a cell, or an element in `t`, the code says something else than the elements.
`Children` of `MCExtraction` satisfies it; `Inside`, which it speaks of, is the closure of
`Children`, defined as an intersection so that no recursion is involved.

### Single calls

* `StreamInv`. Each image that was cut out runs from one sum of declared lengths to the
  next, and the last sum is that of the sent lengths. If every cut is also the start of a
  file, `SameCuts` concludes that with as many images on both sides the lengths are
  the same: no length is zero, so an induction from the front shows that no declared
  cut is before the sent one of its number, and one from the back that none is after it.
  For a deck that declares what was sent, the cuts are those of the files, so each refusal
  finds a file that does not pass, or too many bytes (`UnfitToCut`).
* `LayoutInv`. The i-th image is placed by `Placed` at `Top(i)`. `SlotsFit` bounds the
  slots of all images that validation admits (`DeckInv`) by the band, so that nothing
  saturates; `Rounding` bounds the error of `DivRound`, and `FitsAlike` and
  `AlikeInPixels` carry it from EMU to pixels. The geometry is any that leaves every image a
  slot of some height (`LayoutAssumption`), as the code's numbers do.
* `SynthesisInv`. The total is the number of characters of the head and of all groups,
  and within the limit once a document is built.
* `RenderedOK`. Each section or slide that was accepted is not blank, and `rendered` is the
  head and what `Built` makes of every group so far. What is left is about `Built` alone:
  it has every text that is not blank, once and in its order. Builder and reference both
  select texts from a sequence, by kind and by whether they are blank, some of them twice;
  all of these are `Among(texts, chosen)`, and a few laws of it
  (`AmongJoins`, `AmongTwice`, `AmongApart`, `AmongSame`) turn one into the other. The order
  of kinds inside a slide is that of the builder (`InTurn`).
* `InspectInv`. The walk is always between segments (`AtSegment`): the picture is some
  cells up to the position, segments that are still to come, and what stands behind
  them. `SegmentPassed` shows that a round either moves to the end of the next segment, whatever
  it contains, or finds it cut off, and then the frame header is not in the file either;
  `FrameMeasured` and `StopRefuses` are what becomes of the frame header, and of an end or scan
  before it. `PictureAssumption` says what `Picture` means: a JPEG has a list of segments,
  each with the length it claims, and four numbers of its frame header that may be anything.
* `RenderInv`. What is charged is the sum over the planned, then the rasterized pages;
  the plans and the output follow the request.

Sums over sequences are folds in the models, and the library's induction theorems
cannot be instantiated. `SequenceLemmas` therefore has a sum of its own
(`Total`), as the value of any table of partial sums, which exists by an induction
over finite sets (`SetInduction`) that needs no operator as a parameter; `...IsTotal`
shows of each fold that it computes it. In the same way `FlattenSeq` is the last value of a
chain of concatenations (`IsChain`), which gives `FlattenGrows`, `FlattenFirst` and
`FlattenTyped`; and `SequenceInduction` reaches all sequences by appending to shorter ones, with
a set instead of a predicate.

### Model-checked only

* Liveness (`Reclaimed`, `Answered`, `Ends`, `GivenBack`), which is out of the prover's
  reach, as is ENABLED.
* `WordsInPlace`. Both sides sort (`SortSeq`) and select (`SelectSeq`), the grid against
  the sorted cells of a sheet: the operators take an operator as a parameter, and the
  prover expands neither. What `Normalize` keeps of a text is an induction over three
  nested folds besides.
* The findings, which are counterexamples.

## 7. Not modelled

* What external libraries do: inflating, the XML lexer and its encodings, PDF text
  and rasterizing, the writers. `src/pdf/mod.rs` is a check of size and
  signature around one such call and has no module.
* The checks of `extract`'s arguments and what a PDF is refused for before it has a
  section (`src/intake/mod.rs`): each ends the call before anything is shared or counted.
* Names and attributes of XML that no walk looks at, and name limits.
* `validate_presentation_images` and `check_image`, which look again at images the
  service has just made from inspected bytes.
* `live_count` and the `Debug` output of the store, which read the map without a
  sweep: they serve diagnosis, and nothing is decided by them. That a batch which
  is rolled back later holds budget meanwhile, and another task may be refused,
  is allowed by the contract and part of `DocumentsService`.
* The bus, except as the service and the client meet it.

## 8. Plan

What the code decides is modelled, and all safety properties that the runs check are
proved but one. What is left:

1. `WordsInPlace` for PDF, which needs no sorting: that `Normalize` keeps the words of a
   page, with `Words` and `Split` written so that the prover can expand them.
2. Slides in the order of their numbers: a sort defined by its result instead of `SortSeq`.
3. `validate_presentation_images`, if it ever looks at anything but what the service made.
