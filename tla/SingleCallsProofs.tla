-------------------------- MODULE SingleCallsProofs -------------------------
(***************************************************************************)
(* What the calls of SingleCalls promise, proved for every input and every *)
(* limit.                                                                  *)
(***************************************************************************)
EXTENDS SingleCalls, SequenceLemmas

(***************************************************************************)
(* RenderPdfPages.                                                         *)
(***************************************************************************)

\* The pixels of some pages are a sum.
LEMMA AreaIsTotal ==
  ASSUME NEW S, NEW s \in Seq(S)
  PROVE  Area(s) = Total([i \in 1 .. Len(s) |-> s[i].w * s[i].h], Len(s))
<1> DEFINE n == Len(s)
           w == [i \in 1 .. n |-> s[i].w * s[i].h]
           Step(f, r) == IF r = {} THEN 0 ELSE f[r \ {Max(r)}] + s[Max(r)].w * s[Max(r)].h
<1>1. n \in Nat /\ n <= n /\ DOMAIN s = 1 .. n
  OBVIOUS
<1>2. \A f : IsTable(f, w, n) <=> f = [r \in SUBSET (DOMAIN s) |-> Step(f, r)]
  BY <1>1, MaxInside DEF IsTable
<1>3. PICK f : f = [r \in SUBSET (DOMAIN s) |-> Step(f, r)] /\ Area(s) = f[DOMAIN s]
  <2>1. \E f : f = [r \in SUBSET (DOMAIN s) |-> Step(f, r)]
    BY <1>1, <1>2, TableExists
  <2>2. QED
    BY <2>1 DEF Area, FoldLeft, MapThenFoldSet
<1>4. IsTable(f, w, n)
  <2> HIDE DEF n, w
  <2>1. QED
    BY <1>2, <1>3
<1>5. f[1 .. n] = Total(w, n)
  <2> HIDE DEF n, w
  <2>1. QED
    BY <1>1, <1>4, TotalOfTable
<1>6. QED
  BY <1>1, <1>3, <1>5

\* The bytes of the pages that are kept.
OutputBytes(rasters) == FoldLeft(LAMBDA n, p : n + p.bytes, 0, rasters)

\* They are a sum too.
LEMMA OutputBytesIsTotal ==
  ASSUME NEW S, NEW s \in Seq(S)
  PROVE  OutputBytes(s) = Total([i \in 1 .. Len(s) |-> s[i].bytes], Len(s))
<1> DEFINE n == Len(s)
           w == [i \in 1 .. n |-> s[i].bytes]
           Step(f, r) == IF r = {} THEN 0 ELSE f[r \ {Max(r)}] + s[Max(r)].bytes
<1>1. n \in Nat /\ n <= n /\ DOMAIN s = 1 .. n
  OBVIOUS
<1>2. \A f : IsTable(f, w, n) <=> f = [r \in SUBSET (DOMAIN s) |-> Step(f, r)]
  BY <1>1, MaxInside DEF IsTable
<1>3. PICK f : f = [r \in SUBSET (DOMAIN s) |-> Step(f, r)] /\ OutputBytes(s) = f[DOMAIN s]
  <2>1. \E f : f = [r \in SUBSET (DOMAIN s) |-> Step(f, r)]
    BY <1>1, <1>2, TableExists
  <2>2. QED
    BY <2>1 DEF OutputBytes, FoldLeft, MapThenFoldSet
<1>4. IsTable(f, w, n)
  <2> HIDE DEF n, w
  <2>1. QED
    BY <1>2, <1>3
<1>5. f[1 .. n] = Total(w, n)
  <2> HIDE DEF n, w
  <2>1. QED
    BY <1>1, <1>4, TotalOfTable
<1>6. QED
  BY <1>1, <1>3, <1>5

\* No pages have no pixels and no bytes; one more page adds its own.
LEMMA PagesAddUp ==
  ASSUME NEW S, NEW s \in Seq(S), NEW p \in S, NEW T, NEW t \in Seq(T), NEW q \in T
  PROVE  /\ Area(<<>>) = 0 /\ OutputBytes(<<>>) = 0
         /\ Area(Append(s, p)) = Area(s) + p.w * p.h
         /\ OutputBytes(Append(t, q)) = OutputBytes(t) + q.bytes
<1>1. Area(<<>>) = 0 /\ OutputBytes(<<>>) = 0
  <2>1. <<>> \in Seq(S) /\ Len(<<>>) = 0
    OBVIOUS
  <2>2. \A w : Total(w, 0) = 0
    BY TotalSteps
  <2>3. Area(<<>>) = 0
    BY <2>1, <2>2, AreaIsTotal
  <2>4. OutputBytes(<<>>) = 0
    BY <2>1, <2>2, OutputBytesIsTotal
  <2>5. QED
    BY <2>3, <2>4
<1>2. Area(Append(s, p)) = Area(s) + p.w * p.h
  <2> DEFINE W(x) == [i \in 1 .. Len(x) |-> x[i].w * x[i].h]
             n == Len(s)
             longer == Append(s, p)
  <2>1. \A x \in Seq(S) : Area(x) = Total(W(x), Len(x))
    BY AreaIsTotal
  <2>2. /\ n \in Nat /\ longer \in Seq(S) /\ Len(longer) = n + 1 /\ longer[n + 1] = p
        /\ \A i \in 1 .. n : longer[i] = s[i]
    OBVIOUS
  <2>3. W(longer)[n + 1] = p.w * p.h /\ \A i \in 1 .. n : W(longer)[i] = W(s)[i]
    BY <2>2
  <2> HIDE DEF W, longer
  <2>4. Area(longer) = Total(W(longer), n) + W(longer)[n + 1]
    BY <2>1, <2>2, TotalSteps
  <2>5. Total(W(longer), n) = Total(W(s), n)
    BY <2>2, <2>3, TotalSame
  <2>6. QED
    BY <2>1, <2>3, <2>4, <2>5 DEF longer
<1>3. OutputBytes(Append(t, q)) = OutputBytes(t) + q.bytes
  <2> DEFINE W(x) == [i \in 1 .. Len(x) |-> x[i].bytes]
             n == Len(t)
             longer == Append(t, q)
  <2>1. \A x \in Seq(T) : OutputBytes(x) = Total(W(x), Len(x))
    BY OutputBytesIsTotal
  <2>2. /\ n \in Nat /\ longer \in Seq(T) /\ Len(longer) = n + 1 /\ longer[n + 1] = q
        /\ \A i \in 1 .. n : longer[i] = t[i]
    OBVIOUS
  <2>3. W(longer)[n + 1] = q.bytes /\ \A i \in 1 .. n : W(longer)[i] = W(t)[i]
    BY <2>2
  <2> HIDE DEF W, longer
  <2>4. OutputBytes(longer) = Total(W(longer), n) + W(longer)[n + 1]
    BY <2>1, <2>2, TotalSteps
  <2>5. Total(W(longer), n) = Total(W(t), n)
    BY <2>2, <2>3, TotalSame
  <2>6. QED
    BY <2>1, <2>3, <2>4, <2>5 DEF longer
<1>4. QED
  BY <1>1, <1>2, <1>3

Side == 1 .. MaxDimension
PlanType == [page : Nat, w : Side, h : Side]
RasterType == [page : Nat, w : Side, h : Side, bytes : Nat]

\* What pages take is a number.
LEMMA AreaTyped ==
  /\ \A s \in Seq(PlanType) : Area(s) \in Nat
  /\ \A s \in Seq(RasterType) : OutputBytes(s) \in Nat
<1>1. ASSUME NEW s \in Seq(PlanType) PROVE Area(s) \in Nat
  <2> DEFINE w == [i \in 1 .. Len(s) |-> s[i].w * s[i].h]
  <2>1. \A i \in 1 .. Len(s) : s[i].w \in Nat /\ s[i].h \in Nat
    <3>1. \A i \in 1 .. Len(s) : s[i] \in PlanType
      OBVIOUS
    <3>2. \A x \in PlanType : x.w \in Nat /\ x.h \in Nat
      BY RenderAssumption DEF PlanType, Side
    <3>3. QED
      BY <3>1, <3>2
  <2>2. \A i \in 1 .. Len(s) : w[i] \in Nat
    BY <2>1
  <2> HIDE DEF w
  <2>3. Len(s) \in Nat /\ Total(w, Len(s)) \in Nat
    BY <2>2, TotalTyped
  <2>4. QED
    BY <2>3, AreaIsTotal DEF w
<1>2. ASSUME NEW s \in Seq(RasterType) PROVE OutputBytes(s) \in Nat
  <2> DEFINE w == [i \in 1 .. Len(s) |-> s[i].bytes]
  <2>1. \A i \in 1 .. Len(s) : w[i] \in Nat
    <3>1. \A i \in 1 .. Len(s) : s[i] \in RasterType
      OBVIOUS
    <3>2. \A x \in RasterType : x.bytes \in Nat
      BY DEF RasterType
    <3>3. QED
      BY <3>1, <3>2
  <2> HIDE DEF w
  <2>2. Len(s) \in Nat /\ Total(w, Len(s)) \in Nat
    BY <2>1, TotalTyped
  <2>3. QED
    BY <2>2, OutputBytesIsTotal DEF w
<1>3. QED
  BY <1>1, <1>2

\* The request has been found valid, and how much of it is planned and rasterized.
RequestOK ==
  /\ pages \in Seq(Nat) /\ count \in Nat
  /\ rendering \in {"plan", "raster", "Ok"} =>
       IsInjective(pages) /\ \A i \in 1 .. Len(pages) : pages[i] # 0
  /\ rendering = "validate" => plans = <<>> /\ pixels = 0
  /\ rendering \in {"validate", "plan"} => output = <<>> /\ bytes = 0
  /\ rendering \in {"raster", "Ok"} => Len(plans) = Len(pages)
  /\ rendering = "Ok" => Len(output) = Len(plans)

\* The plans are those of the first pages of the request, the rasters those of the
\* first plans.
PlansOK ==
  /\ plans \in Seq(PlanType) /\ Len(plans) <= Len(pages)
  /\ \A i \in 1 .. Len(plans) : plans[i].page = pages[i] /\ pages[i] \in 1 .. count
  /\ output \in Seq(RasterType) /\ Len(output) <= Len(plans)
  /\ \A i \in 1 .. Len(output) : output[i].page = pages[i]

\* What was charged to the budgets is what the pages take.
ChargedOK ==
  /\ rendering \in {"plan", "raster"} => pixels = Area(plans) /\ Area(plans) <= MaxTotalPixels
  /\ rendering = "raster" => bytes = OutputBytes(output) /\ OutputBytes(output) <= MaxOutputBytes

RenderInv == RequestOK /\ PlansOK /\ ChargedOK

\* Whatever the scaling rounds to, both sides are within MaxDimension.
LEMMA DimensionsInside ==
  ASSUME NEW s \in PageSize, NEW d \in Dimensions(s)
  PROVE  d[1] \in Side /\ d[2] \in Side
<1> DEFINE longest == IF s.w > s.h THEN s.w ELSE s.h
           side(n) == IF n = longest THEN {MaxDimension} ELSE Scaled(n, longest)
<1>1. MaxDimension \in Nat \ {0} /\ s.w \in Nat \ {0} /\ s.h \in Nat \ {0}
  BY RenderAssumption
<1>2. \A n \in Int : ToBounds(n) \in Side
  BY <1>1 DEF ToBounds, Side
<1>3. \A n \in Nat : side(n) \subseteq Side
  <2>1. \A n \in Nat : Scaled(n, longest) \subseteq Side
    <3>1. ASSUME NEW n \in Nat, NEW x \in -1 .. 1
          PROVE  (n * MaxDimension + longest - 1) \div longest + x \in Int
      <4>1. longest \in Nat \ {0} /\ n * MaxDimension \in Nat
        BY <1>1
      <4> HIDE DEF longest
      <4>2. (n * MaxDimension + longest - 1) \div longest \in Int
        BY <4>1
      <4>3. QED
        BY <4>2
    <3> HIDE DEF longest
    <3>2. QED
      BY <1>2, <3>1 DEF Scaled
  <2> HIDE DEF longest
  <2>2. QED
    BY <1>1, <2>1 DEF Side
<1>4. d \in side(s.w) \X side(s.h)
  BY DEF Dimensions
<1> HIDE DEF side
<1>5. QED
  BY <1>1, <1>3, <1>4

\* A request is taken up, or none is made.
LEMMA RenderInitially ==
  RenderInit \/ RenderIdle => RenderInv
<1>1. RenderInit => pages \in Seq(Nat) /\ count \in Nat
  <2>1. PageLimit + 1 \in Nat /\ PageNumber \subseteq Nat /\ PageCount \subseteq Nat
    BY RenderAssumption
  <2>2. ASSUME RenderInit PROVE pages \in Seq(PageNumber)
    BY <2>1, <2>2, BoundedSequence DEF RenderInit
  <2>3. ASSUME RenderInit PROVE pages \in Seq(Nat)
    BY <2>1, <2>2, <2>3, LargerSet
  <2>4. QED
    BY <2>1, <2>3 DEF RenderInit
<1>2. RenderIdle => pages \in Seq(Nat) /\ count \in Nat
  BY DEF RenderIdle
<1>3. SUFFICES ASSUME RenderInit \/ RenderIdle PROVE RenderInv
  OBVIOUS
<1>4. /\ pages \in Seq(Nat) /\ count \in Nat /\ rendering \in {"validate", "idle"}
      /\ plans = <<>> /\ pixels = 0 /\ output = <<>> /\ bytes = 0
  BY <1>1, <1>2, <1>3 DEF RenderInit, RenderIdle
<1>5. /\ <<>> \in Seq(PlanType) /\ <<>> \in Seq(RasterType) /\ Len(<<>>) = 0 /\ Len(pages) \in Nat
  BY <1>4
<1>6. QED
  BY <1>4, <1>5 DEF RenderInv, RequestOK, PlansOK, ChargedOK

\* None of this depends on other calls.
LEMMA RenderStutters ==
  RenderInv /\ UNCHANGED renderVars => RenderInv'
BY DEF renderVars, RenderInv, RequestOK, PlansOK, ChargedOK

\* Valid means that no page is named twice.
LEMMA ValidateRequestKeeps ==
  RenderInv /\ ValidateRequest => RenderInv'
<1>1. SUFFICES ASSUME RenderInv, ValidateRequest PROVE RenderInv'
  OBVIOUS
<1>2. /\ pages \in Seq(Nat) /\ plans = <<>> /\ pixels = 0 /\ output = <<>> /\ bytes = 0
      /\ rendering = "validate" /\ rendering' \in {"plan", "InvalidInput"}
      /\ UNCHANGED <<pages, count, plans, pixels, output, bytes>>
  BY <1>1 DEF RenderInv, RequestOK, ValidateRequest, Ends
<1>3. rendering' = "plan" => IsInjective(pages) /\ \A i \in 1 .. Len(pages) : pages[i] # 0
  <2>1. ASSUME Valid, NEW j \in 1 .. Len(pages), NEW i \in 1 .. j - 1, pages[i] = pages[j]
        PROVE  FALSE
    <3>1. i \in 1 .. Len(SubSeq(pages, 1, j - 1)) /\ SubSeq(pages, 1, j - 1)[i] = pages[i]
      BY <1>2, <2>1
    <3>2. QED
      BY <2>1, <3>1 DEF Valid, Contains
  <2>2. ASSUME Valid, NEW i \in 1 .. Len(pages), NEW j \in 1 .. Len(pages), pages[i] = pages[j]
        PROVE  i = j
    <3>1. i \in 1 .. j - 1 \/ j \in 1 .. i - 1 \/ i = j
      OBVIOUS
    <3>2. QED
      BY <2>1, <2>2, <3>1
  <2>3. Valid => IsInjective(pages)
    BY <1>2, <2>2 DEF IsInjective
  <2>4. QED
    BY <1>1, <2>3 DEF ValidateRequest, Ends, Valid
<1>4. Area(<<>>) = 0
  <2>1. <<>> \in Seq({0})
    OBVIOUS
  <2>2. QED
    BY <2>1, PagesAddUp
<1>5. QED
  BY <1>1, <1>2, <1>3, <1>4, RenderAssumption DEF RenderInv, RequestOK, PlansOK, ChargedOK

\* One more page is planned, within what is left of the pixels.
LEMMA PlanKeeps ==
  ASSUME RenderInv, NEW size \in PageSize, Plan(size)
  PROVE  RenderInv'
<1>1. PICK d \in Dimensions(size) :
        /\ pixels' = pixels + d[1] * d[2]
        /\ IF pixels' > MaxTotalPixels
           THEN Ends("InvalidInput") /\ UNCHANGED plans
           ELSE /\ plans' = Append(plans, [page |-> pages[Len(plans) + 1], w |-> d[1], h |-> d[2]])
                /\ UNCHANGED rendering
  BY DEF Plan
<1> DEFINE plan == [page |-> pages[Len(plans) + 1], w |-> d[1], h |-> d[2]]
<1>2. /\ rendering = "plan" /\ Len(plans) < Len(pages) /\ pages[Len(plans) + 1] <= count
      /\ UNCHANGED <<pages, count, output, bytes>>
  BY DEF Plan
<1>3. /\ pages \in Seq(Nat) /\ count \in Nat /\ plans \in Seq(PlanType) /\ IsInjective(pages)
      /\ \A i \in 1 .. Len(pages) : pages[i] # 0
      /\ pixels = Area(plans) /\ output = <<>> /\ bytes = 0
  BY <1>2 DEF RenderInv, RequestOK, PlansOK, ChargedOK
<1>4. CASE pixels' > MaxTotalPixels
  BY <1>1, <1>2, <1>3, <1>4 DEF Ends, RenderInv, RequestOK, PlansOK, ChargedOK
<1>5. CASE ~ pixels' > MaxTotalPixels
  <2>1. plan \in PlanType /\ plan.w * plan.h = d[1] * d[2] /\ pages[Len(plans) + 1] \in 1 .. count
    <3>1. pages[Len(plans) + 1] \in Nat /\ Len(plans) + 1 \in 1 .. Len(pages)
      BY <1>2, <1>3
    <3>2. d[1] \in Side /\ d[2] \in Side
      BY DimensionsInside
    <3>3. pages[Len(plans) + 1] \in 1 .. count
      BY <1>2, <1>3, <3>1
    <3>4. QED
      BY <3>1, <3>2, <3>3 DEF PlanType
  <2> HIDE DEF plan
  <2>2. /\ plans' = Append(plans, plan) /\ rendering' = rendering /\ pixels' <= MaxTotalPixels
        /\ pixels' = Area(plans')
    <3>1. plans' = Append(plans, plan) /\ rendering' = rendering /\ ~ pixels' > MaxTotalPixels
      BY <1>1, <1>5 DEF plan
    <3>2. Area(Append(plans, plan)) = Area(plans) + plan.w * plan.h
      BY <1>3, <2>1, PagesAddUp
    <3>3. Append(plans, plan) \in Seq(PlanType)
      BY <1>3, <2>1
    <3>4. Area(plans') \in Nat /\ MaxTotalPixels \in Nat
      BY <3>1, <3>3, AreaTyped, RenderAssumption
    <3>5. pixels' = Area(plans')
      BY <1>1, <1>3, <2>1, <3>1, <3>2
    <3>6. QED
      BY <3>1, <3>4, <3>5
  <2>3. PlansOK'
    <3>1. /\ plans' \in Seq(PlanType) /\ Len(plans') = Len(plans) + 1
          /\ plans'[Len(plans) + 1] = plan /\ \A i \in 1 .. Len(plans) : plans'[i] = plans[i]
      BY <1>3, <2>1, <2>2
    <3>2. plan.page = pages[Len(plans) + 1]
      BY DEF plan
    <3>3. \A i \in 1 .. Len(plans') : i \in 1 .. Len(plans) \/ i = Len(plans) + 1
      BY <1>3, <3>1
    <3>4. ASSUME NEW i \in 1 .. Len(plans')
          PROVE  plans'[i].page = pages[i] /\ pages[i] \in 1 .. count
      BY <2>1, <3>1, <3>2, <3>3 DEF RenderInv, PlansOK
    <3>5. UNCHANGED <<pages, count, output>>
      BY <1>2
    <3>6. /\ Len(plans) \in Nat /\ Len(pages) \in Nat /\ Len(plans) + 1 <= Len(pages)
          /\ output \in Seq(RasterType) /\ Len(output) <= Len(plans) /\ Len(output) \in Nat
          /\ \A i \in 1 .. Len(output) : output[i].page = pages[i]
      BY <1>2, <1>3 DEF RenderInv, RequestOK, PlansOK
    <3>7. QED
      BY <3>1, <3>4, <3>5, <3>6 DEF PlansOK
  <2>4. QED
    BY <1>2, <2>2, <2>3 DEF RenderInv, RequestOK, ChargedOK
<1>6. QED
  BY <1>4, <1>5

\* One more page is rasterized, within what is left of the bytes.
LEMMA RasterKeeps ==
  ASSUME RenderInv, NEW n \in PngBytes, Raster(n)
  PROVE  RenderInv'
<1> DEFINE p == plans[Len(output) + 1]
           raster == [page |-> p.page, w |-> p.w, h |-> p.h, bytes |-> n]
<1>1. /\ rendering = "raster" /\ Len(output) < Len(plans) /\ bytes' = bytes + n
      /\ UNCHANGED <<pages, count, plans, pixels>>
      /\ IF bytes' > MaxOutputBytes THEN Ends("InvalidInput") /\ UNCHANGED output
         ELSE output' = Append(output, raster) /\ UNCHANGED rendering
  BY DEF Raster
<1>2. /\ plans \in Seq(PlanType) /\ output \in Seq(RasterType) /\ n \in Nat /\ MaxOutputBytes \in Nat
      /\ bytes = OutputBytes(output) /\ OutputBytes(output) \in Nat
  BY <1>1, AreaTyped, RenderAssumption DEF RenderInv, PlansOK, ChargedOK
<1>3. CASE bytes' > MaxOutputBytes
  BY <1>1, <1>3 DEF Ends, RenderInv, RequestOK, PlansOK, ChargedOK
<1>4. CASE ~ bytes' > MaxOutputBytes
  <2>1. Len(output) + 1 \in 1 .. Len(plans) /\ p \in PlanType
    <3>1. Len(output) + 1 \in 1 .. Len(plans)
      BY <1>1, <1>2
    <3>2. QED
      BY <1>2, <3>1
  <2>2. raster \in RasterType /\ raster.page = p.page /\ raster.bytes = n
    BY <1>2, <2>1 DEF PlanType, RasterType
  <2>3. p.page = pages[Len(output) + 1]
    BY <2>1 DEF RenderInv, PlansOK
  <2> HIDE DEF raster, p
  <2>4. OutputBytes(Append(output, raster)) = OutputBytes(output) + n
    BY <1>2, <2>2, PagesAddUp
  <2>5. /\ output' \in Seq(RasterType) /\ Len(output') = Len(output) + 1
        /\ output'[Len(output) + 1] = raster /\ \A i \in 1 .. Len(output) : output'[i] = output[i]
        /\ rendering' = rendering /\ bytes' = OutputBytes(output') /\ bytes' <= MaxOutputBytes
    <3>1. output' = Append(output, raster) /\ rendering' = rendering
      BY <1>1, <1>4
    <3>2. bytes' = OutputBytes(output') /\ bytes' <= MaxOutputBytes
      BY <1>1, <1>2, <1>4, <2>4, <3>1
    <3>3. QED
      BY <1>2, <2>2, <3>1, <3>2
  <2>6. ASSUME NEW i \in 1 .. Len(output') PROVE output'[i].page = pages[i]
    <3>1. i \in 1 .. Len(output) \/ i = Len(output) + 1
      BY <1>2, <2>5
    <3>2. QED
      BY <2>2, <2>3, <2>5, <3>1 DEF RenderInv, PlansOK
  <2>7. PlansOK'
    BY <1>1, <1>2, <2>5, <2>6 DEF RenderInv, PlansOK
  <2>8. QED
    BY <1>1, <2>5, <2>7 DEF RenderInv, RequestOK, ChargedOK
<1>5. QED
  BY <1>3, <1>4

\* No step of a rendering breaks its invariant.
LEMMA RenderKeeps ==
  RenderInv /\ RenderNext => RenderInv'
<1>1. SUFFICES ASSUME RenderInv, RenderNext PROVE RenderInv'
  OBVIOUS
<1>2. ASSUME NEW error \in {"InvalidInput", "ExtractionFailed"}, Unreadable(error) PROVE RenderInv'
  BY <1>1, <1>2 DEF Unreadable, Ends, RenderInv, RequestOK, PlansOK, ChargedOK
<1>3. CASE PlanMissing
  BY <1>1, <1>3 DEF PlanMissing, Ends, RenderInv, RequestOK, PlansOK, ChargedOK
<1>4. CASE Planned
  <2>1. /\ rendering = "plan" /\ Len(plans) = Len(pages) /\ rendering' = "raster"
        /\ UNCHANGED <<pages, count, plans, pixels, output, bytes>>
    BY <1>4 DEF Planned
  <2>2. output = <<>> /\ bytes = 0 /\ OutputBytes(<<>>) = 0
    <3>1. <<>> \in Seq({0})
      OBVIOUS
    <3>2. QED
      BY <1>1, <2>1, <3>1, PagesAddUp DEF RenderInv, RequestOK
  <2>3. QED
    BY <1>1, <2>1, <2>2, RenderAssumption DEF RenderInv, RequestOK, PlansOK, ChargedOK
<1>5. CASE Rendered
  BY <1>1, <1>5 DEF Rendered, Ends, RenderInv, RequestOK, PlansOK, ChargedOK
<1>6. QED
  BY <1>1, <1>2, <1>3, <1>4, <1>5, ValidateRequestKeeps, PlanKeeps, RasterKeeps DEF RenderNext

\* Both promises follow.
LEMMA RenderInvIsEnough ==
  RenderInv => RastersWithinBudget /\ AnswersRequest
<1>1. SUFFICES ASSUME RenderInv PROVE RastersWithinBudget /\ AnswersRequest
  OBVIOUS
<1>2. ASSUME NEW i \in 1 .. Len(plans) PROVE plans[i].w \in Side /\ plans[i].h \in Side
  <2>1. plans[i] \in PlanType
    BY <1>1 DEF RenderInv, PlansOK
  <2>2. QED
    BY <2>1 DEF PlanType
<1>3. RastersWithinBudget
  BY <1>1, <1>2 DEF RenderInv, RequestOK, ChargedOK, RastersWithinBudget, OutputBytes, Side
<1>4. ASSUME rendering = "Ok"
      PROVE  /\ [i \in 1 .. Len(output) |-> output[i].page] = pages
             /\ \A i \in 1 .. Len(pages) : pages[i] \in 1 .. count
             /\ IsInjective(pages)
  <2>1. /\ pages \in Seq(Nat) /\ Len(output) = Len(pages) /\ Len(plans) = Len(pages)
        /\ \A i \in 1 .. Len(pages) : output[i].page = pages[i] /\ pages[i] \in 1 .. count
        /\ IsInjective(pages)
    BY <1>1, <1>4 DEF RenderInv, RequestOK, PlansOK
  <2>2. pages = [i \in 1 .. Len(pages) |-> pages[i]]
    BY <2>1
  <2>3. QED
    BY <2>1, <2>2
<1>5. QED
  BY <1>3, <1>4 DEF AnswersRequest

(***************************************************************************)
(* GenerateDocx and GeneratePptx, as far as the texts are concerned.       *)
(***************************************************************************)

\* The characters of a section or slide are a sum.
LEMMA CharsAreTotal ==
  ASSUME NEW S, NEW s \in Seq(S)
  PROVE  Chars(s) = Total([i \in 1 .. Len(s) |-> s[i].text.chars], Len(s))
<1> DEFINE n == Len(s)
           w == [i \in 1 .. n |-> s[i].text.chars]
           Step(f, r) == IF r = {} THEN 0 ELSE f[r \ {Max(r)}] + s[Max(r)].text.chars
<1>1. n \in Nat /\ n <= n /\ DOMAIN s = 1 .. n
  OBVIOUS
<1>2. \A f : IsTable(f, w, n) <=> f = [r \in SUBSET (DOMAIN s) |-> Step(f, r)]
  BY <1>1, MaxInside DEF IsTable
<1>3. PICK f : f = [r \in SUBSET (DOMAIN s) |-> Step(f, r)] /\ Chars(s) = f[DOMAIN s]
  <2>1. \E f : f = [r \in SUBSET (DOMAIN s) |-> Step(f, r)]
    BY <1>1, <1>2, TableExists
  <2>2. QED
    BY <2>1 DEF Chars, FoldLeft, MapThenFoldSet
<1>4. IsTable(f, w, n)
  <2> HIDE DEF n, w
  <2>1. QED
    BY <1>2, <1>3
<1>5. f[1 .. n] = Total(w, n)
  <2> HIDE DEF n, w
  <2>1. QED
    BY <1>1, <1>4, TotalOfTable
<1>6. QED
  BY <1>1, <1>3, <1>5

\* The characters of all of them.
GroupChars(parts) == FoldLeft(LAMBDA n, g : n + Chars(g), 0, parts)

\* They are a sum too.
LEMMA GroupCharsAreTotal ==
  ASSUME NEW S, NEW s \in Seq(S)
  PROVE  GroupChars(s) = Total([i \in 1 .. Len(s) |-> Chars(s[i])], Len(s))
<1> DEFINE n == Len(s)
           w == [i \in 1 .. n |-> Chars(s[i])]
           Step(f, r) == IF r = {} THEN 0 ELSE f[r \ {Max(r)}] + Chars(s[Max(r)])
<1>1. n \in Nat /\ n <= n /\ DOMAIN s = 1 .. n
  OBVIOUS
<1>2. \A f : IsTable(f, w, n) <=> f = [r \in SUBSET (DOMAIN s) |-> Step(f, r)]
  BY <1>1, MaxInside DEF IsTable
<1>3. PICK f : f = [r \in SUBSET (DOMAIN s) |-> Step(f, r)] /\ GroupChars(s) = f[DOMAIN s]
  <2>1. \E f : f = [r \in SUBSET (DOMAIN s) |-> Step(f, r)]
    BY <1>1, <1>2, TableExists
  <2>2. QED
    BY <2>1 DEF GroupChars, FoldLeft, MapThenFoldSet
<1>4. IsTable(f, w, n)
  <2> HIDE DEF n, w
  <2>1. QED
    BY <1>2, <1>3
<1>5. f[1 .. n] = Total(w, n)
  <2> HIDE DEF n, w
  <2>1. QED
    BY <1>1, <1>4, TotalOfTable
<1>6. QED
  BY <1>1, <1>3, <1>5

Kinds == {"title", "author", "heading", "paragraph", "body", "bullet", "caption", "notes"}
PieceType == [kind : Kinds, text : [chars : Nat, blank : BOOLEAN]]
Group == Seq(PieceType)

\* Sections and slides are sequences of texts.
LEMMA GroupsTyped ==
  Docx \subseteq Group /\ Pptx \subseteq Group
<1> DEFINE R == [chars : Nat, blank : BOOLEAN]
           D == [kind : {"heading", "paragraph", "bullet"}, text : R]
           P == [kind : {"title", "body", "bullet", "caption", "notes"}, text : R]
<1>1. Docx \subseteq Seq(D) /\ Pptx \subseteq Seq(P)
  BY SynthesisAssumption
<1>2. PieceType = [kind : Kinds, text : R]
  BY DEF PieceType
<1> HIDE DEF R
<1>3. D \subseteq PieceType /\ P \subseteq PieceType
  <2>1. /\ {"heading", "paragraph", "bullet"} \subseteq Kinds
        /\ {"title", "body", "bullet", "caption", "notes"} \subseteq Kinds
    BY DEF Kinds
  <2>2. \A K, L : K \subseteq L => [kind : K, text : R] \subseteq [kind : L, text : R]
    OBVIOUS
  <2>3. QED
    BY <1>2, <2>1, <2>2
<1> HIDE DEF D, P
<1>4. \A g : (g \in Seq(D) => g \in Group) /\ (g \in Seq(P) => g \in Group)
  BY <1>3, LargerSet DEF Group
<1>5. QED
  BY <1>1, <1>4

\* Numbers of characters are numbers, and one more section adds its own.
LEMMA CharsAddUp ==
  /\ \A g \in Group : Chars(g) \in Nat
  /\ GroupChars(<<>>) = 0
  /\ \A s \in Seq(Group) : GroupChars(s) \in Nat
  /\ \A s \in Seq(Group), g \in Group : GroupChars(Append(s, g)) = GroupChars(s) + Chars(g)
<1>1. ASSUME NEW g \in Group PROVE Chars(g) \in Nat
  <2> DEFINE w == [i \in 1 .. Len(g) |-> g[i].text.chars]
  <2>1. g \in Seq(PieceType) /\ Len(g) \in Nat
    BY DEF Group
  <2>2. \A i \in 1 .. Len(g) : w[i] \in Nat
    <3>1. \A i \in 1 .. Len(g) : g[i] \in PieceType
      BY <2>1
    <3>2. \A x \in PieceType : x.text.chars \in Nat
      BY DEF PieceType
    <3>3. QED
      BY <3>1, <3>2
  <2> HIDE DEF w
  <2>3. Total(w, Len(g)) \in Nat
    BY <2>1, <2>2, TotalTyped
  <2>4. QED
    BY <2>1, <2>3, CharsAreTotal DEF w
<1> DEFINE W(x) == [i \in 1 .. Len(x) |-> Chars(x[i])]
<1>2. \A x \in Seq(Group) : GroupChars(x) = Total(W(x), Len(x))
  BY GroupCharsAreTotal
<1>3. GroupChars(<<>>) = 0
  <2>1. <<>> \in Seq(Group) /\ Len(<<>>) = 0
    OBVIOUS
  <2> HIDE DEF W
  <2>2. QED
    BY <1>2, <2>1, TotalSteps
<1>4. ASSUME NEW s \in Seq(Group) PROVE GroupChars(s) \in Nat
  <2>1. \A i \in 1 .. Len(s) : W(s)[i] \in Nat
    BY <1>1
  <2> HIDE DEF W
  <2>2. Len(s) \in Nat /\ Total(W(s), Len(s)) \in Nat
    BY <2>1, TotalTyped
  <2>3. QED
    BY <1>2, <2>2
<1>5. ASSUME NEW s \in Seq(Group), NEW g \in Group
      PROVE  GroupChars(Append(s, g)) = GroupChars(s) + Chars(g)
  <2> DEFINE n == Len(s)
             longer == Append(s, g)
  <2>1. /\ n \in Nat /\ longer \in Seq(Group) /\ Len(longer) = n + 1 /\ longer[n + 1] = g
        /\ \A i \in 1 .. n : longer[i] = s[i]
    OBVIOUS
  <2>2. W(longer)[n + 1] = Chars(g) /\ \A i \in 1 .. n : W(longer)[i] = W(s)[i]
    BY <2>1
  <2> HIDE DEF W, longer
  <2>3. GroupChars(longer) = Total(W(longer), n) + W(longer)[n + 1]
    BY <1>2, <2>1, TotalSteps
  <2>4. Total(W(longer), n) = Total(W(s), n)
    BY <2>1, <2>2, TotalSame
  <2>5. QED
    BY <1>2, <2>2, <2>3, <2>4 DEF longer
<1>6. QED
  BY <1>1, <1>3, <1>4, <1>5

\* The characters of a title, with or without an author.
LEMMA CharsOfHead ==
  ASSUME head.title \in Text, head.author \in Text \cup {Absent}
  PROVE  /\ Chars(HeadTexts) \in Nat
         /\ (\A i \in 1 .. Len(HeadTexts) : HeadTexts[i].text.chars <= MaxTextChars)
              => Chars(HeadTexts) <= MaxTotalChars
<1> DEFINE texts == HeadTexts
           w == [i \in 1 .. Len(texts) |-> texts[i].text.chars]
           title == [kind |-> "title", text |-> head.title]
           author == [kind |-> "author", text |-> head.author]
<1>1. /\ head.title.chars \in Nat /\ (Present(head.author) => head.author.chars \in Nat)
      /\ MaxTextChars \in Nat /\ MaxTotalChars \in Nat /\ 2 * MaxTextChars <= MaxTotalChars
  BY SynthesisAssumption DEF Present
<1>2. CASE Present(head.author)
  <2>1. texts = <<title, author>>
    <3>1. texts = <<title>> \o <<author>>
      BY <1>2 DEF HeadTexts
    <3>2. title \in {title, author} /\ author \in {title, author}
      OBVIOUS
    <3> HIDE DEF texts, title, author
    <3>3. QED
      BY <3>1, <3>2, PairOfSingles
  <2>2. /\ Len(texts) = 2 /\ w[1] = head.title.chars /\ w[2] = head.author.chars
        /\ texts \in Seq({title, author}) /\ texts[1] = title /\ texts[2] = author
    BY <2>1
  <2> HIDE DEF texts, w
  <2>3. Total(w, 0) = 0 /\ Total(w, 0 + 1) = Total(w, 0) + w[0 + 1] /\ Total(w, 1 + 1) = Total(w, 1) + w[1 + 1]
    BY TotalSteps
  <2>4. Total(w, 2) = w[1] + w[2]
    BY <1>1, <1>2, <2>2, <2>3
  <2>5. Chars(texts) = w[1] + w[2]
    BY <2>2, <2>4, CharsAreTotal DEF w
  <2>6. (\A i \in 1 .. Len(texts) : texts[i].text.chars <= MaxTextChars)
          => head.title.chars <= MaxTextChars /\ head.author.chars <= MaxTextChars
    BY <2>2
  <2>7. QED
    BY <1>1, <1>2, <2>2, <2>5, <2>6 DEF texts
<1>3. CASE ~Present(head.author)
  <2>1. texts = <<title>>
    BY <1>3 DEF HeadTexts
  <2>2. /\ Len(texts) = 1 /\ w[1] = head.title.chars
        /\ texts \in Seq({title}) /\ texts[1] = title
    BY <2>1
  <2> HIDE DEF texts, w
  <2>3. Total(w, 0) = 0 /\ Total(w, 0 + 1) = Total(w, 0) + w[0 + 1]
    BY TotalSteps
  <2>4. Total(w, 1) = w[1]
    BY <1>1, <2>2, <2>3
  <2>5. Chars(texts) = w[1]
    BY <2>2, <2>4, CharsAreTotal DEF w
  <2>6. (\A i \in 1 .. Len(texts) : texts[i].text.chars <= MaxTextChars)
          => head.title.chars <= MaxTextChars
    BY <2>2
  <2>7. QED
    BY <1>1, <2>2, <2>5, <2>6 DEF texts
<1>4. QED
  BY <1>2, <1>3

Counts == synthesis \in {"groups", "build", "Ok"}

\* The total is that of all texts, and not too large for a document.
SynthesisInv ==
  /\ groups \in Seq(Group)
  /\ synthesis = "head" \/ Counts => head.title \in Text /\ head.author \in Text \cup {Absent}
  /\ synthesis = "head" => groups = <<>>
  /\ Counts => total = Chars(HeadTexts) + GroupChars(groups)
  /\ Counts /\ format = "docx" => total <= MaxTotalChars

\* At first nothing is counted.
LEMMA SynthesisInitially ==
  SynthesisInit \/ SynthesisIdle => SynthesisInv
<1>1. SynthesisInit \/ SynthesisIdle => groups = <<>> /\ synthesis \in {"head", "idle"}
  BY DEF SynthesisInit, SynthesisIdle
<1>2. SynthesisInit => head.title \in Text /\ head.author \in Text \cup {Absent}
  BY DEF SynthesisInit
<1>3. SynthesisIdle => synthesis = "idle"
  BY DEF SynthesisIdle
<1>4. <<>> \in Seq(Group)
  OBVIOUS
<1>5. QED
  BY <1>1, <1>2, <1>3, <1>4 DEF SynthesisInv, Counts

\* A step of another call leaves the texts alone.
LEMMA SynthesisStutters ==
  SynthesisInv /\ UNCHANGED synthesisVars => SynthesisInv'
BY DEF synthesisVars, SynthesisInv, Counts, HeadTexts

\* A document is built only after all its texts were counted, and accepted within the
\* total.
LEMMA SynthesisKeeps ==
  SynthesisInv /\ SynthesisNext => SynthesisInv'
<1>1. SUFFICES ASSUME SynthesisInv, SynthesisNext PROVE SynthesisInv'
  OBVIOUS
<1>2. CASE ValidateHead
  <2>1. synthesis = "head" /\ UNCHANGED <<format, head, groups, rendered>> /\ groups = <<>>
    BY <1>1, <1>2 DEF ValidateHead, SynthesisInv
  <2>2. CASE head.title.blank \/ \E i \in 1 .. Len(HeadTexts) : HeadTexts[i].text.chars > MaxTextChars
    BY <1>1, <1>2, <2>1, <2>2 DEF ValidateHead, InvalidSpec, SynthesisInv, Counts
  <2>3. CASE ~(head.title.blank \/ \E i \in 1 .. Len(HeadTexts) : HeadTexts[i].text.chars > MaxTextChars)
    <3>1. total' = Chars(HeadTexts) /\ HeadTexts' = HeadTexts
      BY <1>2, <2>1, <2>3 DEF ValidateHead, HeadTexts
    <3>2. /\ head.title \in Text /\ head.author \in Text \cup {Absent}
          /\ MaxTextChars \in Nat
      BY <1>1, <2>1, SynthesisAssumption DEF SynthesisInv
    <3>3. \A i \in 1 .. Len(HeadTexts) : HeadTexts[i].text.chars <= MaxTextChars
      <4>1. \A i \in 1 .. Len(HeadTexts) : HeadTexts[i].text.chars \in Nat
        <5> DEFINE T == [kind : {"title", "author"}, text : Text]
                   title == [kind |-> "title", text |-> head.title]
                   rest == IF Present(head.author) THEN <<[kind |-> "author", text |-> head.author]>> ELSE <<>>
        <5>1. title \in T /\ rest \in Seq(T)
          <6>1. Present(head.author) => head.author \in Text
            BY <3>2 DEF Present
          <6>2. title \in T /\ (Present(head.author) => [kind |-> "author", text |-> head.author] \in T)
            BY <3>2, <6>1
          <6>3. (\A x \in T : <<x>> \in Seq(T)) /\ <<>> \in Seq(T)
            OBVIOUS
          <6> HIDE DEF T
          <6>4. QED
            BY <6>2, <6>3
        <5>2. \A x \in T : x.text.chars \in Nat
          BY SynthesisAssumption
        <5>3. HeadTexts = <<title>> \o rest
          BY DEF HeadTexts
        <5> HIDE DEF T, title, rest
        <5>4. HeadTexts \in Seq(T)
          BY <5>1, <5>3
        <5>5. QED
          BY <5>2, <5>4
      <4>2. QED
        BY <2>3, <3>2, <4>1
    <3>4. Chars(HeadTexts) \in Nat /\ Chars(HeadTexts) <= MaxTotalChars
      BY <3>2, <3>3, CharsOfHead
    <3>5. GroupChars(<<>>) = 0
      BY CharsAddUp
    <3>6. total' = Chars(HeadTexts)' + GroupChars(groups)' /\ total' <= MaxTotalChars
      BY <2>1, <3>1, <3>4, <3>5
    <3>7. QED
      BY <1>1, <2>1, <3>2, <3>6 DEF SynthesisInv
  <2>4. QED
    BY <2>2, <2>3
<1>3. ASSUME NEW group \in IF format = "docx" THEN Docx ELSE Pptx, ValidateGroup(group)
      PROVE  SynthesisInv'
  <2>1. group \in Group
    BY <1>3, GroupsTyped
  <2>2. /\ synthesis = "groups" /\ groups' = Append(groups, group) /\ total' = total + Chars(group)
        /\ UNCHANGED <<format, head, rendered>>
        /\ synthesis' \in {"groups", "InvalidInput"}
        /\ synthesis' = "groups" /\ format = "docx" => ~ total' > MaxTotalChars
    BY <1>3 DEF ValidateGroup, Sums, InvalidSpec
  <2>3. /\ groups \in Seq(Group) /\ total = Chars(HeadTexts) + GroupChars(groups)
        /\ head.title \in Text /\ head.author \in Text \cup {Absent}
    BY <1>1, <2>2 DEF SynthesisInv, Counts
  <2>4. /\ Chars(HeadTexts) \in Nat /\ GroupChars(groups) \in Nat /\ Chars(group) \in Nat
        /\ GroupChars(groups') = GroupChars(groups) + Chars(group) /\ groups' \in Seq(Group)
        /\ MaxTotalChars \in Nat /\ HeadTexts' = HeadTexts
    BY <2>1, <2>2, <2>3, CharsOfHead, CharsAddUp, SynthesisAssumption DEF HeadTexts
  <2>5. /\ total' = Chars(HeadTexts)' + GroupChars(groups)'
        /\ synthesis' = "groups" /\ format = "docx" => total' <= MaxTotalChars
    BY <2>2, <2>3, <2>4
  <2>6. QED
    BY <2>2, <2>3, <2>4, <2>5 DEF SynthesisInv, Counts
<1>4. ASSUME UNCHANGED <<format, head, groups, total>>, synthesis' # "head", Counts
      PROVE  SynthesisInv'
  BY <1>1, <1>4 DEF SynthesisInv, Counts, HeadTexts
<1>5. CASE Validated \/ BuildGroup \/ Pack
  BY <1>4, <1>5 DEF Validated, BuildGroup, Pack, InvalidSpec, Counts
<1>6. QED
  BY <1>1, <1>2, <1>3, <1>5 DEF SynthesisNext

\* What was counted is what the texts have.
LEMMA SynthesisInvIsBounded ==
  SynthesisInv => TotalBounded
BY DEF SynthesisInv, Counts, TotalBounded, GroupChars

-----------------------------------------------------------------------------
(* Choosing among texts.                                                    *)

\* Among no texts there is none.
LEMMA AmongNothing ==
  \A X : Among(<<>>, X) = <<>>
<1>1. ASSUME NEW X
      PROVE  [i \in 1 .. Len(<<>>) |-> IF <<>>[i] \in X THEN <<<<>>[i]>> ELSE <<>>] = <<>>
  OBVIOUS
<1>2. QED
  BY <1>1 DEF Among, FlattenSeq

\* One more text is chosen or not.
LEMMA AmongGrows ==
  ASSUME NEW U, NEW X, NEW s \in Seq(U), NEW e \in U
  PROVE  /\ Among(s, X) \in Seq(U)
         /\ e \in X => Among(Append(s, e), X) = Append(Among(s, X), e)
         /\ e \notin X => Among(Append(s, e), X) = Among(s, X)
<1> DEFINE Row(t) == IF t \in X THEN <<t>> ELSE <<>>
           m == Append(s, e)
           n == Len(s)
           r == [i \in 1 .. n |-> Row(s[i])]
           q == [i \in 1 .. Len(m) |-> Row(m[i])]
<1>1. n \in Nat /\ Len(m) = n + 1 /\ m[n + 1] = e /\ \A i \in 1 .. n : m[i] = s[i] /\ s[i] \in U
  OBVIOUS
<1>2. Among(s, X) = FlattenSeq(r) /\ Among(m, X) = FlattenSeq(q)
  BY DEF Among
<1>3. ASSUME NEW t \in U PROVE Row(t) \in Seq(U)
  OBVIOUS
<1>4. q = [i \in 1 .. n + 1 |-> Row(m[i])]
  BY <1>1
<1> HIDE DEF Row, m, n
<1>5. r \in Seq(Seq(U)) /\ Len(r) = n /\ \A i \in 1 .. n : r[i] = Row(s[i])
  BY <1>1, <1>3
<1>6. Len(q) = n + 1 /\ q[n + 1] = Row(e) /\ \A i \in 1 .. n : q[i] = r[i]
  <2>1. n + 1 \in 1 .. n + 1 /\ \A i \in 1 .. n : i \in 1 .. n + 1
    BY <1>1
  <2>2. QED
    BY <1>1, <1>4, <1>5, <2>1
<1>7. q \in Seq(Seq(U))
  <2>1. ASSUME NEW i \in 1 .. n + 1 PROVE Row(m[i]) \in Seq(U)
    <3>1. i = n + 1 \/ i \in 1 .. n
      BY <1>1
    <3>2. QED
      BY <1>1, <1>3, <3>1
  <2>2. QED
    BY <1>1, <1>4, <2>1
<1> HIDE DEF r, q
<1>8. q = Append(r, Row(e))
  <2>1. /\ Append(r, Row(e)) \in Seq(Seq(U)) /\ Len(Append(r, Row(e))) = n + 1
        /\ Append(r, Row(e))[n + 1] = Row(e) /\ \A i \in 1 .. n : Append(r, Row(e))[i] = r[i]
    BY <1>1, <1>3, <1>5
  <2>2. ASSUME NEW i \in 1 .. Len(q) PROVE q[i] = Append(r, Row(e))[i]
    <3>1. i = n + 1 \/ i \in 1 .. n
      BY <1>1, <1>6
    <3>2. QED
      BY <1>6, <2>1, <3>1
  <2>3. QED
    BY <1>6, <1>7, <2>1, <2>2, SameSequence
<1>9. FlattenSeq(r) \in Seq(U) /\ FlattenSeq(Append(r, Row(e))) = FlattenSeq(r) \o Row(e)
  <2>1. Row(e) \in Seq(U)
    BY <1>3
  <2>2. QED
    BY <1>5, <2>1, FlattenTyped, FlattenGrows
<1>10. Among(m, X) = Among(s, X) \o Row(e) /\ Among(s, X) \in Seq(U)
  BY <1>2, <1>8, <1>9
<1>11. /\ Append(Among(s, X), e) = Among(s, X) \o <<e>>
       /\ Among(s, X) \o <<>> = Among(s, X)
  BY <1>10, AppendIsConcat, ConcatAssociates
<1>12. (e \in X => Row(e) = <<e>>) /\ (e \notin X => Row(e) = <<>>)
  BY DEF Row
<1>13. QED
  BY <1>10, <1>11, <1>12 DEF m

\* What is chosen are texts, and among one it is that one or none.
LEMMA AmongTyped ==
  ASSUME NEW U, NEW X, NEW s \in Seq(U)
  PROVE  /\ Among(s, X) \in Seq(U)
         /\ \A e \in U : /\ e \in X => Among(<<e>>, X) = <<e>>
                         /\ e \notin X => Among(<<e>>, X) = <<>>
<1>1. ASSUME U = {} PROVE Among(s, X) \in Seq(U)
  <2>1. s = <<>> /\ <<>> \in Seq(U)
    BY <1>1
  <2>2. QED
    BY <2>1, AmongNothing
<1>2. ASSUME NEW e \in U
      PROVE  /\ Among(s, X) \in Seq(U)
             /\ e \in X => Among(<<e>>, X) = <<e>>
             /\ e \notin X => Among(<<e>>, X) = <<>>
  <2>1. Among(s, X) \in Seq(U)
    BY AmongGrows
  <2>2. \A z \in Seq(U) : /\ e \in X => Among(Append(z, e), X) = Append(Among(z, X), e)
                          /\ e \notin X => Among(Append(z, e), X) = Among(z, X)
    BY AmongGrows
  <2>3. <<>> \in Seq(U) /\ Append(<<>>, e) = <<e>> /\ Among(<<>>, X) = <<>>
    BY AmongNothing
  <2>4. QED
    BY <2>1, <2>2, <2>3
<1>3. QED
  BY <1>1, <1>2

\* Only the texts themselves tell what is chosen.
LEMMA AmongSame ==
  ASSUME NEW X, NEW Y, NEW s, \A i \in 1 .. Len(s) : s[i] \in X <=> s[i] \in Y
  PROVE  Among(s, X) = Among(s, Y)
<1>1. [i \in 1 .. Len(s) |-> IF s[i] \in X THEN <<s[i]>> ELSE <<>>]
        = [i \in 1 .. Len(s) |-> IF s[i] \in Y THEN <<s[i]>> ELSE <<>>]
  OBVIOUS
<1>2. QED
  BY <1>1 DEF Among

\* What is chosen of two sequences is chosen of one after the other.
LEMMA AmongJoins ==
  ASSUME NEW U, NEW X, NEW s \in Seq(U), NEW t \in Seq(U)
  PROVE  s \o t \in Seq(U) /\ Among(s \o t, X) = Among(s, X) \o Among(t, X)
<1> DEFINE T == {x \in Seq(U) : Among(s \o x, X) = Among(s, X) \o Among(x, X)}
<1>1. Among(s, X) \in Seq(U) /\ Among(<<>>, X) = <<>>
  BY AmongTyped, AmongNothing
<1>2. <<>> \in T
  <2>1. s \o <<>> = s /\ Among(s, X) \o <<>> = Among(s, X)
    BY <1>1, ConcatAssociates
  <2>2. QED
    BY <1>1, <2>1
<1>3. ASSUME NEW x \in Seq(U), x \in T, NEW e \in U PROVE Append(x, e) \in T
  <2>1. s \o x \in Seq(U) /\ Append(x, e) \in Seq(U) /\ s \o Append(x, e) = Append(s \o x, e)
    BY ConcatAppends
  <2>2. Among(s \o x, X) = Among(s, X) \o Among(x, X) /\ Among(x, X) \in Seq(U)
    BY <1>3, AmongTyped
  <2>3. Among(s, X) \o Append(Among(x, X), e) = Append(Among(s, X) \o Among(x, X), e)
    BY <1>1, <2>2, ConcatAppends
  <2>4. /\ e \in X => Among(Append(s \o x, e), X) = Append(Among(s \o x, X), e)
        /\ e \notin X => Among(Append(s \o x, e), X) = Among(s \o x, X)
    <3>1. \A z \in Seq(U) : /\ e \in X => Among(Append(z, e), X) = Append(Among(z, X), e)
                            /\ e \notin X => Among(Append(z, e), X) = Among(z, X)
      BY AmongGrows
    <3>2. QED
      BY <2>1, <3>1
  <2>5. /\ e \in X => Among(Append(x, e), X) = Append(Among(x, X), e)
        /\ e \notin X => Among(Append(x, e), X) = Among(x, X)
    BY AmongGrows
  <2>6. Among(s \o Append(x, e), X) = Among(s, X) \o Among(Append(x, e), X)
    BY <2>1, <2>2, <2>3, <2>4, <2>5
  <2>7. QED
    BY <2>1, <2>6
<1>4. Seq(U) \subseteq T
  <2> HIDE DEF T
  <2>1. QED
    BY <1>2, <1>3, SequenceInduction
<1>5. QED
  BY <1>4

\* To choose twice is to choose once what both choose.
LEMMA AmongTwice ==
  ASSUME NEW U, NEW X, NEW Y, NEW s \in Seq(U)
  PROVE  Among(Among(s, X), Y) = Among(s, X \cap Y)
<1> DEFINE T == {x \in Seq(U) : Among(Among(x, X), Y) = Among(x, X \cap Y)}
<1>1. <<>> \in T
  <2>1. Among(<<>>, X) = <<>> /\ Among(<<>>, Y) = <<>> /\ Among(<<>>, X \cap Y) = <<>>
    BY AmongNothing
  <2>2. QED
    BY <2>1
<1>2. ASSUME NEW x \in Seq(U), x \in T, NEW e \in U PROVE Append(x, e) \in T
  <2>1. Append(x, e) \in Seq(U) /\ Among(x, X) \in Seq(U)
    BY AmongTyped
  <2>2. /\ e \in X => Among(Append(x, e), X) = Append(Among(x, X), e)
        /\ e \notin X => Among(Append(x, e), X) = Among(x, X)
    BY AmongGrows
  <2>3. /\ e \in X \cap Y => Among(Append(x, e), X \cap Y) = Append(Among(x, X \cap Y), e)
        /\ e \notin X \cap Y => Among(Append(x, e), X \cap Y) = Among(x, X \cap Y)
    BY AmongGrows
  <2>4. /\ e \in Y => Among(Append(Among(x, X), e), Y) = Append(Among(Among(x, X), Y), e)
        /\ e \notin Y => Among(Append(Among(x, X), e), Y) = Among(Among(x, X), Y)
    BY <2>1, AmongGrows
  <2>5. Among(Among(Append(x, e), X), Y) = Among(Append(x, e), X \cap Y)
    BY <1>2, <2>2, <2>3, <2>4
  <2>6. QED
    BY <2>1, <2>5
<1>3. Seq(U) \subseteq T
  <2> HIDE DEF T
  <2>1. QED
    BY <1>1, <1>2, SequenceInduction
<1>4. QED
  BY <1>3

\* Something is chosen if, and only if, there is something to choose.
LEMMA AmongSome ==
  ASSUME NEW U, NEW X, NEW s \in Seq(U)
  PROVE  Among(s, X) # <<>> <=> \E i \in 1 .. Len(s) : s[i] \in X
<1> DEFINE T == {x \in Seq(U) : Among(x, X) # <<>> <=> \E i \in 1 .. Len(x) : x[i] \in X}
<1>1. <<>> \in T
  <2>1. Among(<<>>, X) = <<>> /\ Len(<<>>) = 0 /\ <<>> \in Seq(U)
    BY AmongNothing
  <2>2. QED
    BY <2>1
<1>2. ASSUME NEW x \in Seq(U), x \in T, NEW e \in U PROVE Append(x, e) \in T
  <2> DEFINE m == Append(x, e)
             n == Len(x)
  <2>1. /\ m \in Seq(U) /\ n \in Nat /\ Len(m) = n + 1 /\ m[n + 1] = e
        /\ \A i \in 1 .. n : m[i] = x[i]
    OBVIOUS
  <2>2. /\ e \in X => Among(m, X) = Append(Among(x, X), e)
        /\ e \notin X => Among(m, X) = Among(x, X)
        /\ Among(x, X) \in Seq(U)
    BY AmongGrows
  <2>3. Append(Among(x, X), e) # <<>>
    BY <2>2, ConcatAppends
  <2> HIDE DEF m, n
  <2>4. (\E i \in 1 .. n + 1 : m[i] \in X) <=> (\E i \in 1 .. n : x[i] \in X) \/ e \in X
    <3>1. \A i : i \in 1 .. n + 1 <=> i \in 1 .. n \/ i = n + 1
      BY <2>1
    <3>2. QED
      BY <2>1, <3>1
  <2>5. Among(x, X) # <<>> <=> \E i \in 1 .. n : x[i] \in X
    BY <1>2 DEF n
  <2>6. QED
    BY <2>1, <2>2, <2>3, <2>4, <2>5 DEF m
<1>3. Seq(U) \subseteq T
  <2> HIDE DEF T
  <2>1. QED
    BY <1>1, <1>2, SequenceInduction
<1>4. QED
  BY <1>3

\* What is chosen by two that have nothing in common adds up.
LEMMA AmongApart ==
  ASSUME NEW U, NEW X, NEW Y, X \cap Y = {}, NEW s \in Seq(U)
  PROVE  Len(Among(s, X \cup Y)) = Len(Among(s, X)) + Len(Among(s, Y))
<1> DEFINE T == {x \in Seq(U) : Len(Among(x, X \cup Y)) = Len(Among(x, X)) + Len(Among(x, Y))}
<1>1. <<>> \in T
  <2>1. /\ Among(<<>>, X) = <<>> /\ Among(<<>>, Y) = <<>> /\ Among(<<>>, X \cup Y) = <<>>
        /\ <<>> \in Seq(U) /\ Len(<<>>) = 0
    BY AmongNothing
  <2>2. QED
    BY <2>1
<1>2. ASSUME NEW x \in Seq(U), x \in T, NEW e \in U PROVE Append(x, e) \in T
  <2>1. ASSUME NEW Z
        PROVE  /\ Len(Among(x, Z)) \in Nat
               /\ e \in Z => Len(Among(Append(x, e), Z)) = Len(Among(x, Z)) + 1
               /\ e \notin Z => Len(Among(Append(x, e), Z)) = Len(Among(x, Z))
    <3>1. /\ e \in Z => Among(Append(x, e), Z) = Append(Among(x, Z), e)
          /\ e \notin Z => Among(Append(x, e), Z) = Among(x, Z)
          /\ Among(x, Z) \in Seq(U)
      BY AmongGrows
    <3>2. Len(Append(Among(x, Z), e)) = Len(Among(x, Z)) + 1
      BY <3>1, ConcatAppends
    <3>3. QED
      BY <3>1, <3>2
  <2>2. Len(Among(x, X \cup Y)) = Len(Among(x, X)) + Len(Among(x, Y))
    BY <1>2
  <2>3. (e \in X \cup Y <=> e \in X \/ e \in Y) /\ ~(e \in X /\ e \in Y) /\ Append(x, e) \in Seq(U)
    OBVIOUS
  <2>4. QED
    BY <2>1, <2>2, <2>3
<1>3. Seq(U) \subseteq T
  <2> HIDE DEF T
  <2>1. QED
    BY <1>1, <1>2, SequenceInduction
<1>4. QED
  BY <1>3

-----------------------------------------------------------------------------
(* What the builders make of the texts.                                     *)

Worded == {t \in PieceType : ~t.text.blank}
OfKind(kinds) == {t \in PieceType : t.kind \in kinds}
Readable == {"heading", "title", "body", "paragraph", "bullet"}

\* What is kept, and what is of some kinds, is chosen among the texts.
LEMMA KeptIsChosen ==
  ASSUME NEW g \in Group
  PROVE  /\ Kept(g) = Among(g, Worded) /\ Kept(g) \in Group
         /\ \A kinds : OfKinds(g, kinds) = Among(g, OfKind(kinds)) /\ OfKinds(g, kinds) \in Group
<1>1. g \in Seq(PieceType) /\ \A i \in 1 .. Len(g) : g[i] \in PieceType /\ g[i] \in Range(g)
  BY DEF Group, Range
<1>2. Kept(g) = Among(g, Worded)
  <2> DEFINE X == {t \in Range(g) : ~t.text.blank}
  <2>1. \A i \in 1 .. Len(g) : g[i] \in X <=> g[i] \in Worded
    BY <1>1 DEF Worded
  <2>2. Kept(g) = Among(g, X)
    BY DEF Kept
  <2> HIDE DEF X
  <2>3. QED
    BY <2>1, <2>2, AmongSame
<1>3. ASSUME NEW kinds PROVE OfKinds(g, kinds) = Among(g, OfKind(kinds))
  <2> DEFINE X == {t \in Range(g) : t.kind \in kinds}
  <2>1. \A i \in 1 .. Len(g) : g[i] \in X <=> g[i] \in OfKind(kinds)
    BY <1>1 DEF OfKind
  <2>2. OfKinds(g, kinds) = Among(g, X)
    BY DEF OfKinds
  <2> HIDE DEF X
  <2>3. QED
    BY <2>1, <2>2, AmongSame
<1>4. \A X : Among(g, X) \in Seq(PieceType)
  BY <1>1, AmongTyped
<1>5. QED
  BY <1>2, <1>3, <1>4 DEF Group

\* To take those of some kinds and keep what is not blank is to choose once.
LEMMA KeptOfKinds ==
  ASSUME NEW g \in Group, NEW kinds
  PROVE  Kept(OfKinds(g, kinds)) = Among(g, OfKind(kinds) \cap Worded)
<1>1. g \in Seq(PieceType) /\ OfKinds(g, kinds) = Among(g, OfKind(kinds)) /\ OfKinds(g, kinds) \in Group
  BY KeptIsChosen DEF Group
<1>2. Kept(OfKinds(g, kinds)) = Among(Among(g, OfKind(kinds)), Worded)
  BY <1>1, KeptIsChosen
<1>3. QED
  BY <1>1, <1>2, AmongTwice

\* All there is to say of what is rendered of a section or slide.
Rendering(out, said) ==
  /\ Kept(OfKinds(out, Readable)) # <<>>
  /\ \A kind \in {said[j].kind : j \in 1 .. Len(said)} :
       Kept(OfKinds(out, {kind})) = Kept(OfKinds(said, {kind}))
  /\ Len(Kept(out)) = Len(Kept(said))

\* A section is rendered without what is blank.
LEMMA SectionRendered ==
  ASSUME format = "docx", NEW g \in Docx, ~Blank(g)
  PROVE  Built(g) \in Group /\ Rendering(Built(g), g)
<1> DEFINE out == Built(g)
<1>1. g \in Group /\ g \in Seq(PieceType)
  BY GroupsTyped DEF Group
<1>2. out = Among(g, Worded) /\ out \in Group
  BY <1>1, KeptIsChosen DEF Built
<1> HIDE DEF out
<1>3. \A kinds : Kept(OfKinds(out, kinds)) = Among(g, OfKind(kinds) \cap Worded)
  <2>1. ASSUME NEW kinds PROVE Kept(OfKinds(out, kinds)) = Among(g, OfKind(kinds) \cap Worded)
    <3>1. Kept(OfKinds(out, kinds)) = Among(out, OfKind(kinds) \cap Worded)
      BY <1>2, KeptOfKinds
    <3>2. Worded \cap (OfKind(kinds) \cap Worded) = OfKind(kinds) \cap Worded
      OBVIOUS
    <3>3. QED
      BY <1>1, <1>2, <3>1, <3>2, AmongTwice
  <2>2. QED
    BY <2>1
<1>4. Kept(OfKinds(out, Readable)) # <<>>
  <2>1. PICK i \in 1 .. Len(g) : ~g[i].text.blank
    BY DEF Blank
  <2>2. g[i].kind \in Readable
    <3> DEFINE D == [kind : {"heading", "paragraph", "bullet"}, text : [chars : Nat, blank : BOOLEAN]]
    <3>1. g \in Seq(D)
      BY SynthesisAssumption
    <3>2. \A x \in D : x.kind \in Readable
      BY DEF Readable
    <3> HIDE DEF D
    <3>3. g[i] \in D
      BY <3>1
    <3>4. QED
      BY <3>2, <3>3
  <2>3. g[i] \in OfKind(Readable) \cap Worded
    BY <1>1, <2>1, <2>2 DEF OfKind, Worded
  <2>4. QED
    BY <1>1, <1>3, <2>3, AmongSome
<1>5. Kept(out) = Kept(g)
  <2>1. Kept(out) = Among(out, Worded) /\ Kept(g) = Among(g, Worded)
    BY <1>1, <1>2, KeptIsChosen
  <2>2. Worded \cap Worded = Worded
    OBVIOUS
  <2>3. QED
    BY <1>1, <1>2, <2>1, <2>2, AmongTwice
<1>6. \A kinds : Kept(OfKinds(out, kinds)) = Kept(OfKinds(g, kinds))
  BY <1>1, <1>3, KeptOfKinds
<1>7. QED
  BY <1>2, <1>4, <1>5, <1>6 DEF Rendering, out

\* Four sequences of texts, one after the other.
InTurn(a, b, c, d) == a \o b \o c \o d

\* What is chosen of them is what is chosen of each, one after the other.
LEMMA AmongFour ==
  ASSUME NEW X, NEW a \in Group, NEW b \in Group, NEW c \in Group, NEW d \in Group
  PROVE  /\ InTurn(a, b, c, d) \in Group
         /\ Among(InTurn(a, b, c, d), X) = InTurn(Among(a, X), Among(b, X), Among(c, X), Among(d, X))
<1>1. ASSUME NEW x \in Group, NEW y \in Group
      PROVE  x \o y \in Group /\ Among(x \o y, X) = Among(x, X) \o Among(y, X)
  <2>1. \A U : \A s, t \in Seq(U) : s \o t \in Seq(U) /\ Among(s \o t, X) = Among(s, X) \o Among(t, X)
    BY AmongJoins
  <2>2. x \in Seq(PieceType) /\ y \in Seq(PieceType)
    BY DEF Group
  <2>3. QED
    BY <2>1, <2>2 DEF Group
<1>2. a \o b \in Group /\ Among(a \o b, X) = Among(a, X) \o Among(b, X)
  BY <1>1
<1>3. (a \o b) \o c \in Group /\ Among((a \o b) \o c, X) = Among(a \o b, X) \o Among(c, X)
  BY <1>1, <1>2
<1>4. ((a \o b) \o c) \o d \in Group /\ Among(((a \o b) \o c) \o d, X) = Among((a \o b) \o c, X) \o Among(d, X)
  BY <1>1, <1>3
<1>5. QED
  BY <1>2, <1>3, <1>4 DEF InTurn

\* Of a slide the title comes first, then what is not blank of body and bullets, then
\* the captions, then the notes.
LEMMA SlideRendered ==
  ASSUME format # "docx", NEW g \in Pptx, ~Blank(g)
  PROVE  Built(g) \in Group /\ Rendering(Built(g), g)
<1> DEFINE out == Built(g)
           P1 == OfKind({"title"})
           P2 == OfKind({"body", "bullet"}) \cap Worded
           P3 == OfKind({"caption"})
           P4 == OfKind({"notes"}) \cap Worded
<1>1. g \in Group /\ g \in Seq(PieceType)
  BY GroupsTyped DEF Group
<1>2. \A i \in 1 .. Len(g) : /\ g[i] \in PieceType
                             /\ g[i].kind \in {"title", "body", "bullet", "caption", "notes"}
  <2> DEFINE D == [kind : {"title", "body", "bullet", "caption", "notes"},
                   text : [chars : Nat, blank : BOOLEAN]]
  <2>1. g \in Seq(D)
    BY SynthesisAssumption
  <2>2. \A x \in D : x.kind \in {"title", "body", "bullet", "caption", "notes"}
    OBVIOUS
  <2> HIDE DEF D
  <2>3. \A i \in 1 .. Len(g) : g[i] \in D /\ g[i] \in PieceType
    BY <1>1, <2>1
  <2>4. QED
    BY <2>2, <2>3
<1>3. \A X : Among(g, X) \in Group
  BY <1>1, AmongTyped DEF Group
<1>4. out = InTurn(Among(g, P1), Among(g, P2), Among(g, P3), Among(g, P4))
  <2>1. /\ OfKinds(g, {"title"}) = Among(g, P1)
        /\ Kept(OfKinds(g, {"body", "bullet"})) = Among(g, P2)
        /\ OfKinds(g, {"caption"}) = Among(g, P3)
        /\ Kept(OfKinds(g, {"notes"})) = Among(g, P4)
    BY <1>1, KeptIsChosen, KeptOfKinds
  <2>2. QED
    BY <2>1 DEF Built, InTurn
<1>5. \A x \in PieceType : /\ x \in P1 <=> x.kind = "title"
                           /\ x \in P2 <=> x.kind \in {"body", "bullet"} /\ x \in Worded
                           /\ x \in P3 <=> x.kind = "caption"
                           /\ x \in P4 <=> x.kind = "notes" /\ x \in Worded
  BY DEF OfKind
<1> HIDE DEF out, P1, P2, P3, P4
<1>6. /\ out \in Group
      /\ \A X : Among(out, X) = InTurn(Among(g, P1 \cap X), Among(g, P2 \cap X),
                                       Among(g, P3 \cap X), Among(g, P4 \cap X))
  <2> DEFINE a == Among(g, P1)
             b == Among(g, P2)
             c == Among(g, P3)
             d == Among(g, P4)
  <2>1. \A P, X : Among(Among(g, P), X) = Among(g, P \cap X)
    BY <1>1, AmongTwice
  <2>2. a \in Group /\ b \in Group /\ c \in Group /\ d \in Group
    BY <1>3
  <2>3. /\ out = InTurn(a, b, c, d)
        /\ \A X : /\ Among(a, X) = Among(g, P1 \cap X) /\ Among(b, X) = Among(g, P2 \cap X)
                  /\ Among(c, X) = Among(g, P3 \cap X) /\ Among(d, X) = Among(g, P4 \cap X)
    BY <1>4, <2>1
  <2> HIDE DEF a, b, c, d
  <2>4. out \in Group
    BY <2>2, <2>3, AmongFour
  <2>5. \A X : Among(InTurn(a, b, c, d), X) = InTurn(Among(a, X), Among(b, X), Among(c, X), Among(d, X))
    BY <2>2, AmongFour
  <2>6. QED
    BY <2>3, <2>4, <2>5
<1>7. \A kinds : Kept(OfKinds(out, kinds)) = Among(out, OfKind(kinds) \cap Worded)
  BY <1>6, KeptOfKinds
<1>8. Kept(OfKinds(out, Readable)) # <<>>
  <2> DEFINE X == OfKind(Readable) \cap Worded
             a == Among(g, P1 \cap X)
             b == Among(g, P2 \cap X)
             c == Among(g, P3 \cap X)
             d == Among(g, P4 \cap X)
  <2>1. PICK i \in 1 .. Len(g) : g[i].kind \notin {"caption", "notes"} /\ ~g[i].text.blank
    BY DEF Blank
  <2>2. g[i].kind \in {"title", "body", "bullet"} /\ g[i] \in X
    BY <1>2, <2>1 DEF Readable, OfKind, Worded
  <2>3. g[i] \in P1 \cap X \/ g[i] \in P2 \cap X
    BY <1>2, <1>5, <2>2
  <2>4. a # <<>> \/ b # <<>>
    BY <1>1, <2>3, AmongSome
  <2>5. /\ a \in Seq(PieceType) /\ b \in Seq(PieceType) /\ c \in Seq(PieceType) /\ d \in Seq(PieceType)
        /\ Kept(OfKinds(out, Readable)) = a \o b \o c \o d
    BY <1>3, <1>6, <1>7 DEF Group, InTurn
  <2> HIDE DEF a, b, c, d
  <2>6. Len(a \o b \o c \o d) = Len(a) + Len(b) + Len(c) + Len(d)
    BY <2>5
  <2>7. (Len(a) > 0 \/ Len(b) > 0) /\ {Len(a), Len(b), Len(c), Len(d)} \subseteq Nat
    BY <2>4, <2>5
  <2>8. QED
    BY <2>5, <2>6, <2>7
<1>9. ASSUME NEW j \in 1 .. Len(g)
      PROVE  Kept(OfKinds(out, {g[j].kind})) = Kept(OfKinds(g, {g[j].kind}))
  <2> DEFINE kind == g[j].kind
             X == OfKind({kind}) \cap Worded
             all == Among(g, X)
             a == Among(g, P1 \cap X)
             b == Among(g, P2 \cap X)
             c == Among(g, P3 \cap X)
             d == Among(g, P4 \cap X)
  <2>1. kind \in {"title", "body", "bullet", "caption", "notes"}
    BY <1>2
  <2>2. \A x \in PieceType : x \in X <=> x.kind = kind /\ x \in Worded
    BY DEF OfKind
  <2>3. Kept(OfKinds(out, {kind})) = a \o b \o c \o d /\ Kept(OfKinds(g, {kind})) = all
    BY <1>1, <1>6, <1>7, KeptOfKinds DEF InTurn
  <2> HIDE DEF kind, X
  <2>4. ASSUME NEW P, \A x \in PieceType : x \in X => x \in P PROVE Among(g, P \cap X) = all
    <3>1. \A i \in 1 .. Len(g) : g[i] \in P \cap X <=> g[i] \in X
      BY <1>2, <2>4
    <3>2. QED
      BY <3>1, AmongSame
  <2>5. ASSUME NEW P, \A x \in PieceType : x \in X => x \notin P PROVE Among(g, P \cap X) = <<>>
    <3>1. ~\E i \in 1 .. Len(g) : g[i] \in P \cap X
      BY <1>2, <2>5
    <3>2. QED
      BY <1>1, <3>1, AmongSome
  <2>6. /\ IF kind = "title" THEN a = all ELSE a = <<>>
        /\ IF kind \in {"body", "bullet"} THEN b = all ELSE b = <<>>
        /\ IF kind = "caption" THEN c = all ELSE c = <<>>
        /\ IF kind = "notes" THEN d = all ELSE d = <<>>
    <3>1. IF kind = "title" THEN a = all ELSE a = <<>>
      BY <1>5, <2>2, <2>4, <2>5
    <3>2. IF kind \in {"body", "bullet"} THEN b = all ELSE b = <<>>
      BY <1>5, <2>2, <2>4, <2>5
    <3>3. IF kind = "caption" THEN c = all ELSE c = <<>>
      BY <1>5, <2>2, <2>4, <2>5
    <3>4. IF kind = "notes" THEN d = all ELSE d = <<>>
      BY <1>5, <2>2, <2>4, <2>5
    <3>5. QED
      BY <3>1, <3>2, <3>3, <3>4
  <2>7. all \in Seq(PieceType)
    BY <1>3 DEF Group
  <2> HIDE DEF all, a, b, c, d
  <2>8. <<>> \in Seq(PieceType) /\ all \o <<>> = all /\ <<>> \o all = all /\ <<>> \o <<>> = <<>>
    <3>1. <<>> \in Seq(PieceType)
      OBVIOUS
    <3>2. QED
      BY <2>7, <3>1, ConcatAssociates
  <2>9. a \o b \o c \o d = all
    BY <2>1, <2>6, <2>8
  <2>10. QED
    BY <2>3, <2>9 DEF kind
<1>10. Len(Kept(out)) = Len(Kept(g))
  <2> DEFINE Q1 == P1 \cap Worded
             Q2 == P2 \cap Worded
             Q3 == P3 \cap Worded
             Q4 == P4 \cap Worded
             a == Among(g, Q1)
             b == Among(g, Q2)
             c == Among(g, Q3)
             d == Among(g, Q4)
  <2>1. Kept(out) = a \o b \o c \o d /\ Kept(g) = Among(g, Worded)
    BY <1>1, <1>6, KeptIsChosen DEF InTurn
  <2>2. /\ Q1 \cap Q2 = {} /\ (Q1 \cup Q2) \cap Q3 = {} /\ (Q1 \cup Q2 \cup Q3) \cap Q4 = {}
    BY <1>5 DEF Worded
  <2>3. \A i \in 1 .. Len(g) : g[i] \in Worded <=> g[i] \in Q1 \cup Q2 \cup Q3 \cup Q4
    BY <1>2, <1>5
  <2> HIDE DEF Q1, Q2, Q3, Q4
  <2>4. Among(g, Worded) = Among(g, Q1 \cup Q2 \cup Q3 \cup Q4)
    BY <2>3, AmongSame
  <2>5. Len(Among(g, Q1 \cup Q2)) = Len(a) + Len(b)
    BY <1>1, <2>2, AmongApart
  <2>6. Len(Among(g, Q1 \cup Q2 \cup Q3)) = Len(Among(g, Q1 \cup Q2)) + Len(c)
    BY <1>1, <2>2, AmongApart
  <2>7. Len(Among(g, Q1 \cup Q2 \cup Q3 \cup Q4)) = Len(Among(g, Q1 \cup Q2 \cup Q3)) + Len(d)
    BY <1>1, <2>2, AmongApart
  <2>8. a \in Seq(PieceType) /\ b \in Seq(PieceType) /\ c \in Seq(PieceType) /\ d \in Seq(PieceType)
    BY <1>3 DEF Group
  <2> HIDE DEF a, b, c, d
  <2>9. Len(a \o b \o c \o d) = Len(a) + Len(b) + Len(c) + Len(d)
    BY <2>8
  <2>10. QED
    BY <2>1, <2>4, <2>5, <2>6, <2>7, <2>9
<1>11. QED
  BY <1>6, <1>8, <1>9, <1>10 DEF Rendering, out

\* What was accepted so far has something to read, and what is rendered so far is what
\* the builder makes of it.
RenderedOK ==
  /\ Counts =>
       /\ ~head.title.blank
       /\ \A i \in 1 .. Len(groups) :
            ~Blank(groups[i]) /\ groups[i] \in IF format = "docx" THEN Docx ELSE Pptx
  /\ synthesis \in {"build", "Ok"} =>
       /\ rendered \in Seq(Group) /\ rendered # <<>> /\ rendered[1] = Kept(HeadTexts)
       /\ Len(rendered) <= Len(groups) + 1
       /\ \A i \in 1 .. Len(rendered) - 1 : rendered[i + 1] = Built(groups[i])
  /\ synthesis = "Ok" => Len(rendered) = Len(groups) + 1

\* The title and the author are texts.
LEMMA HeadTyped ==
  ASSUME head.title \in Text, head.author \in Text \cup {Absent}
  PROVE  LET title == [kind |-> "title", text |-> head.title]
             rest == IF Present(head.author) THEN <<[kind |-> "author", text |-> head.author]>> ELSE <<>>
         IN  /\ title \in PieceType /\ rest \in Group /\ HeadTexts = <<title>> \o rest
             /\ HeadTexts \in Group
<1> DEFINE title == [kind |-> "title", text |-> head.title]
           author == [kind |-> "author", text |-> head.author]
           rest == IF Present(head.author) THEN <<author>> ELSE <<>>
           R == [chars : Nat, blank : BOOLEAN]
<1>1. HeadTexts = <<title>> \o rest
  BY DEF HeadTexts
<1>2. PieceType = [kind : Kinds, text : R] /\ "title" \in Kinds /\ "author" \in Kinds
  BY DEF PieceType, Kinds
<1>3. head.title \in R /\ (Present(head.author) => head.author \in R)
  BY SynthesisAssumption DEF Present
<1> HIDE DEF R
<1>4. title \in PieceType /\ (Present(head.author) => author \in PieceType)
  BY <1>2, <1>3
<1> HIDE DEF title, author
<1>5. \A x \in PieceType : <<x>> \in Seq(PieceType) /\ <<>> \in Seq(PieceType)
  OBVIOUS
<1>6. <<title>> \in Seq(PieceType) /\ rest \in Seq(PieceType)
  BY <1>4, <1>5
<1>7. <<title>> \o rest \in Seq(PieceType)
  BY <1>6
<1>8. QED
  BY <1>1, <1>4, <1>6, <1>7 DEF Group, title, author

\* Every step of the generation keeps it.
LEMMA RenderedKeeps ==
  SynthesisInv /\ RenderedOK /\ SynthesisNext => RenderedOK'
<1>1. SUFFICES ASSUME SynthesisInv, RenderedOK, SynthesisNext PROVE RenderedOK'
  OBVIOUS
<1>2. CASE ValidateHead
  <2>1. /\ synthesis = "head" /\ groups = <<>> /\ UNCHANGED <<format, head, groups>>
        /\ synthesis' \in {"InvalidInput", "groups"}
        /\ synthesis' = "groups" => ~head.title.blank
    BY <1>1, <1>2 DEF ValidateHead, InvalidSpec, SynthesisInv
  <2>2. Len(groups') = 0
    BY <2>1
  <2>3. QED
    BY <2>1, <2>2 DEF RenderedOK, Counts
<1>3. ASSUME NEW group \in IF format = "docx" THEN Docx ELSE Pptx, ValidateGroup(group)
      PROVE  RenderedOK'
  <2>1. /\ synthesis = "groups" /\ groups' = Append(groups, group) /\ UNCHANGED <<format, head>>
        /\ synthesis' \in {"groups", "InvalidInput"}
        /\ synthesis' = "groups" => ~Blank(group)
    BY <1>3 DEF ValidateGroup, InvalidSpec
  <2>2. /\ ~head.title.blank
        /\ \A i \in 1 .. Len(groups) :
             ~Blank(groups[i]) /\ groups[i] \in IF format = "docx" THEN Docx ELSE Pptx
    BY <1>1, <2>1 DEF RenderedOK, Counts
  <2>3. /\ groups \in Seq(Group) /\ group \in Group
    BY <1>1, <1>3, GroupsTyped DEF SynthesisInv
  <2>4. \A i \in 1 .. Len(groups') : (i \in 1 .. Len(groups) /\ groups'[i] = groups[i]) \/ groups'[i] = group
    BY <2>1, <2>3
  <2>5. ASSUME synthesis' = "groups", NEW i \in 1 .. Len(groups')
        PROVE  ~Blank(groups'[i]) /\ groups'[i] \in IF format = "docx" THEN Docx ELSE Pptx
    BY <1>3, <2>1, <2>2, <2>4, <2>5
  <2>6. \A i : (Blank(groups[i]))' = Blank(groups'[i])
    BY DEF Blank
  <2>7. QED
    BY <2>1, <2>2, <2>5, <2>6 DEF RenderedOK, Counts
<1>4. CASE Validated
  <2>1. synthesis = "groups" /\ UNCHANGED <<format, head, groups>>
    BY <1>4 DEF Validated
  <2>2. synthesis' = "InvalidInput" \/ (synthesis' = "build" /\ rendered' = <<Kept(HeadTexts)>>)
    BY <1>4 DEF Validated, InvalidSpec
  <2>3. head.title \in Text /\ head.author \in Text \cup {Absent} /\ groups \in Seq(Group)
    BY <1>1, <2>1 DEF SynthesisInv, Counts
  <2>4. Kept(HeadTexts) \in Group /\ (Kept(HeadTexts))' = Kept(HeadTexts)
    <3>1. HeadTexts \in Group /\ HeadTexts' = HeadTexts
      BY <2>1, <2>3, HeadTyped DEF HeadTexts
    <3>2. QED
      BY <3>1, KeptIsChosen
  <2>5. /\ ~head.title.blank
        /\ \A i \in 1 .. Len(groups) :
             ~Blank(groups[i]) /\ groups[i] \in IF format = "docx" THEN Docx ELSE Pptx
    BY <1>1, <2>1 DEF RenderedOK, Counts
  <2>6. \A x \in Group : <<x>> \in Seq(Group) /\ <<x>> # <<>> /\ Len(<<x>>) = 1 /\ <<x>>[1] = x
    OBVIOUS
  <2>7. Len(groups) \in Nat /\ (\A i : (Blank(groups[i]))' = Blank(groups[i]))
    BY <2>1, <2>3 DEF Blank
  <2>8. ASSUME synthesis' = "build"
        PROVE  /\ rendered' \in Seq(Group) /\ rendered' # <<>> /\ rendered'[1] = Kept(HeadTexts)
               /\ Len(rendered') = 1
    BY <2>2, <2>4, <2>6, <2>8
  <2>9. 1 <= Len(groups) + 1 /\ 1 .. 1 - 1 = {}
    BY <2>7
  <2>10. CASE synthesis' = "InvalidInput"
    BY <2>10 DEF RenderedOK, Counts
  <2>11. CASE synthesis' = "build"
    BY <2>1, <2>4, <2>5, <2>7, <2>8, <2>9, <2>11 DEF RenderedOK, Counts
  <2>12. QED
    BY <2>2, <2>10, <2>11
<1>5. CASE BuildGroup
  <2> DEFINE n == Len(rendered)
             new == Built(groups[n])
  <2>1. /\ synthesis = "build" /\ n <= Len(groups) /\ rendered' = Append(rendered, new)
        /\ UNCHANGED <<format, head, groups, synthesis>>
    BY <1>5 DEF BuildGroup
  <2>2. /\ rendered \in Seq(Group) /\ rendered # <<>> /\ rendered[1] = Kept(HeadTexts)
        /\ \A i \in 1 .. n - 1 : rendered[i + 1] = Built(groups[i])
        /\ ~head.title.blank
        /\ \A i \in 1 .. Len(groups) :
             ~Blank(groups[i]) /\ groups[i] \in IF format = "docx" THEN Docx ELSE Pptx
    BY <1>1, <2>1 DEF RenderedOK, Counts
  <2>3. groups \in Seq(Group) /\ Len(groups) \in Nat /\ n \in Nat \ {0} /\ n \in 1 .. Len(groups)
    BY <1>1, <2>1, <2>2 DEF SynthesisInv
  <2>4. new \in Group
    BY <2>2, <2>3, SectionRendered, SlideRendered
  <2> HIDE DEF new, n
  <2>5. /\ rendered' \in Seq(Group) /\ rendered' # <<>> /\ Len(rendered') = n + 1
        /\ rendered'[n + 1] = new /\ \A i \in 1 .. n : rendered'[i] = rendered[i]
    BY <2>1, <2>2, <2>4 DEF n
  <2>6. rendered'[1] = Kept(HeadTexts)
    BY <2>2, <2>3, <2>5
  <2>7. ASSUME NEW i \in 1 .. Len(rendered') - 1 PROVE rendered'[i + 1] = Built(groups[i])
    <3>1. CASE i = n
      BY <2>5, <3>1 DEF new
    <3>2. CASE i # n
      <4>1. i \in 1 .. n - 1 /\ i + 1 \in 1 .. n
        BY <2>3, <2>5, <3>2
      <4>2. QED
        BY <2>2, <2>5, <4>1
    <3>3. QED
      BY <3>1, <3>2
  <2>8. (Kept(HeadTexts))' = Kept(HeadTexts) /\ \A i : (Built(groups[i]))' = Built(groups[i])
    BY <2>1 DEF HeadTexts, Built
  <2>9. Len(rendered') <= Len(groups') + 1
    BY <2>1, <2>3, <2>5 DEF n
  <2>10. QED
    BY <2>1, <2>2, <2>5, <2>6, <2>7, <2>8, <2>9 DEF RenderedOK, Counts, Blank
<1>6. CASE Pack
  <2>1. /\ synthesis = "build" /\ synthesis' \in {"Ok", "GenerationFailed"}
        /\ Len(rendered) = Len(groups) + 1 /\ UNCHANGED <<format, head, groups, rendered>>
    BY <1>6 DEF Pack
  <2>2. (Kept(HeadTexts))' = Kept(HeadTexts) /\ \A i : (Built(groups[i]))' = Built(groups[i])
    BY <2>1 DEF HeadTexts, Built
  <2>3. QED
    BY <1>1, <2>1, <2>2 DEF RenderedOK, Counts, Blank
<1>7. QED
  BY <1>1, <1>2, <1>3, <1>4, <1>5, <1>6 DEF SynthesisNext

\* A step of another call leaves what is rendered alone, and at first nothing is.
LEMMA RenderedStutters ==
  /\ RenderedOK /\ UNCHANGED synthesisVars => RenderedOK'
  /\ SynthesisInit \/ SynthesisIdle => RenderedOK
<1>1. ASSUME RenderedOK, UNCHANGED synthesisVars PROVE RenderedOK'
  <2>1. UNCHANGED <<format, head, groups, rendered, synthesis>>
    BY <1>1 DEF synthesisVars
  <2>2. (Kept(HeadTexts))' = Kept(HeadTexts) /\ \A i : (Built(groups[i]))' = Built(groups[i])
    BY <2>1 DEF HeadTexts, Built
  <2>3. QED
    BY <1>1, <2>1, <2>2 DEF RenderedOK, Counts, Blank
<1>2. SynthesisInit \/ SynthesisIdle => RenderedOK
  BY DEF SynthesisInit, SynthesisIdle, RenderedOK, Counts
<1>3. QED
  BY <1>1, <1>2

\* What the builder makes of a section or slide that was accepted is all that there is
\* to read of it.
LEMMA RenderedOKIsEnough ==
  SynthesisInv /\ RenderedOK => AcceptedIsRendered
<1>1. SUFFICES ASSUME SynthesisInv, RenderedOK, synthesis = "Ok" PROVE AcceptedIsRendered
  BY DEF AcceptedIsRendered
<1>2. /\ rendered \in Seq(Group) /\ rendered # <<>> /\ rendered[1] = Kept(HeadTexts)
      /\ Len(rendered) = Len(groups) + 1 /\ ~head.title.blank
      /\ \A i \in 1 .. Len(rendered) - 1 : rendered[i + 1] = Built(groups[i])
      /\ \A i \in 1 .. Len(groups) :
           ~Blank(groups[i]) /\ groups[i] \in IF format = "docx" THEN Docx ELSE Pptx
  BY <1>1 DEF RenderedOK, Counts
<1>3. /\ head.title \in Text /\ head.author \in Text \cup {Absent} /\ groups \in Seq(Group)
  BY <1>1 DEF SynthesisInv, Counts
<1>4. Head(Head(rendered)) = Head(HeadTexts)
  <2> DEFINE title == [kind |-> "title", text |-> head.title]
             rest == IF Present(head.author) THEN <<[kind |-> "author", text |-> head.author]>> ELSE <<>>
  <2>1. /\ title \in PieceType /\ rest \in Seq(PieceType) /\ HeadTexts = <<title>> \o rest
        /\ HeadTexts \in Group
    BY <1>3, HeadTyped DEF Group
  <2>2. title \in Worded
    BY <1>2, <2>1 DEF Worded
  <2> HIDE DEF title, rest
  <2>3. <<title>> \in Seq(PieceType)
    BY <2>1
  <2>4. Among(<<title>> \o rest, Worded) = Among(<<title>>, Worded) \o Among(rest, Worded)
    <3>1. \A s, t \in Seq(PieceType) : Among(s \o t, Worded) = Among(s, Worded) \o Among(t, Worded)
      BY AmongJoins
    <3>2. QED
      BY <2>1, <2>3, <3>1
  <2>5. Among(<<title>>, Worded) = <<title>> /\ Among(rest, Worded) \in Seq(PieceType)
    BY <2>1, <2>2, AmongTyped
  <2>6. Kept(HeadTexts) = <<title>> \o Among(rest, Worded)
    BY <2>1, <2>4, <2>5, KeptIsChosen
  <2>7. \A t \in Seq(PieceType) : Head(<<title>> \o t) = title
    BY <2>1, <2>3
  <2>8. Head(rendered) = rendered[1]
    BY <1>2
  <2>9. QED
    BY <1>2, <2>1, <2>5, <2>6, <2>7, <2>8
<1>5. ASSUME NEW i \in 1 .. Len(groups) PROVE Rendering(rendered[i + 1], groups[i])
  <2>1. i \in 1 .. Len(rendered) - 1
    BY <1>2, <1>3
  <2>2. QED
    BY <1>2, <2>1, SectionRendered, SlideRendered
<1>6. QED
  BY <1>1, <1>2, <1>4, <1>5 DEF AcceptedIsRendered, Rendering, Readable

(***************************************************************************)
(* InspectImage: the walk over the markers of a JPEG.                      *)
(***************************************************************************)

\* What stands behind the segments of a JPEG.
Stopping(p) == IF p.stopped THEN <<Fill, Stop>> ELSE <<>>
Ending(p) == (Stopping(p) \o FrameCells(p.frame)) \o p.rest

\* Position a is at the beginning of a segment, or of what stands behind the last one.
AtSegment(p, a) ==
  \E before \in Seq(Nat), ahead \in Seq(Seq(Nat)) :
    /\ Len(before) = a /\ \A i \in 1 .. Len(ahead) : IsSegment(ahead[i])
    /\ Jpeg(p) = before \o (FlattenSeq(ahead) \o Ending(p))

\* The walk is always between segments, until it has an answer.
InspectInv ==
  /\ picture # <<>> /\ IsJpeg(picture.of) =>
       /\ picture.of \in Picture /\ picture.cells \in 0 .. Len(Jpeg(picture.of))
       /\ file = SubSeq(Jpeg(picture.of), 1, picture.cells)
       /\ inspected \in {"stream", "bytes", "TransferFailed"} => at = 0
       /\ inspected = "markers" => AtSegment(picture.of, at)
  /\ FrameFound

\* Where fill bytes end: at the first cell that is none, or with the file.
LEMMA PastFillIs ==
  ASSUME NEW i \in Nat, NEW fills \in Nat, Size \in Nat, i <= Size,
         \A g \in i .. i + fills - 1 : g < Size => Cell(g) = Fill,
         i + fills < Size => Cell(i + fills) # Fill
  PROVE  PastFill(i) = IF i + fills < Size THEN i + fills ELSE Size
<1> DEFINE m == IF i + fills < Size THEN i + fills ELSE Size
           P(j) == (\A g \in i .. j - 1 : Cell(g) = Fill) /\ (j = Size \/ Cell(j) # Fill)
<1>1. m \in i .. Size /\ m <= i + fills
  OBVIOUS
<1>2. P(m)
  <2>1. ASSUME NEW g \in i .. m - 1 PROVE Cell(g) = Fill
    <3>1. g \in i .. i + fills - 1 /\ g < Size
      BY <1>1
    <3>2. QED
      BY <3>1
  <2>2. m = Size \/ Cell(m) # Fill
    OBVIOUS
  <2>3. QED
    BY <2>1, <2>2
<1>3. ASSUME NEW j \in i .. Size, P(j) PROVE j = m
  <2>1. CASE j < m
    <3>1. j \in i .. i + fills - 1 /\ j < Size
      BY <1>1, <2>1
    <3>2. Cell(j) = Fill /\ j # Size
      BY <3>1
    <3>3. QED
      BY <1>3, <3>2
  <2>2. CASE m < j
    <3>1. m \in i .. j - 1 /\ m < Size
      BY <1>1, <2>2
    <3>2. Cell(m) = Fill
      BY <1>3, <3>1
    <3>3. m = i + fills /\ m < Size
      BY <3>1
    <3>4. QED
      BY <3>2, <3>3
  <2>3. QED
    BY <1>1, <2>1, <2>2
<1>4. PastFill(i) = CHOOSE j \in i .. Size : P(j)
  BY DEF PastFill
<1> HIDE DEF m, P
<1>5. PastFill(i) = m
  BY <1>1, <1>2, <1>3, <1>4
<1>6. QED
  BY <1>5 DEF m

\* A segment of which all cells are there is passed, and one that is cut off refused.
LEMMA SegmentPassed ==
  ASSUME NEW seg \in Seq(Nat), IsSegment(seg), at \in Nat, Size \in Nat,
         \A j \in 1 .. Len(seg) : at + j <= Size => Cell(at + j - 1) = seg[j], Marker
  PROVE  \/ Refuses("InvalidInput") /\ Size < at + Len(seg)
         \/ at' = at + Len(seg) /\ UNCHANGED <<inspected, facts>>
<1>1. PICK fills \in 1 .. Len(seg) - 1 :
        /\ \A i \in 1 .. fills : seg[i] = Fill
        /\ seg[fills + 1] \notin {Fill, Stop, Sof, 0}
        /\ IF seg[fills + 1] \in {Soi, Restart} THEN Len(seg) = fills + 1
           ELSE Len(seg) >= fills + 2 /\ seg[fills + 2] = Len(seg) - (fills + 1)
  BY DEF IsSegment
<1>2. Len(seg) \in Nat /\ fills \in Nat /\ fills + 1 <= Len(seg) /\ 1 <= fills
  OBVIOUS
<1>3. CASE at >= Size
  BY <1>2, <1>3 DEF Marker
<1>4. CASE at < Size
  <2>1. ASSUME NEW g \in at .. at + fills - 1, g < Size PROVE Cell(g) = Fill
    <3> DEFINE j == g - at + 1
    <3>1. j \in 1 .. Len(seg) /\ j \in 1 .. fills /\ at + j <= Size /\ at + j - 1 = g
      BY <1>2, <2>1
    <3> HIDE DEF j
    <3>2. QED
      BY <1>1, <3>1
  <2>2. at + fills < Size => Cell(at + fills) = seg[fills + 1]
    <3>1. fills + 1 \in 1 .. Len(seg) /\ at + (fills + 1) - 1 = at + fills /\ (at + fills < Size => at + (fills + 1) <= Size)
      BY <1>2
    <3>2. QED
      BY <3>1
  <2>3. PastFill(at) = IF at + fills < Size THEN at + fills ELSE Size
    <3>1. at + fills < Size => Cell(at + fills) # Fill
      BY <1>1, <2>2
    <3>2. at <= Size /\ \A g \in at .. at + fills - 1 : g < Size => Cell(g) = Fill
      BY <1>4, <2>1
    <3> HIDE DEF Cell, Size
    <3>3. QED
      BY <1>2, <3>1, <3>2, PastFillIs
  <2>4. Cell(at) = Fill
    BY <1>2, <1>4, <2>1
  <2>5. CASE ~(at + fills < Size)
    BY <1>2, <2>3, <2>5 DEF Marker
  <2>6. CASE at + fills < Size
    <3>1. PastFill(at) = at + fills /\ PastFill(at) # Size /\ Cell(PastFill(at)) = seg[fills + 1]
      BY <1>2, <2>2, <2>3, <2>6
    <3>2. /\ Cell(PastFill(at)) \notin {Stop, 0} /\ Cell(PastFill(at)) # Sof
          /\ PastFill(at) + 1 = at + (fills + 1)
      <4>1. PastFill(at) + 1 = at + (fills + 1)
        BY <1>2, <3>1
      <4>2. QED
        BY <1>1, <3>1, <4>1
    <3>3. CASE seg[fills + 1] \in {Soi, Restart}
      <4>1. at' = PastFill(at) + 1 /\ UNCHANGED <<inspected, facts>>
        BY <1>4, <2>4, <3>1, <3>2, <3>3 DEF Marker
      <4>2. QED
        BY <1>1, <3>2, <3>3, <4>1
    <3>4. CASE seg[fills + 1] \notin {Soi, Restart}
      <4> DEFINE from == PastFill(at) + 1
      <4>1. /\ Len(seg) >= fills + 2 /\ seg[fills + 2] = Len(seg) - (fills + 1)
            /\ from = at + (fills + 1) /\ from \in Nat
        BY <1>1, <1>2, <3>2, <3>4
      <4>2. IF from >= Size \/ Cell(from) < 1 \/ from + Cell(from) > Size
            THEN Refuses("InvalidInput") ELSE at' = PastSegment(from) /\ UNCHANGED <<inspected, facts>>
        BY <1>4, <2>4, <3>1, <3>2, <3>4 DEF Marker
      <4> HIDE DEF from
      <4>3. from < Size => Cell(from) = seg[fills + 2]
        <5> DEFINE j == fills + 2
        <5>0. from = at + (fills + 1) /\ j <= Len(seg)
          BY <4>1
        <5>1. j \in 1 .. Len(seg)
          BY <1>2, <5>0
        <5>2. at + j - 1 = from /\ (from < Size => at + j <= Size)
          BY <1>2, <5>0
        <5> HIDE DEF j
        <5>3. from < Size => Cell(from) = seg[j]
          BY <5>1, <5>2
        <5>4. QED
          BY <5>3 DEF j
      <4>4. from < Size => Cell(from) >= 1 /\ from + Cell(from) = at + Len(seg)
        <5>1. Len(seg) - (fills + 1) >= 1 /\ from + (Len(seg) - (fills + 1)) = at + Len(seg)
          <6>1. from = at + (fills + 1) /\ Len(seg) >= fills + 2
            BY <4>1
          <6> DEFINE l == Len(seg)
          <6>2. l \in Nat /\ fills \in Nat /\ at \in Nat /\ l >= fills + 2 /\ from = at + (fills + 1)
            BY <1>2, <6>1
          <6> HIDE DEF l
          <6>3. l - (fills + 1) >= 1
            BY <6>2
          <6>4. from + (l - (fills + 1)) = at + l
            BY <6>2
          <6>5. QED
            BY <6>3, <6>4 DEF l
        <5>2. QED
          BY <4>1, <4>3, <5>1
      <4>5. CASE from >= Size
        <5>1. Refuses("InvalidInput")
          BY <4>2, <4>5
        <5>2. Size < at + Len(seg)
          BY <1>2, <4>1, <4>5
        <5>3. QED
          BY <5>1, <5>2
      <4>6. CASE from < Size
        <5>1. Cell(from) = Len(seg) - (fills + 1)
          BY <4>1, <4>3, <4>6
        <5>2. CASE from + Cell(from) > Size
          <6>1. Refuses("InvalidInput")
            BY <4>2, <5>2
          <6>2. QED
            BY <4>4, <4>6, <5>2, <6>1
        <5>3. CASE ~(from + Cell(from) > Size)
          <6>1. Cell(from) \in Int /\ ~(Cell(from) < 1) /\ ~(from >= Size)
            BY <1>2, <4>1, <4>4, <4>6, <5>1
          <6>2. at' = PastSegment(from) /\ UNCHANGED <<inspected, facts>>
            BY <4>2, <5>3, <6>1
          <6>3. QED
            BY <4>4, <4>6, <6>2 DEF PastSegment
        <5>4. QED
          BY <5>2, <5>3
      <4>7. QED
        BY <1>2, <4>1, <4>5, <4>6
    <3>5. QED
      BY <3>3, <3>4
  <2>7. QED
    BY <2>5, <2>6
<1>5. QED
  BY <1>3, <1>4

\* At a cell of fill and one of another kind behind it, the walk is done with both.
LEMMA MarkerBehindFill ==
  ASSUME at \in Nat, Size \in Nat, at < Size, Cell(at) = Fill,
         at + 1 < Size => Cell(at + 1) # Fill
  PROVE  PastFill(at) = IF at + 1 < Size THEN at + 1 ELSE Size
<1>1. at <= Size /\ \A g \in at .. at + 1 - 1 : g < Size => Cell(g) = Fill
  OBVIOUS
<1> HIDE DEF Cell, Size
<1>2. QED
  BY <1>1, PastFillIs

\* Behind the end of the image or the beginning of its scan nothing is looked for.
LEMMA StopRefuses ==
  ASSUME at \in Nat, Size \in Nat, at < Size => Cell(at) = Fill,
         at + 1 < Size => Cell(at + 1) = Stop, Marker
  PROVE  Refuses("InvalidInput")
<1>1. CASE at >= Size
  BY <1>1 DEF Marker
<1>2. CASE at < Size
  <2>1. PastFill(at) = IF at + 1 < Size THEN at + 1 ELSE Size
    BY <1>2, InspectAssumption, MarkerBehindFill
  <2>2. PastFill(at) = Size \/ (PastFill(at) # Size /\ Cell(PastFill(at)) = Stop)
    BY <2>1
  <2>3. QED
    BY <1>2, <2>2 DEF Marker
<1>3. QED
  BY <1>1, <1>2

\* A frame header that is sound and of which all cells are there is measured, and no
\* other is.
LEMMA FrameMeasured ==
  ASSUME NEW f \in [w : Nat, h : Nat, n : Nat, len : Nat], at \in Nat, Size \in Nat,
         at < Size => Cell(at) = Fill, at + 1 < Size => Cell(at + 1) = Sof,
         at + 2 < Size => Cell(at + 2) = f.len, at + 4 < Size => Cell(at + 4) = f.h,
         at + 5 < Size => Cell(at + 5) = f.w, at + 6 < Size => Cell(at + 6) = f.n, Marker
  PROVE  \/ Refuses("InvalidInput") /\ ~(Sound(f) /\ Size >= at + 7 + f.n)
         \/ /\ inspected' = "Ok" /\ facts' = [w |-> f.w, h |-> f.h]
            /\ Sound(f) /\ Size >= at + 7 + f.n
<1>0. f.w \in Nat /\ f.h \in Nat /\ f.n \in Nat /\ f.len \in Nat
  OBVIOUS
<1>1. CASE ~(at + 1 < Size)
  <2>1. ~(Size >= at + 7 + f.n)
    BY <1>0, <1>1
  <2>2. Refuses("InvalidInput")
    <3>1. CASE at >= Size
      BY <3>1 DEF Marker
    <3>2. CASE at < Size
      <4>1. PastFill(at) = Size
        BY <1>1, <3>2, MarkerBehindFill
      <4>2. QED
        BY <4>1 DEF Marker
    <3>3. QED
      BY <3>1, <3>2
  <2>3. QED
    BY <2>1, <2>2
<1>2. CASE at + 1 < Size
  <2> DEFINE from == PastFill(at) + 1
  <2>1. PastFill(at) = at + 1
    <3>1. at < Size /\ Cell(at + 1) # Fill
      BY <1>2, InspectAssumption
    <3>2. QED
      BY <1>2, <3>1, MarkerBehindFill
  <2>2. /\ at < Size /\ Cell(at) = Fill /\ PastFill(at) # Size
        /\ Cell(PastFill(at)) = Sof /\ from = at + 2
    BY <1>2, <2>1
  <2>3. Sof \notin {Stop, 0} /\ Sof \notin {Soi, Restart}
    BY InspectAssumption
  <2>4. IF from >= Size \/ Cell(from) < 1 \/ from + Cell(from) > Size
        THEN Refuses("InvalidInput") ELSE MeasureFrame(from)
    BY <2>2, <2>3 DEF Marker
  <2> HIDE DEF from
  <2>5. CASE from >= Size
    BY <1>0, <2>2, <2>4, <2>5
  <2>6. CASE from < Size
    <3>1. Cell(from) = f.len /\ from + Cell(from) = at + 2 + f.len
      BY <2>2, <2>6
    <3>2. CASE f.len < 1 \/ at + 2 + f.len > Size
      <4>1. Refuses("InvalidInput")
        BY <2>4, <3>1, <3>2
      <4>2. ~(Sound(f) /\ Size >= at + 7 + f.n)
        BY <1>0, <3>2 DEF Sound
      <4>3. QED
        BY <4>1, <4>2
    <3>3. CASE ~(f.len < 1) /\ ~(at + 2 + f.len > Size)
      <4>1. MeasureFrame(from)
        BY <2>2, <2>4, <2>6, <3>1, <3>3
      <4>2. CASE f.len < 5
        <5>1. Refuses("InvalidInput")
          BY <3>1, <4>1, <4>2 DEF MeasureFrame
        <5>2. ~Sound(f)
          BY <1>0, <4>2 DEF Sound
        <5>3. QED
          BY <5>1, <5>2
      <4>3. CASE ~(f.len < 5)
        <5>1. /\ Cell(from + 4) = f.n /\ Cell(from + 3) = f.w /\ Cell(from + 2) = f.h
          BY <1>0, <2>2, <3>3, <4>3
        <5>2. IF f.n = 0 \/ f.len # 5 + f.n THEN Refuses("InvalidInput") ELSE Measures(f.w, f.h)
          BY <3>1, <4>1, <4>3, <5>1 DEF MeasureFrame
        <5>3. CASE Sound(f)
          <6>1. Measures(f.w, f.h)
            BY <1>0, <5>2, <5>3 DEF Sound
          <6>2. inspected' = "Ok" /\ facts' = [w |-> f.w, h |-> f.h]
            BY <1>0, <5>3, <6>1 DEF Measures, Sound
          <6>3. Size >= at + 7 + f.n
            BY <1>0, <3>3, <5>3 DEF Sound
          <6>4. QED
            BY <5>3, <6>2, <6>3
        <5>4. CASE ~Sound(f)
          <6>1. Refuses("InvalidInput")
            BY <1>0, <5>2, <5>4 DEF Measures, Sound
          <6>2. QED
            BY <5>4, <6>1
        <5>5. QED
          BY <5>3, <5>4
      <4>4. QED
        BY <4>2, <4>3
    <3>4. QED
      BY <3>2, <3>3
  <2>7. QED
    BY <2>2, <2>5, <2>6
<1>3. QED
  BY <1>1, <1>2

\* Two sequences of cells, one behind the other.
Chained(x, y) == x \o y

\* They make one that is as long as both, and it does not matter where three are joined
\* first.
LEMMA ChainedCells ==
  /\ \A x, y \in Seq(Nat) : Chained(x, y) \in Seq(Nat) /\ Len(Chained(x, y)) = Len(x) + Len(y)
  /\ \A x, y, z \in Seq(Nat) : Chained(Chained(x, y), z) = Chained(x, Chained(y, z))
<1>1. \A x, y \in Seq(Nat) : Chained(x, y) \in Seq(Nat) /\ Len(Chained(x, y)) = Len(x) + Len(y)
  BY ConcatCells DEF Chained
<1>2. \A x, y, z \in Seq(Nat) : (x \o y) \o z = x \o (y \o z)
  BY ConcatAssociates
<1>3. QED
  BY <1>1, <1>2 DEF Chained

\* A JPEG is its two first cells, its segments and what stands behind them, and a
\* beginning of it says the same cell for cell.
LEMMA JpegCells ==
  ASSUME NEW p \in Picture, IsJpeg(p)
  PROVE  /\ p.head \in Seq(Seq(Nat)) /\ \A i \in 1 .. Len(p.head) : IsSegment(p.head[i])
         /\ p.stopped \in BOOLEAN /\ p.rest \in Seq(Nat)
         /\ p.frame \in [w : Nat, h : Nat, n : Nat, len : Nat]
         /\ Stopping(p) \in Seq(Nat) /\ FrameCells(p.frame) \in Seq(Nat)
         /\ Len(FrameCells(p.frame)) = 7 + p.frame.n
         /\ Ending(p) \in Seq(Nat)
         /\ Len(Ending(p)) >= 7 + Len(p.rest)
         /\ <<Fill, Soi>> \in Seq(Nat) /\ FlattenSeq(p.head) \in Seq(Nat)
         /\ Jpeg(p) = <<Fill, Soi>> \o (FlattenSeq(p.head) \o Ending(p))
         /\ Jpeg(p) \in Seq(Nat)
<1>1. /\ p.head \in Seq(Seq(Nat)) /\ \A i \in 1 .. Len(p.head) : IsSegment(p.head[i])
      /\ p.stopped \in BOOLEAN /\ p.rest \in Seq(Nat)
      /\ p.frame \in [w : Nat, h : Nat, n : Nat, len : Nat]
  BY PictureAssumption
<1>2. {Fill, Soi, Restart, Stop, Sof} \subseteq Nat
  BY InspectAssumption
<1>3. Stopping(p) \in Seq(Nat) /\ <<Fill, Soi>> \in Seq(Nat)
  BY <1>2 DEF Stopping
<1>4. FrameCells(p.frame) \in Seq(Nat) /\ Len(FrameCells(p.frame)) = 7 + p.frame.n
  <2> DEFINE f == p.frame
             fixed == <<Fill, Sof, f.len, 8, f.h, f.w, f.n>>
             components == [i \in 1 .. f.n |-> 1]
  <2>1. f.w \in Nat /\ f.h \in Nat /\ f.n \in Nat /\ f.len \in Nat
    BY <1>1
  <2>2. fixed \in Seq(Nat) /\ Len(fixed) = 7
    BY <1>2, <2>1
  <2>3. components \in Seq(Nat) /\ Len(components) = f.n
    BY <2>1
  <2>4. FrameCells(p.frame) = fixed \o components
    BY DEF FrameCells
  <2> HIDE DEF fixed, components
  <2>5. fixed \o components \in Seq(Nat) /\ Len(fixed \o components) = 7 + f.n
    <3>1. \A x, y \in Seq(Nat) : x \o y \in Seq(Nat) /\ Len(x \o y) = Len(x) + Len(y)
      BY ConcatCells
    <3>2. QED
      BY <2>2, <2>3, <3>1
  <2>6. QED
    BY <2>4, <2>5
<1>5. FlattenSeq(p.head) \in Seq(Nat)
  BY <1>1, FlattenTyped
<1> DEFINE a == <<Fill, Soi>>
           b == FlattenSeq(p.head)
           c == Stopping(p)
           d == FrameCells(p.frame)
           e == p.rest
<1>6. Jpeg(p) = (((a \o b) \o c) \o d) \o e /\ Ending(p) = (c \o d) \o e
  BY DEF Jpeg, Ending, Stopping
<1>7. a \in Seq(Nat) /\ b \in Seq(Nat) /\ c \in Seq(Nat) /\ d \in Seq(Nat) /\ e \in Seq(Nat)
  BY <1>1, <1>3, <1>4, <1>5
<1> HIDE DEF a, b, c, d, e
<1>0. /\ \A x, y \in Seq(Nat) : Chained(x, y) \in Seq(Nat) /\ Len(Chained(x, y)) = Len(x) + Len(y)
      /\ \A x, y, z \in Seq(Nat) : Chained(Chained(x, y), z) = Chained(x, Chained(y, z))
  BY ChainedCells
<1>61. Jpeg(p) = Chained(Chained(Chained(Chained(a, b), c), d), e) /\ Ending(p) = Chained(Chained(c, d), e)
  BY <1>6 DEF Chained
<1>62. \A x : Chained(a, Chained(b, x)) = a \o (b \o x)
  BY DEF Chained
<1>8. Chained(c, d) \in Seq(Nat) /\ Len(Chained(c, d)) = Len(c) + Len(d)
  BY <1>0, <1>7
<1>9. Ending(p) \in Seq(Nat) /\ Len(Ending(p)) = Len(c) + Len(d) + Len(e)
  <2>1. Chained(Chained(c, d), e) \in Seq(Nat) /\ Len(Chained(Chained(c, d), e)) = Len(Chained(c, d)) + Len(e)
    BY <1>0, <1>7, <1>8
  <2>2. QED
    BY <1>61, <1>8, <2>1
<1>10. Chained(a, b) \in Seq(Nat) /\ Chained(Chained(Chained(a, b), c), d) = Chained(Chained(a, b), Chained(c, d))
  BY <1>0, <1>7
<1>11. Jpeg(p) = Chained(Chained(a, b), Ending(p))
  BY <1>0, <1>61, <1>7, <1>8, <1>10
<1>12. Jpeg(p) = Chained(a, Chained(b, Ending(p))) /\ Jpeg(p) \in Seq(Nat)
  BY <1>0, <1>7, <1>9, <1>10, <1>11
<1>13. Jpeg(p) = a \o (b \o Ending(p))
  BY <1>62, <1>12
<1>14. Len(e) \in Nat /\ Len(c) \in Nat /\ Len(d) = 7 + p.frame.n /\ p.frame.n \in Nat
  BY <1>1, <1>4, <1>7 DEF d
<1>15. Len(Ending(p)) >= 7 + Len(e)
  BY <1>9, <1>14
<1>16. QED
  BY <1>1, <1>3, <1>4, <1>5, <1>9, <1>12, <1>13, <1>15 DEF a, b, c, d, e

\* What is read at a position is what was written there.
LEMMA CellsAhead ==
  ASSUME NEW before \in Seq(Nat), NEW x \in Seq(Nat), NEW y \in Seq(Nat), NEW whole \in Seq(Nat),
         whole = before \o (x \o y), NEW n \in 0 .. Len(whole), file = SubSeq(whole, 1, n)
  PROVE  /\ Size = n /\ Size \in Nat /\ Len(whole) = Len(before) + Len(x) + Len(y)
         /\ \A j \in 1 .. Len(x) : Len(before) + j <= Size => Cell(Len(before) + j - 1) = x[j]
<1>1. /\ x \o y \in Seq(Nat) /\ Len(x \o y) = Len(x) + Len(y)
      /\ \A j \in 1 .. Len(x) : (x \o y)[j] = x[j]
  BY ConcatCells
<1>2. \A s, t \in Seq(Nat) : /\ Len(s \o t) = Len(s) + Len(t)
                             /\ \A j \in 1 .. Len(t) : (s \o t)[Len(s) + j] = t[j]
  BY ConcatCells
<1>3. /\ Len(whole) = Len(before) + Len(x \o y)
      /\ \A j \in 1 .. Len(x \o y) : whole[Len(before) + j] = (x \o y)[j]
  BY <1>1, <1>2
<1>4. Len(file) = n /\ \A i \in 1 .. n : file[i] = whole[i]
  OBVIOUS
<1>5. Size = n /\ Size \in Nat /\ Len(whole) = Len(before) + Len(x) + Len(y)
  BY <1>1, <1>3, <1>4 DEF Size
<1>6. ASSUME NEW j \in 1 .. Len(x), Len(before) + j <= Size
      PROVE  Cell(Len(before) + j - 1) = x[j]
  <2> DEFINE i == Len(before) + j
  <2>1. i \in 1 .. n /\ i - 1 + 1 = i /\ j \in 1 .. Len(x \o y)
    BY <1>1, <1>5, <1>6
  <2>2. whole[i] = x[j]
    BY <1>1, <1>3, <2>1
  <2> HIDE DEF i
  <2>3. Cell(i - 1) = file[i]
    BY <2>1 DEF Cell
  <2>4. Cell(i - 1) = x[j]
    BY <1>4, <2>1, <2>2, <2>3
  <2>5. QED
    BY <2>4 DEF i
<1>7. QED
  BY <1>5, <1>6

\* The frame header, if nothing stops the walk before it, and all of it, is there.
Held(p, n) == ~p.stopped /\ Sound(p.frame) /\ n >= FrameEnd(p)

\* At a segment: it is passed, or it is cut off, and then the frame header is not there.
LEMMA AtOneSegment ==
  ASSUME NEW p \in Picture, IsJpeg(p), NEW n \in 0 .. Len(Jpeg(p)),
         file = SubSeq(Jpeg(p), 1, n), inspected = "markers", Marker,
         NEW before \in Seq(Nat), NEW ahead \in Seq(Seq(Nat)), Len(before) = at, ahead # <<>>,
         \A i \in 1 .. Len(ahead) : IsSegment(ahead[i]),
         Jpeg(p) = before \o (FlattenSeq(ahead) \o Ending(p))
  PROVE  \/ inspected' = "markers" /\ AtSegment(p, at')
         \/ inspected' = "InvalidInput" /\ ~Held(p, n)
<1> DEFINE h == Head(ahead)
           t == Tail(ahead)
           f == FlattenSeq(t)
           e == Ending(p)
<1>1. /\ h \in Seq(Nat) /\ t \in Seq(Seq(Nat)) /\ h = ahead[1] /\ ahead = <<h>> \o t
      /\ Len(t) = Len(ahead) - 1 /\ \A i \in 1 .. Len(ahead) - 1 : t[i] = ahead[i + 1]
      /\ Len(ahead) \in Nat \ {0}
  BY HeadAndTail
<1>2. IsSegment(h) /\ \A i \in 1 .. Len(t) : IsSegment(t[i])
  BY <1>1
<1>3. FlattenSeq(ahead) = Chained(h, f) /\ f \in Seq(Nat)
  BY <1>1, FlattenFirst, FlattenTyped DEF Chained
<1>4. e \in Seq(Nat) /\ Len(e) >= 7 + Len(p.rest) /\ Jpeg(p) \in Seq(Nat) /\ p.rest \in Seq(Nat)
  BY JpegCells
<1>5. Jpeg(p) = Chained(before, Chained(Chained(h, f), e))
  BY <1>3 DEF Chained
<1>6. /\ \A x, y \in Seq(Nat) : Chained(x, y) \in Seq(Nat) /\ Len(Chained(x, y)) = Len(x) + Len(y)
      /\ \A x, y, z \in Seq(Nat) : Chained(Chained(x, y), z) = Chained(x, Chained(y, z))
  BY ChainedCells
<1> HIDE DEF h, t, f, e
<1>7. Jpeg(p) = Chained(before, Chained(h, Chained(f, e))) /\ Chained(f, e) \in Seq(Nat)
  BY <1>1, <1>3, <1>4, <1>5, <1>6
<1>8. Jpeg(p) = Chained(Chained(before, h), Chained(f, e)) /\ Chained(before, h) \in Seq(Nat)
  BY <1>1, <1>6, <1>7
<1>9. /\ Size = n /\ Size \in Nat /\ Len(Jpeg(p)) = at + Len(h) + Len(Chained(f, e))
      /\ \A j \in 1 .. Len(h) : at + j <= Size => Cell(at + j - 1) = h[j]
  <2>1. Jpeg(p) = before \o (h \o Chained(f, e))
    BY <1>7 DEF Chained
  <2>2. QED
    <3> DEFINE y == Chained(f, e)
    <3>1. h \in Seq(Nat) /\ y \in Seq(Nat) /\ Jpeg(p) \in Seq(Nat) /\ Jpeg(p) = before \o (h \o y)
      BY <1>1, <1>4, <1>7, <2>1
    <3> HIDE DEF y
    <3>2. QED
      <4>1. /\ Size = n /\ Size \in Nat /\ Len(Jpeg(p)) = Len(before) + Len(h) + Len(y)
            /\ \A j \in 1 .. Len(h) : Len(before) + j <= Size => Cell(Len(before) + j - 1) = h[j]
        BY <3>1, CellsAhead
      <4>2. QED
        BY <4>1 DEF y
<1>10. at \in Nat
  OBVIOUS
<1>11. CASE Refuses("InvalidInput") /\ Size < at + Len(h)
  <2>1. Len(Chained(f, e)) >= Len(p.rest)
    <3>1. Len(f) \in Nat /\ Len(e) \in Nat /\ Len(p.rest) \in Nat
      BY <1>3, <1>4
    <3>2. Len(Chained(f, e)) = Len(f) + Len(e)
      BY <1>3, <1>4, <1>6
    <3>3. QED
      BY <1>4, <3>1, <3>2
  <2>2. FrameEnd(p) >= at + Len(h)
    <3>1. Len(h) \in Nat /\ Len(p.rest) \in Nat /\ Len(Chained(f, e)) \in Nat
      BY <1>1, <1>4, <1>7
    <3>2. QED
      BY <1>9, <1>10, <2>1, <3>1 DEF FrameEnd
  <2>3. FrameEnd(p) \in Int /\ Len(h) \in Nat
    BY <1>1, <1>4 DEF FrameEnd
  <2>4. ~Held(p, n)
    BY <1>9, <1>10, <1>11, <2>2, <2>3 DEF Held
  <2>5. QED
    BY <1>11, <2>4 DEF Refuses
<1>12. CASE at' = at + Len(h) /\ UNCHANGED <<inspected, facts>>
  <2>1. Len(Chained(before, h)) = at'
    BY <1>1, <1>6, <1>12
  <2>2. Jpeg(p) = Chained(before, h) \o (FlattenSeq(t) \o Ending(p))
    BY <1>8 DEF Chained, f, e
  <2> DEFINE b == Chained(before, h)
  <2> HIDE DEF b
  <2>3. b \in Seq(Nat) /\ Len(b) = at' /\ Jpeg(p) = b \o (FlattenSeq(t) \o Ending(p))
    BY <1>8, <2>1, <2>2 DEF b
  <2>4. AtSegment(p, at')
    BY <1>1, <1>2, <2>3 DEF AtSegment
  <2>5. QED
    BY <1>12, <2>4
<1>13. QED
  BY <1>1, <1>2, <1>9, <1>10, <1>11, <1>12, SegmentPassed

\* Behind the segments: the frame header is measured exactly if it is there.
LEMMA AtTheEnding ==
  ASSUME NEW p \in Picture, IsJpeg(p), NEW n \in 0 .. Len(Jpeg(p)),
         file = SubSeq(Jpeg(p), 1, n), Marker,
         NEW before \in Seq(Nat), Len(before) = at, Jpeg(p) = before \o Ending(p)
  PROVE  \/ inspected' = "Ok" /\ Held(p, n) /\ facts' = [w |-> p.frame.w, h |-> p.frame.h]
         \/ inspected' = "InvalidInput" /\ ~Held(p, n)
<1> DEFINE s == Stopping(p)
           c == FrameCells(p.frame)
           r == p.rest
           f == p.frame
<1>1. /\ s \in Seq(Nat) /\ c \in Seq(Nat) /\ r \in Seq(Nat) /\ Len(c) = 7 + f.n
      /\ Jpeg(p) \in Seq(Nat) /\ f \in [w : Nat, h : Nat, n : Nat, len : Nat]
      /\ p.stopped \in BOOLEAN
  BY JpegCells
<1>2. Ending(p) = Chained(Chained(s, c), r)
  BY DEF Ending, Chained
<1>3. at \in Nat /\ f.w \in Nat /\ f.h \in Nat /\ f.n \in Nat /\ f.len \in Nat
  BY <1>1
<1>0. /\ \A x, y \in Seq(Nat) : Chained(x, y) \in Seq(Nat)
      /\ \A x, y, z \in Seq(Nat) : Chained(Chained(x, y), z) = Chained(x, Chained(y, z))
  BY ChainedCells
<1>4. CASE p.stopped
  <2>1. s \in Seq(Nat) /\ Len(s) = 2 /\ s[1] = Fill /\ s[2] = Stop
    BY <1>1, <1>4 DEF Stopping
  <2> HIDE DEF s, c, r, f
  <2>2. Ending(p) = Chained(s, Chained(c, r)) /\ Chained(c, r) \in Seq(Nat)
    BY <1>0, <1>1, <1>2
  <2>3. Size \in Nat /\ \A j \in 1 .. Len(s) : at + j <= Size => Cell(at + j - 1) = s[j]
    <3>1. Jpeg(p) = before \o (s \o Chained(c, r))
      BY <2>2 DEF Chained
    <3>2. QED
      BY <1>1, <2>2, <3>1, CellsAhead
  <2>4. (at < Size => Cell(at) = Fill) /\ (at + 1 < Size => Cell(at + 1) = Stop)
    <3>1. 1 \in 1 .. Len(s) /\ 2 \in 1 .. Len(s) /\ at + 1 - 1 = at /\ at + 2 - 1 = at + 1
      BY <1>3, <2>1
    <3>2. QED
      BY <1>3, <2>1, <2>3, <3>1
  <2>5. Refuses("InvalidInput")
    BY <1>3, <2>3, <2>4, StopRefuses
  <2>6. QED
    BY <1>4, <2>5 DEF Refuses, Held
<1>5. CASE ~p.stopped
  <2>1. Ending(p) = c \o r
    <3>1. s = <<>>
      BY <1>5 DEF Stopping
    <3>2. s \o c = c
      BY <1>1, <3>1
    <3>3. QED
      BY <1>2, <3>2 DEF Chained
  <2>2. /\ c[1] = Fill /\ c[2] = Sof /\ c[3] = f.len /\ c[5] = f.h /\ c[6] = f.w /\ c[7] = f.n
    <3> DEFINE fixed == <<Fill, Sof, f.len, 8, f.h, f.w, f.n>>
               components == [i \in 1 .. f.n |-> 1]
    <3>1. fixed \in Seq(Nat) /\ Len(fixed) = 7
      BY <1>3, InspectAssumption
    <3>2. components \in Seq(Nat)
      BY <1>1
    <3>3. /\ fixed[1] = Fill /\ fixed[2] = Sof /\ fixed[3] = f.len /\ fixed[5] = f.h
          /\ fixed[6] = f.w /\ fixed[7] = f.n
      OBVIOUS
    <3>4. c = fixed \o components
      BY DEF FrameCells
    <3> HIDE DEF fixed, components, c
    <3>5. \A i \in 1 .. 7 : c[i] = fixed[i]
      <4>1. \A x, y \in Seq(Nat) : \A i \in 1 .. Len(x) : (x \o y)[i] = x[i]
        BY ConcatCells
      <4>2. QED
        BY <3>1, <3>2, <3>4, <4>1
    <3>6. QED
      BY <3>3, <3>5
  <2> HIDE DEF s, c, r, f
  <2>3. /\ Size = n /\ Size \in Nat /\ Len(Jpeg(p)) = at + Len(c) + Len(r)
        /\ \A j \in 1 .. Len(c) : at + j <= Size => Cell(at + j - 1) = c[j]
    <3>1. Jpeg(p) = before \o (c \o r) /\ c \in Seq(Nat) /\ r \in Seq(Nat) /\ Jpeg(p) \in Seq(Nat)
      BY <1>1, <2>1
    <3>2. /\ Size = n /\ Size \in Nat /\ Len(Jpeg(p)) = Len(before) + Len(c) + Len(r)
          /\ \A j \in 1 .. Len(c) : Len(before) + j <= Size => Cell(Len(before) + j - 1) = c[j]
      BY <3>1, CellsAhead
    <3>3. QED
      BY <3>2
  <2>4. FrameEnd(p) = at + 7 + f.n /\ f.n \in Nat
    <3>1. Len(r) \in Nat /\ f.n \in Nat
      BY <1>1
    <3>2. FrameEnd(p) = Len(Jpeg(p)) - Len(r)
      BY DEF FrameEnd, r
    <3>3. QED
      BY <1>1, <1>3, <2>3, <3>1, <3>2
  <2>5. \A j \in 0 .. 6 : at + j < Size => Cell(at + j) = c[j + 1]
    <3>1. ASSUME NEW j \in 0 .. 6, at + j < Size PROVE Cell(at + j) = c[j + 1]
      <4> DEFINE i == j + 1
      <4>1. i \in 1 .. Len(c) /\ at + i <= Size /\ at + i - 1 = at + j
        <5>1. Len(c) \in Nat /\ Len(c) >= 7 /\ Size \in Nat /\ at \in Nat
          BY <1>1, <1>3, <2>3
        <5>2. QED
          BY <3>1, <5>1
      <4> HIDE DEF i
      <4>2. Cell(at + j) = c[i]
        BY <2>3, <4>1
      <4>3. QED
        BY <4>2 DEF i
    <3>2. QED
      BY <3>1
  <2>6. /\ at < Size => Cell(at) = Fill
        /\ at + 1 < Size => Cell(at + 1) = Sof
        /\ at + 2 < Size => Cell(at + 2) = f.len
        /\ at + 4 < Size => Cell(at + 4) = f.h
        /\ at + 5 < Size => Cell(at + 5) = f.w
        /\ at + 6 < Size => Cell(at + 6) = f.n
    <3>1. at + 0 = at /\ 0 + 1 = 1 /\ 1 + 1 = 2 /\ 2 + 1 = 3 /\ 4 + 1 = 5 /\ 5 + 1 = 6 /\ 6 + 1 = 7
      BY <1>3
    <3>2. QED
      BY <2>2, <2>5, <3>1
  <2>7. \/ Refuses("InvalidInput") /\ ~(Sound(f) /\ Size >= at + 7 + f.n)
        \/ /\ inspected' = "Ok" /\ facts' = [w |-> f.w, h |-> f.h]
           /\ Sound(f) /\ Size >= at + 7 + f.n
    BY <1>1, <1>3, <2>3, <2>6, FrameMeasured
  <2>8. QED
    BY <1>5, <2>3, <2>4, <2>7 DEF Refuses, Held, f
<1>6. QED
  BY <1>1, <1>4, <1>5

\* What stands behind the segments begins with a cell of fill.
LEMMA EndingBegins ==
  ASSUME NEW p \in Picture, IsJpeg(p)
  PROVE  Ending(p)[1] = Fill
<1> DEFINE s == Stopping(p)
           c == FrameCells(p.frame)
           r == p.rest
<1>1. /\ s \in Seq(Nat) /\ c \in Seq(Nat) /\ r \in Seq(Nat) /\ Len(c) = 7 + p.frame.n
      /\ p.stopped \in BOOLEAN /\ p.frame \in [w : Nat, h : Nat, n : Nat, len : Nat]
  BY JpegCells
<1>2. p.frame.w \in Nat /\ p.frame.h \in Nat /\ p.frame.n \in Nat /\ p.frame.len \in Nat
  BY <1>1
<1>3. \A x, y \in Seq(Nat) : /\ Len(x \o y) = Len(x) + Len(y) /\ x \o y \in Seq(Nat)
                             /\ \A i \in 1 .. Len(x) : (x \o y)[i] = x[i]
  BY ConcatCells
<1>0. \A x, y \in Seq(Nat) : Len(x) >= 1 => (x \o y)[1] = x[1]
  <2>1. \A x \in Seq(Nat) : Len(x) >= 1 => 1 \in 1 .. Len(x)
    OBVIOUS
  <2>2. QED
    BY <1>3, <2>1
<1>4. c[1] = Fill
  <2> DEFINE f == p.frame
             fixed == <<Fill, Sof, f.len, 8, f.h, f.w, f.n>>
             components == [i \in 1 .. f.n |-> 1]
  <2>1. fixed \in Seq(Nat) /\ Len(fixed) = 7 /\ fixed[1] = Fill
    BY <1>2, InspectAssumption
  <2>2. components \in Seq(Nat)
    BY <1>2
  <2>3. c = fixed \o components
    BY DEF FrameCells
  <2> HIDE DEF fixed, components, c
  <2>4. QED
    <3>1. Len(fixed) >= 1
      BY <2>1
    <3>2. (fixed \o components)[1] = fixed[1]
      BY <1>0, <2>1, <2>2, <3>1
    <3>3. QED
      BY <2>1, <2>3, <3>2
<1>5. s \o c \in Seq(Nat) /\ Len(s \o c) >= 1 /\ (s \o c)[1] = Fill
  <2>1. CASE p.stopped
    <3>1. Len(s) = 2 /\ s[1] = Fill
      BY <2>1 DEF Stopping
    <3> HIDE DEF s, c, r
    <3>2. s \o c \in Seq(Nat) /\ Len(s \o c) = 2 + Len(c)
      <4>1. s \o c \in Seq(Nat) /\ Len(s \o c) = Len(s) + Len(c)
        BY <1>1, <1>3
      <4>2. QED
        BY <3>1, <4>1
    <3>4. (s \o c)[1] = s[1]
      <4>1. Len(s) >= 1
        BY <3>1
      <4>2. QED
        BY <1>0, <1>1, <4>1
    <3>3. QED
      BY <1>1, <1>2, <3>1, <3>2, <3>4
  <2>2. CASE ~p.stopped
    <3>1. s = <<>>
      BY <2>2 DEF Stopping
    <3> HIDE DEF c, r
    <3>2. s \o c = c
      BY <1>1, <3>1
    <3>3. QED
      BY <1>1, <1>2, <1>4, <3>2
  <2>3. QED
    BY <1>1, <2>1, <2>2
<1>6. Ending(p) = (s \o c) \o r
  BY DEF Ending
<1> DEFINE sc == s \o c
<1> HIDE DEF s, c, r
<1>7. sc \in Seq(Nat) /\ Len(sc) >= 1 /\ sc[1] = Fill /\ Ending(p) = sc \o r /\ 1 \in 1 .. Len(sc)
  BY <1>5, <1>6
<1> HIDE DEF sc
<1>8. QED
  BY <1>1, <1>3, <1>7

\* The third cell of a JPEG, at which its first segment begins, is one of fill too.
LEMMA HeadBegins ==
  ASSUME NEW p \in Picture, IsJpeg(p)
  PROVE  (FlattenSeq(p.head) \o Ending(p))[1] = Fill
<1> DEFINE e == Ending(p)
<1>1. /\ p.head \in Seq(Seq(Nat)) /\ (\A i \in 1 .. Len(p.head) : IsSegment(p.head[i]))
      /\ e \in Seq(Nat) /\ FlattenSeq(p.head) \in Seq(Nat) /\ e[1] = Fill
  BY JpegCells, EndingBegins
<1>2. CASE p.head = <<>>
  <2>1. FlattenSeq(p.head) = <<>>
    <3>1. <<>> \in Seq(Seq(Nat)) /\ <<>> \in Seq(Nat)
      OBVIOUS
    <3>2. QED
      BY <1>2, <3>1, FlattenGrows
  <2> HIDE DEF e
  <2>2. <<>> \o e = e
    BY <1>1
  <2>3. QED
    BY <1>1, <2>1, <2>2 DEF e
<1>3. CASE p.head # <<>>
  <2> DEFINE h == Head(p.head)
             t == Tail(p.head)
             f == FlattenSeq(t)
  <2>1. h \in Seq(Nat) /\ t \in Seq(Seq(Nat)) /\ h = p.head[1] /\ p.head = <<h>> \o t
    BY <1>1, <1>3, HeadAndTail
  <2>2. FlattenSeq(p.head) = h \o f /\ f \in Seq(Nat)
    BY <2>1, FlattenFirst, FlattenTyped
  <2>3. Len(h) >= 1 /\ h[1] = Fill
    <3>1. IsSegment(h)
      <4>1. 1 \in 1 .. Len(p.head)
        BY <1>1, <1>3
      <4>2. QED
        BY <1>1, <2>1, <4>1
    <3> HIDE DEF h
    <3>2. QED
      BY <2>1, <3>1 DEF IsSegment
  <2> HIDE DEF e, h, t, f
  <2>4. \A x, y \in Seq(Nat) : /\ Len(x \o y) = Len(x) + Len(y) /\ x \o y \in Seq(Nat)
                               /\ \A i \in 1 .. Len(x) : (x \o y)[i] = x[i]
    BY ConcatCells
  <2> DEFINE hf == h \o f
  <2>5. hf \in Seq(Nat) /\ Len(hf) >= 1 /\ hf[1] = Fill
    <3>1. Len(h) \in Nat /\ Len(f) \in Nat /\ 1 \in 1 .. Len(h)
      BY <2>1, <2>2, <2>3
    <3>2. hf \in Seq(Nat) /\ Len(hf) = Len(h) + Len(f) /\ hf[1] = h[1]
      BY <2>1, <2>2, <2>4, <3>1
    <3> HIDE DEF hf
    <3>3. QED
      BY <2>3, <3>1, <3>2
  <2> HIDE DEF hf
  <2>6. (hf \o e)[1] = hf[1]
    <3>1. 1 \in 1 .. Len(hf)
      BY <2>5
    <3>2. QED
      BY <1>1, <2>4, <2>5, <3>1
  <2>7. QED
    BY <2>2, <2>5, <2>6 DEF e, hf
<1>4. QED
  BY <1>2, <1>3

\* The first three cells of a file.
LEMMA FirstThree ==
  ASSUME NEW s \in Seq(Nat), Len(s) >= 3
  PROVE  /\ SubSeq(s, 1, 3) \in Seq(Nat) /\ Len(SubSeq(s, 1, 3)) = 3
         /\ SubSeq(s, 1, 3)[1] = s[1] /\ SubSeq(s, 1, 3)[2] = s[2] /\ SubSeq(s, 1, 3)[3] = s[3]
<1>1. SubSeq(s, 1, 3) \in Seq(Nat) /\ Len(SubSeq(s, 1, 3)) = 3
  OBVIOUS
<1>2. ASSUME NEW i \in 1 .. 3 PROVE SubSeq(s, 1, 3)[i] = s[i]
  OBVIOUS
<1>3. QED
  BY <1>1, <1>2

\* So a file that begins like a JPEG is found out by its first three cells, and the walk
\* begins at its first segment.
LEMMA JpegBegins ==
  ASSUME NEW p \in Picture, IsJpeg(p), NEW n \in 0 .. Len(Jpeg(p)), file = SubSeq(Jpeg(p), 1, n)
  PROVE  /\ Len(file) = n /\ n \in Nat
         /\ n >= 3 => IsPrefix(<<Fill, Soi, Fill>>, file)
         /\ AtSegment(p, 2)
<1> DEFINE two == <<Fill, Soi>>
           rem == FlattenSeq(p.head) \o Ending(p)
           j == Jpeg(p)
<1>1. /\ p.head \in Seq(Seq(Nat)) /\ (\A i \in 1 .. Len(p.head) : IsSegment(p.head[i]))
      /\ two \in Seq(Nat) /\ j = two \o rem /\ j \in Seq(Nat)
      /\ FlattenSeq(p.head) \in Seq(Nat) /\ Ending(p) \in Seq(Nat)
  BY JpegCells
<1>2. Len(two) = 2 /\ two[1] = Fill /\ two[2] = Soi /\ rem[1] = Fill
  BY HeadBegins
<1>3. AtSegment(p, 2)
  BY <1>1, <1>2 DEF AtSegment
<1>4. rem \in Seq(Nat) /\ Len(rem) >= 1
  <2>1. Len(FlattenSeq(p.head)) \in Nat /\ Len(p.rest) \in Nat /\ Len(Ending(p)) >= 7 + Len(p.rest)
    BY JpegCells
  <2>2. rem \in Seq(Nat) /\ Len(rem) = Len(FlattenSeq(p.head)) + Len(Ending(p))
    BY <1>1, ConcatCells
  <2> HIDE DEF rem
  <2>3. Len(Ending(p)) \in Nat
    BY <1>1
  <2>4. QED
    BY <2>1, <2>2, <2>3
<1> HIDE DEF two, rem, j
<1>5. j[1] = Fill /\ j[2] = Soi /\ j[3] = Fill
  <2>1. /\ \A i \in 1 .. Len(two) : (two \o rem)[i] = two[i]
        /\ \A i \in 1 .. Len(rem) : (two \o rem)[Len(two) + i] = rem[i]
    BY <1>1, <1>4, ConcatCells
  <2>2. 1 \in 1 .. Len(two) /\ 2 \in 1 .. Len(two) /\ 1 \in 1 .. Len(rem) /\ Len(two) + 1 = 3
    BY <1>2, <1>4
  <2>3. QED
    BY <1>1, <1>2, <2>1, <2>2
<1>6. /\ file \in Seq(Nat) /\ Len(file) = n /\ n \in Nat
      /\ \A i \in 1 .. n : file[i] = j[i]
  BY <1>1 DEF j
<1>7. ASSUME n >= 3 PROVE IsPrefix(<<Fill, Soi, Fill>>, file)
  <2> DEFINE three == <<Fill, Soi, Fill>>
             s == SubSeq(three, 1, 3)
             t == SubSeq(file, 1, 3)
  <2>1. file[1] = Fill /\ file[2] = Soi /\ file[3] = Fill
    BY <1>5, <1>6, <1>7
  <2>2. three \in Seq(Nat) /\ Len(three) = 3 /\ three[1] = Fill /\ three[2] = Soi /\ three[3] = Fill
    BY InspectAssumption
  <2> HIDE DEF three
  <2>3. /\ s \in Seq(Nat) /\ Len(s) = 3 /\ s[1] = Fill /\ s[2] = Soi /\ s[3] = Fill
    <3>1. Len(three) >= 3
      BY <2>2
    <3>2. /\ s \in Seq(Nat) /\ Len(s) = 3
          /\ s[1] = three[1] /\ s[2] = three[2] /\ s[3] = three[3]
      BY <2>2, <3>1, FirstThree
    <3> HIDE DEF s
    <3>3. QED
      BY <2>2, <3>2
  <2>4. t \in Seq(Nat) /\ Len(t) = 3 /\ t[1] = Fill /\ t[2] = Soi /\ t[3] = Fill
    BY <1>6, <1>7, <2>1, FirstThree
  <2> HIDE DEF s, t
  <2>5. s = t
    <3>1. \A i \in 1 .. Len(s) : s[i] = t[i]
      <4>1. \A i \in 1 .. Len(s) : i = 1 \/ i = 2 \/ i = 3
        BY <2>3
      <4>2. QED
        BY <2>3, <2>4, <4>1
    <3>2. QED
      BY <2>3, <2>4, <3>1, SameSequence
  <2>6. IsPrefix(three, file)
    BY <1>6, <1>7, <2>2, <2>5 DEF IsPrefix, s, t
  <2>7. QED
    BY <2>6 DEF three
<1>8. QED
  BY <1>3, <1>6, <1>7

\* An inspection begins before the walk, with a file that is made from its picture.
LEMMA InspectInitially ==
  InspectInit \/ InspectIdle => InspectInv
<1>1. ASSUME InspectIdle PROVE InspectInv
  BY <1>1 DEF InspectIdle, InspectInv, FrameFound
<1>2. ASSUME InspectInit PROVE InspectInv
  <2>1. PICK p \in Picture : \E n \in 0 .. Len(Written(p)) :
          picture = [of |-> p, cells |-> n] /\ file = SubSeq(Written(p), 1, n)
    BY <1>2 DEF InspectInit
  <2>2. PICK n \in 0 .. Len(Written(p)) :
          picture = [of |-> p, cells |-> n] /\ file = SubSeq(Written(p), 1, n)
    BY <2>1, Zenon
  <2>3. picture.of = p /\ picture.cells = n /\ at = 0 /\ inspected = "stream"
    BY <1>2, <2>2 DEF InspectInit
  <2>4. IsJpeg(p) => Written(p) = Jpeg(p)
    BY DEF Written
  <2>5. QED
    BY <2>2, <2>3, <2>4 DEF InspectInv, FrameFound
<1>3. QED
  BY <1>1, <1>2

\* A step of another call leaves the inspection alone.
LEMMA InspectStutters ==
  InspectInv /\ UNCHANGED inspectVars => InspectInv'
<1>1. SUFFICES ASSUME InspectInv, UNCHANGED <<picture, file, at, inspected, facts>> PROVE InspectInv'
  BY DEF inspectVars
<1>2. \A p : UNCHANGED <<Jpeg(p), FrameEnd(p), AtSegment(p, at)>>
  BY <1>1 DEF AtSegment
<1>3. QED
  BY <1>1, <1>2 DEF InspectInv, FrameFound

\* Every step of an inspection keeps it.
LEMMA InspectKeeps ==
  InspectInv /\ InspectNext => InspectInv'
<1>1. SUFFICES ASSUME InspectInv, InspectNext, UNCHANGED <<picture, file>>,
                      picture # <<>>, IsJpeg(picture.of)
               PROVE  InspectInv'
  <2>1. InspectNext => UNCHANGED <<picture, file>>
    BY DEF InspectNext, ReadImage, TransferFails, Sniff, Marker
  <2>2. QED
    BY <2>1 DEF InspectInv, FrameFound, IsJpeg
<1> DEFINE p == picture.of
           n == picture.cells
           ok == inspected' = "Ok" /\ Held(p, n) /\ facts' = [w |-> p.frame.w, h |-> p.frame.h]
           no == inspected' = "InvalidInput" /\ (at' = 0 \/ ~Held(p, n))
           on == \/ inspected' = "bytes" /\ at' = 0
                 \/ inspected' = "TransferFailed" /\ at' = 0
                 \/ inspected' = "markers" /\ AtSegment(p, at')
<1>2. /\ p \in Picture /\ n \in 0 .. Len(Jpeg(p)) /\ file = SubSeq(Jpeg(p), 1, n)
      /\ inspected \in {"stream", "bytes", "TransferFailed"} => at = 0
      /\ inspected = "markers" => AtSegment(p, at)
  BY <1>1 DEF InspectInv
<1>3. p' = p /\ n' = n
  BY <1>1
<1>4. SUFFICES ok \/ no \/ on
  <2>1. ASSUME ok \/ no \/ on PROVE InspectInv'
    <3>1. /\ inspected' \in {"stream", "bytes", "TransferFailed"} => at' = 0
          /\ inspected' = "markers" => AtSegment(p, at')
          /\ inspected' = "Ok" => Held(p, n) /\ facts' = [w |-> p.frame.w, h |-> p.frame.h]
          /\ inspected' = "InvalidInput" => at' = 0 \/ ~Held(p, n)
      BY <2>1
    <3>2. (AtSegment(picture.of, at))' = AtSegment(p, at')
      BY <1>1 DEF AtSegment
    <3>3. picture' = picture /\ file' = file
      BY <1>1
    <3>4. QED
      BY <1>2, <3>1, <3>2, <3>3 DEF InspectInv, FrameFound, Held
  <2>2. QED
    BY <2>1
<1>5. ASSUME NEW announced \in Announced, ReadImage(announced) PROVE no \/ on
  BY <1>2, <1>5 DEF ReadImage, Refuses
<1>6. CASE TransferFails
  BY <1>2, <1>6 DEF TransferFails, Refuses
<1>7. CASE Sniff
  <2>1. /\ Len(file) = n /\ n \in Nat /\ (n >= 3 => IsPrefix(<<Fill, Soi, Fill>>, file))
        /\ AtSegment(p, 2)
    BY <1>1, <1>2, JpegBegins
  <2>2. at = 0
    BY <1>2, <1>7 DEF Sniff
  <2>3. CASE IsPrefix(<<Fill, Soi, Fill>>, file)
    BY <1>7, <2>1, <2>3 DEF Sniff
  <2>4. CASE ~IsPrefix(<<Fill, Soi, Fill>>, file)
    <3>1. ~IsPrefix(<<Png, PngChunk, Ihdr>>, file)
      <4>1. Len(<<Png, PngChunk, Ihdr>>) = 3 /\ ~(n >= 3)
        BY <2>1, <2>4
      <4>2. QED
        BY <2>1, <4>1 DEF IsPrefix
    <3>2. Refuses("InvalidInput")
      BY <1>7, <2>4, <3>1 DEF Sniff
    <3>3. QED
      BY <2>2, <3>2 DEF Refuses
  <2>5. QED
    BY <2>3, <2>4
<1>8. CASE Marker
  <2>1. inspected = "markers"
    BY <1>8 DEF Marker
  <2>2. PICK before \in Seq(Nat), ahead \in Seq(Seq(Nat)) :
          /\ Len(before) = at /\ \A i \in 1 .. Len(ahead) : IsSegment(ahead[i])
          /\ Jpeg(p) = before \o (FlattenSeq(ahead) \o Ending(p))
    BY <1>2, <2>1 DEF AtSegment
  <2>3. CASE ahead # <<>>
    <3> HIDE DEF p, n
    <3>1. \/ inspected' = "markers" /\ AtSegment(p, at')
          \/ inspected' = "InvalidInput" /\ ~Held(p, n)
      BY <1>1, <1>2, <1>8, <2>1, <2>2, <2>3, AtOneSegment DEF p
    <3>2. QED
      BY <3>1
  <2>4. CASE ahead = <<>>
    <3> HIDE DEF p, n
    <3>1. FlattenSeq(ahead) \o Ending(p) = Ending(p)
      <4>1. <<>> \in Seq(Seq(Nat)) /\ <<>> \in Seq(Nat)
        OBVIOUS
      <4>2. FlattenSeq(ahead) = <<>>
        BY <2>4, <4>1, FlattenGrows
      <4>3. Ending(p) \in Seq(Nat)
        BY <1>1, <1>2, JpegCells DEF p
      <4>4. QED
        BY <4>2, <4>3
    <3>2. Jpeg(p) = before \o Ending(p)
      BY <2>2, <3>1
    <3>3. ok \/ (inspected' = "InvalidInput" /\ ~Held(p, n))
      BY <1>1, <1>2, <1>8, <2>2, <3>2, AtTheEnding DEF p
    <3>4. QED
      BY <3>3
  <2>5. QED
    BY <2>3, <2>4
<1>9. QED
  BY <1>1, <1>5, <1>6, <1>7, <1>8 DEF InspectNext

(***************************************************************************)
(* The images of GeneratePptx: their stream.                               *)
(***************************************************************************)

\* Lengths add up to a sum.
LEMMA SumIsTotal ==
  ASSUME NEW S, NEW s \in Seq(S)
  PROVE  Sum(s) = Total([i \in 1 .. Len(s) |-> s[i]], Len(s))
<1> DEFINE n == Len(s)
           w == [i \in 1 .. n |-> s[i]]
           Step(f, r) == IF r = {} THEN 0 ELSE f[r \ {Max(r)}] + s[Max(r)]
<1>1. n \in Nat /\ n <= n /\ DOMAIN s = 1 .. n
  OBVIOUS
<1>2. \A f : IsTable(f, w, n) <=> f = [r \in SUBSET (DOMAIN s) |-> Step(f, r)]
  BY <1>1, MaxInside DEF IsTable
<1>3. PICK f : f = [r \in SUBSET (DOMAIN s) |-> Step(f, r)] /\ Sum(s) = f[DOMAIN s]
  <2>1. \E f : f = [r \in SUBSET (DOMAIN s) |-> Step(f, r)]
    BY <1>1, <1>2, TableExists
  <2>2. QED
    BY <2>1 DEF Sum, FoldLeft, MapThenFoldSet
<1>4. IsTable(f, w, n)
  <2> HIDE DEF n, w
  <2>1. QED
    BY <1>2, <1>3
<1>5. f[1 .. n] = Total(w, n)
  <2> HIDE DEF n, w
  <2>1. QED
    BY <1>1, <1>4, TotalOfTable
<1>6. QED
  BY <1>1, <1>3, <1>5

\* The sum of all lengths, and of the first ones.
LEMMA SumOfFirst ==
  ASSUME NEW S, NEW s \in Seq(S)
  PROVE  /\ Sum(s) = Total(s, Len(s))
         /\ \A i \in 0 .. Len(s) : Sum(SubSeq(s, 1, i)) = Total(s, i)
<1>1. ASSUME NEW t \in Seq(S), Len(t) <= Len(s), \A i \in 1 .. Len(t) : t[i] = s[i]
      PROVE  Sum(t) = Total(s, Len(t))
  <2> DEFINE w == [i \in 1 .. Len(t) |-> t[i]]
  <2>1. Len(t) \in Nat /\ \A i \in 1 .. Len(t) : w[i] = s[i]
    BY <1>1
  <2> HIDE DEF w
  <2>2. Total(w, Len(t)) = Total(s, Len(t))
    BY <2>1, TotalSame
  <2>3. QED
    BY <2>2, SumIsTotal DEF w
<1>2. \A i \in 0 .. Len(s) : /\ SubSeq(s, 1, i) \in Seq(S) /\ Len(SubSeq(s, 1, i)) = i
                             /\ \A j \in 1 .. i : SubSeq(s, 1, i)[j] = s[j]
  OBVIOUS
<1>3. ASSUME NEW i \in 0 .. Len(s) PROVE Sum(SubSeq(s, 1, i)) = Total(s, i)
  <2> DEFINE t == SubSeq(s, 1, i)
  <2>1. t \in Seq(S) /\ Len(t) = i /\ i <= Len(s) /\ \A j \in 1 .. Len(t) : t[j] = s[j]
    BY <1>2
  <2> HIDE DEF t
  <2>2. Sum(t) = Total(s, i)
    BY <1>1, <2>1
  <2>3. QED
    BY <2>2 DEF t
<1>4. Sum(s) = Total(s, Len(s))
  <2>1. Len(s) <= Len(s) /\ \A i \in 1 .. Len(s) : s[i] = s[i]
    OBVIOUS
  <2>2. QED
    BY <1>1, <2>1
<1>5. QED
  BY <1>3, <1>4

\* The same bytes are cut into n pieces in two ways, and each piece of the one
\* begins where some piece of the other does.
CutBoth(n, d, s) ==
  /\ \A i \in 1 .. n : d[i] \in Nat \ {0}
  /\ \A i \in 1 .. n : s[i] \in Nat \ {0}
  /\ Total(d, n) = Total(s, n)
  /\ \A i \in 0 .. n - 1 : \E j \in 0 .. n - 1 : Total(s, j) = Total(d, i)

\* Then the two ways are the same.
LEMMA SameCuts ==
  ASSUME NEW n \in Nat, NEW d, NEW s, CutBoth(n, d, s)
  PROVE  \A i \in 0 .. n : Total(d, i) = Total(s, i)
<1> DEFINE D(i) == Total(d, i)
           E(i) == Total(s, i)
<1>1. /\ \A i \in 0 .. n : D(i) \in Nat /\ E(i) \in Nat
      /\ D(0) = 0 /\ E(0) = 0
  <2>1. \A i \in 0 .. n : i \in Nat /\ \A j \in 1 .. i : d[j] \in Nat /\ s[j] \in Nat
    BY DEF CutBoth
  <2>2. QED
    BY <2>1, TotalTyped, TotalSteps
<1>2. /\ \A j \in 0 .. n : \A i \in 0 .. j : i # j => D(i) < D(j)
      /\ \A j \in 0 .. n : \A i \in 0 .. j : i # j => E(i) < E(j)
  BY TotalGrows DEF CutBoth
<1>3. /\ D(n) = E(n)
      /\ \A i \in 0 .. n - 1 : \E j \in 0 .. n - 1 : E(j) = D(i)
  BY DEF CutBoth
<1> HIDE DEF D, E
<1>4. \A i \in Nat : i <= n => D(i) >= E(i)
  <2> DEFINE T == {i \in Nat : i <= n => D(i) >= E(i)}
  <2>1. 0 \in T
    BY <1>1
  <2>2. ASSUME NEW i \in Nat, i \in T PROVE i + 1 \in T
    <3>1. SUFFICES ASSUME i + 1 <= n PROVE D(i + 1) >= E(i + 1)
      OBVIOUS
    <3>2. CASE i + 1 = n
      BY <1>1, <1>3, <3>2
    <3>3. CASE i + 1 # n
      <4>1. PICK j \in 0 .. n - 1 : E(j) = D(i + 1)
        BY <1>3, <3>1, <3>3
      <4>2. D(i) >= E(i) /\ D(i) < D(i + 1)
        BY <1>2, <2>2, <3>1
      <4>3. E(i) < E(j)
        BY <1>1, <3>1, <4>1, <4>2
      <4>4. j > i
        <5>1. j \in 0 .. i => j = i \/ E(j) < E(i)
          BY <1>2, <3>1
        <5>2. E(i) \in Nat /\ E(j) \in Nat
          BY <1>1, <3>1
        <5>3. j \notin 0 .. i
          BY <4>3, <5>1, <5>2
        <5>4. QED
          BY <5>3
      <4>5. j = i + 1 \/ E(i + 1) < E(j)
        BY <1>2, <4>4
      <4>6. QED
        BY <1>1, <3>1, <4>1, <4>5
    <3>4. QED
      BY <3>2, <3>3
  <2>3. Nat \subseteq T
    <3> HIDE DEF T
    <3>1. QED
      BY <2>1, <2>2, SetInduction
  <2>4. QED
    BY <2>3
<1>5. \A i \in Nat : i <= n => D(n - i) <= E(n - i)
  <2> DEFINE T == {i \in Nat : i <= n => D(n - i) <= E(n - i)}
  <2>1. 0 \in T
    BY <1>1, <1>3
  <2>2. ASSUME NEW i \in Nat, i \in T PROVE i + 1 \in T
    <3> DEFINE m == n - i
    <3>1. SUFFICES ASSUME i + 1 <= n PROVE D(m - 1) <= E(m - 1)
      OBVIOUS
    <3>2. m \in 1 .. n /\ m - 1 \in 0 .. n - 1 /\ D(m) <= E(m)
      BY <2>2, <3>1
    <3> HIDE DEF m
    <3>3. PICK j \in 0 .. n - 1 : E(j) = D(m - 1)
      BY <1>3, <3>2
    <3>4. D(m - 1) < D(m)
      BY <1>2, <3>2
    <3>5. E(j) < E(m)
      BY <1>1, <3>2, <3>3, <3>4
    <3>6. j < m
      BY <1>1, <1>2, <3>2, <3>5
    <3>7. j = m - 1 \/ E(j) < E(m - 1)
      BY <1>2, <3>2, <3>6
    <3>8. QED
      BY <1>1, <3>2, <3>3, <3>7
  <2>3. Nat \subseteq T
    <3> HIDE DEF T
    <3>1. QED
      BY <2>1, <2>2, SetInduction
  <2>4. QED
    BY <2>3
<1>6. ASSUME NEW i \in 0 .. n PROVE D(i) = E(i)
  <2>1. n - i \in Nat /\ n - i <= n /\ n - (n - i) = i
    OBVIOUS
  <2>2. D(i) <= E(i)
    BY <1>5, <2>1
  <2>3. QED
    BY <1>1, <1>4, <2>2
<1>7. QED
  BY <1>6 DEF D, E

\* The bytes of a deck: how many its first i images declare, and were sent.
DeclaredUpTo(i) == Total(declared, i)
SentUpTo(i) == Total(Lengths, i)

\* What the deck says and what the caller sends.
InputOK ==
  /\ declared \in Seq(Nat) /\ Len(sent) \in Nat
  /\ \A i \in 1 .. Len(sent) : sent[i] \in File /\ Lengths[i] \in Nat \ {0}
  /\ stream \/ Len(sent) = 0

\* Some images have been cut out.
CutOK(n) ==
  /\ n \in 0 .. Len(declared)
  /\ slices = [i \in 1 .. n |-> [from |-> DeclaredUpTo(i - 1), to |-> DeclaredUpTo(i)]]
  /\ \A i \in 1 .. n : declared[i] # 0

\* A reason to refuse a deck that declares what was sent.
Unfit ==
  \/ Sum(Lengths) > WordMax
  \/ \E i \in 1 .. Len(sent) : ~Inspected(Begin(i), End(i))

\* How far the deck is.
StreamOK ==
  /\ stage = "measure" => k \in 1 .. Len(declared) + 1 /\ expected = DeclaredUpTo(k - 1)
  /\ stage = "read" => expected = DeclaredUpTo(Len(declared))
  /\ stage \in {"measure", "read"} => slices = <<>> /\ cursor = 0
  /\ stage = "slice" =>
       /\ k \in 1 .. Len(declared) + 1 /\ CutOK(k - 1) /\ cursor = DeclaredUpTo(k - 1)
       /\ DeclaredUpTo(Len(declared)) = SentUpTo(Len(sent))
       /\ payload = SentUpTo(Len(sent))
  /\ stage = "done" /\ result = "Ok" =>
       CutOK(Len(declared)) /\ DeclaredUpTo(Len(declared)) = SentUpTo(Len(sent))
  /\ stage = "done" /\ result = "InvalidInput" /\ declared = Lengths
       /\ Len(slices) < Len(declared) => Unfit

StreamInv == InputOK /\ StreamOK

\* The lengths are the lengths.
LEMMA LengthsTyped ==
  ASSUME InputOK
  PROVE  /\ Lengths \in Seq(Nat) /\ Len(Lengths) = Len(sent)
         /\ Sum(Lengths) = SentUpTo(Len(sent))
         /\ \A i \in 1 .. Len(sent) : Begin(i) = SentUpTo(i - 1) /\ End(i) = SentUpTo(i)
<1>1. PICK n : n = Len(sent)
  OBVIOUS
<1>2. n \in Nat /\ Lengths = [i \in 1 .. n |-> Lengths[i]] /\ \A i \in 1 .. n : Lengths[i] \in Nat
  BY <1>1 DEF InputOK, Lengths
<1> HIDE DEF Lengths
<1>3. Lengths \in Seq(Nat) /\ Len(Lengths) = n
  BY <1>2
<1>4. Sum(Lengths) = Total(Lengths, n) /\ \A i \in 0 .. n : Sum(SubSeq(Lengths, 1, i)) = Total(Lengths, i)
  BY <1>3, SumOfFirst
<1>5. ASSUME NEW i \in 1 .. n PROVE Begin(i) = SentUpTo(i - 1) /\ End(i) = SentUpTo(i)
  <2>1. i \in 0 .. n /\ i - 1 \in 0 .. n
    BY <1>2
  <2>2. QED
    BY <1>4, <2>1 DEF Begin, End, SentUpTo
<1>6. QED
  BY <1>1, <1>3, <1>4, <1>5 DEF SentUpTo

\* No file ends behind the end of the stream.
LEMMA EndsInside ==
  ASSUME InputOK, NEW i \in 1 .. Len(sent)
  PROVE  /\ SentUpTo(i - 1) \in Nat /\ SentUpTo(i) \in Nat /\ SentUpTo(Len(sent)) \in Nat
         /\ SentUpTo(i) = SentUpTo(i - 1) + Lengths[i]
         /\ SentUpTo(i) <= SentUpTo(Len(sent))
<1>1. PICK n : n = Len(sent)
  OBVIOUS
<1>2. n \in Nat /\ i \in 1 .. n /\ \A j \in 1 .. n : Lengths[j] \in Nat \ {0}
  BY <1>1 DEF InputOK
<1> HIDE DEF Lengths
<1>3. ASSUME NEW j \in 0 .. n PROVE Total(Lengths, j) \in Nat
  <2>1. j \in Nat /\ \A m \in 1 .. j : Lengths[m] \in Nat
    BY <1>2
  <2>2. QED
    BY <2>1, TotalTyped
<1>4. i - 1 \in Nat /\ (i - 1) + 1 = i /\ i \in 0 .. n /\ i - 1 \in 0 .. n /\ n \in 0 .. n
  BY <1>2
<1>5. Total(Lengths, i) = Total(Lengths, i - 1) + Lengths[i]
  <2>1. Total(Lengths, (i - 1) + 1) = Total(Lengths, i - 1) + Lengths[(i - 1) + 1]
    BY <1>4, TotalSteps
  <2>2. QED
    BY <1>4, <2>1
<1>6. i = n \/ Total(Lengths, i) < Total(Lengths, n)
  BY <1>2, <1>4, TotalGrows
<1>7. QED
  BY <1>1, <1>3, <1>4, <1>5, <1>6 DEF SentUpTo

\* A deck that declares what was sent is not to be cut for one of two reasons: an
\* image of it is not accepted, or its bytes are too many.
LEMMA UnfitToCut ==
  ASSUME InputOK, declared = Lengths, NEW i \in 1 .. Len(declared),
         \/ declared[i] > MaxImageBytes
         \/ DeclaredUpTo(i - 1) + declared[i] > WordMax
         \/ ~Inspected(DeclaredUpTo(i - 1), DeclaredUpTo(i - 1) + declared[i])
  PROVE  Unfit
<1>1. /\ i \in 1 .. Len(sent) /\ DeclaredUpTo(i - 1) = SentUpTo(i - 1)
      /\ declared[i] = Lengths[i] /\ Lengths[i] \in Nat
  BY LengthsTyped DEF DeclaredUpTo, SentUpTo, InputOK
<1>2. /\ Begin(i) = SentUpTo(i - 1) /\ End(i) = SentUpTo(i)
      /\ SentUpTo(i - 1) \in Nat /\ SentUpTo(i) \in Nat /\ SentUpTo(Len(sent)) \in Nat
      /\ SentUpTo(i) = SentUpTo(i - 1) + Lengths[i]
      /\ SentUpTo(i) <= SentUpTo(Len(sent)) /\ Sum(Lengths) = SentUpTo(Len(sent))
  BY <1>1, LengthsTyped, EndsInside
<1> HIDE DEF Lengths
<1>3. CASE declared[i] > MaxImageBytes
  <2>1. End(i) - Begin(i) = declared[i]
    BY <1>1, <1>2
  <2>2. ~(End(i) - Begin(i) <= MaxImageBytes)
    BY <1>1, <1>3, <2>1, ImageAssumption
  <2>3. ~Inspected(Begin(i), End(i))
    BY <2>2 DEF Inspected
  <2>4. QED
    BY <1>1, <2>3 DEF Unfit
<1>4. CASE DeclaredUpTo(i - 1) + declared[i] > WordMax
  <2>1. Sum(Lengths) > WordMax
    BY <1>1, <1>2, <1>4, ImageAssumption
  <2>2. QED
    BY <2>1 DEF Unfit
<1>5. CASE ~Inspected(DeclaredUpTo(i - 1), DeclaredUpTo(i - 1) + declared[i])
  BY <1>1, <1>2, <1>5 DEF Unfit
<1>6. QED
  BY <1>3, <1>4, <1>5

\* A deck and a stream, or none.
LEMMA StreamInitially ==
  StreamInit \/ (declared = <<>> /\ sent = <<>> /\ stage = "idle") => StreamInv
<1>1. ASSUME StreamInit PROVE StreamInv
  <2>1. declared \in Seq(Nat)
    <3>1. MaxImages \in Nat /\ Length \subseteq Nat
      BY ImageAssumption
    <3>2. declared \in Seq(Length)
      BY <1>1, <3>1, BoundedSequence DEF StreamInit
    <3>3. QED
      BY <3>1, <3>2, LargerSet
  <2>2. /\ Len(sent) \in Nat
        /\ \A i \in 1 .. Len(sent) : sent[i] \in File /\ Lengths[i] \in Nat \ {0}
        /\ stream \/ Len(sent) = 0
    <3>1. CASE stream
      <4>1. sent \in Seq(File)
        BY <1>1, <3>1, BoundedSequence, ImageAssumption DEF StreamInit
      <4>2. Len(sent) \in Nat /\ \A i \in 1 .. Len(sent) : sent[i] \in File
        BY <4>1
      <4>3. \A i \in 1 .. Len(sent) : Lengths[i] = sent[i].len
        BY DEF Lengths
      <4>4. QED
        BY <3>1, <4>2, <4>3, FileAssumption
    <3>2. CASE ~stream
      <4>1. sent = <<>>
        BY <1>1, <3>2 DEF StreamInit
      <4>2. QED
        BY <4>1
    <3>3. QED
      BY <3>1, <3>2
  <2>3. DeclaredUpTo(0) = 0
    BY TotalSteps DEF DeclaredUpTo
  <2>4. /\ stage = "measure" /\ k = 1 /\ k - 1 = 0 /\ expected = 0 /\ slices = <<>> /\ cursor = 0
        /\ k \in 1 .. Len(declared) + 1
    BY <1>1, <2>1 DEF StreamInit
  <2>5. StreamOK
    BY <2>3, <2>4 DEF StreamOK
  <2>6. QED
    BY <2>1, <2>2, <2>5 DEF StreamInv, InputOK
<1>2. ASSUME declared = <<>>, sent = <<>>, stage = "idle" PROVE StreamInv
  <2>1. declared \in Seq(Nat) /\ Len(sent) = 0
    BY <1>2
  <2>2. QED
    BY <1>2, <2>1 DEF StreamInv, InputOK, StreamOK
<1>3. QED
  BY <1>1, <1>2

\* What was sent stays what it is.
LEMMA InputStays ==
  ASSUME UNCHANGED <<declared, sent>>
  PROVE  /\ Lengths' = Lengths /\ Unfit' = Unfit
         /\ \A i : SentUpTo(i)' = SentUpTo(i) /\ DeclaredUpTo(i)' = DeclaredUpTo(i)
BY DEF Lengths, Unfit, Inspected, Begin, End, SentUpTo, DeclaredUpTo

\* It may be refused: before all images are cut out with a reason, if it declares
\* what was sent, and later on for other reasons.
LEMMA StreamStutters ==
  /\ StreamInv /\ UNCHANGED streamVars => StreamInv'
  /\ /\ StreamInv /\ UNCHANGED <<declared, stream, sent>>
     /\ stage' = "done" /\ result' # "Ok"
     /\ (result' = "InvalidInput" /\ declared = Lengths /\ Len(slices') < Len(declared) => Unfit)
     => StreamInv'
<1>1. ASSUME StreamInv, UNCHANGED streamVars PROVE StreamInv'
  <2>1. /\ UNCHANGED <<declared, stream, sent, stage, k, expected, payload, cursor, slices, result>>
        /\ Lengths' = Lengths /\ Unfit' = Unfit
        /\ \A i : SentUpTo(i)' = SentUpTo(i) /\ DeclaredUpTo(i)' = DeclaredUpTo(i)
    BY <1>1, InputStays DEF streamVars
  <2>2. QED
    BY <1>1, <2>1 DEF StreamInv, InputOK, StreamOK, CutOK, DeclaredUpTo, SentUpTo
<1>2. ASSUME StreamInv, UNCHANGED <<declared, stream, sent>>, stage' = "done", result' # "Ok",
             result' = "InvalidInput" /\ declared = Lengths /\ Len(slices') < Len(declared) => Unfit
      PROVE  StreamInv'
  <2>1. Lengths' = Lengths /\ Unfit' = Unfit
    BY <1>2, InputStays
  <2>2. InputOK'
    BY <1>2, <2>1 DEF StreamInv, InputOK
  <2>3. StreamOK'
    BY <1>2, <2>1 DEF StreamOK
  <2>4. QED
    BY <2>2, <2>3 DEF StreamInv
<1>3. QED
  BY <1>1, <1>2

\* One more image is cut out.
LEMMA SliceKeeps ==
  StreamInv /\ Slice => StreamInv'
<1>1. SUFFICES ASSUME StreamInv, Slice PROVE StreamInv'
  OBVIOUS
<1> DEFINE end == cursor + declared[k]
<1>2. /\ stage = "slice" /\ k <= Len(declared) /\ UNCHANGED <<input, expected, payload>>
      /\ IF end <= payload /\ Inspected(cursor, end)
         THEN /\ slices' = Append(slices, [from |-> cursor, to |-> end])
              /\ cursor' = end /\ k' = k + 1 /\ UNCHANGED <<stage, result>>
         ELSE Answers("InvalidInput") /\ UNCHANGED <<slices, cursor, k>>
  BY <1>1 DEF Slice
<1>3. /\ UNCHANGED <<declared, stream, sent>>
      /\ Lengths' = Lengths /\ \A i : SentUpTo(i)' = SentUpTo(i) /\ DeclaredUpTo(i)' = DeclaredUpTo(i)
  BY <1>2, InputStays DEF input
<1>4. CASE ~(end <= payload /\ Inspected(cursor, end))
  <2>1. ASSUME declared = Lengths PROVE Unfit
    <3>1. /\ k \in 1 .. Len(declared) /\ cursor = DeclaredUpTo(k - 1)
          /\ payload = SentUpTo(Len(sent)) /\ InputOK
      BY <1>1, <1>2 DEF StreamInv, InputOK, StreamOK
    <3>2. k \in 1 .. Len(sent) /\ cursor = SentUpTo(k - 1) /\ declared[k] = Lengths[k]
      BY <2>1, <3>1, LengthsTyped DEF DeclaredUpTo, SentUpTo
    <3>3. end = SentUpTo(k) /\ end <= payload
      BY <3>1, <3>2, EndsInside
    <3>4. ~Inspected(DeclaredUpTo(k - 1), DeclaredUpTo(k - 1) + declared[k])
      BY <1>4, <3>1, <3>3
    <3>5. QED
      BY <2>1, <3>1, <3>4, UnfitToCut
  <2>2. QED
    BY <1>1, <1>2, <1>3, <1>4, <2>1, StreamStutters DEF Answers
<1>5. CASE end <= payload /\ Inspected(cursor, end)
  <2>1. /\ declared \in Seq(Nat) /\ k \in 1 .. Len(declared)
        /\ CutOK(k - 1) /\ cursor = DeclaredUpTo(k - 1)
        /\ DeclaredUpTo(Len(declared)) = SentUpTo(Len(sent))
        /\ payload = SentUpTo(Len(sent)) /\ InputOK
    BY <1>1, <1>2 DEF StreamInv, InputOK, StreamOK
  <2>2. end = DeclaredUpTo(k) /\ cursor \in Nat /\ declared[k] \in Nat
    <3>1. k - 1 \in Nat /\ (k - 1) + 1 = k /\ \A i \in 1 .. k - 1 : declared[i] \in Nat
      BY <2>1
    <3>2. Total(declared, (k - 1) + 1) = Total(declared, k - 1) + declared[(k - 1) + 1]
      BY <3>1, TotalSteps
    <3>3. Total(declared, k - 1) \in Nat
      BY <3>1, TotalTyped
    <3>4. QED
      BY <2>1, <3>1, <3>2, <3>3 DEF DeclaredUpTo
  <2>3. declared[k] # 0
    <3>1. PICK j \in 1 .. Len(sent) : \E from \in DOMAIN sent[j].heads :
            cursor + sent[j].heads[from] <= end
      BY <1>5 DEF Inspected
    <3>2. PICK from \in DOMAIN sent[j].heads : cursor + sent[j].heads[from] <= end
      BY <3>1
    <3>3. sent[j].heads[from] \in Nat \ {0}
      BY <2>1, <3>2, FileAssumption DEF InputOK
    <3>4. QED
      BY <2>2, <3>2, <3>3
  <2> HIDE DEF end
  <2>4. PICK n : n = k - 1
    OBVIOUS
  <2>5. n \in Nat /\ n + 1 = k /\ CutOK(n) /\ (n + 1) - 1 = n
    BY <2>1, <2>4
  <2>6. slices' = [i \in 1 .. n + 1 |-> [from |-> DeclaredUpTo(i - 1), to |-> DeclaredUpTo(i)]]
    <3> DEFINE Part(i) == [from |-> DeclaredUpTo(i - 1), to |-> DeclaredUpTo(i)]
    <3>1. slices = [i \in 1 .. n |-> Part(i)]
      BY <2>5 DEF CutOK
    <3>2. Part(n + 1) = [from |-> cursor, to |-> end]
      BY <2>1, <2>2, <2>5
    <3> HIDE DEF Part
    <3>3. slices' = Append([i \in 1 .. n |-> Part(i)], Part(n + 1))
      BY <1>2, <1>5, <3>1, <3>2 DEF end
    <3>4. Append([i \in 1 .. n |-> Part(i)], Part(n + 1)) = [i \in 1 .. n + 1 |-> Part(i)]
      BY <2>5
    <3>5. slices' = [i \in 1 .. n + 1 |-> Part(i)]
      BY <3>3, <3>4
    <3>6. QED
      BY <3>5 DEF Part
  <2>7. \A i \in 1 .. n + 1 : declared[i] # 0
    <3>1. ASSUME NEW i \in 1 .. n + 1 PROVE declared[i] # 0
      <4>1. i = k \/ i \in 1 .. n
        BY <2>5
      <4>2. QED
        BY <2>3, <2>5, <4>1 DEF CutOK
    <3>2. QED
      BY <3>1
  <2>8. CutOK(n + 1)'
    <3>1. n + 1 \in 0 .. Len(declared)
      BY <2>1, <2>5
    <3>2. QED
      BY <1>3, <2>6, <2>7, <3>1 DEF CutOK, DeclaredUpTo
  <2>9. /\ stage' = "slice" /\ k' = k + 1 /\ k' - 1 = n + 1 /\ k' \in 1 .. Len(declared') + 1
        /\ cursor' = DeclaredUpTo(k - 1)'
        /\ (DeclaredUpTo(Len(declared)) = SentUpTo(Len(sent)))'
        /\ (payload = SentUpTo(Len(sent)))'
    <3>1. stage' = "slice" /\ k' = k + 1 /\ cursor' = end
      BY <1>2, <1>5 DEF end
    <3>2. k' - 1 = k /\ k' - 1 = n + 1 /\ k' \in 1 .. Len(declared') + 1
      BY <1>3, <2>1, <2>5, <3>1
    <3>3. DeclaredUpTo(k - 1)' = DeclaredUpTo(k)
      BY <1>3, <3>2 DEF DeclaredUpTo
    <3>4. /\ (DeclaredUpTo(Len(declared)) = SentUpTo(Len(sent)))'
          /\ (payload = SentUpTo(Len(sent)))'
      BY <1>2, <1>3, <2>1 DEF DeclaredUpTo, SentUpTo
    <3>5. QED
      BY <2>2, <3>1, <3>2, <3>3, <3>4
  <2>10. CutOK(k - 1)'
    BY <2>8, <2>9
  <2>11. InputOK'
    BY <1>1, <1>3 DEF StreamInv, InputOK
  <2>12. StreamOK'
    BY <2>9, <2>10 DEF StreamOK
  <2>13. QED
    BY <2>11, <2>12 DEF StreamInv
<1>6. QED
  BY <1>4, <1>5

\* The lengths are added up, the stream is read, and the images are cut out.
LEMMA StreamKeeps ==
  StreamInv /\ StreamNext => StreamInv'
<1>1. SUFFICES ASSUME StreamInv, StreamNext PROVE StreamInv'
  OBVIOUS
<1>2. declared \in Seq(Nat) /\ Len(declared) \in Nat /\ InputOK
  BY <1>1 DEF StreamInv, InputOK
<1>3. UNCHANGED <<declared, stream, sent>> => InputOK'
  BY <1>1, InputStays DEF StreamInv, InputOK
<1>4. ASSUME UNCHANGED <<declared, stream, sent>>,
             Answers("TransferFailed") \/ (Answers("InvalidInput") /\ (declared = Lengths => Unfit))
      PROVE  StreamInv'
  BY <1>1, <1>4, StreamStutters DEF Answers
<1>5. CASE Measure
  <2>1. UNCHANGED <<declared, stream, sent, cursor, slices>> /\ stage = "measure" /\ k <= Len(declared)
    BY <1>5 DEF Measure, input
  <2>2. CASE /\ declared[k] > MaxImageBytes \/ expected + declared[k] > WordMax
             /\ Answers("InvalidInput")
    <3>1. k \in 1 .. Len(declared) /\ expected = DeclaredUpTo(k - 1)
      BY <1>1, <1>2, <2>1 DEF StreamInv, StreamOK
    <3>2. declared = Lengths => Unfit
      BY <1>2, <2>2, <3>1, UnfitToCut
    <3>3. QED
      BY <1>4, <2>1, <2>2, <3>2
  <2>3. CASE expected' = expected + declared[k] /\ k' = k + 1 /\ UNCHANGED <<stage, result>>
    <3>1. k \in 1 .. Len(declared) /\ expected = DeclaredUpTo(k - 1) /\ slices = <<>> /\ cursor = 0
      BY <1>1, <1>2, <2>1 DEF StreamInv, StreamOK
    <3>2. k - 1 \in Nat /\ (k - 1) + 1 = k /\ k' - 1 = k /\ k' \in 1 .. Len(declared) + 1
      BY <2>3, <3>1
    <3>3. Total(declared, (k - 1) + 1) = Total(declared, k - 1) + declared[(k - 1) + 1]
      BY <3>2, TotalSteps
    <3>4. expected' = DeclaredUpTo(k)
      BY <2>3, <3>1, <3>2, <3>3 DEF DeclaredUpTo
    <3>5. (expected = DeclaredUpTo(k - 1))'
      BY <2>1, <3>2, <3>4 DEF DeclaredUpTo
    <3>6. StreamOK'
      BY <2>1, <2>3, <3>1, <3>2, <3>5 DEF StreamOK
    <3>7. QED
      BY <1>3, <2>1, <3>6 DEF StreamInv
  <2>4. QED
    BY <1>5, <2>2, <2>3 DEF Measure
<1>6. CASE Measured
  <2>1. UNCHANGED <<declared, stream, sent, expected, cursor, slices>> /\ stage = "measure" /\ k > Len(declared)
    BY <1>6 DEF Measured, input
  <2>2. k = Len(declared) + 1 /\ expected = DeclaredUpTo(k - 1) /\ slices = <<>> /\ cursor = 0
    BY <1>1, <1>2, <2>1 DEF StreamInv, StreamOK
  <2>3. k - 1 = Len(declared)
    BY <1>2, <2>2
  <2>4. CASE stage' = "read"
    BY <1>3, <2>1, <2>2, <2>3, <2>4 DEF StreamInv, StreamOK, DeclaredUpTo
  <2>5. CASE ~stream /\ expected # 0 /\ Answers("InvalidInput")
    <3>1. declared # Lengths
      <4>1. SUFFICES ASSUME declared = Lengths PROVE FALSE
        OBVIOUS
      <4>2. Len(declared) = 0
        BY <1>2, <2>5, <4>1, LengthsTyped DEF InputOK
      <4>3. QED
        BY <2>2, <2>3, <2>5, <4>2, TotalSteps DEF DeclaredUpTo
    <3>2. QED
      BY <1>4, <2>1, <2>5, <3>1
  <2>6. QED
    BY <1>6, <2>4, <2>5 DEF Measured
<1>7. CASE Read
  <2>1. UNCHANGED <<declared, stream, sent, expected, cursor, slices>> /\ stage = "read"
    BY <1>7 DEF Read, input
  <2>2. Sum(Lengths) = SentUpTo(Len(sent)) /\ Len(Lengths) = Len(sent)
    BY <1>2, LengthsTyped
  <2>3. expected = DeclaredUpTo(Len(declared)) /\ slices = <<>> /\ cursor = 0
    BY <1>1, <2>1 DEF StreamInv, StreamOK
  <2>4. CASE Sum(Lengths) # expected
    <3>1. declared # Lengths
      BY <2>2, <2>3, <2>4 DEF DeclaredUpTo, SentUpTo
    <3>2. QED
      BY <1>4, <1>7, <2>1, <2>4, <3>1 DEF Read
  <2>5. CASE Sum(Lengths) = expected
    <3>1. stage' = "slice" /\ k' = 1 /\ k' - 1 = 0 /\ k' \in 1 .. Len(declared) + 1
      BY <1>2, <1>7, <2>5 DEF Read
    <3>2. CutOK(0)'
      <4>1. slices' = <<>> /\ \A i \in 1 .. 0 : FALSE
        BY <2>1, <2>3
      <4>2. QED
        BY <1>2, <2>1, <4>1 DEF CutOK
    <3>3. CutOK(k - 1)'
      BY <3>1, <3>2
    <3>4. (cursor = DeclaredUpTo(k - 1))'
      BY <2>1, <2>3, <3>1, TotalSteps DEF DeclaredUpTo
    <3>5. /\ (DeclaredUpTo(Len(declared)) = SentUpTo(Len(sent)))'
          /\ (payload = SentUpTo(Len(sent)))'
      <4>1. payload' = Sum(Lengths)
        BY <1>7 DEF Read
      <4>2. SentUpTo(Len(sent))' = SentUpTo(Len(sent))
        BY <2>1, InputStays DEF SentUpTo
      <4>3. DeclaredUpTo(Len(declared))' = DeclaredUpTo(Len(declared))
        BY <2>1 DEF DeclaredUpTo
      <4>4. QED
        BY <2>2, <2>3, <2>5, <4>1, <4>2, <4>3
    <3>6. QED
      BY <1>3, <2>1, <3>1, <3>3, <3>4, <3>5 DEF StreamInv, StreamOK
  <2>6. QED
    BY <2>4, <2>5
<1>8. CASE ReadFails
  BY <1>4, <1>8 DEF ReadFails, input
<1>9. CASE Resolved
  <2>1. /\ UNCHANGED <<declared, stream, sent, slices>> /\ stage = "slice" /\ k > Len(declared)
        /\ stage' = "done" /\ result' = "Ok"
    BY <1>9 DEF Resolved, input, Answers
  <2>2. k = Len(declared) + 1 /\ CutOK(k - 1) /\ DeclaredUpTo(Len(declared)) = SentUpTo(Len(sent))
    BY <1>1, <1>2, <2>1 DEF StreamInv, StreamOK
  <2>3. CutOK(Len(declared))
    BY <1>2, <2>2
  <2>4. CutOK(Len(declared))'
    BY <2>1, <2>3 DEF CutOK, DeclaredUpTo
  <2>5. (DeclaredUpTo(Len(declared)) = SentUpTo(Len(sent)))'
    BY <2>1, <2>2, InputStays DEF DeclaredUpTo, SentUpTo
  <2>6. QED
    BY <1>3, <2>1, <2>4, <2>5 DEF StreamInv, StreamOK
<1>10. QED
  BY <1>1, <1>5, <1>6, <1>7, <1>8, <1>9, SliceKeeps DEF StreamNext

\* A deck that is cut where files begin is cut where they were joined: there is
\* no other way.
LEMMA StreamInvCutsAsSent ==
  StreamInv => CutAsSent
<1>1. SUFFICES ASSUME StreamInv PROVE CutAsSent
  OBVIOUS
<1>2. declared \in Seq(Nat) /\ InputOK
  BY <1>1 DEF StreamInv, InputOK
<1>3. stage = "slice" => Sum(declared) = Sum(Lengths)
  BY <1>1, <1>2, SumOfFirst, LengthsTyped DEF StreamInv, StreamOK, DeclaredUpTo
<1>4. stage = "done" /\ result = "InvalidInput" /\ declared = Lengths
        /\ Len(slices) < Len(declared) => Unfit
  BY <1>1 DEF StreamInv, StreamOK
<1>5. ASSUME stage = "done", result = "Ok", Len(declared) = Len(sent),
             \A c \in ToSet(slices) : c.from \in {Begin(i) : i \in 1 .. Len(sent)}
      PROVE  slices = [i \in 1 .. Len(sent) |-> [from |-> Begin(i), to |-> End(i)]]
  <2>1. PICK n : n = Len(sent)
    OBVIOUS
  <2>2. /\ n \in Nat /\ n = Len(declared) /\ CutOK(n) /\ Total(declared, n) = Total(Lengths, n)
    BY <1>1, <1>2, <1>5, <2>1 DEF StreamInv, StreamOK, DeclaredUpTo, SentUpTo, InputOK
  <2>3. /\ \A i \in 1 .. n : declared[i] \in Nat \ {0}
        /\ \A i \in 1 .. n : Lengths[i] \in Nat \ {0}
    <3>1. \A i \in 1 .. n : declared[i] \in Nat
      BY <1>2, <2>2
    <3>2. QED
      BY <1>2, <2>1, <2>2, <3>1 DEF CutOK, InputOK
  <2>4. slices = [i \in 1 .. n |-> [from |-> DeclaredUpTo(i - 1), to |-> DeclaredUpTo(i)]]
    BY <2>2 DEF CutOK
  <2>5. ASSUME NEW i \in 0 .. n - 1 PROVE \E j \in 0 .. n - 1 : Total(Lengths, j) = Total(declared, i)
    <3>1. i + 1 \in 1 .. n /\ (i + 1) - 1 = i
      BY <2>2
    <3>2. slices[i + 1] \in ToSet(slices)
      BY <2>2, <2>4, <3>1 DEF ToSet
    <3>3. slices[i + 1].from = DeclaredUpTo(i)
      BY <2>4, <3>1
    <3>4. PICK j \in 1 .. n : DeclaredUpTo(i) = Begin(j)
      BY <1>5, <2>1, <3>2, <3>3
    <3>5. Begin(j) = Total(Lengths, j - 1) /\ j - 1 \in 0 .. n - 1
      BY <1>2, <2>1, <2>2, LengthsTyped DEF SentUpTo
    <3>6. QED
      BY <3>4, <3>5 DEF DeclaredUpTo
  <2>6. \A i \in 0 .. n : Total(declared, i) = Total(Lengths, i)
    <3>1. CutBoth(n, declared, Lengths)
      BY <2>2, <2>3, <2>5 DEF CutBoth
    <3>2. QED
      BY <2>2, <3>1, SameCuts
  <2>7. ASSUME NEW i \in 1 .. n
        PROVE  DeclaredUpTo(i - 1) = Begin(i) /\ DeclaredUpTo(i) = End(i)
    <3>1. i \in 0 .. n /\ i - 1 \in 0 .. n
      BY <2>2
    <3>2. Begin(i) = Total(Lengths, i - 1) /\ End(i) = Total(Lengths, i)
      BY <1>2, <2>1, LengthsTyped DEF SentUpTo
    <3>3. QED
      BY <2>6, <3>1, <3>2 DEF DeclaredUpTo
  <2>8. QED
    BY <2>1, <2>4, <2>7
<1>6. QED
  BY <1>3, <1>4, <1>5 DEF CutAsSent, Unfit

(***************************************************************************)
(* The images of GeneratePptx: their places.                               *)
(***************************************************************************)

\* What a quotient is.
LEMMA Quotient ==
  ASSUME NEW n \in Nat, NEW d \in Nat \ {0}
  PROVE  n \div d \in Nat /\ d * (n \div d) <= n /\ n < d * (n \div d) + d
OBVIOUS

\* Rounding misses by half the divisor at most.
LEMMA Rounding ==
  ASSUME NEW n \in Nat, NEW d \in Nat \ {0}
  PROVE  /\ DivRound(n, d) \in Nat
         /\ 2 * (d * DivRound(n, d) - n) <= d
         /\ 2 * (n - d * DivRound(n, d)) <= d
<1> DEFINE h == d \div 2
           q == (n + h) \div d
           p == d * q
<1>1. h \in Nat /\ 2 * h <= d /\ d <= 2 * h + 1
  OBVIOUS
<1>2. n + h \in Nat
  BY <1>1
<1>3. q \in Nat /\ p <= n + h /\ n + h < p + d /\ p \in Nat
  <2>1. q \in Nat /\ d * q <= n + h /\ n + h < d * q + d
    <3> HIDE DEF h
    <3>1. QED
      BY <1>2, Quotient
  <2>2. d * q \in Nat
    <3> HIDE DEF q
    <3>1. QED
      BY <2>1
  <2>3. QED
    BY <2>1, <2>2
<1>4. DivRound(n, d) = q
  BY DEF DivRound
<1> HIDE DEF h, q
<1>5. 2 * (p - n) <= d /\ 2 * (n - p) <= d
  <2> HIDE DEF p
  <2>1. QED
    BY <1>1, <1>3
<1>6. QED
  BY <1>3, <1>4, <1>5 DEF p

\* Products of larger numbers are larger.
LEMMA Monotone ==
  ASSUME NEW a \in Nat, NEW b \in Nat, a <= b, NEW c \in Nat
  PROVE  a * c \in Nat /\ b * c \in Nat /\ a * c <= b * c /\ c * a <= c * b
OBVIOUS

Larger(a, b) == IF a > b THEN a ELSE b

\* A box of this shape, up to the rounding of one side, or a line.
Alike(box, w, h) ==
  \/ box.w = 1 \/ box.h = 1
  \/ 2 * (box.h * w - box.w * h) <= Larger(w, h) /\ 2 * (box.w * h - box.h * w) <= Larger(w, h)

\* An image is scaled into its box, both sides alike: if its height at full width
\* does not fit then its width at full height does, without being cut off.
LEMMA FitsAlike ==
  ASSUME NEW w \in Nat \ {0}, NEW h \in Nat \ {0}, NEW maxW \in Nat \ {0}, NEW maxH \in Nat \ {0}
  PROVE  /\ FitWithin(w, h, maxW, maxH).w \in 1 .. maxW
         /\ FitWithin(w, h, maxW, maxH).h \in 1 .. maxH
         /\ Alike(FitWithin(w, h, maxW, maxH), w, h)
<1> DEFINE box == FitWithin(w, h, maxW, maxH)
           high == DivRound(h * maxW, w)
           wide == DivRound(w * maxH, h)
<1>1. h * maxW \in Nat /\ w * maxH \in Nat
  OBVIOUS
<1>2. /\ high \in Nat /\ 2 * (w * high - h * maxW) <= w /\ 2 * (h * maxW - w * high) <= w
      /\ wide \in Nat /\ 2 * (h * wide - w * maxH) <= h /\ 2 * (w * maxH - h * wide) <= h
  BY <1>1, Rounding
<1>3. w <= Larger(w, h) /\ h <= Larger(w, h) /\ Larger(w, h) \in Nat
  BY DEF Larger
<1>4. CASE high <= maxH
  <2>1. box = [w |-> ClampIntoBox(maxW, maxW), h |-> ClampIntoBox(high, maxH)]
    BY <1>4 DEF FitWithin
  <2> HIDE DEF box, high, wide
  <2>2. box.w = maxW /\ box.h = IF high < 1 THEN 1 ELSE high
    BY <1>2, <1>4, <2>1 DEF ClampIntoBox
  <2>3. box.w \in 1 .. maxW /\ box.h \in 1 .. maxH
    BY <1>2, <1>4, <2>2
  <2>4. CASE high < 1
    BY <2>2, <2>3, <2>4 DEF Alike, box
  <2>5. CASE ~ high < 1
    <3>1. box.h * w = w * high /\ box.w * h = h * maxW /\ w * high \in Nat /\ h * maxW \in Nat
      BY <1>1, <1>2, <2>2, <2>5
    <3>2. 2 * (box.h * w - box.w * h) <= Larger(w, h) /\ 2 * (box.w * h - box.h * w) <= Larger(w, h)
      BY <1>2, <1>3, <3>1
    <3>3. QED
      BY <2>3, <3>2 DEF Alike, box
  <2>6. QED
    BY <2>4, <2>5
<1>5. CASE ~ high <= maxH
  <2>1. box = [w |-> ClampIntoBox(wide, maxW), h |-> ClampIntoBox(maxH, maxH)]
    BY <1>5 DEF FitWithin
  <2> HIDE DEF box, high, wide
  <2>2. wide <= maxW
    <3>1. SUFFICES ASSUME maxW + 1 <= wide PROVE FALSE
      BY <1>2
    <3>2. w * (maxH + 1) <= w * high /\ h * (maxW + 1) <= h * wide
      <4>1. maxH + 1 \in Nat /\ maxH + 1 <= high /\ maxW + 1 \in Nat
        BY <1>2, <1>5
      <4>2. QED
        BY <1>2, <3>1, <4>1, Monotone
    <3>3. w * (maxH + 1) = w * maxH + w /\ h * (maxW + 1) = h * maxW + h
      OBVIOUS
    <3>4. w * high \in Nat /\ h * wide \in Nat
      BY <1>2
    <3>5. QED
      BY <1>1, <1>2, <3>2, <3>3, <3>4
  <2>3. box.h = maxH /\ box.w = IF wide < 1 THEN 1 ELSE wide
    BY <1>2, <2>1, <2>2 DEF ClampIntoBox
  <2>4. box.w \in 1 .. maxW /\ box.h \in 1 .. maxH
    BY <1>2, <2>2, <2>3
  <2>5. CASE wide < 1
    BY <2>3, <2>4, <2>5 DEF Alike, box
  <2>6. CASE ~ wide < 1
    <3>1. box.h * w = w * maxH /\ box.w * h = h * wide /\ w * maxH \in Nat /\ h * wide \in Nat
      BY <1>1, <1>2, <2>3, <2>6
    <3>2. 2 * (box.h * w - box.w * h) <= Larger(w, h) /\ 2 * (box.w * h - box.h * w) <= Larger(w, h)
      BY <1>2, <1>3, <3>1
    <3>3. QED
      BY <2>4, <3>2 DEF Alike, box
  <2>7. QED
    BY <2>5, <2>6
<1>6. QED
  BY <1>4, <1>5

\* The shape in EMU is the shape in pixels.
LEMMA AlikeInPixels ==
  ASSUME NEW w \in Nat \ {0}, NEW h \in Nat \ {0}, NEW unit \in Nat \ {0},
         NEW bw \in Nat, NEW bh \in Nat, NEW box, box.w = bw, box.h = bh,
         Alike(box, w * unit, h * unit)
  PROVE  Alike(box, w, h)
<1>1. CASE bw = 1 \/ bh = 1
  BY <1>1 DEF Alike
<1>2. CASE ~(bw = 1 \/ bh = 1)
  <2> DEFINE large == Larger(w, h)
             d == bh * w - bw * h
  <2>1. large \in Nat /\ d \in Int /\ Larger(w * unit, h * unit) = large * unit
    <3>1. w > h <=> w * unit > h * unit
      <4>1. w * unit \in Nat /\ h * unit \in Nat
        OBVIOUS
      <4>2. w <= h => w * unit <= h * unit
        BY Monotone
      <4>3. w > h => w * unit > h * unit
        <5>1. SUFFICES ASSUME h + 1 <= w PROVE w * unit > h * unit
          OBVIOUS
        <5>2. (h + 1) * unit <= w * unit
          BY <5>1, Monotone
        <5>3. (h + 1) * unit = h * unit + unit
          OBVIOUS
        <5>4. QED
          BY <4>1, <5>2, <5>3
      <4>4. QED
        BY <4>1, <4>2, <4>3
    <3>2. QED
      BY <3>1 DEF Larger
  <2>2. bh * (w * unit) - bw * (h * unit) = d * unit
    OBVIOUS
  <2>3. 2 * (d * unit) <= large * unit /\ 2 * (0 - d * unit) <= large * unit
    <3>1. /\ 2 * (bh * (w * unit) - bw * (h * unit)) <= large * unit
          /\ 2 * (bw * (h * unit) - bh * (w * unit)) <= large * unit
      BY <1>2, <2>1 DEF Alike
    <3>2. bh * (w * unit) \in Int /\ bw * (h * unit) \in Int
      OBVIOUS
    <3> HIDE DEF large, d
    <3>3. QED
      BY <2>1, <2>2, <3>1, <3>2
  <2> HIDE DEF large, d
  <2>4. 2 * d <= large
    <3>1. SUFFICES ASSUME large + 1 <= 2 * d PROVE FALSE
      BY <2>1
    <3>2. (large + 1) * unit <= (2 * d) * unit
      BY <2>1, <3>1, Monotone
    <3>3. (large + 1) * unit = large * unit + unit /\ (2 * d) * unit = 2 * (d * unit)
      BY <2>1
    <3>4. large * unit \in Int /\ d * unit \in Int
      BY <2>1
    <3>5. QED
      BY <2>3, <3>2, <3>3, <3>4
  <2>5. 2 * (0 - d) <= large
    <3>1. SUFFICES ASSUME large + 1 <= 2 * (0 - d) PROVE FALSE
      BY <2>1
    <3>2. (large + 1) * unit <= (2 * (0 - d)) * unit
      BY <2>1, <3>1, Monotone
    <3>3. (large + 1) * unit = large * unit + unit /\ (2 * (0 - d)) * unit = 2 * (0 - d * unit)
      BY <2>1
    <3>4. large * unit \in Int /\ d * unit \in Int
      BY <2>1
    <3>5. QED
      BY <2>3, <3>2, <3>3, <3>4
  <2>6. bw * h - bh * w = 0 - d
    BY DEF d
  <2>7. QED
    BY <2>4, <2>5, <2>6 DEF Alike, large, d
<1>3. QED
  BY <1>1, <1>2

Image == [w : Pixels, h : Pixels]
Slot(n) == Less(BandHeight, StackGap * (n - 1)) \div n

\* The slots of a slide, with the gaps between them, fit into the band.
LEMMA SlotsFit ==
  ASSUME NEW n \in 1 .. MaxSlideImages
  PROVE  Slot(n) \in Nat \ {0} /\ n * Slot(n) + (n - 1) * StackGap <= BandHeight
<1>1. /\ n \in Nat \ {0} /\ MaxSlideImages \in Nat /\ StackGap \in Nat /\ BandHeight \in Nat
      /\ BandHeight - StackGap * (MaxSlideImages - 1) >= MaxSlideImages
  BY LayoutAssumption
<1>2. StackGap * (n - 1) <= StackGap * (MaxSlideImages - 1) /\ StackGap * (n - 1) \in Nat
      /\ StackGap * (MaxSlideImages - 1) \in Nat
  <2>1. n - 1 \in Nat /\ MaxSlideImages - 1 \in Nat /\ n - 1 <= MaxSlideImages - 1
    BY <1>1
  <2>2. QED
    BY <1>1, <2>1, Monotone
<1> DEFINE room == BandHeight - StackGap * (n - 1)
<1>3. room \in Nat /\ room >= n /\ Less(BandHeight, StackGap * (n - 1)) = room
  BY <1>1, <1>2 DEF Less
<1>4. Slot(n) = room \div n
  BY <1>3 DEF Slot
<1>5. (n - 1) * StackGap = StackGap * (n - 1)
  BY <1>1
<1> HIDE DEF room
<1>6. Slot(n) \in Nat /\ n * Slot(n) <= room /\ room < n * Slot(n) + n
  BY <1>1, <1>3, <1>4, Quotient
<1>7. Slot(n) # 0
  BY <1>1, <1>3, <1>6
<1>8. n * Slot(n) \in Nat
  BY <1>1, <1>6
<1>9. QED
  BY <1>1, <1>2, <1>5, <1>6, <1>7, <1>8 DEF room

\* So does each of them, where it begins.
LEMMA SlotInside ==
  ASSUME NEW n \in 1 .. MaxSlideImages, NEW i \in 0 .. n - 1
  PROVE  /\ i * (Slot(n) + StackGap) \in Nat
         /\ i * (Slot(n) + StackGap) + Slot(n) <= BandHeight
         /\ (i + 1) * (Slot(n) + StackGap) = i * (Slot(n) + StackGap) + Slot(n) + StackGap
<1>1. PICK slot : slot = Slot(n)
  OBVIOUS
<1>2. /\ slot \in Nat \ {0} /\ n * slot + (n - 1) * StackGap <= BandHeight
      /\ StackGap \in Nat /\ BandHeight \in Nat /\ n \in Nat \ {0}
  BY <1>1, SlotsFit, LayoutAssumption
<1>3. PICK stride : stride = slot + StackGap
  OBVIOUS
<1>4. stride \in Nat /\ i \in Nat /\ n - 1 \in Nat /\ i <= n - 1
  BY <1>2, <1>3
<1>5. i * stride \in Nat /\ (n - 1) * stride \in Nat /\ i * stride <= (n - 1) * stride
  BY <1>4, Monotone
<1>6. (n - 1) * stride + slot = n * slot + (n - 1) * StackGap
  BY <1>2, <1>3
<1>7. (i + 1) * stride = i * stride + stride
  BY <1>4
<1>8. QED
  BY <1>1, <1>2, <1>3, <1>4, <1>5, <1>6, <1>7

\* An image is placed inside its slot, and its shape is kept.
LEMMA PlacedInside ==
  ASSUME NEW n \in 1 .. MaxSlideImages, Len(images) = n, NEW img \in Image, NEW top \in Nat
  PROVE  LET p == Placed(img, top) IN
         /\ p.w \in Nat \ {0} /\ p.x \in Nat
         /\ p.x >= ContentLeft /\ p.x + p.w <= ContentLeft + ContentWidth
         /\ p.h \in Nat \ {0} /\ p.y \in Nat
         /\ p.y >= top /\ p.y + p.h <= top + Slot(n)
         /\ img.w * EmuPerPx <= EmuMax /\ img.h * EmuPerPx <= EmuMax => Alike(p, img.w, img.h)
<1> DEFINE p == Placed(img, top)
           slot == Slot(n)
           w == Saturating(img.w * EmuPerPx)
           h == Saturating(img.h * EmuPerPx)
           box == FitWithin(w, h, ContentWidth, slot)
<1>1. /\ img.w \in Nat \ {0} /\ img.h \in Nat \ {0} /\ EmuMax \in Nat \ {0} /\ EmuPerPx \in Nat \ {0}
      /\ ContentLeft \in Nat /\ ContentWidth \in Nat \ {0}
  <2>1. img.w \in 1 .. EmuMax /\ img.h \in 1 .. EmuMax /\ EmuMax \in Nat
    BY LayoutAssumption DEF Image
  <2>2. QED
    BY <2>1, LayoutAssumption
<1>2. w \in Nat \ {0} /\ h \in Nat \ {0}
  <2>1. img.w * EmuPerPx \in Nat \ {0} /\ img.h * EmuPerPx \in Nat \ {0}
    BY <1>1
  <2>2. QED
    BY <1>1, <2>1 DEF Saturating
<1>3. slot \in Nat \ {0} /\ SlotHeight = slot
  BY SlotsFit DEF SlotHeight, Slot
<1>4. p = [x |-> ContentLeft + Less(ContentWidth, box.w) \div 2,
           y |-> top + Less(slot, box.h) \div 2, w |-> box.w, h |-> box.h]
  BY <1>3 DEF Placed
<1> HIDE DEF w, h, slot
<1>5. box.w \in 1 .. ContentWidth /\ box.h \in 1 .. slot /\ Alike(box, w, h)
  BY <1>1, <1>2, <1>3, FitsAlike
<1> HIDE DEF box, p
<1>6. \A a \in Nat : \A b \in 1 .. a :
        Less(a, b) \div 2 \in Nat /\ Less(a, b) \div 2 + b <= a
  BY DEF Less
<1>7. p.w = box.w /\ p.h = box.h /\ p.x = ContentLeft + Less(ContentWidth, box.w) \div 2
      /\ p.y = top + Less(slot, box.h) \div 2
  BY <1>4
<1>8. /\ p.w \in Nat \ {0} /\ p.x \in Nat
      /\ p.x >= ContentLeft /\ p.x + p.w <= ContentLeft + ContentWidth
  <2>1. PICK m : m = Less(ContentWidth, box.w) \div 2
    OBVIOUS
  <2>2. m \in Nat /\ m + box.w <= ContentWidth
    BY <1>1, <1>5, <1>6, <2>1
  <2>3. QED
    BY <1>1, <1>5, <1>7, <2>1, <2>2
<1>9. /\ p.h \in Nat \ {0} /\ p.y \in Nat /\ p.y >= top /\ p.y + p.h <= top + slot
  <2>1. PICK m : m = Less(slot, box.h) \div 2
    OBVIOUS
  <2>2. m \in Nat /\ m + box.h <= slot
    BY <1>3, <1>5, <1>6, <2>1
  <2>3. QED
    BY <1>3, <1>5, <1>7, <2>1, <2>2
<1>10. ASSUME img.w * EmuPerPx <= EmuMax, img.h * EmuPerPx <= EmuMax PROVE Alike(p, img.w, img.h)
  <2>1. w = img.w * EmuPerPx /\ h = img.h * EmuPerPx
    BY <1>10 DEF w, h, Saturating
  <2>2. Alike(p, img.w * EmuPerPx, img.h * EmuPerPx)
    BY <1>5, <1>7, <2>1 DEF Alike
  <2>3. QED
    BY <1>1, <1>8, <1>9, <2>2, AlikeInPixels
<1>11. QED
  BY <1>8, <1>9, <1>10 DEF p, slot

\* Where the slot of an image begins.
Top(i) == BandTop + (i - 1) * (Slot(Len(images)) + StackGap)

\* The images of a slide are in their slots, one after the other.
LayoutInv ==
  /\ images \in Seq(Image) /\ Len(images) <= MaxSlideImages
  /\ \E m \in 0 .. Len(images) :
       /\ placed = [i \in 1 .. m |-> Placed(images[i], Top(i))]
       /\ IF m = 0 THEN slotTop = BandTop ELSE slotTop = Top(m + 1)

\* No slide that is laid out has more images than it may have.
DeckInv ==
  /\ perSlide \in Seq(Nat) /\ slide \in Nat
  /\ slide > 0 => \A s \in 1 .. Len(perSlide) : perSlide[s] <= MaxSlideImages

\* Nothing is placed at first.
LEMMA NothingPlaced ==
  ASSUME NEW image, image \in Seq(Image), Len(image) <= MaxSlideImages
  PROVE  /\ images = image /\ placed = <<>> /\ slotTop = BandTop => LayoutInv
         /\ images' = image /\ placed' = <<>> /\ slotTop' = BandTop => LayoutInv'
<1>1. 0 \in 0 .. Len(image)
  OBVIOUS
<1>2. ASSUME images = image, placed = <<>>, slotTop = BandTop PROVE LayoutInv
  <2>1. placed = [i \in 1 .. 0 |-> Placed(images[i], Top(i))]
    BY <1>2
  <2>2. QED
    BY <1>1, <1>2, <2>1 DEF LayoutInv
<1>3. ASSUME images' = image, placed' = <<>>, slotTop' = BandTop PROVE LayoutInv'
  <2>1. placed' = [i \in 1 .. 0 |-> Placed(images[i], Top(i))']
    BY <1>3
  <2>2. QED
    BY <1>1, <1>3, <2>1 DEF LayoutInv
<1>4. QED
  BY <1>2, <1>3

\* A step of another call leaves the slide alone.
LEMMA LayoutStutters ==
  LayoutInv /\ UNCHANGED layoutVars => LayoutInv'
BY DEF layoutVars, LayoutInv, Top, Placed, SlotHeight

\* One more image is placed, and the next slot is within 32 bits.
LEMMA PlaceKeeps ==
  LayoutInv /\ PlaceNext => LayoutInv'
<1>1. SUFFICES ASSUME LayoutInv, PlaceNext PROVE LayoutInv'
  OBVIOUS
<1>2. PICK m \in 0 .. Len(images) :
        /\ placed = [i \in 1 .. m |-> Placed(images[i], Top(i))]
        /\ IF m = 0 THEN slotTop = BandTop ELSE slotTop = Top(m + 1)
  BY <1>1 DEF LayoutInv
<1> DEFINE n == Len(images)
           P(i) == Placed(images[i], Top(i))
<1>3. /\ images \in Seq(Image) /\ n <= MaxSlideImages /\ n \in Nat /\ m \in Nat /\ MaxSlideImages \in Nat
      /\ StackGap \in Nat /\ BandTop \in Nat /\ BandHeight \in Nat /\ EmuMax \in Nat
      /\ BandTop + BandHeight + StackGap <= EmuMax
  BY <1>1, <1>2, LayoutAssumption DEF LayoutInv
<1>4. Len(placed) = m
  BY <1>2, <1>3
<1>5. /\ m < n /\ UNCHANGED images
      /\ placed' = Append(placed, Placed(images[m + 1], slotTop))
      /\ slotTop' = Saturating(slotTop + SlotHeight + StackGap)
  BY <1>1, <1>4 DEF PlaceNext
<1>6. n \in 1 .. MaxSlideImages /\ m \in 0 .. n - 1 /\ SlotHeight = Slot(n) /\ Slot(n) \in Nat
  <2>1. n \in 1 .. MaxSlideImages /\ m \in 0 .. n - 1
    BY <1>3, <1>5
  <2>2. QED
    BY <2>1, SlotsFit DEF SlotHeight, Slot
<1>7. /\ m * (Slot(n) + StackGap) \in Nat
      /\ m * (Slot(n) + StackGap) + Slot(n) <= BandHeight
      /\ (m + 1) * (Slot(n) + StackGap) = m * (Slot(n) + StackGap) + Slot(n) + StackGap
  BY <1>6, SlotInside
<1>8. slotTop = Top(m + 1)
  <2>1. (m + 1) - 1 = m /\ (m = 0 => m * (Slot(n) + StackGap) = 0)
    BY <1>3, <1>6
  <2>2. QED
    BY <1>2, <1>3, <1>7, <2>1 DEF Top
<1>9. slotTop' = Top((m + 1) + 1)
  <2>1. (m + 1) - 1 = m /\ ((m + 1) + 1) - 1 = m + 1
    BY <1>3
  <2>2. slotTop = BandTop + m * (Slot(n) + StackGap)
    BY <1>8, <2>1 DEF Top
  <2>3. PICK x, slot : x = m * (Slot(n) + StackGap) /\ slot = Slot(n)
    OBVIOUS
  <2>4. x \in Nat /\ slot \in Nat /\ x + slot <= BandHeight /\ SlotHeight = slot
    BY <1>6, <1>7, <2>3
  <2>5. slotTop = BandTop + x
    BY <2>2, <2>3
  <2>6. Top((m + 1) + 1) = BandTop + (x + slot + StackGap)
    <3>1. Top((m + 1) + 1) = BandTop + (m + 1) * (Slot(n) + StackGap)
      BY <2>1 DEF Top
    <3>2. QED
      BY <1>7, <2>3, <3>1
  <2>7. slotTop + slot + StackGap <= EmuMax
    BY <1>3, <2>4, <2>5
  <2>8. slotTop' = slotTop + slot + StackGap
    BY <1>5, <2>4, <2>7 DEF Saturating
  <2>9. QED
    BY <1>3, <2>4, <2>5, <2>6, <2>8
<1>10. placed' = [i \in 1 .. m + 1 |-> P(i)]
  <2>1. placed' = Append([i \in 1 .. m |-> P(i)], P(m + 1))
    BY <1>2, <1>5, <1>8
  <2> HIDE DEF P
  <2>2. Append([i \in 1 .. m |-> P(i)], P(m + 1)) = [i \in 1 .. m + 1 |-> P(i)]
    BY <1>3
  <2>3. QED
    BY <2>1, <2>2
<1>11. /\ images' = images /\ m + 1 \in 0 .. Len(images') /\ m + 1 # 0
       /\ \A i : P(i)' = P(i) /\ Top(i)' = Top(i)
  BY <1>3, <1>5 DEF Placed, SlotHeight, Top
<1>12. placed' = [i \in 1 .. m + 1 |-> P(i)'] /\ slotTop' = Top((m + 1) + 1)'
  BY <1>9, <1>10, <1>11
<1>13. QED
  BY <1>3, <1>11, <1>12 DEF LayoutInv

\* Images that are in their slots are apart from each other and from the rest of
\* the slide, and none is distorted.
LEMMA LayoutInvIsEnough ==
  LayoutInv => Apart /\ Undistorted
<1>1. SUFFICES ASSUME LayoutInv PROVE Apart /\ Undistorted
  OBVIOUS
<1>2. PICK m \in 0 .. Len(images) : placed = [i \in 1 .. m |-> Placed(images[i], Top(i))]
  BY <1>1 DEF LayoutInv
<1> DEFINE n == Len(images)
           slot == Slot(n)
<1>3. /\ images \in Seq(Image) /\ n <= MaxSlideImages /\ n \in Nat /\ m \in Nat /\ m <= n
      /\ MaxSlideImages \in Nat /\ StackGap \in Nat /\ BandTop \in Nat /\ BandHeight \in Nat
  BY <1>1, <1>2, LayoutAssumption DEF LayoutInv
<1>4. Len(placed) = m /\ \A i \in 1 .. m : placed[i] = Placed(images[i], Top(i))
  BY <1>2, <1>3
<1>5. ASSUME NEW i \in 1 .. m
      PROVE  /\ n \in 1 .. MaxSlideImages /\ slot \in Nat \ {0}
             /\ Top(i) \in Nat /\ Top(i) >= BandTop /\ Top(i) + slot <= BandTop + BandHeight
             /\ images[i] \in Image
  <2>1. n \in 1 .. MaxSlideImages /\ i - 1 \in 0 .. n - 1 /\ images[i] \in Image
    BY <1>3
  <2>2. slot \in Nat \ {0}
    BY <2>1, SlotsFit
  <2>3. PICK x : x = (i - 1) * (Slot(n) + StackGap)
    OBVIOUS
  <2>4. x \in Nat /\ x + slot <= BandHeight
    BY <2>1, <2>3, SlotInside
  <2>5. Top(i) = BandTop + x
    BY <2>3 DEF Top
  <2> HIDE DEF slot
  <2>6. QED
    BY <1>3, <2>1, <2>2, <2>4, <2>5
<1>6. ASSUME NEW i \in 1 .. m
      PROVE  /\ placed[i].w \in Nat \ {0} /\ placed[i].x \in Nat
             /\ placed[i].x >= ContentLeft /\ placed[i].x + placed[i].w <= ContentLeft + ContentWidth
             /\ placed[i].h \in Nat \ {0} /\ placed[i].y \in Nat
             /\ placed[i].y >= Top(i) /\ placed[i].y + placed[i].h <= Top(i) + slot
             /\ images[i].w * EmuPerPx <= EmuMax /\ images[i].h * EmuPerPx <= EmuMax
                  => Alike(placed[i], images[i].w, images[i].h)
  BY <1>4, <1>5, PlacedInside
<1> HIDE DEF slot
<1>7. ASSUME NEW i \in 1 .. Len(placed)
      PROVE  LET p == placed[i] IN
             /\ p.w >= 1 /\ p.x >= ContentLeft /\ p.x + p.w <= ContentLeft + ContentWidth
             /\ p.h >= 1 /\ p.y >= BandTop /\ p.y + p.h <= BandTop + BandHeight
  <2>1. i \in 1 .. m
    BY <1>4
  <2>2. PICK top : top = Top(i)
    OBVIOUS
  <2>3. slot \in Nat /\ top \in Nat /\ top >= BandTop /\ top + slot <= BandTop + BandHeight
    BY <1>5, <2>1, <2>2
  <2>4. PICK p : p = placed[i]
    OBVIOUS
  <2>5. /\ p.w \in Nat \ {0} /\ p.x \in Nat
        /\ p.x >= ContentLeft /\ p.x + p.w <= ContentLeft + ContentWidth
        /\ p.h \in Nat \ {0} /\ p.y \in Nat
        /\ p.y >= top /\ p.y + p.h <= top + slot
    BY <1>6, <2>1, <2>2, <2>4
  <2>6. p.y >= BandTop /\ p.y + p.h <= BandTop + BandHeight
    BY <1>3, <2>3, <2>5
  <2>7. QED
    BY <2>4, <2>5, <2>6
<1>8. ASSUME NEW i \in 1 .. Len(placed), NEW j \in 1 .. Len(placed), i < j
      PROVE  placed[i].y + placed[i].h + StackGap <= placed[j].y
  <2>1. i \in 1 .. m /\ j \in 1 .. m
    BY <1>4
  <2>2. PICK above, below : above = Top(i) /\ below = Top(j)
    OBVIOUS
  <2>3. above \in Nat /\ below \in Nat /\ slot \in Nat
    BY <1>5, <2>1, <2>2
  <2>4. above + slot + StackGap <= below
    <3>1. PICK stride : stride = slot + StackGap
      OBVIOUS
    <3>2. stride \in Nat
      BY <1>3, <2>3, <3>1
    <3>3. i \in Nat /\ j - 1 \in Nat /\ i <= j - 1 /\ i - 1 \in Nat /\ (i - 1) + 1 = i
      BY <1>8, <2>1
    <3>4. i * stride <= (j - 1) * stride /\ i * stride \in Nat /\ (j - 1) * stride \in Nat
      BY <3>2, <3>3, Monotone
    <3>5. i * stride = (i - 1) * stride + stride /\ (i - 1) * stride \in Nat
      BY <3>2, <3>3
    <3>6. above = BandTop + (i - 1) * stride /\ below = BandTop + (j - 1) * stride
      BY <2>2, <3>1 DEF Top, slot
    <3>7. PICK x, y, z : x = (i - 1) * stride /\ y = i * stride /\ z = (j - 1) * stride
      OBVIOUS
    <3>8. x \in Nat /\ y \in Nat /\ z \in Nat /\ y <= z /\ y = x + stride
          /\ above = BandTop + x /\ below = BandTop + z
      BY <3>4, <3>5, <3>6, <3>7
    <3>9. QED
      BY <1>3, <2>3, <3>1, <3>2, <3>8
  <2>5. PICK y, h, next : y = placed[i].y /\ h = placed[i].h /\ next = placed[j].y
    OBVIOUS
  <2>6. y \in Nat /\ h \in Nat /\ y + h <= above + slot /\ next \in Nat /\ next >= below
    BY <1>6, <2>1, <2>2, <2>5
  <2>7. y + h + StackGap <= next
    BY <1>3, <2>3, <2>4, <2>6
  <2>8. QED
    BY <2>5, <2>7
<1>9. Apart
  BY <1>7, <1>8 DEF Apart
<1>10. ASSUME NEW p, NEW img \in Image, p.w \in Nat, p.h \in Nat, Alike(p, img.w, img.h)
       PROVE  SameShape(p, img)
  <2>1. img.w \in 1 .. EmuMax /\ img.h \in 1 .. EmuMax /\ EmuMax \in Nat
    BY LayoutAssumption DEF Image
  <2>2. PICK w, h, a, b : w = img.w /\ h = img.h /\ a = p.h * img.w /\ b = p.w * img.h
    OBVIOUS
  <2>3. w \in Nat /\ h \in Nat
    BY <2>1, <2>2
  <2>4. a \in Nat /\ b \in Nat
    BY <1>10, <2>2, <2>3
  <2>5. \/ p.w = 1 \/ p.h = 1
        \/ 2 * (a - b) <= Larger(w, h) /\ 2 * (b - a) <= Larger(w, h)
    BY <1>10, <2>2 DEF Alike
  <2>6. 2 * (a - b) <= Larger(w, h) /\ 2 * (b - a) <= Larger(w, h)
          => 2 * (IF a - b < 0 THEN -(a - b) ELSE a - b) <= (IF w > h THEN w ELSE h)
    BY <2>3, <2>4 DEF Larger
  <2>7. QED
    BY <2>2, <2>5, <2>6 DEF SameShape
<1>11. Undistorted
  BY <1>4, <1>5, <1>6, <1>10 DEF Undistorted
<1>12. QED
  BY <1>9, <1>11

\* A deck at first, or none.
LEMMA DeckInitially ==
  DeckInit \/ DeckIdle => StreamInv /\ LayoutInv /\ DeckInv
<1>1. <<>> \in Seq(Image) /\ Len(<<>>) <= MaxSlideImages
  BY LayoutAssumption
<1>2. DeckInit \/ DeckIdle => LayoutInv
  BY <1>1, NothingPlaced DEF DeckInit, DeckIdle
<1>3. DeckInit \/ DeckIdle => StreamInv
  BY StreamInitially DEF DeckInit, DeckIdle
<1>4. ASSUME DeckInit PROVE perSlide \in Seq(Nat)
  <2>1. MaxSlides \in Nat /\ 0 .. MaxImages \subseteq Nat
    BY ImageAssumption, DeckAssumption
  <2>2. perSlide \in Seq(0 .. MaxImages)
    BY <1>4, <2>1, BoundedSequence DEF DeckInit
  <2>3. QED
    BY <2>1, <2>2, LargerSet
<1>5. DeckInit \/ DeckIdle => DeckInv
  <2>1. <<>> \in Seq(Nat) /\ 0 \in Nat /\ ~ 0 > 0
    OBVIOUS
  <2>2. DeckInit \/ DeckIdle => slide = 0 /\ perSlide \in Seq(Nat)
    BY <1>4, <2>1 DEF DeckInit, DeckIdle
  <2>3. QED
    BY <2>1, <2>2 DEF DeckInv
<1>6. QED
  BY <1>2, <1>3, <1>5

\* The layout of a slide begins with nothing placed.
LEMMA BeginSlideKeeps ==
  ASSUME StreamInv, DeckInv, BeginSlide,
         \A s \in 1 .. Len(perSlide) : perSlide[s] <= MaxSlideImages
  PROVE  StreamInv' /\ LayoutInv' /\ DeckInv'
<1>1. /\ slide' = slide + 1 /\ slide' <= Len(perSlide)
      /\ images' \in [1 .. perSlide[slide'] -> Image]
      /\ placed' = <<>> /\ slotTop' = BandTop
      /\ UNCHANGED <<streamVars, perSlide>>
  BY DEF BeginSlide, Image
<1>2. perSlide \in Seq(Nat) /\ slide \in Nat /\ slide' \in 1 .. Len(perSlide)
  BY <1>1 DEF DeckInv
<1>3. images' \in Seq(Image) /\ Len(images') <= MaxSlideImages
  <2>1. PICK m : m = perSlide[slide']
    OBVIOUS
  <2>2. m \in Nat /\ m <= MaxSlideImages /\ images' \in [1 .. m -> Image]
    BY <1>1, <1>2, <2>1
  <2>3. images' \in Seq(Image) /\ Len(images') = m
    BY <2>2
  <2>4. QED
    BY <2>2, <2>3
<1>4. LayoutInv'
  BY <1>1, <1>3, NothingPlaced
<1>5. StreamInv'
  BY <1>1, StreamStutters
<1>6. DeckInv'
  BY <1>1, <1>2 DEF DeckInv
<1>7. QED
  BY <1>4, <1>5, <1>6

\* Resolving, validating and laying out keep the three invariants: a deck that is
\* laid out is one that was accepted.
LEMMA DeckKeeps ==
  StreamInv /\ LayoutInv /\ DeckInv /\ DeckNext => StreamInv' /\ LayoutInv' /\ DeckInv'
<1>1. SUFFICES ASSUME StreamInv, LayoutInv, DeckInv, DeckNext
      PROVE  StreamInv' /\ LayoutInv' /\ DeckInv'
  OBVIOUS
<1>2. UNCHANGED <<perSlide, slide>> => DeckInv'
  BY <1>1 DEF DeckInv
<1>3. CASE Resolve
  BY <1>1, <1>2, <1>3, StreamKeeps, LayoutStutters DEF Resolve
<1>4. CASE Validate
  <2>1. CASE Accepts /\ BeginSlide
    BY <1>1, <2>1, BeginSlideKeeps DEF Accepts
  <2>2. CASE result' = "InvalidInput"
             /\ UNCHANGED <<input, stage, k, expected, payload, cursor, slices, layoutVars,
                            perSlide, slide>>
    <3>1. stage = "done"
      BY <1>4 DEF Validate
    <3>2. StreamInv'
      <4>1. UNCHANGED <<declared, stream, sent>> /\ stage' = "done" /\ result' # "Ok"
        BY <2>2, <3>1 DEF input
      <4>2. CutOK(Len(declared)) /\ declared \in Seq(Nat)
        BY <1>1, <1>4 DEF Validate, StreamInv, StreamOK, InputOK
      <4>3. ~(Len(slices') < Len(declared))
        BY <2>2, <4>2 DEF CutOK
      <4>4. QED
        BY <1>1, <4>1, <4>3, StreamStutters
    <3>3. QED
      BY <1>1, <1>2, <2>2, <3>2, LayoutStutters
  <2>3. QED
    BY <1>4, <2>1, <2>2 DEF Validate
<1>5. CASE NextSlide
  BY <1>1, <1>5, BeginSlideKeeps DEF NextSlide, DeckInv
<1>6. CASE Place
  BY <1>1, <1>2, <1>6, PlaceKeeps, StreamStutters DEF Place
<1>7. QED
  BY <1>1, <1>3, <1>4, <1>5, <1>6 DEF DeckNext

\* A step of another call leaves the deck alone.
LEMMA DeckStutters ==
  StreamInv /\ LayoutInv /\ DeckInv /\ UNCHANGED deckVars => StreamInv' /\ LayoutInv' /\ DeckInv'
<1>1. UNCHANGED deckVars => UNCHANGED <<streamVars, layoutVars>> /\ UNCHANGED <<perSlide, slide>>
  BY DEF deckVars
<1>2. DeckInv /\ UNCHANGED <<perSlide, slide>> => DeckInv'
  BY DEF DeckInv
<1>3. QED
  BY <1>1, <1>2, StreamStutters, LayoutStutters

(***************************************************************************)
(* All calls.                                                              *)
(***************************************************************************)

\* What holds of every call.
CallInv == StreamInv /\ LayoutInv /\ DeckInv /\ SynthesisInv /\ RenderedOK /\ InspectInv /\ RenderInv

\* A call begins with it.
LEMMA CallInitially ==
  CallInit => CallInv
BY DeckInitially, SynthesisInitially, RenderedStutters, InspectInitially, RenderInitially DEF CallInit, CallInv

\* Every step keeps it.
LEMMA CallKeeps ==
  CallInv /\ [CallNext]_callVars => CallInv'
<1>1. SUFFICES ASSUME CallInv, [CallNext]_callVars PROVE CallInv'
  OBVIOUS
<1>2. CASE DeckNext /\ UNCHANGED <<synthesisVars, inspectVars, renderVars, convertVars>>
  BY <1>1, <1>2, DeckKeeps, SynthesisStutters, RenderedStutters, InspectStutters, RenderStutters
     DEF CallInv
<1>3. CASE SynthesisNext /\ UNCHANGED <<deckVars, inspectVars, renderVars, convertVars>>
  BY <1>1, <1>3, DeckStutters, SynthesisKeeps, RenderedKeeps, InspectStutters, RenderStutters
     DEF CallInv
<1>4. CASE InspectNext /\ UNCHANGED <<deckVars, synthesisVars, renderVars, convertVars>>
  BY <1>1, <1>4, DeckStutters, SynthesisStutters, RenderedStutters, InspectKeeps, RenderStutters
     DEF CallInv
<1>5. CASE RenderNext /\ UNCHANGED <<deckVars, synthesisVars, inspectVars, convertVars>>
  BY <1>1, <1>5, DeckStutters, SynthesisStutters, RenderedStutters, InspectStutters, RenderKeeps
     DEF CallInv
<1>6. CASE UNCHANGED <<deckVars, synthesisVars, inspectVars, renderVars>>
  BY <1>1, <1>6, DeckStutters, SynthesisStutters, RenderedStutters, InspectStutters, RenderStutters
     DEF CallInv
<1>7. QED
  BY <1>1, <1>2, <1>3, <1>4, <1>5, <1>6 DEF CallNext, callVars

\* So it always holds.
LEMMA CallInvAlways ==
  CallSpec => []CallInv
BY CallInitially, CallKeeps, PTL DEF CallSpec

\* GeneratePptx: a stream that is cut has exactly the bytes that were declared, a
\* deck that declares what was sent is cut to the end unless a file of it is not
\* accepted, and a deck that is accepted with other lengths for as many images as
\* were sent has cut one of them where another picture begins in it.
THEOREM ImagesCutAsSent ==
  CallSpec => []CutAsSent
BY CallInvAlways, StreamInvCutsAsSent, PTL DEF CallInv

\* GeneratePptx: the images of a slide are apart from each other, by at least the
\* gap, and stay inside the column and the band, for every number and size of
\* images that is accepted.
THEOREM ImagesAreApart ==
  CallSpec => []Apart
<1>1. CallInv => Apart
  BY LayoutInvIsEnough DEF CallInv
<1>2. QED
  BY <1>1, CallInvAlways, PTL

\* GeneratePptx: an image keeps its shape, up to the rounding of one extent, unless
\* its size in EMU does not fit 32 bits.
THEOREM ImagesKeepTheirShape ==
  CallSpec => []Undistorted
<1>1. CallInv => Undistorted
  BY LayoutInvIsEnough DEF CallInv
<1>2. QED
  BY <1>1, CallInvAlways, PTL

\* GenerateDocx: the texts of a document that is built stay within the total, however
\* they are spread over the title, the author and the sections.
THEOREM TextsAreBounded ==
  CallSpec => []TotalBounded
BY CallInvAlways, SynthesisInvIsBounded, PTL DEF CallInv

\* GenerateDocx and GeneratePptx: what validation accepts is rendered, the title first,
\* every section or slide with something to read on it, and no text that is not blank
\* lost, repeated or out of its order.  Validation and builder are in different crates.
THEOREM AcceptedTextsRendered ==
  CallSpec => []AcceptedIsRendered
BY CallInvAlways, RenderedOKIsEnough, PTL DEF CallInv

\* InspectImage: the size of a JPEG is that of its frame header, behind whatever fill bytes
\* and segments there are, and the beginning of a file is enough exactly when it holds
\* the header, with nothing before it at which a reader has to stop.
THEOREM FrameIsFound ==
  CallSpec => []FrameFound
<1>1. CallInv => FrameFound
  BY DEF CallInv, InspectInv
<1>2. QED
  BY <1>1, CallInvAlways, PTL

\* RenderPdfPages: nothing is rasterized before all pages that are asked for are known
\* to fit the pixel budget together, none of them larger than it may be, and the
\* encoded pages that are kept stay within the byte budget.
THEOREM RasteringIsBounded ==
  CallSpec => []RastersWithinBudget
<1>1. CallInv => RastersWithinBudget
  BY RenderInvIsEnough DEF CallInv
<1>2. QED
  BY <1>1, CallInvAlways, PTL

\* RenderPdfPages: an answer has the pages of the request in the order of the request,
\* each an existing page and none of them twice.
THEOREM RenderingAnswers ==
  CallSpec => []AnswersRequest
<1>1. CallInv => AnswersRequest
  BY RenderInvIsEnough DEF CallInv
<1>2. QED
  BY <1>1, CallInvAlways, PTL
=============================================================================
