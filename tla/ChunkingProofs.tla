--------------------------- MODULE ChunkingProofs ---------------------------
(***************************************************************************)
(* Proofs about Chunking, for every chunk size and every bound on pages    *)
(* and on files that cannot be removed.                                    *)
(*                                                                         *)
(*  - RangeInv: the calls on the stack are for ranges inside the initial   *)
(*    range in hand, each a proper half of the one below it.  With it      *)
(*    ChunkInv is inductive, of which PagesInOrder is a consequence.       *)
(*  - FilesInv: which files a call may have left, and that the files that  *)
(*    could not be removed are of pages that are done with, so that no     *)
(*    later call meets its own file among them.                            *)
(*  - CostInv: what has been submitted, counted against the pages done.    *)
(*    A full binary tree with k leaves has k - 1 inner nodes; the calls    *)
(*    whose left half is in hand are the inner nodes paid in advance.      *)
(*  - Halving: how deep the calls can get.  Were there a least call for    *)
(*    which the power of two does not hold, it would hold of its caller.   *)
(*  - PercentSoFar: what has been reported, against what will be.          *)
(*  - StepsLeft: an account of all steps to come, as CostInv is of the     *)
(*    submissions, which every step lessens; and that none is missing.     *)
(***************************************************************************)
EXTENDS Chunking, TLAPS, SequenceTheorems, FiniteSetTheorems,
        WellFoundedInduction

\* The strengthening of the ranges.
Inside ==
  \A i \in 1 .. n :
    /\ index * ChunkSize < stack[i].range.first
    /\ stack[i].range.first <= stack[i].range.last
    /\ stack[i].range.last <= LastPage(index)
Shrinking ==
  \A i, j \in 1 .. n :
    i < j => page_count(stack[j].range) < page_count(stack[i].range)
Stops ==
  /\ phase \in {"counting", "running"} /\ n = 0 => result = Pending
  /\ n > 0 => phase = "running"
RangeInv == ChunkInv /\ Inside /\ Shrinking /\ Stops

\* The strengthening of the files.
PictureInHand ==
  \A f \in files \ stuck : f.kind = "png" =>
    n > 0 /\ result = Pending /\ top.at = "picture" /\ f.range = top.range
StuckIsPast ==
  \A f \in stuck :
    /\ n > 0 /\ result = Pending => f.range.last < top.range.first
    /\ n > 0 /\ result.kind = "ok" => f.range.last <= top.range.last
    /\ phase \in {"counting", "running"} /\ n = 0 =>
         f.range.last <= index * ChunkSize
StuckNotInUse ==
  \A f \in stuck : f.kind = "pdf" => \A i \in 1 .. n : f.range # stack[i].range
FilesInv == TempFiles /\ PictureInHand /\ StuckIsPast /\ StuckNotInUse

\* The cost so far.
LeftsBelow(s, i) == Cardinality({j \in 1 .. i - 1 : s[j].at = "left"})
Cost == IF result # Pending THEN 3 * page_count(top.range) - 1
        ELSE IF top.at \in {"raster", "picture"} THEN 1 ELSE 0
SinglePage == n > 0 /\ top.at \in {"raster", "picture"} => page_count(top.range) = 1
Paid ==
  /\ phase = "counting" => calls = 0
  /\ phase = "running" /\ n = 0 =>
       calls <= 3 * (IF index * ChunkSize < pages THEN index * ChunkSize ELSE pages)
                - index
  /\ n > 0 /\ result.kind \in {"pending", "ok"} =>
       calls <= 3 * (top.range.first - 1) - index + LeftsBelow(stack, n) + Cost
  /\ \A i \in 1 .. n : LeftsBelow(stack, i) + stack[i].range.last <= LastPage(index)
CostInv == SubmissionsBounded /\ SinglePage /\ Paid

-----------------------------------------------------------------------------
(* The operators the model is built from.                                  *)

\* Integer division.
LEMMA DivisionBounds ==
  ASSUME NEW a \in Nat, NEW d \in Nat \ {0}
  PROVE  /\ a \div d \in Nat
         /\ (a \div d) * d <= a
         /\ a < (a \div d) * d + d
OBVIOUS

\* PageRange::split cuts a range of more than one page into two halves, neither
\* empty, the second beginning after the first.
LEMMA SplitHalves ==
  ASSUME NEW r \in PageRange, page_count(r) > 1
  PROVE  /\ midpoint(r) \in 1 .. MaxPages
         /\ r.first <= midpoint(r) /\ midpoint(r) < r.last
         /\ Left(r) \in PageRange /\ Right(r) \in PageRange
         /\ Left(r).first = r.first /\ Left(r).last = midpoint(r)
         /\ Right(r).first = midpoint(r) + 1 /\ Right(r).last = r.last
         /\ page_count(Left(r)) \in Nat \ {0} /\ page_count(Left(r)) < page_count(r)
         /\ page_count(Right(r)) \in Nat \ {0} /\ page_count(Right(r)) < page_count(r)
<1>1. r.first \in 1 .. MaxPages /\ r.last \in 1 .. MaxPages /\ r.first < r.last
  BY ChunkingAssumption DEF PageRange, page_count
<1>2. /\ midpoint(r) \in Int
      /\ r.first <= midpoint(r) /\ midpoint(r) < r.last
  BY <1>1, ChunkingAssumption DEF midpoint, page_count
<1> QED BY <1>1, <1>2, ChunkingAssumption
        DEF Left, Right, Span, PageRange, page_count

\* The text of some pages is a sequence of them.
LEMMA PagesAreText ==
  ASSUME NEW a \in Nat, NEW b \in Nat, a <= b + 1
  PROVE  /\ Pages(a, b) \in Seq(Nat) /\ Len(Pages(a, b)) = b - a + 1
         /\ \A i \in 1 .. b - a + 1 : Pages(a, b)[i] = a + i - 1
         /\ a > 0 /\ b <= MaxPages => Pages(a, b) \in Seq(1 .. MaxPages)
<1>1. b - a + 1 \in Nat
  OBVIOUS
<1>2. Pages(a, b) \in [1 .. b - a + 1 -> Nat]
  BY <1>1 DEF Pages
<1>3. Pages(a, b) \in Seq(Nat)
  BY <1>1, <1>2
<1>4. Len(Pages(a, b)) = b - a + 1
  BY <1>1, <1>2
<1>5. \A i \in 1 .. b - a + 1 : Pages(a, b)[i] = a + i - 1
  BY DEF Pages
<1>6. ASSUME a > 0, b <= MaxPages PROVE Pages(a, b) \in Seq(1 .. MaxPages)
  <2> DEFINE S == 1 .. MaxPages
             k == b - a + 1
  <2>1. Pages(a, b) \in [1 .. k -> S]
    BY <1>1, <1>6, ChunkingAssumption DEF Pages
  <2>2. k \in Nat
    BY <1>1
  <2> HIDE DEF S, k
  <2>3. Pages(a, b) \in Seq(S)
    BY <2>1, <2>2
  <2> QED BY <2>3 DEF S
<1> QED BY <1>3, <1>4, <1>5, <1>6

\* Adjacent texts join to the text of all their pages.
LEMMA PagesJoin ==
  ASSUME NEW a \in Nat, NEW m \in Nat, NEW b \in Nat, a <= m + 1, m <= b
  PROVE  Pages(a, m) \o Pages(m + 1, b) = Pages(a, b)
<1> DEFINE s == Pages(a, m)
           t == Pages(m + 1, b)
           u == Pages(a, b)
<1>1. /\ s \in Seq(Nat) /\ Len(s) = m - a + 1
      /\ \A i \in 1 .. m - a + 1 : s[i] = a + i - 1
  <2>1. a <= m + 1
    OBVIOUS
  <2> QED BY <2>1, PagesAreText
<1>2. /\ t \in Seq(Nat) /\ Len(t) = b - m
      /\ \A i \in 1 .. b - m : t[i] = m + i
  <2>1. m + 1 \in Nat /\ m + 1 <= b + 1 /\ b - (m + 1) + 1 = b - m
    OBVIOUS
  <2>2. /\ t \in Seq(Nat) /\ Len(t) = b - (m + 1) + 1
        /\ \A i \in 1 .. b - (m + 1) + 1 : t[i] = (m + 1) + i - 1
    BY <2>1, PagesAreText
  <2> QED BY <2>1, <2>2
<1>3. /\ u \in Seq(Nat) /\ Len(u) = b - a + 1
      /\ \A i \in 1 .. b - a + 1 : u[i] = a + i - 1
  <2>1. a <= b + 1
    OBVIOUS
  <2> QED BY <2>1, PagesAreText
<1> HIDE DEF s, t, u
<1>4. /\ s \o t \in Seq(Nat) /\ Len(s \o t) = Len(s) + Len(t)
      /\ \A i \in 1 .. Len(s) + Len(t) :
           (s \o t)[i] = IF i <= Len(s) THEN s[i] ELSE t[i - Len(s)]
  BY <1>1, <1>2, ConcatProperties
<1>5. Len(s \o t) = Len(u)
  BY <1>1, <1>2, <1>3, <1>4
<1>6. ASSUME NEW i \in 1 .. Len(s \o t) PROVE (s \o t)[i] = u[i]
  <2>1. i \in Nat /\ i >= 1 /\ i <= b - a + 1 /\ u[i] = a + i - 1
    BY <1>3, <1>5, <1>6
  <2>2. CASE i <= Len(s)
    BY <1>1, <1>4, <1>6, <2>1, <2>2
  <2>3. CASE ~(i <= Len(s))
    <3>1. i - Len(s) \in 1 .. b - m /\ m + (i - Len(s)) = a + i - 1
      BY <1>1, <2>1, <2>3
    <3>2. (s \o t)[i] = t[i - Len(s)]
      BY <1>4, <1>6, <2>3
    <3> QED BY <1>2, <2>1, <3>1, <3>2
  <2> QED BY <2>2, <2>3
<1>7. s \o t = u
  BY <1>3, <1>4, <1>5, <1>6, SeqEqual
<1> QED BY <1>7 DEF s, t, u

LEMMA CountIsNat ==
  ASSUME NEW p \in Nat
  PROVE  (p + ChunkSize - 1) \div ChunkSize \in Nat
<1>1. p + ChunkSize - 1 \in Nat /\ ChunkSize \in Nat \ {0}
  BY ChunkingAssumption
<1> QED BY <1>1, DivisionBounds

\* div_ceil covers the document, and its last range is not empty.
LEMMA ChunkCount ==
  ASSUME pages \in Nat
  PROVE  /\ chunk_count \in Nat
         /\ chunk_count * ChunkSize <= pages + ChunkSize - 1
         /\ pages <= chunk_count * ChunkSize
<1>1. pages + ChunkSize - 1 \in Nat /\ ChunkSize \in Nat \ {0}
  BY ChunkingAssumption
<1>2. /\ chunk_count \in Nat
      /\ chunk_count * ChunkSize <= pages + ChunkSize - 1
      /\ pages + ChunkSize - 1 < chunk_count * ChunkSize + ChunkSize
  BY <1>1, DivisionBounds DEF chunk_count
<1>3. chunk_count * ChunkSize \in Nat
  BY <1>1, <1>2
<1> QED BY <1>1, <1>2, <1>3

\* The initial ranges: each begins after the one before it and is not empty,
\* and those still to come have no more ranges than pages.
LEMMA InitialRanges ==
  ASSUME pages \in Nat, NEW i \in Nat, i < chunk_count
  PROVE  /\ i * ChunkSize \in Nat /\ i * ChunkSize < pages
         /\ LastPage(i) \in Nat /\ i * ChunkSize < LastPage(i) /\ LastPage(i) <= pages
         /\ LastPage(i) = IF (i + 1) * ChunkSize < pages THEN (i + 1) * ChunkSize
                                                         ELSE pages
         /\ InitialRange(i).first = i * ChunkSize + 1
         /\ InitialRange(i).last = LastPage(i)
         /\ chunk_count - (i + 1) <= pages - LastPage(i)
<1> DEFINE c == chunk_count
           d == ChunkSize
           x == i * d
<1>1. c \in Nat /\ d \in Nat /\ d >= 1 /\ c * d <= pages + d - 1
  BY ChunkCount, ChunkingAssumption
<1>2. x \in Nat /\ (i + 1) * d = x + d
  BY <1>1
<1> DEFINE k == c - (i + 1)
<1>3. k \in Nat /\ c = k + i + 1
  BY <1>1
<1>4. c * d = k * d + x + d /\ k * d \in Nat /\ k <= k * d
  <2> HIDE DEF k
  <2>1. (k + i + 1) * d = k * d + i * d + d
    BY <1>1, <1>3
  <2>2. k * d \in Nat /\ k <= k * d
    BY <1>1, <1>3
  <2> QED BY <1>3, <2>1, <2>2
<1> HIDE DEF c, d, k, x
<1>5. x + k * d <= pages - 1
  BY <1>1, <1>2, <1>4
<1>6. x < pages
  BY <1>2, <1>4, <1>5
<1>7. LastPage(i) = IF x + d < pages THEN x + d ELSE pages
  BY <1>2 DEF LastPage, d
<1>8. k <= pages - LastPage(i)
  <2>1. CASE x + d < pages
    <3>1. CASE k = 0
      BY <1>1, <1>2, <1>7, <2>1, <3>1
    <3>2. CASE k # 0
      <4> DEFINE h == k - 1
      <4>1. h \in Nat /\ k = h + 1
        BY <1>3, <3>2
      <4> HIDE DEF h
      <4>2. k * d = h * d + d /\ h * d \in Nat /\ h <= h * d
        BY <1>1, <4>1
      <4> QED BY <1>1, <1>2, <1>5, <1>7, <2>1, <4>1, <4>2
    <3> QED BY <3>1, <3>2
  <2>2. CASE ~(x + d < pages)
    <3>1. k * d < d
      BY <1>1, <1>2, <1>4, <1>5, <2>2
    <3>2. k = 0
      BY <1>1, <1>3, <3>1
    <3> QED BY <1>7, <2>2, <3>2
  <2> QED BY <2>1, <2>2
<1> QED BY <1>1, <1>2, <1>6, <1>7, <1>8
        DEF c, d, k, x, InitialRange, Span, LastPage

\* When the initial ranges are used up, so are the pages.
LEMMA AllCovered ==
  ASSUME pages \in Nat
  PROVE  ~(chunk_count * ChunkSize < pages) /\ chunk_count <= pages
<1>1. /\ chunk_count \in Nat /\ ChunkSize \in Nat /\ ChunkSize >= 1
      /\ chunk_count * ChunkSize <= pages + ChunkSize - 1
      /\ pages <= chunk_count * ChunkSize /\ chunk_count * ChunkSize \in Nat
  BY ChunkCount, ChunkingAssumption
<1>2. CASE chunk_count = 0
  BY <1>1, <1>2
<1>3. CASE chunk_count # 0
  <2> DEFINE k == chunk_count - 1
  <2>1. k \in Nat /\ chunk_count = k + 1
    BY <1>1, <1>3
  <2>2. chunk_count * ChunkSize = k * ChunkSize + ChunkSize /\ k <= k * ChunkSize
        /\ k * ChunkSize \in Nat
    <3> HIDE DEF k
    <3>1. (k + 1) * ChunkSize = k * ChunkSize + ChunkSize
      BY <1>1, <2>1
    <3>2. k <= k * ChunkSize /\ k * ChunkSize \in Nat
      BY <1>1, <2>1
    <3> QED BY <2>1, <3>1, <3>2
  <2> HIDE DEF k
  <2> QED BY <1>1, <2>1, <2>2
<1> QED BY <1>1, <1>2, <1>3

\* chunk_progress_percent stays between 66 and 78.
LEMMA PercentBounded ==
  ASSUME pages \in Nat, NEW i \in Nat, i < chunk_count
  PROVE  chunk_progress_percent(i) \in 66 .. 78
<1>1. chunk_count \in Nat
  BY ChunkCount
<1>2. CASE chunk_count <= 1
  BY <1>2 DEF chunk_progress_percent
<1>3. CASE ~(chunk_count <= 1)
  <2> DEFINE d == chunk_count - 1
             q == (12 * i) \div d
  <2>1. d \in Nat \ {0} /\ i <= d /\ 12 * i \in Nat /\ 12 * i <= 12 * d
    BY <1>1, <1>3
  <2> HIDE DEF d
  <2>2. q \in Nat /\ q * d <= 12 * i
    BY <2>1, DivisionBounds
  <2> HIDE DEF q
  <2>3. q * d <= 12 * d
    BY <2>1, <2>2
  <2>4. q <= 12
    BY <2>1, <2>2, <2>3
  <2> QED BY <1>3, <2>2, <2>4 DEF chunk_progress_percent, q, d
<1> QED BY <1>2, <1>3

-----------------------------------------------------------------------------
(* What the steps do to the stack.                                         *)

LEMMA FrameFacts ==
  ASSUME TypeOK
  PROVE  /\ n \in Nat /\ stack \in Seq(Frames)
         /\ stack # << >> => n > 0
         /\ \A i \in 1 .. n :
              /\ stack[i] \in Frames
              /\ stack[i].range \in PageRange
              /\ stack[i].range.first \in 1 .. MaxPages
              /\ stack[i].range.last \in 1 .. MaxPages
              /\ page_count(stack[i].range) \in Int
<1>1. n \in Nat /\ stack \in Seq(Frames)
  BY DEF TypeOK, n
<1>2. stack # << >> => n > 0
  BY <1>1, EmptySeq DEF n
<1>3. ASSUME NEW i \in 1 .. n
      PROVE  /\ stack[i] \in Frames /\ stack[i].range \in PageRange
             /\ stack[i].range.first \in 1 .. MaxPages
             /\ stack[i].range.last \in 1 .. MaxPages
             /\ page_count(stack[i].range) \in Int
  <2>1. stack[i] \in Frames
    BY <1>1 DEF n
  <2> QED BY <2>1, ChunkingAssumption DEF Frames, PageRange, page_count
<1> QED BY <1>1, <1>2, <1>3

LEMMA NewFrame ==
  ASSUME NEW r \in PageRange
  PROVE  /\ Frame(r) \in Frames /\ Frame(r).range = r
         /\ Frame(r).at = "split"
<1>1. << >> \in Seq(1 .. MaxPages)
  BY EmptySeq
<1> QED BY <1>1 DEF Frame, Frames

LEMMA GotoFacts ==
  ASSUME TypeOK, n > 0, NEW step \in {"submit", "left", "right", "raster", "picture"},
         Goto(step)
  PROVE  /\ stack' \in Seq(Frames) /\ n' = n /\ top' = stack'[n]
         /\ \A i \in 1 .. n : stack'[i].range = stack[i].range
         /\ \A i \in 1 .. n - 1 : stack'[i] = stack[i]
         /\ stack'[n].at = step /\ stack'[n] \in Frames
<1>1. n \in 1 .. n /\ n \in Nat /\ stack \in Seq(Frames)
  BY FrameFacts
<1>2. top \in Frames
  BY <1>1, FrameFacts DEF top
<1> DEFINE e == [top EXCEPT !.at = step]
<1>3. e \in Frames /\ e.range = top.range /\ e.at = step
  BY <1>2 DEF Frames
<1>4. stack' = [stack EXCEPT ![n] = e]
  BY DEF Goto, top
<1> HIDE DEF e
<1>5. /\ stack' \in Seq(Frames) /\ Len(stack') = Len(stack)
      /\ \A j \in 1 .. Len(stack) : stack'[j] = IF j = n THEN e ELSE stack[j]
  BY <1>1, <1>3, <1>4, ExceptSeq DEF n
<1> QED BY <1>1, <1>3, <1>5 DEF n, top

LEMMA PopFacts ==
  ASSUME TypeOK, n > 0, stack' = callers
  PROVE  /\ stack' \in Seq(Frames) /\ n' = n - 1 /\ n' \in Nat
         /\ n' > 0 => top' = caller
         /\ \A i \in 1 .. n - 1 : stack'[i] = stack[i]
<1>1. n \in Nat /\ \A i \in 1 .. n - 1 : stack[i] \in Frames
  BY FrameFacts
<1>2. /\ stack' \in Seq(Frames)
      /\ Len(stack') = IF 1 <= n - 1 THEN n - 1 - 1 + 1 ELSE 0
      /\ \A i \in 1 .. n - 1 - 1 + 1 : stack'[i] = stack[1 + i - 1]
  BY <1>1, SubSeqProperties DEF callers
<1>3. Len(stack') = n - 1
  BY <1>1, <1>2
<1>4. \A i \in 1 .. n - 1 : stack'[i] = stack[i]
  BY <1>1, <1>2
<1> QED BY <1>1, <1>2, <1>3, <1>4 DEF n, top, caller

LEMMA BisectFacts ==
  ASSUME TypeOK, Bisect
  PROVE  /\ n > 0 /\ page_count(top.range) > 1
         /\ stack' \in Seq(Frames) /\ n' = n + 1
         /\ top' = Frame(Left(top.range)) /\ stack'[n + 1] = Frame(Left(top.range))
         /\ \A i \in 1 .. n : stack'[i].range = stack[i].range
         /\ \A i \in 1 .. n - 1 : stack'[i] = stack[i]
         /\ stack'[n].at = "left"
<1>1. n \in 1 .. n /\ n \in Nat /\ stack \in Seq(Frames) /\ n > 0
  BY FrameFacts DEF Bisect, At
<1>2. top \in Frames /\ top.range \in PageRange /\ page_count(top.range) > 1
  BY <1>1, FrameFacts DEF top, Bisect
<1> DEFINE e == [top EXCEPT !.at = "left"]
           s == [stack EXCEPT ![n] = e]
           g == Frame(Left(top.range))
<1>3. e \in Frames /\ e.range = top.range /\ e.at = "left"
  BY <1>2 DEF Frames
<1>4. g \in Frames
  BY <1>2, SplitHalves, NewFrame
<1>5. stack' = Append(s, g)
  BY DEF Bisect, top
<1> HIDE DEF e
<1>6. /\ s \in Seq(Frames) /\ Len(s) = Len(stack)
      /\ \A j \in 1 .. Len(stack) : s[j] = IF j = n THEN e ELSE stack[j]
  BY <1>1, <1>3, ExceptSeq DEF n
<1> HIDE DEF s, g
<1>7. /\ stack' \in Seq(Frames) /\ Len(stack') = n + 1 /\ stack'[n + 1] = g
      /\ \A i \in 1 .. n : stack'[i] = s[i]
  BY <1>4, <1>5, <1>6, AppendProperties DEF n
<1>8. n' = n + 1 /\ top' = g
  BY <1>7 DEF n, top
<1> QED BY <1>1, <1>2, <1>3, <1>6, <1>7, <1>8 DEF n, top, g

LEMMA ReturnLeftFacts ==
  ASSUME TypeOK, NEW removed, ReturnLeft(removed), page_count(caller.range) > 1
  PROVE  /\ n > 1 /\ result.kind = "ok" /\ caller.at = "left"
         /\ stack' \in Seq(Frames) /\ n' = n
         /\ top' = Frame(Right(caller.range)) /\ stack'[n] = Frame(Right(caller.range))
         /\ \A i \in 1 .. n - 1 : stack'[i].range = stack[i].range
         /\ \A i \in 1 .. n - 2 : stack'[i] = stack[i]
         /\ stack'[n - 1].at = "right" /\ stack'[n - 1].left = result.text
<1>1. n \in Nat /\ n > 1 /\ result.kind = "ok" /\ caller.at = "left"
  BY FrameFacts DEF ReturnLeft
<1>2. caller \in Frames /\ caller.range \in PageRange
  BY <1>1, FrameFacts DEF caller
<1>3. result.text \in Seq(1 .. MaxPages)
  BY DEF TypeOK, Results
<1> DEFINE e == [caller EXCEPT !.at = "right", !.left = result.text]
           s == [callers EXCEPT ![n - 1] = e]
           g == Frame(Right(caller.range))
<1>4. e \in Frames /\ e.range = caller.range /\ e.at = "right" /\ e.left = result.text
  BY <1>2, <1>3 DEF Frames
<1>5. g \in Frames
  BY <1>2, SplitHalves, NewFrame
<1>6. stack' = Append(s, g)
  BY DEF ReturnLeft
<1>7. /\ callers \in Seq(Frames) /\ Len(callers) = n - 1
      /\ \A i \in 1 .. n - 1 : callers[i] = stack[i]
  <2>1. \A i \in 1 .. n - 1 : stack[i] \in Frames
    BY <1>1, FrameFacts
  <2>2. /\ callers \in Seq(Frames)
        /\ Len(callers) = IF 1 <= n - 1 THEN n - 1 - 1 + 1 ELSE 0
        /\ \A i \in 1 .. n - 1 - 1 + 1 : callers[i] = stack[1 + i - 1]
    BY <1>1, <2>1, SubSeqProperties DEF callers
  <2> QED BY <1>1, <2>2
<1> HIDE DEF e, g
<1>8. /\ s \in Seq(Frames) /\ Len(s) = n - 1
      /\ \A j \in 1 .. n - 1 : s[j] = IF j = n - 1 THEN e ELSE callers[j]
  <2>1. n - 1 \in 1 .. Len(callers)
    BY <1>1, <1>7
  <2> QED BY <1>4, <1>7, <2>1, ExceptSeq
<1> HIDE DEF s
<1>9. /\ stack' \in Seq(Frames) /\ Len(stack') = n /\ stack'[n] = g
      /\ \A i \in 1 .. n - 1 : stack'[i] = s[i]
  <2>1. /\ Append(s, g) \in Seq(Frames) /\ Len(Append(s, g)) = Len(s) + 1
        /\ \A i \in 1 .. Len(s) : Append(s, g)[i] = s[i]
        /\ Append(s, g)[Len(s) + 1] = g
    BY <1>5, <1>8, AppendProperties
  <2> QED BY <1>1, <1>6, <1>8, <2>1
<1>10. n' = n /\ top' = g
  BY <1>9 DEF n, top
<1> QED BY <1>1, <1>4, <1>7, <1>8, <1>9, <1>10 DEF g, caller

-----------------------------------------------------------------------------
(* The ranges and the texts.                                               *)

\* RangeInv in two halves: what is on disk or only counted, and the rest.
RestTypes ==
  /\ files \in SUBSET [range : PageRange, kind : {"pdf", "png"}]
  /\ stuck \in SUBSET [range : PageRange, kind : {"pdf", "png"}]
  /\ calls \in Nat
  /\ refused \in SUBSET (1 .. MaxPages)
  /\ percent \in 0 .. 100
CoreTypes ==
  /\ phase \in {"counting", "running", "succeeded", "failed"}
  /\ pages \in 0 .. MaxPages
  /\ index \in 0 .. MaxPages
  /\ stack \in Seq(Frames)
  /\ result \in Results
  /\ parts \in Seq(1 .. MaxPages)
CoreInv == CoreTypes /\ Descent /\ TextSoFar /\ Inside /\ Shrinking /\ Stops

LEMMA RangeInvSplit == RangeInv <=> CoreInv /\ RestTypes
BY DEF RangeInv, ChunkInv, TypeOK, CoreInv, CoreTypes, RestTypes

LEMMA SameRanges ==
  ASSUME UNCHANGED <<pages, index>>
  PROVE  /\ chunk_count' = chunk_count
         /\ LastPage(index)' = LastPage(index)
         /\ InitialRange(index)' = InitialRange(index)
BY DEF chunk_count, LastPage, InitialRange, Span

\* Where the call in hand stands.
LEMMA TopFacts ==
  ASSUME RangeInv, n > 0
  PROVE  /\ n \in Nat /\ n \in 1 .. n /\ top = stack[n]
         /\ top \in Frames /\ top.range \in PageRange
         /\ top.range.first \in 1 .. MaxPages /\ top.range.last \in 1 .. MaxPages
         /\ index \in Nat /\ index * ChunkSize \in Nat
         /\ index * ChunkSize < top.range.first
         /\ top.range.first <= top.range.last
         /\ top.range.last <= LastPage(index)
         /\ index < chunk_count /\ pages \in Nat /\ phase = "running"
         /\ Text(top.range) \in Seq(1 .. MaxPages)
         /\ page_count(top.range) \in Nat \ {0}
         /\ page_count(top.range) = top.range.last - top.range.first + 1
<1>1. TypeOK /\ Descent /\ Inside /\ phase = "running"
  BY DEF RangeInv, ChunkInv, Stops
<1>2. n \in Nat /\ n \in 1 .. n /\ top = stack[n]
  BY <1>1, FrameFacts DEF top
<1>3. /\ top \in Frames /\ top.range \in PageRange
      /\ top.range.first \in 1 .. MaxPages /\ top.range.last \in 1 .. MaxPages
  BY <1>1, <1>2, FrameFacts
<1>4. /\ index * ChunkSize < top.range.first
      /\ top.range.first <= top.range.last
      /\ top.range.last <= LastPage(index)
  BY <1>1, <1>2 DEF Inside
<1>5. index \in Nat /\ pages \in Nat /\ index * ChunkSize \in Nat
  BY <1>1, ChunkingAssumption DEF TypeOK
<1>6. index < chunk_count
  BY <1>1 DEF Descent
<1>7. Text(top.range) \in Seq(1 .. MaxPages)
  <2> DEFINE a == top.range.first
             b == top.range.last
  <2>1. a \in Nat /\ b \in Nat /\ a > 0 /\ b <= MaxPages /\ a <= b + 1
    BY <1>3, <1>4, ChunkingAssumption
  <2> HIDE DEF a, b
  <2>2. Pages(a, b) \in Seq(1 .. MaxPages)
    BY <2>1, PagesAreText
  <2> QED BY <2>2 DEF Text, a, b
<1>8. /\ page_count(top.range) \in Nat \ {0}
      /\ page_count(top.range) = top.range.last - top.range.first + 1
  BY <1>3, <1>4, ChunkingAssumption DEF page_count
<1> QED BY <1>1, <1>2, <1>3, <1>4, <1>5, <1>6, <1>7, <1>8

\* A step that gives the call in hand its result.
LEMMA ResultStep ==
  ASSUME RangeInv, n > 0, UNCHANGED <<phase, pages, index, stack, parts>>,
         result' \in Results, result' # Pending,
         result'.kind = "ok" => result'.text = Text(top.range)
  PROVE  CoreInv'
<1>1. CoreInv /\ phase = "running"
  BY RangeInvSplit DEF CoreInv, Stops
<1>2. n' = n /\ top' = top /\ Text(top.range)' = Text(top.range)
  BY DEF n, top, Text, Pages
<1>3. CoreTypes'
  BY <1>1 DEF CoreInv, CoreTypes
<1>4. Descent'
  BY <1>1, <1>2, SameRanges DEF CoreInv, Descent
<1>5. TextSoFar'
  BY <1>1, <1>2, SameRanges DEF CoreInv, TextSoFar
<1>6. Inside' /\ Shrinking' /\ Stops'
  BY <1>1, <1>2, SameRanges DEF CoreInv, Inside, Shrinking, Stops
<1> QED BY <1>3, <1>4, <1>5, <1>6 DEF CoreInv

\* A step inside the call in hand.
LEMMA GotoStep ==
  ASSUME RangeInv, n > 0, NEW step \in {"submit", "raster", "picture"}, Goto(step),
         UNCHANGED <<phase, pages, index, result, parts>>
  PROVE  CoreInv'
<1>1. CoreInv /\ TypeOK
  BY RangeInvSplit DEF RangeInv, ChunkInv
<1>2. /\ stack' \in Seq(Frames) /\ n' = n /\ top' = stack'[n]
      /\ \A i \in 1 .. n : stack'[i].range = stack[i].range
      /\ \A i \in 1 .. n - 1 : stack'[i] = stack[i]
      /\ stack'[n].at = step
  BY <1>1, GotoFacts
<1>3. n \in Nat /\ n \in 1 .. n /\ 1 \in 1 .. n /\ top = stack[n]
  BY TopFacts
<1>4. CoreTypes'
  BY <1>1, <1>2 DEF CoreInv, CoreTypes
<1>5. Descent'
  <2>1. index < chunk_count /\ stack[1].range = InitialRange(index)
    BY <1>1 DEF CoreInv, Descent
  <2>2. ASSUME NEW i \in 1 .. n - 1
        PROVE  /\ page_count(stack'[i].range) > 1
               /\ \/ stack'[i].at = "left" /\ stack'[i + 1].range = Left(stack'[i].range)
                  \/ /\ stack'[i].at = "right"
                     /\ stack'[i + 1].range = Right(stack'[i].range)
                     /\ stack'[i].left = Text(Left(stack'[i].range))
    <3>1. i + 1 \in 1 .. n
      BY <1>3
    <3>2. stack'[i] = stack[i] /\ stack'[i + 1].range = stack[i + 1].range
      BY <1>2, <3>1
    <3> QED BY <1>1, <3>2 DEF CoreInv, Descent
  <2> QED BY <1>2, <1>3, <2>1, <2>2, SameRanges DEF Descent
<1>6. TextSoFar'
  <2>1. top'.range = top.range /\ top'.at = step
    BY <1>2, <1>3
  <2> QED BY <1>1, <1>2, <2>1, SameRanges DEF CoreInv, TextSoFar
<1>7. Inside' /\ Shrinking' /\ Stops'
  BY <1>1, <1>2, SameRanges DEF CoreInv, Inside, Shrinking, Stops
<1> QED BY <1>4, <1>5, <1>6, <1>7 DEF CoreInv

\* A step that leaves the calls alone, once they are over or not yet begun.
LEMMA OutsideStep ==
  ASSUME RangeInv, stack = << >>, UNCHANGED <<stack, parts, index, result>>,
         \/ phase = "counting" /\ phase' = "running" /\ pages' \in 1 .. MaxPages
         \/ phase = "counting" /\ phase' = "failed" /\ UNCHANGED pages
         \/ phase = "running" /\ phase' = "succeeded" /\ UNCHANGED pages
            /\ index = chunk_count
  PROVE  CoreInv'
<1>1. CoreInv
  BY RangeInvSplit
<1>2. n = 0 /\ n' = 0
  BY EmptySeq DEF n
<1>3. CoreTypes'
  BY <1>1 DEF CoreInv, CoreTypes
<1>4. Descent' /\ Inside' /\ Shrinking'
  BY <1>1, <1>2 DEF Descent, Inside, Shrinking
<1>5. Stops'
  BY <1>1, <1>2 DEF CoreInv, Stops, TextSoFar
<1>6. TextSoFar'
  <2>1. CASE phase = "counting"
    <3>1. index = 0 /\ 0 * ChunkSize = 0 /\ pages' \in Nat /\ pages \in Nat
      BY <1>1, <1>2, <2>1, ChunkingAssumption DEF CoreInv, CoreTypes, TextSoFar
    <3>2. index <= chunk_count'
      <4>1. chunk_count' = (pages' + ChunkSize - 1) \div ChunkSize
        BY DEF chunk_count
      <4>2. chunk_count' \in Nat
        BY <3>1, <4>1, CountIsNat
      <4> QED BY <3>1, <4>2
    <3>3. parts' = Pages(1, 0)
      BY <1>1, <3>1 DEF CoreInv, TextSoFar
    <3>4. (IF index' * ChunkSize < pages' THEN index' * ChunkSize ELSE pages') = 0
      BY <2>1, <3>1
    <3> QED BY <1>1, <1>2, <2>1, <3>1, <3>2, <3>3, <3>4 DEF CoreInv, TextSoFar
  <2>2. CASE phase = "running"
    BY <1>1, <1>2, <2>2, SameRanges DEF CoreInv, TextSoFar
  <2> QED BY <2>1, <2>2
<1> QED BY <1>3, <1>4, <1>5, <1>6 DEF CoreInv

\* The next initial range.
LEMMA OpenStep ==
  ASSUME RangeInv, OpenRange
  PROVE  CoreInv' /\ n' = 1 /\ stack'[1] = Frame(InitialRange(index)) /\ top' = stack'[1]
<1> DEFINE r == InitialRange(index)
<1>1. CoreInv /\ stack = << >> /\ index < chunk_count /\ phase = "running"
      /\ stack' = <<Frame(r)>>
      /\ UNCHANGED <<phase, pages, index, result, parts>>
  BY RangeInvSplit DEF OpenRange
<1>2. index \in Nat /\ pages \in Nat /\ pages <= MaxPages /\ n = 0
  BY <1>1, EmptySeq, ChunkingAssumption DEF CoreInv, CoreTypes, n
<1>3. /\ index * ChunkSize \in Nat /\ LastPage(index) \in Nat
      /\ index * ChunkSize < LastPage(index) /\ LastPage(index) <= pages
      /\ r.first = index * ChunkSize + 1 /\ r.last = LastPage(index)
  BY <1>1, <1>2, InitialRanges
<1>4. r \in PageRange
  <2>1. r.first \in 1 .. MaxPages /\ r.last \in 1 .. MaxPages
    BY <1>2, <1>3, ChunkingAssumption
  <2> QED BY <2>1 DEF InitialRange, Span, PageRange
<1> HIDE DEF r
<1>5. Frame(r) \in Frames /\ Frame(r).range = r /\ Frame(r).at = "split"
  BY <1>4, NewFrame
<1>6. stack' \in Seq(Frames) /\ n' = 1 /\ stack'[1] = Frame(r) /\ top' = stack'[1]
  BY <1>1, <1>5 DEF n, top
<1>7. CoreTypes'
  BY <1>1, <1>6 DEF CoreInv, CoreTypes
<1>8. Descent'
  BY <1>1, <1>5, <1>6, SameRanges DEF Descent, r
<1>9. TextSoFar'
  BY <1>1, <1>2, <1>5, <1>6, SameRanges DEF CoreInv, TextSoFar, Stops, Pending
<1>10. Inside'
  <2> SUFFICES ASSUME NEW i \in 1 .. n'
               PROVE  /\ index * ChunkSize < stack'[i].range.first
                      /\ stack'[i].range.first <= stack'[i].range.last
                      /\ stack'[i].range.last <= LastPage(index)
    BY <1>1, SameRanges DEF Inside
  <2>1. stack'[i].range = r
    BY <1>5, <1>6
  <2> QED BY <1>3, <2>1
<1>11. Shrinking' /\ Stops'
  BY <1>1, <1>6 DEF Shrinking, Stops
<1> QED BY <1>6, <1>7, <1>8, <1>9, <1>10, <1>11 DEF CoreInv, r

\* A range that is too large is cut, and its left half comes first.
LEMMA BisectStep ==
  ASSUME RangeInv, Bisect
  PROVE  CoreInv'
<1>1. CoreInv /\ TypeOK /\ UNCHANGED <<phase, pages, index, result, parts>>
      /\ result = Pending
  BY RangeInvSplit DEF RangeInv, ChunkInv, Bisect, At
<1> DEFINE r == top.range
           l == Left(r)
<1>2. /\ n > 0 /\ page_count(r) > 1
      /\ stack' \in Seq(Frames) /\ n' = n + 1
      /\ top' = Frame(l) /\ stack'[n + 1] = Frame(l)
      /\ \A i \in 1 .. n : stack'[i].range = stack[i].range
      /\ \A i \in 1 .. n - 1 : stack'[i] = stack[i]
      /\ stack'[n].at = "left"
  BY <1>1, BisectFacts
<1>3. /\ n \in Nat /\ n \in 1 .. n /\ 1 \in 1 .. n /\ r = stack[n].range
      /\ r \in PageRange /\ r.first \in Nat /\ r.last \in Nat /\ index < chunk_count
  <2>1. /\ n \in Nat /\ n \in 1 .. n /\ r = stack[n].range /\ r \in PageRange
        /\ index < chunk_count /\ r.first \in 1 .. MaxPages /\ r.last \in 1 .. MaxPages
    BY <1>2, TopFacts
  <2> QED BY <1>2, <2>1, ChunkingAssumption
<1>4. /\ l \in PageRange /\ l.first = r.first /\ l.last < r.last /\ r.first <= l.last
      /\ page_count(l) < page_count(r) /\ page_count(l) \in Int /\ page_count(r) \in Int
      /\ l.last \in Nat
  <2>1. page_count(r) \in Nat \ {0}
    BY <1>2, TopFacts
  <2> HIDE DEF r
  <2>2. /\ midpoint(r) \in 1 .. MaxPages
        /\ r.first <= midpoint(r) /\ midpoint(r) < r.last
        /\ l \in PageRange /\ l.first = r.first /\ l.last = midpoint(r)
        /\ page_count(l) \in Nat \ {0} /\ page_count(l) < page_count(r)
    BY <1>2, <1>3, SplitHalves
  <2> QED BY <2>1, <2>2, ChunkingAssumption
<1>5. Frame(l).range = l /\ Frame(l).at = "split"
  BY <1>4, NewFrame
<1> HIDE DEF r, l
<1>6. CoreTypes'
  BY <1>1, <1>2 DEF CoreInv, CoreTypes
<1>7. Descent'
  <2>1. index < chunk_count /\ stack[1].range = InitialRange(index)
    BY <1>1, <1>2 DEF CoreInv, Descent
  <2>2. ASSUME NEW i \in 1 .. n
        PROVE  /\ page_count(stack'[i].range) > 1
               /\ \/ stack'[i].at = "left" /\ stack'[i + 1].range = Left(stack'[i].range)
                  \/ /\ stack'[i].at = "right"
                     /\ stack'[i + 1].range = Right(stack'[i].range)
                     /\ stack'[i].left = Text(Left(stack'[i].range))
    <3>1. CASE i = n
      BY <1>2, <1>3, <1>5, <3>1 DEF l
    <3>2. CASE i # n
      <4>1. i \in 1 .. n - 1 /\ i + 1 \in 1 .. n
        BY <1>3, <3>2
      <4>2. stack'[i] = stack[i] /\ stack'[i + 1].range = stack[i + 1].range
        BY <1>2, <4>1
      <4> QED BY <1>1, <4>1, <4>2 DEF CoreInv, Descent
    <3> QED BY <3>1, <3>2
  <2>3. n' - 1 = n
    BY <1>2, <1>3
  <2> QED BY <1>1, <1>2, <1>3, <2>1, <2>2, <2>3, SameRanges DEF Descent
<1>8. TextSoFar'
  BY <1>1, <1>2, <1>3, <1>5, SameRanges DEF CoreInv, TextSoFar, Pending
<1>9. Inside'
  <2> SUFFICES ASSUME NEW i \in 1 .. n + 1
               PROVE  /\ index * ChunkSize < stack'[i].range.first
                      /\ stack'[i].range.first <= stack'[i].range.last
                      /\ stack'[i].range.last <= LastPage(index)
    BY <1>1, <1>2, SameRanges DEF Inside
  <2>1. CASE i \in 1 .. n
    BY <1>1, <1>2, <2>1 DEF CoreInv, Inside
  <2>2. CASE i = n + 1
    <3>1. /\ index * ChunkSize < r.first /\ r.last <= LastPage(index)
          /\ LastPage(index) \in Nat
      BY <1>1, <1>2, <1>3, TopFacts, InitialRanges DEF r
    <3>2. stack'[i].range = l
      BY <1>2, <2>2, NewFrame, <1>4
    <3>3. l.first = r.first /\ l.last < r.last /\ r.first <= l.last /\ l.last \in Nat
      BY <1>4, ChunkingAssumption DEF PageRange
    <3> HIDE DEF l, r
    <3> QED BY <1>3, <3>1, <3>2, <3>3
  <2> QED BY <1>3, <2>1, <2>2
<1>10. Shrinking'
  <2> SUFFICES ASSUME NEW i \in 1 .. n + 1, NEW j \in 1 .. n + 1, i < j
               PROVE  page_count(stack'[j].range) < page_count(stack'[i].range)
    BY <1>2 DEF Shrinking
  <2>1. CASE j \in 1 .. n
    <3>1. i \in 1 .. n
      BY <1>3, <2>1
    <3>2. page_count(stack[j].range) < page_count(stack[i].range)
      BY <1>1, <2>1, <3>1 DEF CoreInv, Shrinking
    <3> QED BY <1>2, <2>1, <3>1, <3>2
  <2>2. CASE j = n + 1
    <3>1. i \in 1 .. n /\ stack'[j].range = l /\ stack'[i].range = stack[i].range
      BY <1>2, <1>3, <1>5, <2>2
    <3>2. page_count(r) <= page_count(stack[i].range)
          /\ page_count(stack[i].range) \in Int
      <4>1. page_count(stack[i].range) \in Int
        BY <1>1, <3>1, FrameFacts
      <4>2. CASE i = n
        BY <1>3, <4>1, <4>2
      <4>3. CASE i # n
        <5>1. i < n
          BY <1>3, <3>1, <4>3
        <5>2. page_count(stack[n].range) < page_count(stack[i].range)
          BY <1>1, <1>3, <3>1, <5>1 DEF CoreInv, Shrinking
        <5> QED BY <1>3, <1>4, <4>1, <5>2
      <4> QED BY <4>1, <4>2, <4>3
    <3> QED BY <1>4, <3>1, <3>2
  <2> QED BY <1>3, <2>1, <2>2
<1>11. Stops'
  BY <1>1, <1>2, <1>3 DEF CoreInv, Stops
<1> QED BY <1>6, <1>7, <1>8, <1>9, <1>10, <1>11 DEF CoreInv

\* The left half has been read: the right half follows.
LEMMA ReturnLeftStep ==
  ASSUME RangeInv, NEW removed, ReturnLeft(removed)
  PROVE  /\ CoreInv' /\ page_count(caller.range) > 1
         /\ top.range = Left(caller.range) /\ top'.range = Right(caller.range)
<1>1. /\ CoreInv /\ TypeOK /\ UNCHANGED <<phase, pages, index, parts>>
      /\ n > 1 /\ n \in Nat /\ caller.at = "left" /\ result.kind = "ok"
      /\ result' = Pending
  BY RangeInvSplit, FrameFacts DEF RangeInv, ChunkInv, ReturnLeft, Returns
<1> DEFINE r == caller.range
           g == Right(r)
<1>2. /\ n - 1 \in 1 .. n - 1 /\ n - 1 \in 1 .. n /\ n \in 1 .. n /\ 1 \in 1 .. n - 1
      /\ (n - 1) + 1 = n /\ caller = stack[n - 1] /\ top = stack[n]
  BY <1>1 DEF caller, top
<1>3. page_count(r) > 1 /\ top.range = Left(r)
  BY <1>1, <1>2 DEF CoreInv, Descent
<1>4. /\ stack' \in Seq(Frames) /\ n' = n
      /\ top' = Frame(g) /\ stack'[n] = Frame(g)
      /\ \A i \in 1 .. n - 1 : stack'[i].range = stack[i].range
      /\ \A i \in 1 .. n - 2 : stack'[i] = stack[i]
      /\ stack'[n - 1].at = "right" /\ stack'[n - 1].left = result.text
  BY <1>1, <1>3, ReturnLeftFacts
<1>5. r \in PageRange /\ r.first \in Nat /\ r.last \in Nat /\ page_count(r) \in Int
  <2>1. /\ r \in PageRange /\ page_count(r) \in Int
        /\ r.first \in 1 .. MaxPages /\ r.last \in 1 .. MaxPages
    BY <1>1, <1>2, FrameFacts
  <2> QED BY <2>1, ChunkingAssumption
<1>6. result.text = Text(Left(r))
  BY <1>1, <1>3 DEF CoreInv, TextSoFar
<1>7. /\ g \in PageRange /\ g.last = r.last /\ r.first < g.first /\ g.first <= g.last
      /\ page_count(g) < page_count(r) /\ page_count(g) \in Int
      /\ g.first \in Nat
  <2> HIDE DEF r
  <2>1. /\ midpoint(r) \in 1 .. MaxPages
        /\ r.first <= midpoint(r) /\ midpoint(r) < r.last
        /\ g \in PageRange /\ g.first = midpoint(r) + 1 /\ g.last = r.last
        /\ page_count(g) \in Nat \ {0} /\ page_count(g) < page_count(r)
    BY <1>3, <1>5, SplitHalves
  <2> QED BY <1>5, <2>1, ChunkingAssumption
<1>8. Frame(g).range = g /\ Frame(g).at = "split"
  BY <1>7, NewFrame
<1>9. /\ index * ChunkSize < r.first /\ r.last <= LastPage(index)
      /\ index * ChunkSize \in Nat
  BY <1>1, <1>2, TopFacts DEF CoreInv, Inside
<1> HIDE DEF r, g
<1>10. CoreTypes'
  <2>1. Pending \in Results
    BY EmptySeq DEF Pending, Results
  <2> QED BY <1>1, <1>4, <2>1 DEF CoreInv, CoreTypes
<1>11. Descent'
  <2>1. index < chunk_count /\ stack'[1].range = InitialRange(index)
    BY <1>1, <1>2, <1>4 DEF CoreInv, Descent
  <2>2. ASSUME NEW i \in 1 .. n - 1
        PROVE  /\ page_count(stack'[i].range) > 1
               /\ \/ stack'[i].at = "left" /\ stack'[i + 1].range = Left(stack'[i].range)
                  \/ /\ stack'[i].at = "right"
                     /\ stack'[i + 1].range = Right(stack'[i].range)
                     /\ stack'[i].left = Text(Left(stack'[i].range))
    <3>1. CASE i = n - 1
      BY <1>2, <1>3, <1>4, <1>6, <1>8, <3>1 DEF g, r
    <3>2. CASE i # n - 1
      <4>1. i \in 1 .. n - 2 /\ i + 1 \in 1 .. n - 1
        BY <1>1, <3>2
      <4>2. stack'[i] = stack[i] /\ stack'[i + 1].range = stack[i + 1].range
        BY <1>4, <4>1
      <4> QED BY <1>1, <4>1, <4>2 DEF CoreInv, Descent
    <3> QED BY <3>1, <3>2
  <2> QED BY <1>1, <1>4, <2>1, <2>2, SameRanges DEF Descent
<1>12. TextSoFar'
  BY <1>1, <1>4, <1>8, SameRanges DEF CoreInv, TextSoFar, Pending
<1>13. Inside'
  <2> SUFFICES ASSUME NEW i \in 1 .. n
               PROVE  /\ index * ChunkSize < stack'[i].range.first
                      /\ stack'[i].range.first <= stack'[i].range.last
                      /\ stack'[i].range.last <= LastPage(index)
    BY <1>1, <1>4, SameRanges DEF Inside
  <2>1. CASE i \in 1 .. n - 1
    BY <1>1, <1>4, <2>1 DEF CoreInv, Inside
  <2>2. CASE i = n
    <3>1. stack'[i].range = g
      BY <1>4, <1>8, <2>2
    <3>2. index * ChunkSize < g.first /\ g.last <= LastPage(index)
      <4>1. \A x, y, z \in Nat : x < y /\ y < z => x < z
        OBVIOUS
      <4> QED BY <1>5, <1>7, <1>9, <4>1
    <3> QED BY <1>7, <3>1, <3>2
  <2> QED BY <1>1, <2>1, <2>2
<1>14. Shrinking'
  <2> SUFFICES ASSUME NEW i \in 1 .. n, NEW j \in 1 .. n, i < j
               PROVE  page_count(stack'[j].range) < page_count(stack'[i].range)
    BY <1>4 DEF Shrinking
  <2>1. CASE j \in 1 .. n - 1
    <3>1. i \in 1 .. n - 1
      BY <1>1, <2>1
    <3> QED BY <1>1, <1>4, <2>1, <3>1 DEF CoreInv, Shrinking
  <2>2. CASE j = n
    <3>1. i \in 1 .. n - 1 /\ stack'[j].range = g /\ stack'[i].range = stack[i].range
      BY <1>1, <1>4, <1>8, <2>2
    <3>2. page_count(r) <= page_count(stack[i].range)
          /\ page_count(stack[i].range) \in Int
      <4>1. page_count(stack[i].range) \in Int
        BY <1>1, FrameFacts
      <4>2. CASE i = n - 1
        BY <1>2, <1>5, <4>1, <4>2 DEF r
      <4>3. CASE i # n - 1
        <5>1. i < n - 1
          BY <1>1, <3>1, <4>3
        <5>2. page_count(stack[n - 1].range) < page_count(stack[i].range)
          BY <1>1, <1>2, <5>1 DEF CoreInv, Shrinking
        <5> QED BY <1>2, <1>5, <4>1, <5>2 DEF r
      <4> QED BY <4>1, <4>2, <4>3
    <3> QED BY <1>5, <1>7, <3>1, <3>2
  <2> QED BY <1>1, <2>1, <2>2
<1>15. Stops'
  BY <1>1, <1>4 DEF CoreInv, Stops
<1> QED BY <1>3, <1>4, <1>8, <1>10, <1>11, <1>12, <1>13, <1>14, <1>15
        DEF CoreInv, r, g

\* A call is over and its caller returns too, with the joined text or the error.
LEMMA PopStep ==
  ASSUME RangeInv, n > 0, stack' = callers, UNCHANGED <<pages, index, parts>>,
         result' \in Results, result' # Pending,
         IF n = 1 THEN phase' = "failed" /\ result'.kind # "ok" ELSE phase' = phase,
         result'.kind = "ok" => result'.text = Text(caller.range)
  PROVE  CoreInv'
<1>1. CoreInv /\ TypeOK /\ phase = "running" /\ n \in Nat
  BY RangeInvSplit, FrameFacts DEF CoreInv, Stops, RangeInv, ChunkInv
<1>2. /\ stack' \in Seq(Frames) /\ n' = n - 1 /\ n' \in Nat
      /\ n' > 0 => top' = caller
      /\ \A i \in 1 .. n - 1 : stack'[i] = stack[i]
  BY <1>1, PopFacts
<1>3. CoreTypes'
  BY <1>1, <1>2 DEF CoreInv, CoreTypes
<1>4. Descent'
  <2>1. n' > 0 => index < chunk_count /\ stack'[1].range = InitialRange(index)
    BY <1>1, <1>2 DEF CoreInv, Descent
  <2>2. ASSUME NEW i \in 1 .. n - 2
        PROVE  /\ page_count(stack'[i].range) > 1
               /\ \/ stack'[i].at = "left" /\ stack'[i + 1].range = Left(stack'[i].range)
                  \/ /\ stack'[i].at = "right"
                     /\ stack'[i + 1].range = Right(stack'[i].range)
                     /\ stack'[i].left = Text(Left(stack'[i].range))
    <3>1. i \in 1 .. n - 1 /\ i + 1 \in 1 .. n - 1
      BY <1>1
    <3>2. stack'[i] = stack[i] /\ stack'[i + 1] = stack[i + 1]
      BY <1>2, <3>1
    <3> QED BY <1>1, <3>1, <3>2 DEF CoreInv, Descent
  <2>3. n' - 1 = n - 2
    BY <1>1, <1>2
  <2> QED BY <2>1, <2>2, <2>3, SameRanges DEF Descent
<1>5. TextSoFar'
  <2>1. result'.kind = "ok" => n' > 0 /\ result'.text = Text(top'.range)
    BY <1>1, <1>2
  <2>2. phase' \in {"running", "failed"}
    BY <1>1
  <2> QED BY <1>1, <1>2, <2>1, <2>2, SameRanges DEF CoreInv, TextSoFar, Text, Pages
<1>6. Inside' /\ Shrinking'
  <2>1. \A i \in 1 .. n' : i \in 1 .. n /\ stack'[i] = stack[i]
    BY <1>1, <1>2
  <2> QED BY <1>1, <2>1, SameRanges DEF CoreInv, Inside, Shrinking
<1>7. Stops'
  BY <1>1, <1>2 DEF CoreInv, Stops
<1> QED BY <1>3, <1>4, <1>5, <1>6, <1>7 DEF CoreInv

\* Why the right half's text, behind the left half's, is the caller's.
LEMMA JoinedText ==
  ASSUME RangeInv, n > 1, result.kind = "ok", caller.at = "right"
  PROVE  /\ caller.left \o result.text = Text(caller.range)
         /\ Text(caller.range) \in Seq(1 .. MaxPages)
         /\ page_count(caller.range) > 1 /\ top.range = Right(caller.range)
<1>1. CoreInv /\ TypeOK /\ n \in Nat
  BY RangeInvSplit, FrameFacts DEF RangeInv, ChunkInv
<1> DEFINE r == caller.range
<1>2. n - 1 \in 1 .. n - 1 /\ n - 1 \in 1 .. n /\ (n - 1) + 1 = n
      /\ caller = stack[n - 1] /\ top = stack[n]
  BY <1>1 DEF caller, top
<1>3. /\ page_count(r) > 1 /\ top.range = Right(r) /\ caller.left = Text(Left(r))
  BY <1>1, <1>2 DEF CoreInv, Descent
<1>4. result.text = Text(Right(r))
  BY <1>1, <1>3 DEF CoreInv, TextSoFar
<1>5. r \in PageRange /\ r.first \in 1 .. MaxPages /\ r.last \in 1 .. MaxPages
  BY <1>1, <1>2, FrameFacts
<1> HIDE DEF r
<1> DEFINE a == r.first
           b == r.last
           m == midpoint(r)
<1>6. /\ Text(Left(r)) = Pages(a, m) /\ Text(Right(r)) = Pages(m + 1, b)
      /\ a <= m /\ m < b /\ m \in 1 .. MaxPages
  BY <1>3, <1>5, SplitHalves DEF Text
<1> HIDE DEF a, b, m
<1>7. a \in Nat /\ b \in Nat /\ m \in Nat /\ a > 0 /\ b <= MaxPages /\ a <= b + 1
      /\ a <= m + 1 /\ m <= b
  BY <1>5, <1>6, ChunkingAssumption DEF a, b
<1>8. Pages(a, m) \o Pages(m + 1, b) = Pages(a, b)
  BY <1>7, PagesJoin
<1>9. Pages(a, b) \in Seq(1 .. MaxPages)
  BY <1>7, PagesAreText
<1>10. Text(r) = Pages(a, b)
  BY DEF Text, a, b
<1> QED BY <1>3, <1>4, <1>6, <1>8, <1>9, <1>10 DEF r

\* An initial range has been read.
LEMMA PartStep ==
  ASSUME RangeInv, NEW removed, ReturnPart(removed)
  PROVE  CoreInv' /\ n' = 0
<1>1. /\ CoreInv /\ n = 1 /\ result.kind = "ok" /\ phase = "running"
      /\ parts' = parts \o result.text /\ index' = index + 1
      /\ stack' = << >> /\ result' = Pending /\ UNCHANGED <<phase, pages>>
  BY RangeInvSplit DEF ReturnPart, Returns
<1>2. n' = 0 /\ << >> \in Seq(Frames)
  BY <1>1, EmptySeq DEF n
<1>3. /\ index \in Nat /\ index < chunk_count /\ pages \in Nat /\ pages <= MaxPages
      /\ stack[1].range = InitialRange(index) /\ top = stack[1]
      /\ result.text = Text(top.range) /\ result.text \in Seq(1 .. MaxPages)
      /\ parts \in Seq(1 .. MaxPages) /\ chunk_count \in Nat
  <2>1. n > 0 /\ index \in Nat /\ pages \in Nat /\ pages <= MaxPages
    BY <1>1, ChunkingAssumption DEF CoreInv, CoreTypes
  <2>2. index < chunk_count /\ stack[1].range = InitialRange(index) /\ top = stack[1]
    BY <1>1, <2>1 DEF CoreInv, Descent, top
  <2>3. result.text = Text(top.range) /\ Text(top.range) \in Seq(1 .. MaxPages)
    BY <1>1, <2>1, TopFacts DEF CoreInv, TextSoFar
  <2>4. chunk_count \in Nat
    BY <2>1, ChunkCount
  <2> QED BY <1>1, <2>1, <2>2, <2>3, <2>4 DEF CoreInv, CoreTypes
<1> DEFINE x == index * ChunkSize
           l == LastPage(index)
<1>4. /\ x \in Nat /\ x < pages /\ l \in Nat /\ x < l /\ l <= pages
      /\ l = IF (index + 1) * ChunkSize < pages THEN (index + 1) * ChunkSize ELSE pages
      /\ InitialRange(index).first = x + 1 /\ InitialRange(index).last = l
  BY <1>3, InitialRanges
<1>5. parts = Pages(1, x)
  BY <1>1, <1>4 DEF CoreInv, TextSoFar
<1>6. result.text = Pages(x + 1, l)
  BY <1>3, <1>4 DEF Text
<1> HIDE DEF x, l
<1>7. parts' = Pages(1, l)
  <2>1. 1 \in Nat /\ 1 <= x + 1 /\ x <= l
    BY <1>4
  <2>2. Pages(1, x) \o Pages(x + 1, l) = Pages(1, l)
    BY <1>4, <2>1, PagesJoin
  <2> QED BY <1>1, <1>5, <1>6, <2>2
<1>8. index + 1 <= chunk_count /\ index + 1 \in 0 .. MaxPages
  <2>1. chunk_count <= pages
    BY <1>3, AllCovered
  <2> QED BY <1>3, <2>1, ChunkingAssumption
<1>9. CoreTypes'
  <2>1. parts' \in Seq(1 .. MaxPages)
    BY <1>1, <1>3, ConcatProperties
  <2>2. result' \in Results
    BY <1>1, EmptySeq DEF Pending, Results
  <2> QED BY <1>1, <1>2, <1>8, <2>1, <2>2 DEF CoreInv, CoreTypes
<1>10. Descent' /\ Inside' /\ Shrinking' /\ Stops'
  BY <1>1, <1>2 DEF Descent, Inside, Shrinking, Stops
<1>11. TextSoFar'
  <2>1. chunk_count' = chunk_count
    BY <1>1 DEF chunk_count
  <2>2. parts' = Pages(1, IF index' * ChunkSize < pages' THEN index' * ChunkSize
                                                         ELSE pages')
    BY <1>1, <1>4, <1>7
  <2> QED BY <1>1, <1>2, <1>8, <2>1, <2>2 DEF TextSoFar, Pending
<1> QED BY <1>2, <1>9, <1>10, <1>11 DEF CoreInv

LEMMA CoreStep == RangeInv /\ [Next]_vars => CoreInv'
<1> SUFFICES ASSUME RangeInv, [Next]_vars PROVE CoreInv'
  OBVIOUS
<1>1. TypeOK /\ CoreInv
  BY RangeInvSplit DEF RangeInv, ChunkInv
<1>2. stack # << >> => n > 0
  BY <1>1, FrameFacts
<1>3. Err("other") \in Results /\ Err("too_large") \in Results
  BY EmptySeq DEF Err, Results
<1>4. ASSUME n > 0 PROVE Ok(Text(top.range)) \in Results
  BY <1>4, TopFacts DEF Ok, Results
<1>5. CASE UNCHANGED vars
  <2>1. UNCHANGED <<phase, pages, index, stack, result, parts>>
    BY <1>5 DEF vars
  <2>2. n' = n /\ top' = top
    BY <2>1 DEF n, top
  <2>3. CoreTypes' /\ Shrinking' /\ Stops'
    BY <1>1, <2>1, <2>2 DEF CoreInv, CoreTypes, Shrinking, Stops
  <2>4. Descent' /\ Inside'
    BY <1>1, <2>1, <2>2, SameRanges DEF CoreInv, Descent, Inside
  <2>5. TextSoFar'
    BY <1>1, <2>1, <2>2, SameRanges DEF CoreInv, TextSoFar
  <2> QED BY <2>3, <2>4, <2>5 DEF CoreInv
<1>6. ASSUME NEW p \in 1 .. MaxPages, Count(p) PROVE CoreInv'
  <2>1. n = 0
    BY <1>1, <1>6 DEF CoreInv, TextSoFar, Count
  <2>2. stack = << >>
    BY <1>1, <2>1, FrameFacts, EmptySeq DEF n
  <2> QED BY <1>6, <2>2, OutsideStep DEF Count
<1>7. CASE CountFails
  <2>1. n = 0
    BY <1>1, <1>7 DEF CoreInv, TextSoFar, CountFails
  <2>2. stack = << >>
    BY <1>1, <2>1, FrameFacts, EmptySeq DEF n
  <2> QED BY <1>7, <2>2, OutsideStep DEF CountFails
<1>8. CASE OpenRange
  BY <1>8, OpenStep
<1>9. CASE Finish
  BY <1>9, OutsideStep DEF Finish
<1>10. CASE WriteChunk
  BY <1>2, <1>10, GotoStep DEF WriteChunk, At
<1>11. CASE WriteChunkFails
  BY <1>2, <1>3, <1>11, ResultStep DEF WriteChunkFails, At, Err, Pending
<1>12. CASE SubmitSucceeds
  BY <1>2, <1>4, <1>12, ResultStep DEF SubmitSucceeds, Submit, At, Ok, Pending
<1>13. CASE SubmitFails
  BY <1>2, <1>3, <1>13, ResultStep DEF SubmitFails, Submit, At, Err, Pending
<1>14. CASE Bisect
  BY <1>14, BisectStep
<1>15. CASE Rasterise
  BY <1>2, <1>15, GotoStep DEF Rasterise, TooLargePage, At
<1>16. CASE WritePicture
  BY <1>2, <1>16, GotoStep DEF WritePicture, At
<1>17. ASSUME NEW left_over, WritePictureFails(left_over) PROVE CoreInv'
  BY <1>2, <1>3, <1>17, ResultStep DEF WritePictureFails, At, Err, Pending
<1>18. ASSUME NEW removed, PictureSucceeds(removed) PROVE CoreInv'
  BY <1>2, <1>4, <1>18, ResultStep DEF PictureSucceeds, SubmitPicture, At, Ok, Pending
<1>19. ASSUME NEW removed, PictureFails(removed) PROVE CoreInv'
  BY <1>2, <1>3, <1>19, ResultStep DEF PictureFails, SubmitPicture, At, Err, Pending
<1>20. ASSUME NEW removed, ReturnPart(removed) PROVE CoreInv'
  BY <1>20, PartStep
<1>21. ASSUME NEW removed, ReturnLeft(removed) PROVE CoreInv'
  BY <1>21, ReturnLeftStep
<1>22. ASSUME NEW removed, ReturnRight(removed) PROVE CoreInv'
  <2>1. /\ n > 1 /\ n > 0 /\ n # 1 /\ result.kind = "ok" /\ caller.at = "right"
        /\ stack' = callers /\ result' = Ok(caller.left \o result.text)
        /\ UNCHANGED <<phase, pages, index, parts>>
    BY <1>1, <1>22, FrameFacts DEF ReturnRight, ReturnRightTo, Returns
  <2>2. result' = Ok(Text(caller.range)) /\ Text(caller.range) \in Seq(1 .. MaxPages)
    BY <2>1, JoinedText
  <2>3. result' \in Results /\ result' # Pending /\ result'.text = Text(caller.range)
    BY <2>2 DEF Ok, Results, Pending
  <2> QED BY <2>1, <2>3, PopStep
<1>23. ASSUME NEW removed, ReturnError(removed) PROVE CoreInv'
  <2>1. /\ n > 0 /\ result # Pending /\ result.kind # "ok" /\ result \in Results
        /\ stack' = callers /\ UNCHANGED <<pages, index, parts, result>>
        /\ IF n = 1 THEN phase' = "failed" ELSE phase' = phase
    BY <1>1, <1>2, <1>23 DEF ReturnError, Returns, PropagateError, CoreInv, CoreTypes
  <2> QED BY <2>1, PopStep
<1> QED BY <1>5, <1>6, <1>7, <1>8, <1>9, <1>10, <1>11, <1>12, <1>13, <1>14, <1>15,
           <1>16, <1>17, <1>18, <1>19, <1>20, <1>21, <1>22, <1>23 DEF Next, Done

LEMMA RestStep == RangeInv /\ [Next]_vars => RestTypes'
<1> SUFFICES ASSUME RangeInv, [Next]_vars PROVE RestTypes'
  OBVIOUS
<1> DEFINE Files == [range : PageRange, kind : {"pdf", "png"}]
<1>1. TypeOK /\ RestTypes /\ index \in Nat /\ pages \in Nat
  BY RangeInvSplit, ChunkingAssumption DEF RangeInv, ChunkInv, TypeOK
<1>2. stack # << >> => n > 0
  BY <1>1, FrameFacts
<1>3. ASSUME n > 0
      PROVE  /\ file \in Files /\ Picture(top.range) \in Files
             /\ top.range.first \in 1 .. MaxPages
             /\ chunk_progress_percent(index) \in 0 .. 100
  <2>1. chunk_progress_percent(index) \in 66 .. 78
    BY <1>1, <1>3, TopFacts, PercentBounded
  <2>2. chunk_progress_percent(index) \in 0 .. 100
    BY <2>1
  <2> QED BY <1>3, <2>2, TopFacts DEF file, Chunk, Picture
<1>4. ASSUME NEW f \in Files, NEW removed, Finalize(f, removed)
      PROVE  files' \in SUBSET Files /\ stuck' \in SUBSET Files
  BY <1>1, <1>4 DEF Finalize, RestTypes
<1> HIDE DEF Files
<1>5. files \in SUBSET Files /\ stuck \in SUBSET Files
  BY <1>1 DEF RestTypes, Files
<1>6. ASSUME files' \in SUBSET Files, stuck' \in SUBSET Files, calls' \in {calls, calls + 1},
             refused' \in {refused, refused \union {top.range.first}},
             UNCHANGED refused \/ n > 0, percent' \in 0 .. 100
      PROVE  RestTypes'
  BY <1>1, <1>3, <1>6 DEF RestTypes, Files
<1>7. CASE UNCHANGED vars
  BY <1>1, <1>7 DEF vars, RestTypes
<1>8. ASSUME NEW p \in 1 .. MaxPages, Count(p) PROVE RestTypes'
  BY <1>1, <1>8 DEF Count, RestTypes
<1>9. CASE CountFails \/ OpenRange \/ Finish
  BY <1>1, <1>9 DEF CountFails, OpenRange, Finish, RestTypes
<1>10. CASE WriteChunk
  BY <1>2, <1>3, <1>5, <1>6, <1>10 DEF WriteChunk, At
<1>11. percent \in 0 .. 100
  BY <1>1 DEF RestTypes
<1>12. CASE WriteChunkFails
  BY <1>2, <1>3, <1>5, <1>6, <1>11, <1>12 DEF WriteChunkFails, At
<1>13. CASE SubmitSucceeds \/ SubmitFails
  BY <1>5, <1>6, <1>11, <1>13 DEF SubmitSucceeds, SubmitFails, Submit
<1>14. CASE Bisect \/ Rasterise
  BY <1>5, <1>6, <1>11, <1>14 DEF Bisect, Rasterise, TooLargePage
<1>15. CASE WritePicture
  BY <1>2, <1>3, <1>5, <1>6, <1>11, <1>15 DEF WritePicture, At
<1>16. ASSUME NEW left_over \in {{}, {Picture(top.range)}}, WritePictureFails(left_over)
       PROVE  RestTypes'
  BY <1>2, <1>3, <1>5, <1>6, <1>11, <1>16 DEF WritePictureFails, At
<1>17. ASSUME NEW removed, NEW answer, SubmitPicture(answer, removed) PROVE RestTypes'
  BY <1>2, <1>3, <1>4, <1>6, <1>11, <1>17 DEF SubmitPicture, At
<1>18. ASSUME NEW removed, Returns(removed) PROVE RestTypes'
  BY <1>2, <1>3, <1>4, <1>6, <1>11, <1>18 DEF Returns
<1>19. ASSUME NEW removed,
              \/ WritePictureFails(IF removed THEN {} ELSE {Picture(top.range)})
              \/ PictureSucceeds(removed) \/ PictureFails(removed)
              \/ ReturnPart(removed) \/ ReturnLeft(removed)
              \/ ReturnRight(removed) \/ ReturnError(removed)
       PROVE  RestTypes'
  BY <1>16, <1>17, <1>18, <1>19 DEF PictureSucceeds, PictureFails, ReturnPart, ReturnLeft,
     ReturnRight, ReturnRightTo, ReturnError
<1> QED BY <1>7, <1>8, <1>9, <1>10, <1>12, <1>13, <1>14, <1>15, <1>19 DEF Next, Done

LEMMA RangeInit == Init => RangeInv
<1> SUFFICES ASSUME Init PROVE RangeInv
  OBVIOUS
<1>1. /\ phase = "counting" /\ pages = 0 /\ index = 0 /\ stack = << >> /\ parts = << >>
      /\ result = Pending
  BY DEF Init
<1>2. n = 0 /\ << >> \in Seq(Frames) /\ << >> \in Seq(1 .. MaxPages)
  BY <1>1, EmptySeq DEF n
<1>3. TypeOK
  BY <1>1, <1>2, ChunkingAssumption DEF Init, TypeOK, Pending, Results
<1>4. Descent /\ Inside /\ Shrinking /\ Stops
  BY <1>1, <1>2 DEF Descent, Inside, Shrinking, Stops
<1>5. TextSoFar
  <2>1. Pages(1, 0) = << >>
    <3>1. Pages(1, 0) \in Seq(Nat) /\ Len(Pages(1, 0)) = 0
      BY PagesAreText
    <3> QED BY <3>1, EmptySeq
  <2>2. 0 * ChunkSize = 0
    BY ChunkingAssumption
  <2> QED BY <1>1, <1>2, <2>1, <2>2 DEF TextSoFar, Pending
<1> QED BY <1>3, <1>4, <1>5 DEF RangeInv, ChunkInv

\* The ranges and texts are as Descent, TextSoFar and the strengthenings say.
THEOREM RangeInvariant == Spec => []RangeInv
<1>1. RangeInv /\ [Next]_vars => RangeInv'
  <2> SUFFICES ASSUME RangeInv, [Next]_vars PROVE RangeInv'
    OBVIOUS
  <2>1. CoreInv' /\ RestTypes'
    BY CoreStep, RestStep
  <2> QED BY <2>1 DEF RangeInv, ChunkInv, TypeOK, CoreInv, CoreTypes, RestTypes
<1> QED BY RangeInit, <1>1, PTL DEF Spec

\* Every call on the stack is one half of the call below it, a left half's
\* text is kept until the right half returns, and what a call returns is the
\* text of its range; every variable has its type.
THEOREM ChunkInvariant == Spec => []ChunkInv
<1>1. RangeInv => ChunkInv
  BY DEF RangeInv
<1> QED BY <1>1, RangeInvariant, PTL

\* A successful analysis returns every page exactly once and in order,
\* whichever ranges were bisected or rasterised on the way
\* (pdf_chunk.rs:49-57, 128-157).
THEOREM EveryPageOnceInOrder == Spec => []PagesInOrder
<1>1. RangeInv => PagesInOrder
  <2> SUFFICES ASSUME RangeInv, phase = "succeeded" PROVE parts = Pages(1, pages)
    BY DEF PagesInOrder
  <2>1. pages \in Nat /\ index = chunk_count
        /\ parts = Pages(1, IF index * ChunkSize < pages THEN index * ChunkSize
                                                         ELSE pages)
    BY DEF RangeInv, ChunkInv, TypeOK, TextSoFar
  <2>2. ~(index * ChunkSize < pages)
    BY <2>1, AllCovered
  <2> QED BY <2>1, <2>2
<1> QED BY <1>1, RangeInvariant, PTL

-----------------------------------------------------------------------------
(* The depth.                                                              *)

\* The outermost range has at most ChunkSize pages, each further one at most half
\* of those that its caller has, the odd page included, and only the innermost
\* may have a single page.
Halving ==
  /\ n > 0 => page_count(stack[1].range) \in 1 .. ChunkSize
  /\ \A i \in 1 .. n - 1 :
       /\ page_count(stack[i].range) > 1
       /\ 2 * (page_count(stack[i + 1].range) - 1) <= page_count(stack[i].range) - 1

LEMMA HalvesAreHalf ==
  ASSUME NEW r \in PageRange, page_count(r) > 1
  PROVE  /\ 2 * (page_count(Left(r)) - 1) <= page_count(r) - 1
         /\ 2 * (page_count(Right(r)) - 1) <= page_count(r) - 1
<1> DEFINE a == r.first
           c == page_count(r)
           h == c \div 2
<1>1. a \in Nat /\ r.last \in Nat /\ c = r.last - a + 1 /\ c \in Nat
  BY ChunkingAssumption DEF PageRange, page_count
<1>2. /\ Left(r).first = a /\ Left(r).last = a + h - 1
      /\ Right(r).first = a + h /\ Right(r).last = r.last
  BY <1>1 DEF Left, Right, Span, midpoint
<1>3. page_count(Left(r)) = h /\ page_count(Right(r)) = c - h
  BY <1>1, <1>2 DEF page_count
<1>4. h \in Nat /\ 2 * h <= c /\ c <= 2 * h + 1
  BY <1>1
<1> HIDE DEF c, h
<1> QED BY <1>1, <1>3, <1>4 DEF c

\* A range is halved until it is accepted or is a page, whichever of its parts
\* Azure refuses (pdf_chunk.rs:89, 120, pdf_chunk_support.rs:16).
THEOREM RangesHalve == Spec => []Halving
<1>1. RangeInv => Halving
  <2> SUFFICES ASSUME RangeInv PROVE Halving
    OBVIOUS
  <2>1. TypeOK /\ Descent /\ Inside /\ n \in Nat /\ index \in Nat /\ pages \in Nat
    BY FrameFacts DEF RangeInv, ChunkInv, TypeOK
  <2>2. ASSUME n > 0 PROVE page_count(stack[1].range) \in 1 .. ChunkSize
    <3>1. index < chunk_count /\ stack[1].range = InitialRange(index)
      BY <2>1, <2>2 DEF Descent
    <3> DEFINE x == index * ChunkSize
               l == LastPage(index)
    <3>2. /\ x \in Nat /\ l \in Nat /\ x < l
          /\ l = IF (index + 1) * ChunkSize < pages THEN (index + 1) * ChunkSize ELSE pages
          /\ InitialRange(index).first = x + 1 /\ InitialRange(index).last = l
      BY <2>1, <3>1, InitialRanges
    <3>3. ChunkSize \in Nat /\ (index + 1) * ChunkSize = x + ChunkSize
      BY <2>1, ChunkingAssumption
    <3>4. l <= x + ChunkSize
      BY <2>1, <3>2, <3>3
    <3>5. page_count(stack[1].range) = l - (x + 1) + 1
      BY <3>1, <3>2 DEF page_count
    <3> HIDE DEF x, l
    <3> QED BY <3>2, <3>3, <3>4, <3>5
  <2>3. ASSUME NEW i \in 1 .. n - 1
        PROVE  /\ page_count(stack[i].range) > 1
               /\ 2 * (page_count(stack[i + 1].range) - 1) <= page_count(stack[i].range) - 1
    <3>1. i \in 1 .. n /\ stack[i].range \in PageRange
      BY <2>1, FrameFacts
    <3>2. /\ page_count(stack[i].range) > 1
          /\ \/ stack[i + 1].range = Left(stack[i].range)
             \/ stack[i + 1].range = Right(stack[i].range)
      BY <2>1 DEF Descent
    <3> QED BY <3>1, <3>2, HalvesAreHalf
  <2> QED BY <2>2, <2>3 DEF Halving
<1> QED BY <1>1, RangeInvariant, PTL

-----------------------------------------------------------------------------
(* Powers of two.  There is no induction theorem to be had for a recursive  *)
(* function; a least number for which a claim fails does the same service.  *)

\* A set of numbers that is not empty has a least element, which stands for
\* induction in what follows: the least number a claim fails for.
LEMMA LeastNumber ==
  ASSUME NEW T \in SUBSET Nat, T # {}
  PROVE  \E x \in T : \A y \in T : x <= y
<1> DEFINE R == {ss \in Nat \X Nat : ss[1] < ss[2]}
<1>1. \A x, y \in Nat : y < x => <<y, x>> \in R
  OBVIOUS
<1>2. IsWellFoundedOn(R, Nat)
  BY NatLessThanWellFounded DEF OpToRel
<1> HIDE DEF R
<1>3. PICK x \in T : \A y \in T : ~ (<<y, x>> \in R)
  BY <1>2, WFMin
<1>4. \A y \in T : ~ (y < x)
  BY <1>1, <1>3
<1> QED BY <1>3, <1>4

Doubles(f, k) ==
  f \in [0 .. k -> Nat] /\ f[0] = 1 /\ \A i \in 0 .. k - 1 : f[i + 1] = 2 * f[i]

\* The powers of two up to the k-th exist ...
LEMMA SomeDoubles ==
  ASSUME NEW k \in Nat
  PROVE  \E f : Doubles(f, k)
<1> DEFINE T == {j \in Nat : ~ \E f : Doubles(f, j)}
<1> SUFFICES T = {}
  OBVIOUS
<1>1. ASSUME T # {} PROVE FALSE
  <2>1. PICK j \in T : \A y \in T : j <= y
    BY <1>1, LeastNumber
  <2>2. CASE j = 0
    <3>1. Doubles([i \in 0 .. 0 |-> 1], 0)
      BY DEF Doubles
    <3> QED BY <2>1, <2>2, <3>1
  <2>3. CASE j # 0
    <3>1. j - 1 \in Nat /\ ~ (j <= j - 1)
      BY <2>1, <2>3
    <3>2. PICK f : Doubles(f, j - 1)
      BY <2>1, <3>1
    <3> DEFINE g == [i \in 0 .. j |-> IF i = j THEN 2 * f[j - 1] ELSE f[i]]
    <3>3. g \in [0 .. j -> Nat] /\ g[0] = 1
      BY <2>3, <3>1, <3>2 DEF Doubles
    <3>4. ASSUME NEW i \in 0 .. j - 1 PROVE g[i + 1] = 2 * g[i]
      <4>1. i \in 0 .. j /\ i + 1 \in 0 .. j /\ i # j
        BY <2>1
      <4>2. CASE i = j - 1
        BY <4>1, <4>2
      <4>3. CASE i # j - 1
        <5>1. i \in 0 .. (j - 1) - 1 /\ i + 1 # j
          BY <2>1, <4>3
        <5> QED BY <3>2, <4>1, <5>1 DEF Doubles
      <4> QED BY <4>2, <4>3
    <3> HIDE DEF g
    <3>5. Doubles(g, j)
      BY <3>3, <3>4 DEF Doubles
    <3> QED BY <2>1, <3>5
  <2> QED BY <2>2, <2>3
<1> QED BY <1>1

\* ... and there is only one such function.
LEMMA SameDoubles ==
  ASSUME NEW k \in Nat, NEW l \in Nat, k <= l, NEW f, NEW g,
         Doubles(f, k), Doubles(g, l), NEW i \in 0 .. k
  PROVE  f[i] = g[i]
<1> DEFINE T == {j \in 0 .. k : f[j] # g[j]}
<1>1. ASSUME T # {} PROVE FALSE
  <2>0. T \in SUBSET Nat
    OBVIOUS
  <2>1. PICK j \in T : \A y \in T : j <= y
    BY <1>1, <2>0, LeastNumber
  <2>2. j # 0
    BY <2>1 DEF Doubles
  <2>3. j - 1 \in 0 .. k - 1 /\ j - 1 \in 0 .. l - 1 /\ j - 1 \in 0 .. k /\ ~ (j <= j - 1) /\ (j - 1) + 1 = j
    BY <2>1, <2>2
  <2>4. f[j - 1] = g[j - 1]
    BY <2>1, <2>3
  <2>5. f[(j - 1) + 1] = 2 * f[j - 1] /\ g[(j - 1) + 1] = 2 * g[j - 1]
    BY <2>3 DEF Doubles
  <2> QED BY <2>1, <2>3, <2>4, <2>5
<1> QED BY <1>1

\* So the recursion of PowerOf2 defines a function.
LEMMA PowerUnfolds ==
  /\ PowerOf2 \in [Nat -> Nat] /\ PowerOf2[0] = 1
  /\ \A k \in Nat : PowerOf2[k + 1] = 2 * PowerOf2[k]
<1> DEFINE D(k) == CHOOSE f : Doubles(f, k)
           p == [k \in Nat |-> D(k)[k]]
<1>1. ASSUME NEW k \in Nat PROVE Doubles(D(k), k)
  BY SomeDoubles
<1> HIDE DEF D
<1>2. p \in [Nat -> Nat] /\ p[0] = 1
  BY <1>1 DEF Doubles
<1>3. ASSUME NEW k \in Nat PROVE p[k + 1] = 2 * p[k]
  <2>1. k + 1 \in Nat /\ k <= k + 1 /\ k \in 0 .. k /\ k \in 0 .. (k + 1) - 1
    OBVIOUS
  <2>2. Doubles(D(k), k) /\ Doubles(D(k + 1), k + 1)
    BY <1>1, <2>1
  <2>3. D(k)[k] = D(k + 1)[k]
    BY <2>1, <2>2, SameDoubles
  <2>4. D(k + 1)[k + 1] = 2 * D(k + 1)[k]
    BY <2>1, <2>2 DEF Doubles
  <2> QED BY <2>1, <2>3, <2>4
<1> HIDE DEF p
<1>4. p = [k \in Nat |-> IF k = 0 THEN 1 ELSE 2 * p[k - 1]]
  <2>1. \A k \in Nat : k # 0 => k - 1 \in Nat /\ (k - 1) + 1 = k
    OBVIOUS
  <2>2. \A k \in Nat : p[k] = IF k = 0 THEN 1 ELSE 2 * p[k - 1]
    BY <1>2, <1>3, <2>1
  <2> QED BY <1>2, <2>2
<1>5. PowerOf2 = [k \in Nat |-> IF k = 0 THEN 1 ELSE 2 * PowerOf2[k - 1]]
  BY <1>4 DEF PowerOf2
<1>6. PowerOf2[0] = 1 /\ \A k \in Nat : PowerOf2[k + 1] = 2 * PowerOf2[k]
  <2>1. \A k \in Nat : k + 1 \in Nat /\ k + 1 # 0 /\ (k + 1) - 1 = k
    OBVIOUS
  <2> HIDE DEF PowerOf2
  <2> QED BY <1>5, <2>1
<1>7. PowerOf2 = p
  <2> DEFINE T == {k \in Nat : PowerOf2[k] # p[k]}
  <2>1. ASSUME T # {} PROVE FALSE
    <3>1. PICK j \in T : \A y \in T : j <= y
      BY <2>1, LeastNumber
    <3>2. j # 0
      BY <3>1, <1>2, <1>6
    <3>3. j - 1 \in Nat /\ ~ (j <= j - 1) /\ (j - 1) + 1 = j
      BY <3>1, <3>2
    <3>4. PowerOf2[j - 1] = p[j - 1]
      BY <3>1, <3>3
    <3>5. PowerOf2[(j - 1) + 1] = 2 * PowerOf2[j - 1] /\ p[(j - 1) + 1] = 2 * p[j - 1]
      BY <3>3, <1>3, <1>6
    <3> QED BY <3>1, <3>3, <3>4, <3>5
  <2>2. \A k \in Nat : PowerOf2[k] = p[k]
    BY <2>1
  <2> QED BY <1>2, <1>5, <2>2
<1> QED BY <1>2, <1>6, <1>7

\* So with n calls the outermost range has 2 ^ (n - 2) times one page or more.
LEMMA HalvedEachTime ==
  ASSUME RangeInv, Halving, NEW i \in 1 .. n
  PROVE  PowerOf2[i - 1] * (page_count(stack[i].range) - 1) < ChunkSize
<1> DEFINE c(j) == page_count(stack[j].range) - 1
           T == {j \in 1 .. n : ~ (PowerOf2[j - 1] * c(j) < ChunkSize)}
<1>1. n \in Nat /\ T \in SUBSET Nat /\ \A j \in 1 .. n : c(j) \in Int
  BY FrameFacts DEF RangeInv, ChunkInv
<1>2. n > 0 => c(1) < ChunkSize
  BY ChunkingAssumption DEF Halving
<1>3. \A j \in 1 .. n - 1 : 2 * c(j + 1) <= c(j)
  BY DEF Halving
<1> HIDE DEF c
<1>4. ASSUME T # {} PROVE FALSE
  <2>1. PICK j \in T : \A y \in T : j <= y
    BY <1>1, <1>4, LeastNumber
  <2>2. j # 1
    <3>1. PowerOf2[1 - 1] = 1
      BY PowerUnfolds
    <3> QED BY <1>1, <1>2, <2>1, <3>1
  <2>3. j - 1 \in 1 .. n - 1 /\ j - 1 \in 1 .. n /\ (j - 1) + 1 = j /\ ~ (j <= j - 1)
    BY <1>1, <2>1, <2>2
  <2> DEFINE m == j - 1 - 1
             p == PowerOf2[m]
  <2>4. m \in Nat /\ m + 1 = j - 1
    BY <2>3
  <2>5. p \in Nat /\ PowerOf2[j - 1] = 2 * p
    BY <2>4, PowerUnfolds
  <2>6. p * c(j - 1) < ChunkSize
    BY <2>1, <2>3
  <2>7. c(j) \in Int /\ c(j - 1) \in Int /\ 2 * c(j) <= c(j - 1)
    BY <1>1, <1>3, <2>1, <2>3
  <2> HIDE DEF p
  <2>8. p * (2 * c(j)) <= p * c(j - 1)
    BY <2>5, <2>7
  <2>9. (2 * p) * c(j) = p * (2 * c(j))
    BY <2>5, <2>7
  <2>10. p * c(j - 1) \in Int /\ p * (2 * c(j)) \in Int
    BY <2>5, <2>7
  <2>11. (2 * p) * c(j) < ChunkSize
    BY <2>6, <2>8, <2>9, <2>10, ChunkingAssumption
  <2> QED BY <2>1, <2>5, <2>11
<1> QED BY <1>4 DEF c

\* The calls of analyze_pdf_range nest at most 2 + log2(ChunkSize) deep, and so
\* do the chunks on disk that are still wanted (pdf_chunk.rs:128-157).
THEOREM DepthLogarithmic == Spec => []DepthBounded
<1>1. RangeInv /\ Halving => DepthBounded
  <2> SUFFICES ASSUME RangeInv, Halving PROVE DepthBounded
    OBVIOUS
  <2>1. n \in Nat /\ \A i \in 1 .. n : page_count(stack[i].range) \in Int
    BY FrameFacts DEF RangeInv, ChunkInv
  <2>2. PowerOf2[0] = 1 /\ PowerOf2[1] = 2
    <3>1. PowerOf2[0 + 1] = 2 * PowerOf2[0] /\ PowerOf2[0] = 1
      BY PowerUnfolds
    <3> QED BY <3>1
  <2>3. CASE n <= 1
    <3>1. n = 0 \/ n = 1
      BY <2>1, <2>3
    <3> QED BY <2>2, <3>1, ChunkingAssumption DEF DepthBounded
  <2>4. CASE n > 1
    <3> DEFINE m == n - 2
               p == PowerOf2[m]
               c == page_count(stack[n - 1].range) - 1
    <3>1. m \in Nat /\ m + 1 = n - 1 /\ (m + 1) + 1 = n /\ n - 1 \in 1 .. n /\ n - 1 \in 1 .. n - 1
          /\ (n - 1) - 1 = m
      BY <2>1, <2>4
    <3>2. p \in Nat /\ PowerOf2[m + 1] = 2 * p /\ PowerOf2[(m + 1) + 1] = 2 * PowerOf2[m + 1]
      BY <3>1, PowerUnfolds
    <3>3. PowerOf2[n] = 4 * p
      BY <3>1, <3>2
    <3>4. p * c < ChunkSize
      BY <3>1, HalvedEachTime
    <3>5. c \in Int /\ c >= 1
      BY <2>1, <3>1 DEF Halving
    <3> HIDE DEF m, p, c
    <3>6. p <= p * c /\ p * c \in Int
      BY <3>2, <3>5
    <3>7. p < ChunkSize
      BY <3>2, <3>4, <3>6, ChunkingAssumption
    <3> QED BY <3>2, <3>3, <3>7, ChunkingAssumption DEF DepthBounded
  <2> QED BY <2>1, <2>3, <2>4
<1> QED BY <1>1, RangeInvariant, RangesHalve, PTL

-----------------------------------------------------------------------------
(* The picture.                                                            *)

\* The pages of a call are among those of its caller.
LEMMA PagesOfCaller ==
  ASSUME RangeInv, n > 1, NEW p \in top.range.first .. top.range.last
  PROVE  p \in caller.range.first .. caller.range.last
<1>1. TypeOK /\ Descent /\ n \in Nat
  BY FrameFacts DEF RangeInv, ChunkInv
<1>2. n - 1 \in 1 .. n - 1 /\ n - 1 \in 1 .. n /\ (n - 1) + 1 = n
      /\ caller = stack[n - 1] /\ top = stack[n]
  BY <1>1 DEF caller, top
<1>3. /\ page_count(caller.range) > 1 /\ caller.range \in PageRange
      /\ top.range \in {Left(caller.range), Right(caller.range)}
  BY <1>1, <1>2, FrameFacts DEF Descent
<1>4. caller.range.first \in Nat /\ caller.range.last \in Nat
  BY <1>3, ChunkingAssumption DEF PageRange
<1>5. /\ midpoint(caller.range) \in Nat
      /\ caller.range.first <= midpoint(caller.range)
      /\ midpoint(caller.range) < caller.range.last
      /\ \/ top.range.first = caller.range.first /\ top.range.last = midpoint(caller.range)
         \/ top.range.first = midpoint(caller.range) + 1 /\ top.range.last = caller.range.last
  BY <1>3, SplitHalves, ChunkingAssumption
<1> QED BY <1>4, <1>5

\* The analysis gives up as too large exactly when a page of the range in hand
\* has been refused as a picture (pdf_chunk.rs:96-126).
THEOREM PictureFirst == Spec => []PictureBeforeGivingUp
<1>1. Init => PictureBeforeGivingUp
  BY DEF Init, PictureBeforeGivingUp, Pending
<1>2. PictureBeforeGivingUp /\ RangeInv /\ [Next]_vars => PictureBeforeGivingUp'
  <2> SUFFICES ASSUME PictureBeforeGivingUp, RangeInv, [Next]_vars
               PROVE  PictureBeforeGivingUp'
    OBVIOUS
  <2>1. ASSUME refused = {}, refused' = {}, result'.kind # "too_large"
        PROVE  PictureBeforeGivingUp'
    BY <2>1 DEF PictureBeforeGivingUp
  <2>2. result.kind # "too_large" => refused = {}
    BY DEF PictureBeforeGivingUp
  <2>3. /\ \A s : Ok(s).kind = "ok" /\ Err(s).kind = s
        /\ Pending.kind = "pending"
    BY DEF Ok, Err, Pending
  <2>4. CASE UNCHANGED vars
    BY <2>4 DEF vars, PictureBeforeGivingUp, n, top
  <2>5. ASSUME UNCHANGED <<result, refused>>, result.kind # "too_large"
        PROVE  PictureBeforeGivingUp'
    BY <2>1, <2>2, <2>5
  <2>6. CASE (\E p \in 1 .. MaxPages : Count(p)) \/ CountFails \/ OpenRange \/ Finish
    <3>1. UNCHANGED <<result, refused>> /\ phase \in {"counting", "running"}
      BY <2>6 DEF Count, CountFails, OpenRange, Finish
    <3>2. n = 0
      <4>1. CASE stack = << >>
        BY <4>1, EmptySeq DEF n
      <4>2. CASE phase = "counting"
        BY <4>2 DEF RangeInv, ChunkInv, TextSoFar
      <4> QED BY <2>6, <4>1, <4>2 DEF Count, CountFails, OpenRange, Finish
    <3>3. result = Pending
      BY <3>1, <3>2 DEF RangeInv, Stops
    <3> QED BY <2>3, <2>5, <3>1, <3>3
  <2>7. ASSUME result = Pending, UNCHANGED refused, result'.kind # "too_large"
        PROVE  PictureBeforeGivingUp'
    BY <2>1, <2>2, <2>3, <2>7
  <2>8. CASE WriteChunk \/ Bisect \/ Rasterise \/ WritePicture
    BY <2>3, <2>7, <2>8 DEF WriteChunk, Bisect, Rasterise, TooLargePage, WritePicture, At
  <2>9. CASE WriteChunkFails \/ SubmitSucceeds \/ SubmitFails
    BY <2>3, <2>7, <2>9 DEF WriteChunkFails, SubmitSucceeds, SubmitFails, Submit, At
  <2>10. ASSUME NEW removed, PictureSucceeds(removed) \/ PictureFails(removed)
         PROVE  PictureBeforeGivingUp'
    <3>1. PICK answer : SubmitPicture(answer, removed)
      BY <2>10 DEF PictureSucceeds, PictureFails
    <3>2. /\ stack # << >> /\ result = Pending /\ result' = answer
          /\ refused' = IF answer.kind = "too_large" THEN refused \union {top.range.first}
                                                     ELSE refused
          /\ UNCHANGED <<stack, index>> /\ n' = n /\ top' = top
      BY <3>1 DEF SubmitPicture, At, n, top
    <3>3. refused = {}
      BY <2>2, <2>3, <3>2
    <3>4. /\ index * ChunkSize < top.range.first
          /\ top.range.first \in top.range.first .. top.range.last
      BY <3>2, TopFacts, FrameFacts DEF RangeInv, ChunkInv
    <3> QED BY <3>2, <3>3, <3>4 DEF PictureBeforeGivingUp
  <2>11. ASSUME NEW removed, NEW left_over, WritePictureFails(left_over)
         PROVE  PictureBeforeGivingUp'
    BY <2>3, <2>7, <2>11 DEF WritePictureFails, At
  <2>12. ASSUME NEW removed,
                ReturnPart(removed) \/ ReturnLeft(removed) \/ ReturnRight(removed)
         PROVE  PictureBeforeGivingUp'
    <3>1. result.kind = "ok" /\ UNCHANGED refused
      BY <2>12 DEF ReturnPart, ReturnLeft, ReturnRight, ReturnRightTo, Returns
    <3>2. result' = Pending \/ \E text : result' = Ok(text)
      BY <2>12 DEF ReturnPart, ReturnLeft, ReturnRight, ReturnRightTo
    <3> QED BY <2>1, <2>2, <2>3, <3>1, <3>2
  <2>13. ASSUME NEW removed, ReturnError(removed) PROVE PictureBeforeGivingUp'
    <3>1. /\ UNCHANGED <<index, result, refused>> /\ stack # << >> /\ stack' = callers
      BY <2>13 DEF ReturnError, Returns, PropagateError
    <3>2. /\ n > 0 /\ n \in Nat /\ n' = n - 1
          /\ n' > 0 => top' = caller
      BY <3>1, PopFacts, FrameFacts DEF RangeInv, ChunkInv
    <3>3. n' > 0 => n > 1
      BY <3>2
    <3>4. ASSUME NEW p \in refused, n > 1
          PROVE  p \in caller.range.first .. caller.range.last
      <4>1. p \in top.range.first .. top.range.last
        BY <3>2, <3>4 DEF PictureBeforeGivingUp
      <4> QED BY <3>4, <4>1, PagesOfCaller
    <3>5. \A p \in refused : n' > 0 => p \in top'.range.first .. top'.range.last
      BY <3>2, <3>3, <3>4
    <3> QED BY <3>1, <3>5 DEF PictureBeforeGivingUp
  <2> QED BY <2>4, <2>6, <2>8, <2>9, <2>10, <2>11, <2>12, <2>13 DEF Next, Done
<1> QED BY <1>1, <1>2, RangeInvariant, PTL DEF Spec

-----------------------------------------------------------------------------
(* The files.                                                              *)

LEMMA FinalizeFacts ==
  ASSUME stuck \subseteq files, NEW f, f \notin stuck, NEW removed, Finalize(f, removed)
  PROVE  /\ stuck' \subseteq files' /\ stuck' \subseteq stuck \union {f}
         /\ files' \ stuck' = (files \ stuck) \ {f}
         /\ \A g \in files : g # f => g \in files'
BY DEF Finalize

\* The files of a range in hand are told apart by their kind.
LEMMA FileFacts ==
  ASSUME RangeInv
  PROVE  /\ \A f \in files \union stuck :
              /\ f.range \in PageRange /\ f.kind \in {"pdf", "png"}
              /\ f.range.last \in Nat
              /\ f = IF f.kind = "pdf" THEN Chunk(f.range) ELSE Picture(f.range)
         /\ \A r : /\ Chunk(r).range = r /\ Chunk(r).kind = "pdf"
                   /\ Picture(r).range = r /\ Picture(r).kind = "png"
<1> DEFINE Files == [range : PageRange, kind : {"pdf", "png"}]
<1>1. files \in SUBSET Files /\ stuck \in SUBSET Files
  BY DEF RangeInv, ChunkInv, TypeOK
<1>2. ASSUME NEW f \in Files
      PROVE  /\ f.range \in PageRange /\ f.kind \in {"pdf", "png"}
             /\ f.range.last \in Nat
             /\ f = [range |-> f.range, kind |-> f.kind]
  BY ChunkingAssumption DEF PageRange
<1> HIDE DEF Files
<1> QED BY <1>1, <1>2 DEF Chunk, Picture

\* What a step keeps that changes neither files nor the ranges in hand, and
\* leaves no picture behind.
LEMMA FilesKept ==
  ASSUME RangeInv, FilesInv, UNCHANGED <<files, stuck, index, phase>>, n > 0, n' = n,
         top.at # "picture",
         \A i \in 1 .. n : /\ stack'[i].range = stack[i].range
                           /\ stack'[i].at # "split" => stack[i].at # "split",
         top'.range = top.range,
         result'.kind \in {"pending", "ok"} => result = Pending
  PROVE  FilesInv'
<1>1. TempFiles'
  BY DEF FilesInv, TempFiles
<1>2. PictureInHand'
  BY DEF FilesInv, PictureInHand
<1>3. StuckIsPast'
  <2> SUFFICES ASSUME NEW f \in stuck
               PROVE  /\ result' = Pending => f.range.last < top.range.first
                      /\ result'.kind = "ok" => f.range.last <= top.range.last
    BY DEF StuckIsPast
  <2>1. result = Pending => f.range.last < top.range.first
    BY DEF FilesInv, StuckIsPast
  <2>2. f.range.last \in Nat /\ top.range.first \in Nat /\ top.range.last \in Nat
        /\ top.range.first <= top.range.last
    BY FileFacts, TopFacts
  <2> QED BY <2>1, <2>2 DEF Pending
<1>4. StuckNotInUse'
  BY DEF FilesInv, StuckNotInUse
<1> QED BY <1>1, <1>2, <1>3, <1>4 DEF FilesInv

\* No file of a range in hand is stuck.
LEMMA NotStuck ==
  ASSUME RangeInv, FilesInv, n > 0
  PROVE  file \notin stuck /\ (result = Pending => Picture(top.range) \notin stuck)
<1>1. n \in 1 .. n /\ top = stack[n]
  BY TopFacts
<1>2. file \notin stuck
  <2>1. file.range = top.range /\ file.kind = "pdf"
    BY DEF file, Chunk
  <2> QED BY <1>1, <2>1 DEF FilesInv, StuckNotInUse
<1>3. ASSUME result = Pending, Picture(top.range) \in stuck PROVE FALSE
  <2>1. top.range.last < top.range.first
    BY <1>3 DEF FilesInv, StuckIsPast, Picture
  <2> QED BY <2>1, TopFacts
<1> QED BY <1>2, <1>3

\* Outside the ranges: nothing but stuck files is on disk.
LEMMA FilesOutside ==
  ASSUME RangeInv, FilesInv, stack = << >>, UNCHANGED <<files, stuck, stack, index>>,
         phase' \in {"running", "failed", "succeeded"},
         phase' = "running" => phase = "counting"
  PROVE  FilesInv'
<1>1. n = 0 /\ n' = 0
  BY EmptySeq DEF n
<1>2. files \ stuck = {} /\ stuck \subseteq files
  BY <1>1 DEF FilesInv, TempFiles
<1>3. TempFiles' /\ PictureInHand' /\ StuckNotInUse'
  BY <1>1, <1>2 DEF TempFiles, PictureInHand, StuckNotInUse
<1>4. StuckIsPast'
  BY <1>1 DEF FilesInv, StuckIsPast
<1> QED BY <1>3, <1>4 DEF FilesInv

LEMMA FilesOpen ==
  ASSUME RangeInv, FilesInv, OpenRange
  PROVE  FilesInv'
<1> DEFINE r == InitialRange(index)
<1>1. /\ stack = << >> /\ index < chunk_count /\ phase = "running"
      /\ UNCHANGED <<phase, index, result, files, stuck>>
  BY DEF OpenRange
<1>2. n = 0
  BY <1>1, EmptySeq DEF n
<1>3. /\ index \in Nat /\ pages \in Nat /\ result = Pending
  BY <1>1, <1>2, ChunkingAssumption DEF RangeInv, ChunkInv, TypeOK, Stops
<1>4. /\ index * ChunkSize \in Nat /\ index * ChunkSize < r.last
      /\ r.first = index * ChunkSize + 1 /\ r.last \in Nat
  BY <1>1, <1>3, InitialRanges
<1>5. n' = 1 /\ stack'[1].range = r /\ stack'[1].at = "split" /\ top' = stack'[1]
  BY OpenStep DEF Frame
<1> HIDE DEF r
<1>6. files \ stuck = {} /\ stuck \subseteq files
  BY <1>2 DEF FilesInv, TempFiles
<1>7. ASSUME NEW f \in stuck PROVE f.range.last < r.first /\ f.range.last < r.last
  <2>1. f.range.last <= index * ChunkSize
    BY <1>1, <1>2 DEF FilesInv, StuckIsPast
  <2>2. f.range.last \in Nat
    BY FileFacts
  <2> QED BY <1>4, <2>1, <2>2
<1>8. TempFiles' /\ PictureInHand'
  BY <1>1, <1>5, <1>6 DEF TempFiles, PictureInHand
<1>9. StuckIsPast'
  BY <1>1, <1>3, <1>5, <1>7 DEF StuckIsPast, Pending
<1>10. StuckNotInUse'
  <2>1. \A f \in stuck : f.range # r
    <3>1. \A f \in stuck : f.range.last < r.last
      BY <1>7
    <3>2. \A f \in stuck : f.range.last \in Nat
      BY FileFacts
    <3> QED BY <1>4, <3>1, <3>2
  <2> QED BY <1>1, <1>5, <2>1 DEF StuckNotInUse
<1> QED BY <1>8, <1>9, <1>10 DEF FilesInv

\* A chunk or a picture is written, perhaps in part and not to be used.
LEMMA FilesWritten ==
  ASSUME RangeInv, FilesInv, n > 0, result = Pending, top.at # "picture",
         UNCHANGED <<phase, index, stuck>>, n' = n,
         \A i \in 1 .. n : stack'[i].range = stack[i].range,
         \A i \in 1 .. n - 1 : stack'[i] = stack[i],
         top' = stack'[n],
         result'.kind # "ok",
         \/ files' = files \union {file}
         \/ files' = files /\ UNCHANGED stack
         \/ /\ files' = files \union {Picture(top.range)} /\ result' = Pending
            /\ top'.at = "picture" /\ top.at = "raster"
  PROVE  FilesInv'
<1>1. n \in Nat /\ n \in 1 .. n /\ top = stack[n] /\ top'.range = top.range
  BY TopFacts
<1>2. file \notin stuck /\ Picture(top.range) \notin stuck
  BY NotStuck
<1>3. files \subseteq files' /\ (UNCHANGED stack \/ top.at = "raster" \/ file \in files')
  OBVIOUS
<1>4. stuck \subseteq files
  BY DEF FilesInv, TempFiles
<1>5. \A f \in files' \ stuck' :
        \/ f \in files \ stuck
        \/ f = file
        \/ f = Picture(top.range) /\ result' = Pending /\ top'.at = "picture"
  OBVIOUS
<1>6. file.range = top.range /\ file.kind = "pdf" /\ file = Chunk(top.range)
      /\ Picture(top.range).range = top.range
  BY DEF file, Chunk, Picture
<1>7. \A i \in 1 .. n : stack[i].at # "split" => Chunk(stack[i].range) \in files
  BY DEF FilesInv, TempFiles
<1>8. \A i \in 1 .. n : stack'[i].at # "split" => Chunk(stack'[i].range) \in files'
  <2> SUFFICES ASSUME NEW i \in 1 .. n, stack'[i].at # "split"
               PROVE  Chunk(stack[i].range) \in files'
    OBVIOUS
  <2>1. CASE i = n
    <3>1. CASE UNCHANGED stack \/ top.at = "raster"
      BY <1>1, <1>3, <1>7, <2>1, <3>1
    <3>2. CASE file \in files'
      BY <1>1, <1>6, <2>1, <3>2
    <3> QED BY <1>3, <3>1, <3>2
  <2>2. CASE i # n
    <3>1. i \in 1 .. n - 1
      BY <1>1, <2>2
    <3> QED BY <1>3, <1>7, <3>1
  <2> QED BY <2>1, <2>2
<1>9. \A f \in files' \ stuck' : phase' = "running" /\ \E i \in 1 .. n : f.range = stack'[i].range
  <2>1. phase = "running"
    BY TopFacts
  <2>2. \A f \in files \ stuck : \E i \in 1 .. n : f.range = stack[i].range
    BY DEF FilesInv, TempFiles
  <2> QED BY <1>1, <1>5, <1>6, <2>1, <2>2
<1>10. TempFiles'
  BY <1>3, <1>4, <1>8, <1>9 DEF TempFiles
<1>11. PictureInHand'
  <2>1. \A f \in files \ stuck : f.kind # "png"
    BY DEF FilesInv, PictureInHand
  <2> QED BY <1>1, <1>5, <1>6, <2>1, FileFacts DEF PictureInHand
<1>12. StuckIsPast'
  BY <1>1 DEF FilesInv, StuckIsPast
<1>13. StuckNotInUse'
  BY DEF FilesInv, StuckNotInUse
<1> QED BY <1>10, <1>11, <1>12, <1>13 DEF FilesInv

\* The picture has been submitted and is removed, or has not come about; what
\* cannot be removed is stuck.
LEMMA FilesPicture ==
  ASSUME RangeInv, FilesInv, n > 0, result = Pending, top.at \in {"raster", "picture"},
         UNCHANGED <<phase, index, stack>>, result' # Pending, result'.kind # "pending",
         \/ \E removed : Finalize(Picture(top.range), removed)
         \/ /\ top.at = "raster"
            /\ \E left_over \in {{}, {Picture(top.range)}} :
                 files' = files \union left_over /\ stuck' = stuck \union left_over
  PROVE  FilesInv'
<1> DEFINE g == Picture(top.range)
<1>1. n' = n /\ top' = top /\ n \in 1 .. n /\ top = stack[n]
  BY TopFacts DEF n, top
<1>2. g \notin stuck /\ stuck \subseteq files
  BY NotStuck DEF FilesInv, TempFiles
<1>3. g.range = top.range /\ g.kind = "png"
  BY DEF Picture
<1>4. \A f \in files \ stuck : f.kind = "png" => f = g /\ top.at = "picture"
  BY FileFacts DEF FilesInv, PictureInHand
<1> HIDE DEF g
<1>5. /\ stuck' \subseteq files' /\ stuck' \subseteq stuck \union {g}
      /\ files' \ stuck' \subseteq (files \ stuck)
      /\ \A f \in files' \ stuck' : f.kind # "png"
      /\ \A f \in files : f # g => f \in files'
  <2>1. ASSUME NEW removed, Finalize(g, removed)
        PROVE  /\ stuck' \subseteq files' /\ stuck' \subseteq stuck \union {g}
               /\ files' \ stuck' = (files \ stuck) \ {g}
               /\ \A f \in files : f # g => f \in files'
    BY <1>2, <2>1, FinalizeFacts
  <2>2. CASE \E removed : Finalize(g, removed)
    BY <1>4, <2>1, <2>2
  <2>3. ASSUME NEW left_over \in {{}, {g}}, top.at = "raster",
               files' = files \union left_over, stuck' = stuck \union left_over
        PROVE  /\ stuck' \subseteq files' /\ stuck' \subseteq stuck \union {g}
               /\ files' \ stuck' \subseteq (files \ stuck)
               /\ \A f \in files' \ stuck' : f.kind # "png"
               /\ \A f \in files : f # g => f \in files'
    BY <1>2, <1>4, <2>3
  <2> QED BY <2>2, <2>3 DEF g
<1>6. TempFiles'
  <2>1. \A i \in 1 .. n : Chunk(stack[i].range) # g
    BY <1>3 DEF Chunk
  <2> QED BY <1>1, <1>5, <2>1 DEF FilesInv, TempFiles
<1>7. PictureInHand'
  BY <1>5 DEF PictureInHand
<1>8. StuckIsPast'
  <2> SUFFICES ASSUME NEW f \in stuck', result'.kind = "ok"
               PROVE  f.range.last <= top.range.last
    BY <1>1 DEF StuckIsPast
  <2>1. CASE f \in stuck
    <3>1. f.range.last < top.range.first
      BY <2>1 DEF FilesInv, StuckIsPast
    <3>2. f.range.last \in Nat
      BY <2>1, FileFacts
    <3>3. /\ top.range.first \in Nat /\ top.range.last \in Nat
          /\ top.range.first <= top.range.last
      <4>1. /\ top.range.first \in 1 .. MaxPages /\ top.range.last \in 1 .. MaxPages
            /\ top.range.first <= top.range.last
        BY <1>1, TopFacts
      <4> QED BY <4>1, ChunkingAssumption
    <3> QED BY <3>1, <3>2, <3>3
  <2>2. CASE f = g
    BY <1>3, <2>2, TopFacts, ChunkingAssumption
  <2> QED BY <1>5, <2>1, <2>2
<1>9. StuckNotInUse'
  BY <1>1, <1>3, <1>5 DEF FilesInv, StuckNotInUse
<1> QED BY <1>6, <1>7, <1>8, <1>9 DEF FilesInv

\* The chunk of a call that returns is removed, or stuck.
LEMMA FilesReturn ==
  ASSUME RangeInv, FilesInv, NEW removed, Returns(removed)
  PROVE  /\ n > 0 /\ file.range = top.range /\ file.kind = "pdf"
         /\ stuck' \subseteq files' /\ stuck' \subseteq stuck \union {file}
         /\ files' \ stuck' = (files \ stuck) \ {file}
         /\ \A f \in files : f # file => f \in files'
         /\ \A f \in files' \ stuck' : f.kind = "pdf" /\ \E i \in 1 .. n - 1 :
                                        f.range = stack[i].range
         /\ \A i \in 1 .. n - 1 : stack[i].range # top.range
         /\ \A i \in 1 .. n - 1 :
              stack[i].at # "split" => Chunk(stack[i].range) \in files'
         /\ \A f \in stuck' : f.kind = "pdf" =>
              \A i \in 1 .. n - 1 : f.range # stack[i].range
         /\ result.kind = "ok" => \A f \in stuck' : f.range.last <= top.range.last
<1>1. n > 0 /\ result # Pending /\ Finalize(file, removed)
  BY FrameFacts DEF Returns, RangeInv, ChunkInv
<1>2. n \in Nat /\ n \in 1 .. n /\ top = stack[n]
  BY <1>1, TopFacts
<1>3. file.range = top.range /\ file.kind = "pdf" /\ file = Chunk(top.range)
  BY DEF file, Chunk
<1>4. file \notin stuck /\ stuck \subseteq files
  BY <1>1, NotStuck DEF FilesInv, TempFiles
<1>5. /\ stuck' \subseteq files' /\ stuck' \subseteq stuck \union {file}
      /\ files' \ stuck' = (files \ stuck) \ {file}
      /\ \A f \in files : f # file => f \in files'
  BY <1>1, <1>4, FinalizeFacts
<1>6. \A i \in 1 .. n - 1 : i \in 1 .. n /\ i < n
  BY <1>2
<1>7. ASSUME NEW i \in 1 .. n - 1 PROVE stack[i].range # top.range
  <2>1. page_count(top.range) < page_count(stack[i].range)
    BY <1>2, <1>6 DEF RangeInv, Shrinking
  <2>2. page_count(top.range) \in Nat
    BY <1>1, TopFacts
  <2> QED BY <2>1, <2>2
<1>8. ASSUME NEW f \in files' \ stuck'
      PROVE  f.kind = "pdf" /\ \E i \in 1 .. n - 1 : f.range = stack[i].range
  <2>1. f \in files \ stuck /\ f # file
    BY <1>5, <1>8
  <2>2. f.kind = "pdf" /\ f = Chunk(f.range)
    BY <1>1, <2>1, FileFacts DEF FilesInv, PictureInHand
  <2>3. PICK i \in 1 .. n : f.range = stack[i].range
    BY <2>1 DEF FilesInv, TempFiles
  <2>4. i # n
    BY <1>2, <1>3, <2>1, <2>2, <2>3
  <2>5. i \in 1 .. n - 1
    BY <1>2, <2>4
  <2> QED BY <2>2, <2>3, <2>5
<1>9. ASSUME NEW i \in 1 .. n - 1, stack[i].at # "split"
      PROVE  Chunk(stack[i].range) \in files'
  <2>1. Chunk(stack[i].range) \in files
    BY <1>6, <1>9 DEF FilesInv, TempFiles
  <2>2. Chunk(stack[i].range) # file
    BY <1>3, <1>7 DEF Chunk
  <2> QED BY <1>5, <2>1, <2>2
<1>10. ASSUME NEW f \in stuck', f.kind = "pdf", NEW i \in 1 .. n - 1
       PROVE  f.range # stack[i].range
  BY <1>3, <1>5, <1>6, <1>7, <1>10 DEF FilesInv, StuckNotInUse
<1>11. ASSUME result.kind = "ok", NEW f \in stuck' PROVE f.range.last <= top.range.last
  <2>1. CASE f \in stuck
    BY <1>1, <1>11, <2>1 DEF FilesInv, StuckIsPast
  <2>2. CASE f = file
    <3>1. top.range.last \in Nat
      BY <1>1, TopFacts, ChunkingAssumption
    <3> QED BY <1>3, <2>2, <3>1
  <2> QED BY <1>5, <2>1, <2>2
<1> QED BY <1>1, <1>3, <1>5, <1>7, <1>8, <1>9, <1>10, <1>11

LEMMA FilesReturnPart ==
  ASSUME RangeInv, FilesInv, NEW removed, ReturnPart(removed)
  PROVE  FilesInv'
<1>1. /\ Returns(removed) /\ n = 1 /\ result.kind = "ok" /\ index' = index + 1
      /\ result' = Pending /\ UNCHANGED phase
  BY DEF ReturnPart
<1>2. n' = 0
  BY PartStep
<1>3. /\ stuck' \subseteq files' /\ files' \ stuck' = {}
      /\ \A f \in stuck' : f.range.last <= top.range.last
  BY <1>1, FilesReturn
<1>4. TempFiles' /\ PictureInHand' /\ StuckNotInUse'
  BY <1>2, <1>3 DEF TempFiles, PictureInHand, StuckNotInUse
<1>5. top.range.last <= (index + 1) * ChunkSize /\ (index + 1) * ChunkSize \in Nat
      /\ top.range.last \in Nat
  <2>1. /\ top.range.last <= LastPage(index) /\ index \in Nat /\ pages \in Nat
        /\ index < chunk_count /\ top.range.last \in Nat
    BY <1>1, TopFacts, ChunkingAssumption
  <2>2. (index + 1) * ChunkSize \in Nat
    BY <2>1, ChunkingAssumption
  <2>3. LastPage(index) <= (index + 1) * ChunkSize /\ LastPage(index) \in Nat
    BY <2>1, <2>2 DEF LastPage
  <2> QED BY <2>1, <2>2, <2>3
<1>6. StuckIsPast'
  <2> SUFFICES ASSUME NEW f \in stuck' PROVE f.range.last <= index' * ChunkSize
    BY <1>2 DEF StuckIsPast
  <2>1. f.range.last \in Nat
    <3>1. f \in stuck \union {file} /\ file.range = top.range
      BY <1>1, FilesReturn
    <3> QED BY <1>5, <3>1, FileFacts
  <2> QED BY <1>1, <1>3, <1>5, <2>1
<1> QED BY <1>4, <1>6 DEF FilesInv

LEMMA FilesReturnLeft ==
  ASSUME RangeInv, FilesInv, NEW removed, ReturnLeft(removed)
  PROVE  FilesInv'
<1> DEFINE g == Right(caller.range)
<1>1. /\ Returns(removed) /\ n > 1 /\ result.kind = "ok" /\ caller.at = "left"
      /\ result' = Pending /\ UNCHANGED <<phase, index>>
  BY DEF ReturnLeft
<1>2. page_count(caller.range) > 1 /\ top.range = Left(caller.range)
  BY ReturnLeftStep
<1>3. /\ n' = n /\ top' = Frame(g) /\ stack'[n] = Frame(g)
      /\ \A i \in 1 .. n - 1 : stack'[i].range = stack[i].range
      /\ \A i \in 1 .. n - 2 : stack'[i] = stack[i]
  BY <1>2, ReturnLeftFacts DEF RangeInv, ChunkInv
<1>4. n \in Nat /\ n > 0 /\ caller = stack[n - 1] /\ n - 1 \in 1 .. n
      /\ n - 1 \in 1 .. n - 1
  BY <1>1, FrameFacts DEF caller, RangeInv, ChunkInv
<1>5. /\ top.range.last < g.first /\ top.range.last < g.last
      /\ top.range.last \in Nat /\ g.first \in Nat /\ g.last \in Nat
  <2>1. caller.range \in PageRange /\ caller.range.last \in Nat
    BY <1>4, FrameFacts DEF RangeInv, ChunkInv
  <2>2. /\ midpoint(caller.range) \in Nat /\ midpoint(caller.range) < caller.range.last
        /\ top.range.last = midpoint(caller.range)
        /\ g.first = midpoint(caller.range) + 1 /\ g.last = caller.range.last
    BY <1>2, <2>1, SplitHalves, ChunkingAssumption
  <2> QED BY <2>1, <2>2
<1>6. Frame(g).range = g /\ Frame(g).at = "split"
  BY DEF Frame
<1> HIDE DEF g
<1>7. /\ stuck' \subseteq files'
      /\ \A f \in files' \ stuck' : f.kind = "pdf" /\ \E i \in 1 .. n - 1 :
                                     f.range = stack[i].range
      /\ \A i \in 1 .. n - 1 : stack[i].at # "split" => Chunk(stack[i].range) \in files'
      /\ \A f \in stuck' : f.kind = "pdf" =>
           \A i \in 1 .. n - 1 : f.range # stack[i].range
      /\ \A f \in stuck' : f.range.last <= top.range.last
  BY <1>1, FilesReturn
<1>8. \A f \in stuck' : f.range.last < g.first /\ f.range.last < g.last
  <2> SUFFICES ASSUME NEW f \in stuck' PROVE f.range.last < g.first /\ f.range.last < g.last
    OBVIOUS
  <2>1. f.range.last \in Nat
    <3>1. f \in stuck \union {file} /\ file.range = top.range
      BY <1>1, FilesReturn
    <3> QED BY <1>5, <3>1, FileFacts
  <2>2. f.range.last <= top.range.last
    BY <1>7
  <2> QED BY <1>5, <2>1, <2>2
<1>9. phase = "running"
  BY <1>4, TopFacts
<1>10. \A i \in 1 .. n : i \in 1 .. n - 1 \/ i = n
  BY <1>4
<1>11. TempFiles'
  <2>1. ASSUME NEW i \in 1 .. n, stack'[i].at # "split"
        PROVE  Chunk(stack'[i].range) \in files'
    <3>1. i # n
      BY <1>3, <1>6, <2>1
    <3>2. i \in 1 .. n - 1 /\ stack'[i].range = stack[i].range
      BY <1>3, <1>10, <3>1
    <3>3. stack[i].at # "split"
      <4>1. CASE i = n - 1
        BY <1>1, <1>4, <4>1
      <4>2. CASE i # n - 1
        BY <1>3, <1>4, <2>1, <3>2, <4>2
      <4> QED BY <4>1, <4>2
    <3> QED BY <1>7, <3>2, <3>3
  <2>2. ASSUME NEW f \in files' \ stuck'
        PROVE  phase' = "running" /\ \E i \in 1 .. n : f.range = stack'[i].range
    <3>1. PICK i \in 1 .. n - 1 : f.range = stack[i].range
      BY <1>7
    <3>2. i \in 1 .. n
      BY <1>4
    <3> QED BY <1>1, <1>3, <1>9, <3>1, <3>2
  <2> QED BY <1>3, <1>7, <2>1, <2>2 DEF TempFiles
<1>12. PictureInHand'
  BY <1>7 DEF PictureInHand
<1>13. StuckIsPast'
  BY <1>1, <1>3, <1>4, <1>6, <1>8 DEF StuckIsPast, Pending
<1>14. StuckNotInUse'
  <2> SUFFICES ASSUME NEW f \in stuck', f.kind = "pdf", NEW i \in 1 .. n
               PROVE  f.range # stack'[i].range
    BY <1>3 DEF StuckNotInUse
  <2>1. CASE i \in 1 .. n - 1
    BY <1>3, <1>7, <2>1
  <2>2. CASE i = n
    <3>1. stack'[i].range = g /\ f.range.last < g.last
      BY <1>3, <1>6, <1>8, <2>2
    <3> QED BY <1>5, <3>1
  <2> QED BY <1>10, <2>1, <2>2
<1> QED BY <1>11, <1>12, <1>13, <1>14 DEF FilesInv

LEMMA FilesPop ==
  ASSUME RangeInv, FilesInv, NEW removed, Returns(removed), stack' = callers,
         result' # Pending, UNCHANGED index,
         IF n = 1 THEN phase' = "failed" /\ result'.kind # "ok" ELSE phase' = phase,
         result'.kind = "ok" => result.kind = "ok" /\ caller.range.last = top.range.last
  PROVE  FilesInv'
<1>1. /\ n > 0
      /\ stuck' \subseteq files'
      /\ \A f \in files' \ stuck' : f.kind = "pdf" /\ \E i \in 1 .. n - 1 :
                                     f.range = stack[i].range
      /\ \A i \in 1 .. n - 1 : stack[i].at # "split" => Chunk(stack[i].range) \in files'
      /\ \A f \in stuck' : f.kind = "pdf" =>
           \A i \in 1 .. n - 1 : f.range # stack[i].range
      /\ result.kind = "ok" => \A f \in stuck' : f.range.last <= top.range.last
  BY FilesReturn
<1>2. /\ n' = n - 1 /\ n' \in Nat /\ n \in Nat
      /\ n' > 0 => top' = caller
      /\ \A i \in 1 .. n - 1 : stack'[i] = stack[i]
  BY <1>1, PopFacts, FrameFacts DEF RangeInv, ChunkInv
<1>3. phase = "running"
  BY <1>1, TopFacts
<1>4. TempFiles'
  <2>1. \A i \in 1 .. n' : stack'[i].at # "split" => Chunk(stack'[i].range) \in files'
    BY <1>1, <1>2
  <2>2. ASSUME NEW f \in files' \ stuck'
        PROVE  phase' = "running" /\ \E i \in 1 .. n' : f.range = stack'[i].range
    <3>1. PICK i \in 1 .. n - 1 : f.range = stack[i].range
      BY <1>1
    <3>2. n # 1
      BY <1>2
    <3> QED BY <1>2, <1>3, <3>1, <3>2
  <2> QED BY <1>1, <2>1, <2>2 DEF TempFiles
<1>5. PictureInHand'
  BY <1>1 DEF PictureInHand
<1>6. StuckIsPast'
  BY <1>1, <1>2 DEF StuckIsPast
<1>7. StuckNotInUse'
  BY <1>1, <1>2 DEF StuckNotInUse
<1> QED BY <1>4, <1>5, <1>6, <1>7 DEF FilesInv

LEMMA FilesStep == RangeInv /\ FilesInv /\ [Next]_vars => FilesInv'
<1> SUFFICES ASSUME RangeInv, FilesInv, [Next]_vars PROVE FilesInv'
  OBVIOUS
<1>1. TypeOK /\ CoreInv
  BY RangeInvSplit DEF RangeInv, ChunkInv
<1>2. stack # << >> => n > 0
  BY <1>1, FrameFacts
<1>3. ASSUME phase = "counting" PROVE stack = << >>
  <2>1. n = 0
    BY <1>1, <1>3 DEF CoreInv, TextSoFar
  <2> QED BY <1>2, <2>1
<1>4. \A e : Err(e).kind = e /\ Ok(e).kind = "ok"
  BY DEF Err, Ok
<1>5. Err("other") # Pending /\ Err("too_large") # Pending /\ \A x : Ok(x) # Pending
  BY <1>4 DEF Pending
<1>6. CASE UNCHANGED vars
  <2>1. UNCHANGED <<phase, index, stack, result, files, stuck>>
    BY <1>6 DEF vars
  <2> QED BY <2>1 DEF FilesInv, TempFiles, PictureInHand, StuckIsPast, StuckNotInUse,
                      n, top
<1>7. ASSUME NEW p, Count(p) PROVE FilesInv'
  BY <1>3, <1>7, FilesOutside DEF Count
<1>8. CASE CountFails
  BY <1>3, <1>8, FilesOutside DEF CountFails
<1>9. CASE OpenRange
  BY <1>9, FilesOpen
<1>10. CASE Finish
  BY <1>10, FilesOutside DEF Finish
<1>11. ASSUME NEW step \in {"submit", "left", "right", "raster", "picture"},
              n > 0, Goto(step)
       PROVE  /\ n' = n /\ top' = stack'[n]
              /\ \A i \in 1 .. n : stack'[i].range = stack[i].range
              /\ \A i \in 1 .. n - 1 : stack'[i] = stack[i]
              /\ stack'[n].at = step
              /\ top'.range = top.range
              /\ top.at # "split" => \A i \in 1 .. n :
                   stack'[i].at # "split" => stack[i].at # "split"
  <2>1. /\ n' = n /\ top' = stack'[n]
        /\ \A i \in 1 .. n : stack'[i].range = stack[i].range
        /\ \A i \in 1 .. n - 1 : stack'[i] = stack[i]
        /\ stack'[n].at = step
    BY <1>1, <1>11, GotoFacts
  <2>2. n \in Nat /\ n \in 1 .. n /\ top = stack[n]
    BY <1>11, TopFacts
  <2>3. \A i \in 1 .. n : i \in 1 .. n - 1 \/ i = n
    BY <2>2
  <2> QED BY <2>1, <2>2, <2>3
<1>12. CASE WriteChunk
  <2>1. /\ n > 0 /\ result = Pending /\ top.at = "split" /\ Goto("submit")
        /\ files' = files \union {file} /\ UNCHANGED <<phase, index, stuck, result>>
    BY <1>2, <1>12 DEF WriteChunk, At
  <2> QED BY <1>11, <2>1, FilesWritten DEF Pending
<1>13. CASE WriteChunkFails
  <2>1. /\ n > 0 /\ result = Pending /\ top.at = "split" /\ UNCHANGED stack
        /\ files' \in {files, files \union {file}} /\ UNCHANGED <<phase, index, stuck>>
        /\ result'.kind # "ok"
    BY <1>2, <1>4, <1>13 DEF WriteChunkFails, At
  <2>2. n' = n /\ top' = stack'[n]
    BY <2>1 DEF n, top
  <2> QED BY <2>1, <2>2, FilesWritten
<1>14. ASSUME NEW answer, Submit(answer) PROVE FilesInv'
  <2>1. /\ n > 0 /\ result = Pending /\ top.at = "submit"
        /\ UNCHANGED <<stack, files, stuck, index, phase>>
    BY <1>2, <1>14 DEF Submit, At
  <2>2. n' = n /\ top' = top
    BY <2>1 DEF n, top
  <2> QED BY <2>1, <2>2, FilesKept
<1>15. CASE Bisect
  <2>1. /\ n > 0 /\ result = Pending /\ top.at = "submit"
        /\ UNCHANGED <<files, stuck, index, phase, result>>
    BY <1>2, <1>15 DEF Bisect, At
  <2> DEFINE r == top.range
             l == Left(r)
  <2>2. /\ page_count(r) > 1 /\ n' = n + 1 /\ top' = Frame(l) /\ stack'[n + 1] = Frame(l)
        /\ \A i \in 1 .. n : stack'[i].range = stack[i].range
        /\ \A i \in 1 .. n - 1 : stack'[i] = stack[i]
    BY <1>1, <1>15, BisectFacts
  <2>3. /\ n \in Nat /\ n \in 1 .. n /\ top = stack[n] /\ r \in PageRange
        /\ r.first \in Nat
    BY <2>1, TopFacts
  <2> HIDE DEF r
  <2>4. l.first = r.first /\ r.first <= l.last /\ l.last \in Nat
    BY <2>2, <2>3, SplitHalves, ChunkingAssumption
  <2> HIDE DEF l
  <2>5. Frame(l).range = l /\ Frame(l).at = "split"
    BY DEF Frame
  <2>6. \A i \in 1 .. n' : i \in 1 .. n - 1 \/ i = n \/ i = n + 1
    BY <2>2, <2>3
  <2>7. \A i \in 1 .. n : i \in 1 .. n'
    BY <2>2, <2>3
  <2>8. TempFiles'
    <3>1. ASSUME NEW i \in 1 .. n', stack'[i].at # "split"
          PROVE  Chunk(stack'[i].range) \in files
      <4>1. i \in 1 .. n /\ stack'[i].range = stack[i].range
        BY <2>2, <2>3, <2>5, <2>6, <3>1
      <4>2. stack[i].at # "split"
        BY <2>1, <2>2, <2>3, <2>6, <3>1, <4>1
      <4> QED BY <4>1, <4>2 DEF FilesInv, TempFiles
    <3>2. ASSUME NEW f \in files \ stuck
          PROVE  phase = "running" /\ \E i \in 1 .. n' : f.range = stack'[i].range
      <4>1. phase = "running" /\ \E i \in 1 .. n : f.range = stack[i].range
        BY DEF FilesInv, TempFiles
      <4> QED BY <2>2, <2>7, <4>1
    <3> QED BY <2>1, <3>1, <3>2 DEF FilesInv, TempFiles
  <2>9. PictureInHand'
    BY <2>1 DEF FilesInv, PictureInHand
  <2>10. \A f \in stuck : f.range.last < r.first
    BY <2>1 DEF FilesInv, StuckIsPast, r
  <2>11. StuckIsPast'
    BY <2>1, <2>2, <2>3, <2>4, <2>5, <2>10 DEF StuckIsPast, Pending
  <2>12. StuckNotInUse'
    <3>1. \A f \in stuck : f.range # l
      <4>1. \A f \in stuck : f.range.last \in Nat
        BY FileFacts
      <4> QED BY <2>3, <2>4, <2>10, <4>1
    <3>2. \A f \in stuck : f.kind = "pdf" => \A i \in 1 .. n : f.range # stack[i].range
      BY DEF FilesInv, StuckNotInUse
    <3> QED BY <2>1, <2>2, <2>3, <2>5, <2>6, <3>1, <3>2 DEF StuckNotInUse
  <2> QED BY <2>8, <2>9, <2>11, <2>12 DEF FilesInv
<1>16. CASE Rasterise
  <2>1. /\ n > 0 /\ result = Pending /\ top.at = "submit" /\ Goto("raster")
        /\ UNCHANGED <<files, stuck, index, phase, result>>
    BY <1>2, <1>16 DEF Rasterise, TooLargePage, At
  <2> QED BY <1>11, <2>1, FilesKept
<1>17. CASE WritePicture
  <2>1. /\ n > 0 /\ result = Pending /\ top.at = "raster" /\ Goto("picture")
        /\ files' = files \union {Picture(top.range)}
        /\ UNCHANGED <<phase, index, stuck, result>>
    BY <1>2, <1>17 DEF WritePicture, At
  <2> QED BY <1>11, <2>1, FilesWritten DEF Pending
<1>18. ASSUME NEW left_over \in {{}, {Picture(top.range)}}, WritePictureFails(left_over)
       PROVE  FilesInv'
  <2>1. /\ n > 0 /\ result = Pending /\ top.at = "raster" /\ result' = Err("other")
        /\ files' = files \union left_over /\ stuck' = stuck \union left_over
        /\ UNCHANGED <<phase, index, stack>>
    BY <1>2, <1>18 DEF WritePictureFails, At
  <2> QED BY <1>4, <1>5, <2>1, FilesPicture
<1>19. ASSUME NEW answer, NEW removed, SubmitPicture(answer, removed),
              answer # Pending, answer.kind # "pending"
       PROVE  FilesInv'
  <2>1. /\ n > 0 /\ result = Pending /\ top.at = "picture" /\ result' = answer
        /\ Finalize(Picture(top.range), removed)
        /\ UNCHANGED <<phase, index, stack>>
    BY <1>2, <1>19 DEF SubmitPicture, At
  <2> QED BY <1>19, <2>1, FilesPicture
<1>20. ASSUME NEW removed, PictureSucceeds(removed) \/ PictureFails(removed)
       PROVE  FilesInv'
  BY <1>4, <1>5, <1>19, <1>20 DEF PictureSucceeds, PictureFails
<1>21. ASSUME NEW removed, ReturnRight(removed) PROVE FilesInv'
  <2>1. /\ n > 1 /\ result.kind = "ok" /\ caller.at = "right" /\ Returns(removed)
        /\ stack' = callers /\ result' = Ok(caller.left \o result.text)
        /\ UNCHANGED <<phase, index>>
    BY <1>21 DEF ReturnRight, ReturnRightTo
  <2>2. page_count(caller.range) > 1 /\ top.range = Right(caller.range)
    BY <2>1, JoinedText
  <2>3. caller.range.last = top.range.last
    BY <2>2 DEF Right, Span
  <2>4. n # 1 /\ result'.kind = "ok" /\ result' # Pending
    BY <1>1, <1>4, <1>5, <2>1, FrameFacts
  <2> QED BY <2>1, <2>3, <2>4, FilesPop
<1>22. ASSUME NEW removed, ReturnError(removed) PROVE FilesInv'
  <2>1. /\ Returns(removed) /\ stack' = callers /\ result.kind # "ok" /\ result # Pending
        /\ UNCHANGED <<index, result>>
        /\ IF n = 1 THEN phase' = "failed" ELSE phase' = phase
    BY <1>22 DEF ReturnError, PropagateError, Returns
  <2> QED BY <2>1, FilesPop
<1>23. ASSUME NEW removed, ReturnPart(removed) \/ ReturnLeft(removed) PROVE FilesInv'
  BY <1>23, FilesReturnPart, FilesReturnLeft
<1> QED BY <1>6, <1>7, <1>8, <1>9, <1>10, <1>12, <1>13, <1>14, <1>15, <1>16, <1>17,
           <1>18, <1>20, <1>21, <1>22, <1>23 DEF Next, Done, SubmitSucceeds, SubmitFails

\* Temporary files: those a call needs exist; there are no others but stuck
\* ones, and none at all once the analysis is over, also after an error
\* (pdf_chunk.rs:73-126, finalize_chunk_path).
THEOREM FilesCleanedUp == Spec => []TempFiles
<1>1. Init => FilesInv
  <2> SUFFICES ASSUME Init PROVE FilesInv
    OBVIOUS
  <2>1. files = {} /\ stuck = {} /\ stack = << >>
    BY DEF Init
  <2>2. n = 0
    BY <2>1, EmptySeq DEF n
  <2> QED BY <2>1, <2>2 DEF FilesInv, TempFiles, PictureInHand, StuckIsPast, StuckNotInUse
<1>2. FilesInv /\ RangeInv /\ [Next]_vars => FilesInv'
  BY FilesStep
<1>3. FilesInv => TempFiles
  BY DEF FilesInv
<1> QED BY <1>1, <1>2, <1>3, RangeInvariant, PTL DEF Spec

-----------------------------------------------------------------------------
(* The cost.                                                               *)

LEMMA LeftsCount ==
  ASSUME NEW s, NEW i \in Nat \ {0}
  PROVE  /\ LeftsBelow(s, i) \in Nat /\ LeftsBelow(s, 1) = 0
         /\ LeftsBelow(s, i + 1) =
              LeftsBelow(s, i) + IF s[i].at = "left" THEN 1 ELSE 0
<1> DEFINE S(k) == {j \in 1 .. k - 1 : s[j].at = "left"}
<1>1. ASSUME NEW k \in Nat PROVE IsFiniteSet(S(k)) /\ Cardinality(S(k)) \in Nat
  <2>1. IsFiniteSet(1 .. k - 1)
    BY FS_Interval
  <2>2. IsFiniteSet(S(k))
    BY <2>1, FS_Subset
  <2> QED BY <2>2, FS_CardinalityType
<1>2. S(1) = {}
  OBVIOUS
<1>3. S(i + 1) = IF s[i].at = "left" THEN S(i) \union {i} ELSE S(i)
  <2>1. \A j : j \in 1 .. (i + 1) - 1 <=> j \in 1 .. i - 1 \/ j = i
    OBVIOUS
  <2> QED BY <2>1
<1>4. i \notin S(i)
  OBVIOUS
<1> HIDE DEF S
<1>5. Cardinality(S(i + 1)) = Cardinality(S(i)) + IF s[i].at = "left" THEN 1 ELSE 0
  <2>1. IsFiniteSet(S(i)) /\ Cardinality(S(i)) \in Nat
    BY <1>1
  <2>2. CASE s[i].at = "left"
    <3>1. Cardinality(S(i) \union {i}) = Cardinality(S(i)) + 1
      BY <1>4, <2>1, FS_AddElement
    <3> QED BY <1>3, <2>2, <3>1
  <2>3. CASE s[i].at # "left"
    BY <1>3, <2>1, <2>3
  <2> QED BY <2>2, <2>3
<1>6. Cardinality(S(1)) = 0 /\ Cardinality(S(i)) \in Nat
  BY <1>1, <1>2, FS_EmptySet
<1> QED BY <1>5, <1>6 DEF LeftsBelow, S

LEMMA LeftsSame ==
  ASSUME NEW s, NEW t, NEW i \in Nat, \A j \in 1 .. i - 1 : s[j].at = t[j].at
  PROVE  LeftsBelow(s, i) = LeftsBelow(t, i)
<1>1. {j \in 1 .. i - 1 : s[j].at = "left"} = {j \in 1 .. i - 1 : t[j].at = "left"}
  OBVIOUS
<1> QED BY <1>1 DEF LeftsBelow

\* There are no more initial ranges than pages.
LEMMA ChunksAtMost ==
  ASSUME NEW p \in Nat
  PROVE  (p + ChunkSize - 1) \div ChunkSize <= p
<1> DEFINE d == ChunkSize
           q == (p + d - 1) \div d
<1>1. d \in Nat /\ d >= 1 /\ p + d - 1 \in Nat
  BY ChunkingAssumption
<1>2. q \in Nat /\ q * d <= p + d - 1
  BY <1>1, ChunkingAssumption, DivisionBounds
<1> HIDE DEF q, d
<1>3. ASSUME q = 0 PROVE q <= p
  BY <1>3
<1>4. ASSUME q # 0 PROVE q <= p
  <2> DEFINE k == q - 1
  <2>1. k \in Nat /\ q = k + 1
    BY <1>2, <1>4
  <2> HIDE DEF k
  <2>2. q * d = k * d + d /\ k * d \in Nat /\ k <= k * d
    BY <1>1, <2>1
  <2> QED BY <1>1, <1>2, <2>1, <2>2
<1> QED BY <1>3, <1>4 DEF q, d

\* If the range in hand costs at most three calls a page but one, so does the
\* document: what is paid in advance for calls further down is made up by the
\* pages of theirs that are still to come.
LEMMA WithinBound ==
  ASSUME RangeInv, n > 0, NEW k \in Int,
         k <= 3 * (top.range.first - 1) - index + LeftsBelow(stack, n)
                + (3 * page_count(top.range) - 1),
         LeftsBelow(stack, n) + top.range.last <= LastPage(index)
  PROVE  pages # 0 /\ k <= 3 * pages - chunk_count
<1> DEFINE L == LeftsBelow(stack, n)
           l == LastPage(index)
           a == top.range.first
           b == top.range.last
<1>1. /\ a \in Nat /\ b \in Nat /\ page_count(top.range) = b - a + 1
      /\ index \in Nat /\ index < chunk_count /\ pages \in Nat /\ a <= b /\ b <= l
      /\ index * ChunkSize \in Nat /\ index * ChunkSize < a
  <2>1. /\ a \in 1 .. MaxPages /\ b \in 1 .. MaxPages
        /\ page_count(top.range) = b - a + 1
        /\ index \in Nat /\ index < chunk_count /\ pages \in Nat /\ a <= b /\ b <= l
        /\ index * ChunkSize \in Nat /\ index * ChunkSize < a
    BY TopFacts
  <2> HIDE DEF a, b, l
  <2> QED BY <2>1, ChunkingAssumption
<1>2. l \in Nat /\ l <= pages /\ chunk_count - (index + 1) <= pages - l
  BY <1>1, InitialRanges
<1>3. L \in Nat
  BY LeftsCount, TopFacts
<1>4. chunk_count \in Nat
  BY <1>1, ChunkCount
<1>5. k <= 3 * (a - 1) - index + L + (3 * (b - a + 1) - 1) /\ L + b <= l
  BY <1>1
<1> HIDE DEF L, l, a, b
<1> QED BY <1>1, <1>2, <1>3, <1>4, <1>5

\* Whatever the call in hand submits next is within the bound.
LEMMA CallAffordable ==
  ASSUME RangeInv, CostInv, n > 0, result = Pending
  PROVE  pages # 0 /\ calls \in Nat /\ calls + 1 <= 3 * pages - chunk_count
<1>1. /\ n \in Nat /\ n \in 1 .. n /\ top = stack[n]
      /\ page_count(top.range) \in Nat \ {0}
      /\ top.range.first \in Nat /\ index \in Nat
  BY TopFacts, ChunkingAssumption
<1>2. calls \in Nat /\ LeftsBelow(stack, n) \in Nat
  BY <1>1, LeftsCount DEF RangeInv, ChunkInv, TypeOK
<1>3. calls <= 3 * (top.range.first - 1) - index + LeftsBelow(stack, n) + Cost
  BY DEF CostInv, Paid, Pending
<1>4. Cost \in Int /\ Cost + 1 <= 3 * page_count(top.range) - 1
  <2>1. CASE top.at \in {"raster", "picture"}
    BY <1>1, <2>1 DEF Cost, CostInv, SinglePage
  <2>2. CASE top.at \notin {"raster", "picture"}
    BY <1>1, <2>2 DEF Cost
  <2> QED BY <2>1, <2>2
<1>5. calls + 1 <= 3 * (top.range.first - 1) - index + LeftsBelow(stack, n)
                    + (3 * page_count(top.range) - 1)
  BY <1>1, <1>2, <1>3, <1>4
<1>6. LeftsBelow(stack, n) + top.range.last <= LastPage(index)
  BY <1>1 DEF CostInv, Paid
<1> QED BY <1>2, <1>5, <1>6, WithinBound

\* A step that adds no call, or one that the range in hand may still cost.
LEMMA BoundStep ==
  ASSUME RangeInv, CostInv, UNCHANGED pages,
         \/ UNCHANGED calls
         \/ n > 0 /\ result = Pending /\ calls' = calls + 1
  PROVE  SubmissionsBounded'
<1>1. chunk_count' = chunk_count
  BY DEF chunk_count
<1>2. CASE UNCHANGED calls
  BY <1>1, <1>2 DEF CostInv, SubmissionsBounded
<1>3. CASE n > 0 /\ result = Pending /\ calls' = calls + 1
  BY <1>1, <1>3, CallAffordable DEF SubmissionsBounded
<1> QED BY <1>2, <1>3

\* A step in the call in hand: another call perhaps, which the range may cost.
LEMMA CostInHand ==
  ASSUME RangeInv, CostInv, n > 0, result = Pending,
         UNCHANGED <<phase, pages, index>>, n' = n,
         \A i \in 1 .. n : stack'[i].range = stack[i].range,
         \A i \in 1 .. n - 1 : stack'[i] = stack[i],
         top' = stack'[n],
         calls' \in {calls, calls + 1},
         top'.at \in {"raster", "picture"} => page_count(top.range) = 1,
         result'.kind \in {"pending", "ok"} => calls' + Cost <= calls + Cost'
  PROVE  CostInv'
<1>1. /\ n \in Nat \ {0} /\ n \in 1 .. n /\ top = stack[n] /\ phase = "running"
      /\ page_count(top.range) \in Nat \ {0}
      /\ top.range.first \in Nat /\ index \in Nat /\ calls \in Nat
  BY TopFacts, ChunkingAssumption DEF RangeInv, ChunkInv, TypeOK
<1>2. top'.range = top.range
  BY <1>1
<1>3. SubmissionsBounded'
  BY BoundStep
<1>4. SinglePage'
  BY <1>2 DEF SinglePage
<1>5. ASSUME NEW i \in 1 .. n PROVE LeftsBelow(stack', i) = LeftsBelow(stack, i)
  <2>1. i \in Nat /\ \A j \in 1 .. i - 1 : stack'[j].at = stack[j].at
    BY <1>1
  <2> QED BY <2>1, LeftsSame
<1>6. \A i \in 1 .. n' : LeftsBelow(stack', i) + stack'[i].range.last <= LastPage(index)'
  BY <1>5, SameRanges DEF CostInv, Paid
<1>7. ASSUME result'.kind \in {"pending", "ok"}
      PROVE  calls' <= 3 * (top'.range.first - 1) - index + LeftsBelow(stack', n) + Cost'
  <2> DEFINE c == Cost
             d == Cost'
             L == LeftsBelow(stack, n)
             k == calls'
  <2>1. calls <= 3 * (top.range.first - 1) - index + L + c
    BY <1>1 DEF CostInv, Paid, Pending
  <2>2. c \in Int /\ d \in Int /\ L \in Nat /\ k \in Nat
    <3>1. c \in Int
      BY <1>1 DEF Cost
    <3>2. d \in Int
      BY <1>1, <1>2 DEF Cost
    <3> QED BY <1>1, <3>1, <3>2, LeftsCount
  <2>3. k + c <= calls + d
    BY <1>7
  <2>4. LeftsBelow(stack', n) = L
    BY <1>1, <1>5
  <2> HIDE DEF c, d, L, k
  <2>5. k <= 3 * (top.range.first - 1) - index + L + d
    BY <1>1, <2>1, <2>2, <2>3
  <2> QED BY <1>2, <2>4, <2>5 DEF d, k
<1>8. Paid'
  BY <1>1, <1>6, <1>7 DEF Paid
<1> QED BY <1>3, <1>4, <1>8 DEF CostInv

LEMMA CostOutside ==
  ASSUME RangeInv, CostInv, n = 0, n' = 0, UNCHANGED <<index, calls>>,
         \/ phase' \in {"failed", "succeeded"} /\ UNCHANGED pages
         \/ phase = "counting" /\ phase' = "running" /\ pages' \in 1 .. MaxPages
  PROVE  CostInv'
<1>1. SinglePage'
  BY DEF SinglePage
<1>2. CASE phase' \in {"failed", "succeeded"} /\ UNCHANGED pages
  <2>1. Paid'
    BY <1>2 DEF Paid
  <2> QED BY <1>1, <1>2, <2>1, BoundStep DEF CostInv
<1>3. CASE phase = "counting" /\ phase' = "running" /\ pages' \in 1 .. MaxPages
  <2>1. calls = 0 /\ index = 0 /\ pages' \in Nat
    BY <1>3, ChunkingAssumption DEF CostInv, Paid, RangeInv, ChunkInv, TextSoFar
  <2>2. 0 * ChunkSize = 0
    BY ChunkingAssumption
  <2>3. (pages' + ChunkSize - 1) \div ChunkSize <= pages'
        /\ (pages' + ChunkSize - 1) \div ChunkSize \in Nat
    BY <2>1, ChunksAtMost, CountIsNat
  <2>4. SubmissionsBounded'
    <3> DEFINE p == pages'
               c == (pages' + ChunkSize - 1) \div ChunkSize
    <3>1. p \in Nat /\ c \in Nat /\ c <= p
      BY <2>1, <2>3
    <3> HIDE DEF p, c
    <3>2. 0 <= 3 * p - (IF p = 0 THEN 0 ELSE c)
      BY <3>1
    <3> QED BY <2>1, <3>2 DEF SubmissionsBounded, chunk_count, p, c
  <2>5. Paid'
    <3>1. (IF index' * ChunkSize < pages' THEN index' * ChunkSize ELSE pages') = 0
      BY <1>3, <2>1, <2>2, ChunkingAssumption
    <3> DEFINE m == IF index' * ChunkSize < pages' THEN index' * ChunkSize
                                                  ELSE pages'
    <3>a. m = 0 /\ calls' = 0 /\ index' = 0
      BY <2>1, <3>1
    <3>b. calls' <= 3 * m - index'
      <4> HIDE DEF m
      <4> QED BY <3>a
    <3>2. calls' <= 3 * (IF index' * ChunkSize < pages' THEN index' * ChunkSize
                                                        ELSE pages') - index'
      BY <3>b
    <3>3. phase' # "counting" /\ ~(n' > 0) /\ 1 .. n' = {}
      BY <1>3
    <3> QED BY <3>2, <3>3 DEF Paid
  <2> QED BY <1>1, <2>4, <2>5 DEF CostInv
<1> QED BY <1>2, <1>3

LEMMA CostOpen ==
  ASSUME RangeInv, CostInv, OpenRange
  PROVE  CostInv'
<1> DEFINE r == InitialRange(index)
           x == index * ChunkSize
<1>1. /\ stack = << >> /\ index < chunk_count /\ phase = "running"
      /\ UNCHANGED <<phase, pages, index, result, calls>>
  BY DEF OpenRange
<1>2. n = 0
  BY <1>1, EmptySeq DEF n
<1>3. /\ index \in Nat /\ pages \in Nat /\ calls \in Nat /\ result = Pending
  BY <1>1, <1>2, ChunkingAssumption DEF RangeInv, ChunkInv, TypeOK, Stops
<1>4. /\ x \in Nat /\ x < pages /\ r.first = x + 1 /\ r.last = LastPage(index)
      /\ LastPage(index) \in Nat
  BY <1>1, <1>3, InitialRanges
<1>5. /\ n' = 1 /\ top' = stack'[1] /\ stack'[1].range = r /\ stack'[1].at = "split"
  BY OpenStep DEF Frame
<1>6. calls <= 3 * x - index
  BY <1>1, <1>2, <1>4 DEF CostInv, Paid
<1> HIDE DEF r, x
<1>7. LeftsBelow(stack', 1) = 0
  BY LeftsCount
<1>8. Cost' = 0
  BY <1>1, <1>3, <1>5 DEF Cost
<1>9. Paid'
  <2>1. calls' <= 3 * (top'.range.first - 1) - index' + LeftsBelow(stack', n') + Cost'
    BY <1>1, <1>3, <1>4, <1>5, <1>6, <1>7, <1>8
  <2>2. \A i \in 1 .. n' : LeftsBelow(stack', i) + stack'[i].range.last <= LastPage(index)'
    BY <1>1, <1>4, <1>5, <1>7, SameRanges
  <2> QED BY <1>1, <1>5, <2>1, <2>2 DEF Paid
<1>10. SubmissionsBounded'
  BY <1>1, BoundStep
<1>11. SinglePage'
  BY <1>5 DEF SinglePage
<1> QED BY <1>9, <1>10, <1>11 DEF CostInv

LEMMA CostBisect ==
  ASSUME RangeInv, CostInv, Bisect
  PROVE  CostInv'
<1> DEFINE r == top.range
           l == Left(r)
           L == LeftsBelow(stack, n)
<1>1. /\ n > 0 /\ result = Pending /\ top.at = "submit" /\ calls' = calls + 1
      /\ UNCHANGED <<phase, pages, index, result>>
  BY FrameFacts DEF Bisect, At, RangeInv, ChunkInv
<1>2. /\ page_count(r) > 1 /\ n' = n + 1 /\ top' = Frame(l) /\ stack'[n + 1] = Frame(l)
      /\ \A i \in 1 .. n : stack'[i].range = stack[i].range
      /\ \A i \in 1 .. n - 1 : stack'[i] = stack[i]
      /\ stack'[n].at = "left"
  BY BisectFacts DEF RangeInv, ChunkInv
<1>3. /\ n \in Nat \ {0} /\ n \in 1 .. n /\ top = stack[n] /\ r \in PageRange
      /\ r.first \in Nat /\ r.last \in Nat /\ index \in Nat /\ calls \in Nat
      /\ phase = "running" /\ index < chunk_count /\ pages \in Nat
  <2>1. /\ n \in Nat /\ n \in 1 .. n /\ top = stack[n] /\ r \in PageRange
        /\ r.first \in 1 .. MaxPages /\ r.last \in 1 .. MaxPages /\ index \in Nat
        /\ phase = "running" /\ index < chunk_count /\ pages \in Nat
    BY <1>1, TopFacts
  <2>2. calls \in Nat
    BY DEF RangeInv, ChunkInv, TypeOK
  <2> QED BY <1>1, <2>1, <2>2, ChunkingAssumption
<1>4. LastPage(index) \in Nat
  BY <1>3, InitialRanges
<1> HIDE DEF r
<1>5. l.first = r.first /\ l.last < r.last /\ l.last \in Nat
  BY <1>2, <1>3, SplitHalves, ChunkingAssumption
<1> HIDE DEF l
<1>6. Frame(l).range = l /\ Frame(l).at = "split"
  BY DEF Frame
<1>7. ASSUME NEW i \in 1 .. n PROVE LeftsBelow(stack', i) = LeftsBelow(stack, i)
  <2>1. i \in Nat /\ \A j \in 1 .. i - 1 : stack'[j].at = stack[j].at
    BY <1>2, <1>3
  <2> QED BY <2>1, LeftsSame
<1>8. L \in Nat /\ LeftsBelow(stack', n + 1) = L + 1
  BY <1>2, <1>3, <1>7, LeftsCount
<1>9. Cost = 0 /\ Cost' = 0
  BY <1>1, <1>2, <1>6 DEF Cost
<1>10. calls <= 3 * (r.first - 1) - index + L + Cost
  BY <1>1 DEF CostInv, Paid, Pending, r
<1>11. L + r.last <= LastPage(index)
  BY <1>3 DEF CostInv, Paid, r
<1> HIDE DEF L
<1>12. Paid'
  <2>1. calls' <= 3 * (top'.range.first - 1) - index' + LeftsBelow(stack', n') + Cost'
    BY <1>1, <1>2, <1>3, <1>5, <1>6, <1>8, <1>9, <1>10
  <2>2. ASSUME NEW i \in 1 .. n + 1
        PROVE  LeftsBelow(stack', i) + stack'[i].range.last <= LastPage(index)
    <3>1. CASE i \in 1 .. n
      BY <1>2, <1>7, <3>1 DEF CostInv, Paid
    <3>2. CASE i = n + 1
      BY <1>2, <1>3, <1>4, <1>5, <1>6, <1>8, <1>11, <3>2
    <3> QED BY <1>3, <3>1, <3>2
  <2>3. n' > 0
    BY <1>2, <1>3
  <2> QED BY <1>1, <1>2, <1>3, <2>1, <2>2, <2>3, SameRanges DEF Paid
<1>13. SubmissionsBounded'
  BY <1>1, BoundStep
<1>14. SinglePage'
  BY <1>2, <1>6 DEF SinglePage
<1> QED BY <1>12, <1>13, <1>14 DEF CostInv

LEMMA CostReturnPart ==
  ASSUME RangeInv, CostInv, NEW removed, ReturnPart(removed)
  PROVE  CostInv'
<1>1. /\ n = 1 /\ result.kind = "ok" /\ index' = index + 1 /\ phase = "running"
      /\ result' = Pending /\ UNCHANGED <<phase, pages, calls>>
  BY DEF ReturnPart, Returns
<1>2. n' = 0 /\ n > 0
  BY <1>1, PartStep
<1> DEFINE a == top.range.first
           b == top.range.last
           l == LastPage(index)
           x == index * ChunkSize
<1>3. /\ index \in Nat /\ index < chunk_count /\ pages \in Nat /\ calls \in Nat
      /\ page_count(top.range) = b - a + 1 /\ top = stack[1]
  BY <1>1, <1>2, TopFacts, ChunkingAssumption DEF RangeInv, ChunkInv, TypeOK
<1>4. stack[1].range = InitialRange(index)
  BY <1>2 DEF RangeInv, ChunkInv, Descent
<1>5. /\ x \in Nat /\ l \in Nat /\ a = x + 1 /\ b = l
      /\ l = IF (index + 1) * ChunkSize < pages THEN (index + 1) * ChunkSize ELSE pages
  BY <1>3, <1>4, InitialRanges
<1>6. calls <= 3 * (a - 1) - index + LeftsBelow(stack, 1) + (3 * (b - a + 1) - 1)
  BY <1>1, <1>2, <1>3 DEF CostInv, Paid, Cost, Pending
<1>7. LeftsBelow(stack, 1) = 0
  BY LeftsCount
<1> HIDE DEF a, b, l, x
<1>8. calls <= 3 * l - (index + 1)
  BY <1>3, <1>5, <1>6, <1>7
<1>9. Paid'
  <2>1. calls' <= 3 * (IF index' * ChunkSize < pages' THEN index' * ChunkSize
                                                      ELSE pages') - index'
    BY <1>1, <1>5, <1>8
  <2>2. phase' # "counting" /\ ~(n' > 0) /\ 1 .. n' = {}
    BY <1>1, <1>2
  <2> QED BY <2>1, <2>2 DEF Paid
<1>10. SubmissionsBounded'
  BY <1>1, BoundStep
<1>11. SinglePage'
  BY <1>2 DEF SinglePage
<1> QED BY <1>9, <1>10, <1>11 DEF CostInv

LEMMA CostReturnLeft ==
  ASSUME RangeInv, CostInv, NEW removed, ReturnLeft(removed)
  PROVE  CostInv'
<1> DEFINE r == caller.range
           g == Right(r)
           L == LeftsBelow(stack, n - 1)
<1>1. /\ n > 1 /\ n > 0 /\ n \in Nat /\ result.kind = "ok" /\ caller.at = "left"
      /\ result' = Pending /\ UNCHANGED <<phase, pages, index, calls>>
  BY FrameFacts DEF ReturnLeft, Returns, RangeInv, ChunkInv
<1>2. page_count(r) > 1 /\ top.range = Left(r)
  BY ReturnLeftStep
<1>3. /\ n' = n /\ top' = Frame(g) /\ stack'[n] = Frame(g)
      /\ \A i \in 1 .. n - 1 : stack'[i].range = stack[i].range
      /\ \A i \in 1 .. n - 2 : stack'[i] = stack[i]
      /\ stack'[n - 1].at = "right"
  BY <1>2, ReturnLeftFacts DEF RangeInv, ChunkInv
<1>4. /\ caller = stack[n - 1] /\ n - 1 \in 1 .. n /\ n - 1 \in 1 .. n - 1
      /\ n - 1 \in Nat \ {0} /\ (n - 1) + 1 = n
  BY <1>1 DEF caller
<1>5. r \in PageRange /\ r.last \in Nat
  BY <1>4, FrameFacts DEF RangeInv, ChunkInv
<1>6. /\ top.range.first \in Nat /\ top.range.last \in Nat /\ index \in Nat
      /\ calls \in Nat /\ phase = "running"
      /\ page_count(top.range) = top.range.last - top.range.first + 1
  <2>1. /\ top.range.first \in 1 .. MaxPages /\ top.range.last \in 1 .. MaxPages
        /\ index \in Nat /\ phase = "running"
        /\ page_count(top.range) = top.range.last - top.range.first + 1
    BY <1>1, TopFacts
  <2>2. calls \in Nat
    BY DEF RangeInv, ChunkInv, TypeOK
  <2> QED BY <2>1, <2>2, ChunkingAssumption
<1> HIDE DEF r
<1>7. g.first = top.range.last + 1 /\ g.last = r.last
  BY <1>2, <1>5, SplitHalves
<1> HIDE DEF g
<1>8. Frame(g).range = g /\ Frame(g).at = "split"
  BY DEF Frame
<1>9. ASSUME NEW i \in 1 .. n - 1 PROVE LeftsBelow(stack', i) = LeftsBelow(stack, i)
  <2>1. i \in Nat /\ \A j \in 1 .. i - 1 : stack'[j].at = stack[j].at
    BY <1>1, <1>3
  <2> QED BY <2>1, LeftsSame
<1>10. L \in Nat /\ LeftsBelow(stack, n) = L + 1
  <2>1. LeftsBelow(stack, (n - 1) + 1)
          = LeftsBelow(stack, n - 1) + IF stack[n - 1].at = "left" THEN 1 ELSE 0
    BY <1>4, LeftsCount
  <2>2. L \in Nat
    BY <1>4, LeftsCount
  <2> QED BY <1>1, <1>4, <2>1, <2>2
<1>11. LeftsBelow(stack', n) = L
  <2>1. LeftsBelow(stack', (n - 1) + 1)
          = LeftsBelow(stack', n - 1) + IF stack'[n - 1].at = "left" THEN 1 ELSE 0
    BY <1>4, LeftsCount
  <2> QED BY <1>3, <1>4, <1>9, <1>10, <2>1
<1>12. calls <= 3 * (top.range.first - 1) - index + LeftsBelow(stack, n)
                 + (3 * page_count(top.range) - 1)
  BY <1>1 DEF CostInv, Paid, Cost, Pending
<1>13. L + r.last <= LastPage(index)
  BY <1>4 DEF CostInv, Paid, r
<1> HIDE DEF L
<1>14. Cost' = 0
  BY <1>1, <1>3, <1>8 DEF Cost
<1>15. Paid'
  <2>1. calls' <= 3 * (top'.range.first - 1) - index' + LeftsBelow(stack', n') + Cost'
    BY <1>1, <1>3, <1>6, <1>7, <1>8, <1>10, <1>11, <1>12, <1>14
  <2>2. ASSUME NEW i \in 1 .. n
        PROVE  LeftsBelow(stack', i) + stack'[i].range.last <= LastPage(index)
    <3>1. CASE i \in 1 .. n - 1
      BY <1>1, <1>3, <1>9, <3>1 DEF CostInv, Paid
    <3>2. CASE i = n
      BY <1>3, <1>7, <1>8, <1>11, <1>13, <3>2
    <3> QED BY <1>1, <3>1, <3>2
  <2> QED BY <1>1, <1>3, <1>6, <2>1, <2>2, SameRanges DEF Paid
<1>16. SubmissionsBounded'
  BY <1>1, BoundStep
<1>17. SinglePage'
  BY <1>3, <1>8 DEF SinglePage
<1> QED BY <1>15, <1>16, <1>17 DEF CostInv

LEMMA CostPop ==
  ASSUME RangeInv, CostInv, n > 0, stack' = callers, result' # Pending,
         UNCHANGED <<index, pages, calls>>,
         IF n = 1 THEN phase' = "failed" ELSE phase' = phase,
         result'.kind \in {"pending", "ok"} =>
           n > 1 /\ result.kind = "ok" /\ caller.at = "right"
  PROVE  CostInv'
<1>1. /\ n' = n - 1 /\ n' \in Nat /\ n \in Nat
      /\ n' > 0 => top' = caller
      /\ \A i \in 1 .. n - 1 : stack'[i] = stack[i]
  BY PopFacts, FrameFacts DEF RangeInv, ChunkInv
<1>2. ASSUME NEW i \in 1 .. n - 1 PROVE LeftsBelow(stack', i) = LeftsBelow(stack, i)
  <2>1. i \in Nat /\ \A j \in 1 .. i - 1 : stack'[j].at = stack[j].at
    BY <1>1
  <2> QED BY <2>1, LeftsSame
<1>3. SubmissionsBounded'
  BY BoundStep
<1>4. SinglePage'
  <2> SUFFICES ASSUME n' > 0 PROVE caller.at \notin {"raster", "picture"}
    BY <1>1 DEF SinglePage
  <2>1. n - 1 \in 1 .. n - 1
    BY <1>1
  <2> QED BY <2>1 DEF caller, RangeInv, ChunkInv, Descent
<1>5. ASSUME result'.kind \in {"pending", "ok"}
      PROVE  calls <= 3 * (caller.range.first - 1) - index + LeftsBelow(stack', n - 1)
                       + (3 * page_count(caller.range) - 1)
  <2> DEFINE r == caller.range
             L == LeftsBelow(stack, n - 1)
  <2>1. n > 1 /\ result.kind = "ok" /\ caller.at = "right"
    BY <1>5
  <2>2. /\ caller = stack[n - 1] /\ n - 1 \in 1 .. n - 1 /\ n - 1 \in Nat \ {0}
        /\ (n - 1) + 1 = n /\ n - 1 \in 1 .. n
    BY <1>1, <2>1 DEF caller
  <2>3. page_count(r) > 1 /\ top.range = Right(r)
    BY <2>1, JoinedText
  <2>4. /\ r \in PageRange /\ r.last \in Nat /\ r.first \in Nat
        /\ page_count(r) = r.last - r.first + 1
    BY <2>2, FrameFacts DEF RangeInv, ChunkInv, page_count
  <2>5. /\ top.range.first \in Nat /\ top.range.last \in Nat /\ index \in Nat
        /\ calls \in Nat
        /\ page_count(top.range) = top.range.last - top.range.first + 1
    BY TopFacts, ChunkingAssumption DEF RangeInv, ChunkInv, TypeOK
  <2>6. L \in Nat /\ LeftsBelow(stack, n) = L /\ LeftsBelow(stack', n - 1) = L
    <3>1. LeftsBelow(stack, (n - 1) + 1)
            = LeftsBelow(stack, n - 1) + IF stack[n - 1].at = "left" THEN 1 ELSE 0
      BY <2>2, LeftsCount
    <3>2. L \in Nat
      BY <2>2, LeftsCount
    <3>3. LeftsBelow(stack', n - 1) = L
      BY <1>2, <2>2
    <3> QED BY <2>1, <2>2, <3>1, <3>2, <3>3
  <2>7. calls <= 3 * (top.range.first - 1) - index + LeftsBelow(stack, n)
                  + (3 * page_count(top.range) - 1)
    BY <2>1 DEF CostInv, Paid, Cost, Pending
  <2> HIDE DEF r, L
  <2>8. top.range.last = r.last
    BY <2>3, <2>4, SplitHalves
  <2> QED BY <2>4, <2>5, <2>6, <2>7, <2>8 DEF r
<1>6. \A i \in 1 .. n' : LeftsBelow(stack', i) + stack'[i].range.last <= LastPage(index)
  <2>1. \A i \in 1 .. n' : i \in 1 .. n /\ i \in 1 .. n - 1
    BY <1>1
  <2> QED BY <1>1, <1>2, <2>1 DEF CostInv, Paid
<1>7. Paid'
  <2>1. ASSUME n' > 0, result'.kind \in {"pending", "ok"}
        PROVE  calls' <= 3 * (top'.range.first - 1) - index' + LeftsBelow(stack', n') + Cost'
    <3>1. Cost' = 3 * page_count(caller.range) - 1
      BY <1>1, <2>1 DEF Cost
    <3> QED BY <1>1, <1>5, <2>1, <3>1
  <2>2. phase' # "counting" /\ ~(phase' = "running" /\ n' = 0)
    <3>1. phase = "running"
      BY TopFacts
    <3> QED BY <1>1, <3>1
  <2> QED BY <1>6, <2>1, <2>2, SameRanges DEF Paid
<1> QED BY <1>3, <1>4, <1>7 DEF CostInv

LEMMA CostStep == RangeInv /\ CostInv /\ [Next]_vars => CostInv'
<1> SUFFICES ASSUME RangeInv, CostInv, [Next]_vars PROVE CostInv'
  OBVIOUS
<1>1. TypeOK /\ CoreInv
  BY RangeInvSplit DEF RangeInv, ChunkInv
<1>2. stack # << >> => n > 0
  BY <1>1, FrameFacts
<1>3. stack = << >> => n = 0
  BY EmptySeq DEF n
<1>4. \A e : Err(e).kind = e /\ Ok(e).kind = "ok"
  BY DEF Err, Ok
<1>5. \A x : Ok(x) # Pending
  BY <1>4 DEF Pending
<1>6. calls \in Nat
  BY <1>1 DEF TypeOK
<1>7. ASSUME n > 0
      PROVE  /\ n \in Nat /\ n \in 1 .. n /\ top = stack[n]
             /\ page_count(top.range) \in Nat \ {0}
             /\ Cost \in Int
  <2>1. /\ n \in Nat /\ n \in 1 .. n /\ top = stack[n]
        /\ page_count(top.range) \in Nat \ {0}
    BY <1>7, TopFacts
  <2> QED BY <2>1 DEF Cost
<1>8. CASE UNCHANGED vars
  <2>1. UNCHANGED <<phase, pages, index, stack, result, calls>>
    BY <1>8 DEF vars
  <2>2. n' = n /\ top' = top
    BY <2>1 DEF n, top
  <2> QED BY <2>1, <2>2, SameRanges DEF CostInv, SubmissionsBounded, SinglePage, Paid, Cost
<1>9. ASSUME NEW p \in 1 .. MaxPages, Count(p) PROVE CostInv'
  <2>1. n = 0 /\ UNCHANGED stack
    BY <1>1, <1>9 DEF CoreInv, TextSoFar, Count
  <2>2. n' = 0
    BY <2>1 DEF n
  <2> QED BY <1>9, <2>1, <2>2, CostOutside DEF Count
<1>10. CASE CountFails
  <2>1. n = 0 /\ UNCHANGED stack
    BY <1>1, <1>10 DEF CoreInv, TextSoFar, CountFails
  <2>2. n' = 0
    BY <2>1 DEF n
  <2> QED BY <1>10, <2>1, <2>2, CostOutside DEF CountFails
<1>11. CASE OpenRange
  BY <1>11, CostOpen
<1>12. CASE Finish
  <2>1. n = 0 /\ UNCHANGED stack
    BY <1>3, <1>12 DEF Finish
  <2>2. n' = 0
    BY <2>1 DEF n
  <2> QED BY <1>12, <2>1, <2>2, CostOutside DEF Finish
\* The steps that move the call in hand on.
<1>13. ASSUME NEW step \in {"submit", "left", "right", "raster", "picture"},
              n > 0, Goto(step)
       PROVE  /\ n' = n /\ top' = stack'[n] /\ top'.at = step
              /\ \A i \in 1 .. n : stack'[i].range = stack[i].range
              /\ \A i \in 1 .. n - 1 : stack'[i] = stack[i]
  BY <1>1, <1>13, GotoFacts
<1>14. CASE WriteChunk
  <2>1. /\ n > 0 /\ result = Pending /\ top.at = "split" /\ Goto("submit")
        /\ UNCHANGED <<phase, pages, index, result, calls>>
    BY <1>2, <1>14 DEF WriteChunk, At
  <2>2. /\ n' = n /\ top' = stack'[n] /\ top'.at = "submit"
        /\ \A i \in 1 .. n : stack'[i].range = stack[i].range
        /\ \A i \in 1 .. n - 1 : stack'[i] = stack[i]
    BY <1>13, <2>1
  <2>3. Cost = 0 /\ Cost' = 0
    BY <2>1, <2>2 DEF Cost
  <2> QED BY <1>6, <2>1, <2>2, <2>3, CostInHand
<1>15. CASE Rasterise
  <2>1. /\ n > 0 /\ result = Pending /\ top.at = "submit" /\ Goto("raster")
        /\ page_count(top.range) = 1 /\ calls' = calls + 1
        /\ UNCHANGED <<phase, pages, index, result>>
    BY <1>2, <1>15 DEF Rasterise, TooLargePage, At
  <2>2. /\ n' = n /\ top' = stack'[n] /\ top'.at = "raster"
        /\ \A i \in 1 .. n : stack'[i].range = stack[i].range
        /\ \A i \in 1 .. n - 1 : stack'[i] = stack[i]
    BY <1>13, <2>1
  <2>3. Cost = 0 /\ Cost' = 1
    BY <2>1, <2>2 DEF Cost
  <2> QED BY <1>6, <2>1, <2>2, <2>3, CostInHand
<1>16. CASE WritePicture
  <2>1. /\ n > 0 /\ result = Pending /\ top.at = "raster" /\ Goto("picture")
        /\ UNCHANGED <<phase, pages, index, result, calls>>
    BY <1>2, <1>16 DEF WritePicture, At
  <2>2. /\ n' = n /\ top' = stack'[n] /\ top'.at = "picture"
        /\ \A i \in 1 .. n : stack'[i].range = stack[i].range
        /\ \A i \in 1 .. n - 1 : stack'[i] = stack[i]
    BY <1>13, <2>1
  <2>3. Cost = 1 /\ Cost' = 1
    BY <2>1, <2>2 DEF Cost
  <2>4. page_count(top.range) = 1
    BY <2>1 DEF CostInv, SinglePage
  <2> QED BY <1>6, <2>1, <2>2, <2>3, <2>4, CostInHand
\* The steps that give it its result.
<1>17. ASSUME n > 0, result = Pending, UNCHANGED <<phase, pages, index, stack>>,
              calls' \in {calls, calls + 1}, result' # Pending,
              \/ result'.kind \notin {"pending", "ok"}
              \/ top.at \in {"submit", "picture"}
       PROVE  CostInv'
  <2>1. n' = n /\ top' = stack'[n] /\ top' = top
    BY <1>7, <1>17 DEF n, top
  <2>2. top.at \in {"raster", "picture"} => page_count(top.range) = 1
    BY <1>17 DEF CostInv, SinglePage
  <2>3. result'.kind \in {"pending", "ok"} => calls' + Cost <= calls + Cost'
    <3> SUFFICES ASSUME top.at \in {"submit", "picture"}
                 PROVE  calls' + Cost <= calls + Cost'
      BY <1>17
    <3>1. Cost' = 3 * page_count(top.range) - 1
      BY <1>17, <2>1 DEF Cost
    <3>2. Cost = IF top.at = "picture" THEN 1 ELSE 0
      BY <1>17 DEF Cost
    <3> QED BY <1>6, <1>7, <1>17, <2>2, <3>1, <3>2
  <2> QED BY <1>17, <2>1, <2>2, <2>3, CostInHand
<1>18. CASE WriteChunkFails
  BY <1>2, <1>4, <1>17, <1>18 DEF WriteChunkFails, At, Pending
<1>19. CASE SubmitSucceeds \/ SubmitFails
  BY <1>2, <1>4, <1>5, <1>17, <1>19 DEF SubmitSucceeds, SubmitFails, Submit, At, Pending
<1>20. ASSUME NEW left_over, WritePictureFails(left_over) PROVE CostInv'
  BY <1>2, <1>4, <1>17, <1>20 DEF WritePictureFails, At, Pending
<1>21. ASSUME NEW removed, PictureSucceeds(removed) \/ PictureFails(removed)
       PROVE  CostInv'
  BY <1>2, <1>4, <1>5, <1>17, <1>21
     DEF PictureSucceeds, PictureFails, SubmitPicture, At, Pending
<1>22. CASE Bisect
  BY <1>22, CostBisect
<1>23. ASSUME NEW removed, ReturnPart(removed) \/ ReturnLeft(removed) PROVE CostInv'
  BY <1>23, CostReturnPart, CostReturnLeft
<1>24. ASSUME NEW removed, ReturnRight(removed) PROVE CostInv'
  <2>1. /\ n > 1 /\ result.kind = "ok" /\ caller.at = "right"
        /\ stack' = callers /\ result' = Ok(caller.left \o result.text)
        /\ UNCHANGED <<phase, index, pages, calls>>
    BY <1>24 DEF ReturnRight, ReturnRightTo, Returns
  <2>2. n > 0 /\ n # 1 /\ result' # Pending
    BY <1>1, <1>5, <2>1, FrameFacts
  <2> QED BY <2>1, <2>2, CostPop
<1>25. ASSUME NEW removed, ReturnError(removed) PROVE CostInv'
  <2>1. /\ stack # << >> /\ stack' = callers /\ result.kind \in {"too_large", "other"}
        /\ result # Pending /\ UNCHANGED <<index, result, pages, calls>>
        /\ IF n = 1 THEN phase' = "failed" ELSE phase' = phase
    BY <1>25 DEF ReturnError, PropagateError, Returns
  <2> QED BY <1>2, <2>1, CostPop
<1> QED BY <1>8, <1>9, <1>10, <1>11, <1>12, <1>14, <1>15, <1>16, <1>18, <1>19, <1>20,
           <1>21, <1>22, <1>23, <1>24, <1>25 DEF Next, Done

LEMMA CostReachable == Spec => []CostInv
<1>1. Init => CostInv
  <2> SUFFICES ASSUME Init PROVE CostInv
    OBVIOUS
  <2>1. phase = "counting" /\ calls = 0 /\ pages = 0 /\ stack = << >>
    BY DEF Init
  <2>2. n = 0 /\ 1 .. n = {}
    BY <2>1, EmptySeq DEF n
  <2> QED BY <2>1, <2>2 DEF CostInv, SubmissionsBounded, SinglePage, Paid
<1>2. CostInv /\ RangeInv /\ [Next]_vars => CostInv'
  BY CostStep
<1> QED BY <1>1, <1>2, RangeInvariant, PTL DEF Spec

\* However Azure answers, the analysis submits at most three documents a page,
\* less one for every initial range (pdf_chunk.rs:89, 96).
THEOREM ThreePerPage == Spec => []SubmissionsBounded
<1>1. CostInv => SubmissionsBounded
  BY DEF CostInv
<1> QED BY <1>1, CostReachable, PTL

-----------------------------------------------------------------------------
(* What is reported.                                                       *)

\* The percentage is at most that of the initial range in hand or the next one.
PercentSoFar ==
  phase = "running" /\ index < chunk_count => percent <= chunk_progress_percent(index)

LEMMA PercentMonotone ==
  ASSUME pages \in Nat, NEW i \in Nat, i + 1 < chunk_count
  PROVE  chunk_progress_percent(i) <= chunk_progress_percent(i + 1)
<1> DEFINE d == chunk_count - 1
           p == (12 * i) \div d
           q == (12 * (i + 1)) \div d
<1>1. d \in Nat \ {0} /\ ~(chunk_count <= 1)
  BY ChunkCount
<1> HIDE DEF d
<1>2. /\ p \in Nat /\ p * d <= 12 * i
      /\ q \in Nat /\ 12 * (i + 1) < q * d + d
  <2>1. 12 * i \in Nat /\ 12 * (i + 1) \in Nat
    OBVIOUS
  <2> QED BY <1>1, <2>1, DivisionBounds
<1> HIDE DEF p, q
<1>3. p <= q
  <2> SUFFICES ASSUME q < p PROVE FALSE
    BY <1>2
  <2> DEFINE k == p - q - 1
  <2>1. k \in Nat /\ p = k + q + 1
    BY <1>2
  <2> HIDE DEF k
  <2>2. p * d = k * d + q * d + d /\ k * d \in Nat /\ q * d \in Nat
    BY <1>1, <1>2, <2>1
  <2> QED BY <1>1, <1>2, <2>2
<1> QED BY <1>1, <1>2, <1>3 DEF chunk_progress_percent, d, p, q

\* A step reports nothing, or a percentage from 65 to 78 that is no smaller than
\* the last one; the pages are counted once.
LEMMA PercentStep ==
  ASSUME RangeInv, PercentSoFar, [Next]_vars
  PROVE  /\ PercentSoFar'
         /\ phase = "counting" \/ UNCHANGED pages
         /\ \/ UNCHANGED percent
            \/ phase = "counting" /\ percent' = 65
            \/ percent' \in 65 .. 78 /\ percent <= percent'
<1>1. TypeOK /\ index \in Nat /\ pages \in Nat /\ percent \in Nat
  BY ChunkingAssumption DEF RangeInv, ChunkInv, TypeOK
<1>2. ASSUME stack # << >>
      PROVE  /\ phase = "running" /\ index < chunk_count
             /\ chunk_progress_percent(index) \in 66 .. 78
             /\ percent <= chunk_progress_percent(index)
  BY <1>1, <1>2, FrameFacts, TopFacts, PercentBounded DEF PercentSoFar
<1>3. ASSUME UNCHANGED <<pages, index, percent>>, phase' = "running" => phase = "running"
      PROVE  PercentSoFar'
  BY <1>3 DEF PercentSoFar, chunk_count, chunk_progress_percent
<1>4. CASE UNCHANGED vars
  BY <1>3, <1>4 DEF vars
<1>5. ASSUME NEW p \in 1 .. MaxPages, Count(p)
      PROVE  PercentSoFar' /\ phase = "counting" /\ percent' = 65
  <2>1. /\ phase = "counting" /\ percent' = 65 /\ pages' \in Nat /\ index' \in Nat
    BY <1>1, <1>5, ChunkingAssumption DEF Count
  <2>2. chunk_count' \in Nat
    BY <2>1, CountIsNat DEF chunk_count
  <2> DEFINE c == chunk_count'
             i == index'
  <2> HIDE DEF c, i
  <2>3. c \in Nat /\ i \in Nat
    BY <2>1, <2>2 DEF c, i
  <2>4. ~(c <= 1) => (12 * i) \div (c - 1) \in Nat
    <3> SUFFICES ASSUME ~(c <= 1) PROVE (12 * i) \div (c - 1) \in Nat
      OBVIOUS
    <3>1. 12 * i \in Nat /\ c - 1 \in Nat \ {0}
      BY <2>3
    <3> QED BY <3>1, DivisionBounds
  <2>5. chunk_progress_percent(index)' = IF c <= 1 THEN 66 ELSE 66 + (12 * i) \div (c - 1)
    BY DEF chunk_progress_percent, c, i
  <2>6. 65 <= chunk_progress_percent(index)'
    <3> DEFINE q == (12 * i) \div (c - 1)
    <3> HIDE DEF q
    <3> QED BY <2>4, <2>5 DEF q
  <2> QED BY <2>1, <2>6 DEF PercentSoFar
<1>6. CASE CountFails \/ OpenRange \/ Finish
  BY <1>3, <1>6 DEF CountFails, OpenRange, Finish
<1>7. CASE WriteChunk
  <2>1. /\ stack # << >> /\ percent' = chunk_progress_percent(index)
        /\ UNCHANGED <<phase, pages, index>>
    BY <1>7 DEF WriteChunk, At
  <2>2. chunk_progress_percent(index)' = chunk_progress_percent(index)
    BY <2>1 DEF chunk_progress_percent, chunk_count
  <2> QED BY <1>1, <1>2, <2>1, <2>2 DEF PercentSoFar
<1>8. CASE WriteChunkFails \/ SubmitSucceeds \/ SubmitFails \/ Bisect \/ Rasterise
           \/ WritePicture
  BY <1>3, <1>8 DEF WriteChunkFails, SubmitSucceeds, SubmitFails, Submit, Bisect,
     Rasterise, TooLargePage, WritePicture
<1>9. ASSUME NEW removed, NEW left_over,
             \/ WritePictureFails(left_over)
             \/ PictureSucceeds(removed) \/ PictureFails(removed)
             \/ ReturnLeft(removed) \/ ReturnRight(removed) \/ ReturnError(removed)
      PROVE  PercentSoFar' /\ UNCHANGED <<pages, percent>>
  <2>1. UNCHANGED <<pages, index, percent>> /\ (phase' = "running" => phase = "running")
    BY <1>9 DEF WritePictureFails, PictureSucceeds, PictureFails, SubmitPicture, Returns,
       ReturnLeft, ReturnRight, ReturnRightTo, ReturnError, PropagateError
  <2> QED BY <1>3, <2>1
<1>10. ASSUME NEW removed, ReturnPart(removed)
       PROVE  PercentSoFar' /\ UNCHANGED <<pages, percent>>
  <2>1. /\ stack # << >> /\ index' = index + 1
        /\ UNCHANGED <<phase, pages, percent>>
    BY <1>10 DEF ReturnPart, Returns
  <2>2. /\ chunk_count' = chunk_count
        /\ chunk_progress_percent(index)' = chunk_progress_percent(index + 1)
    BY <2>1 DEF chunk_count, chunk_progress_percent
  <2>3. ASSUME index + 1 < chunk_count
        PROVE  percent <= chunk_progress_percent(index + 1)
    <3>1. /\ chunk_progress_percent(index) \in Nat
          /\ percent <= chunk_progress_percent(index)
      BY <1>2, <2>1
    <3>2. chunk_progress_percent(index) <= chunk_progress_percent(index + 1)
      BY <1>1, <2>3, PercentMonotone
    <3>3. chunk_progress_percent(index + 1) \in Nat
      BY <1>1, <2>3, PercentBounded
    <3> QED BY <1>1, <3>1, <3>2, <3>3
  <2> QED BY <2>1, <2>2, <2>3 DEF PercentSoFar
<1>11. (\/ CountFails \/ OpenRange \/ Finish \/ WriteChunkFails \/ SubmitSucceeds
        \/ SubmitFails \/ Bisect \/ Rasterise \/ WritePicture \/ UNCHANGED vars)
         => UNCHANGED <<pages, percent>>
  BY DEF vars, CountFails, OpenRange, Finish, WriteChunkFails, SubmitSucceeds,
     SubmitFails, Submit, Bisect, Rasterise, TooLargePage, WritePicture
<1>12. WriteChunk => UNCHANGED pages /\ percent' \in 65 .. 78 /\ percent <= percent'
  <2> SUFFICES ASSUME WriteChunk
               PROVE  UNCHANGED pages /\ percent' \in 65 .. 78 /\ percent <= percent'
    OBVIOUS
  <2>1. stack # << >> /\ percent' = chunk_progress_percent(index) /\ UNCHANGED pages
    BY DEF WriteChunk, At
  <2> QED BY <1>2, <2>1
<1> QED
  BY <1>4, <1>5, <1>6, <1>7, <1>8, <1>9, <1>10, <1>11, <1>12 DEF Next, Done

LEMMA PercentReachable == Spec => []PercentSoFar
<1>1. Init => PercentSoFar
  BY DEF Init, PercentSoFar
<1>2. RangeInv /\ PercentSoFar /\ [Next]_vars => PercentSoFar'
  BY PercentStep
<1> QED BY <1>1, <1>2, RangeInvariant, PTL DEF Spec

-----------------------------------------------------------------------------
(* The steps that are left.                                                *)

\* What the call in hand may take: a range of k pages, each of which ends up as
\* a picture, takes 8 * k - 3 steps, five for each page and three for each of the
\* k - 1 ranges that are cut in two.
CallLeft ==
  IF result # Pending THEN 1
  ELSE CASE top.at = "split"  -> 8 * page_count(top.range) - 3
         [] top.at = "submit" -> 8 * page_count(top.range) - 4
         [] top.at = "raster" -> 3
         [] OTHER -> 2
\* An initial range is opened first, with a step; a right half that is still to
\* come has taken its caller's steps with it; and every caller has to return.
StepsLeft ==
  CASE phase = "counting" -> 8 * MaxPages + 2
    [] phase = "running" /\ n = 0 ->
         8 * (pages - (IF index * ChunkSize < pages THEN index * ChunkSize ELSE pages))
           - 2 * (chunk_count - index) + 1
    [] phase = "running" /\ n > 0 ->
         8 * (pages - top.range.last) - 2 * (chunk_count - (index + 1))
           - 3 * LeftsBelow(stack, n) + n + CallLeft
    [] OTHER -> 0
StepsBounded ==
  /\ StepsLeft \in Nat
  /\ phase # "counting" => StepsLeft <= 8 * pages - 2 * chunk_count + 1

\* Calls are under way only while the analysis runs; what is still to come is
\* there as long as anything is.
LEMMA StepsRunning ==
  ASSUME RangeInv, n > 0
  PROVE  /\ StepsLeft = 8 * (pages - top.range.last) - 2 * (chunk_count - (index + 1))
                          - 3 * LeftsBelow(stack, n) + n + CallLeft
         /\ CallLeft \in Nat /\ CallLeft >= 1
         /\ LeftsBelow(stack, n) \in Nat /\ n \in Nat /\ index \in Nat
         /\ chunk_count \in Nat /\ pages \in Nat /\ top.range.last \in Nat
<1>1. /\ phase = "running" /\ n \in Nat /\ index \in Nat /\ pages \in Nat
      /\ top.range.last \in Nat /\ page_count(top.range) \in Nat \ {0}
  BY TopFacts, ChunkingAssumption
<1>2. LeftsBelow(stack, n) \in Nat /\ chunk_count \in Nat
  BY <1>1, LeftsCount, ChunkCount
<1>3. CallLeft \in Nat /\ CallLeft >= 1
  BY <1>1 DEF CallLeft
<1>4. n # 0
  BY <1>1
<1>5. StepsLeft = 8 * (pages - top.range.last) - 2 * (chunk_count - (index + 1))
                    - 3 * LeftsBelow(stack, n) + n + CallLeft
  BY <1>1, <1>4 DEF StepsLeft
<1> QED BY <1>1, <1>2, <1>3, <1>5

\* The steps that are left are a number.
LEMMA StepsAreSome ==
  ASSUME RangeInv, CostInv
  PROVE  StepsLeft \in Nat
<1>1. TypeOK /\ index \in Nat /\ pages \in Nat /\ n \in Nat
  BY FrameFacts, ChunkingAssumption DEF RangeInv, ChunkInv, TypeOK
<1>2. CASE n > 0
  <2> DEFINE l == LastPage(index)
             b == top.range.last
             L == LeftsBelow(stack, n)
  <2>1. /\ StepsLeft = 8 * (pages - b) - 2 * (chunk_count - (index + 1)) - 3 * L
                         + n + CallLeft
        /\ CallLeft \in Nat /\ L \in Nat /\ chunk_count \in Nat /\ b \in Nat
    BY <1>2, StepsRunning
  <2>2. index < chunk_count /\ n \in 1 .. n /\ top = stack[n]
    BY <1>2, TopFacts
  <2>3. l \in Nat /\ l <= pages /\ chunk_count - (index + 1) <= pages - l
    BY <1>1, <2>2, InitialRanges
  <2>4. L + b <= l
    BY <2>2 DEF CostInv, Paid
  <2> HIDE DEF l, b, L
  <2> QED BY <1>1, <2>1, <2>2, <2>3, <2>4
<1>3. CASE n = 0 /\ phase = "running"
  <2> DEFINE m == IF index * ChunkSize < pages THEN index * ChunkSize ELSE pages
  <2>1. StepsLeft = 8 * (pages - m) - 2 * (chunk_count - index) + 1
    BY <1>3 DEF StepsLeft
  <2>2. index <= chunk_count
    BY <1>3 DEF RangeInv, ChunkInv, TextSoFar
  <2>3. index * ChunkSize \in Nat /\ chunk_count \in Nat
    BY <1>1, ChunkingAssumption, ChunkCount
  <2>4. CASE index = chunk_count
    <3>1. m \in Nat /\ m <= pages
      BY <1>1, <2>3
    <3> HIDE DEF m
    <3> QED BY <1>1, <2>1, <2>3, <2>4, <3>1
  <2>5. CASE index < chunk_count
    <3> DEFINE l == LastPage(index)
    <3>1. /\ m < l /\ l \in Nat /\ m \in Nat /\ l <= pages
          /\ chunk_count - (index + 1) <= pages - l
      BY <1>1, <2>5, InitialRanges
    <3> HIDE DEF l, m
    <3> QED BY <1>1, <2>1, <2>3, <2>5, <3>1
  <2> QED BY <1>1, <2>2, <2>3, <2>4, <2>5
<1>4. CASE n = 0 /\ phase # "running"
  BY <1>4, ChunkingAssumption DEF StepsLeft
<1> QED BY <1>1, <1>2, <1>3, <1>4

\* A step of the call in hand.
LEMMA StepsInHand ==
  ASSUME RangeInv, n > 0, UNCHANGED <<phase, pages, index>>, n' = n,
         top'.range = top.range,
         \A i \in 1 .. n - 1 : stack'[i] = stack[i],
         CallLeft' \in Nat, CallLeft' < CallLeft
  PROVE  StepsLeft' < StepsLeft
<1> DEFINE z == 8 * (pages - top.range.last) - 2 * (chunk_count - (index + 1))
                - 3 * LeftsBelow(stack, n) + n
<1>1. StepsLeft = z + CallLeft /\ CallLeft \in Nat /\ z \in Int
  BY StepsRunning
<1>2. phase = "running" /\ n # 0 /\ n \in Nat
  BY TopFacts
<1>3. LeftsBelow(stack', n) = LeftsBelow(stack, n)
  BY <1>2, LeftsSame
<1>4. chunk_count' = chunk_count
  BY DEF chunk_count
<1>5. StepsLeft' = z + CallLeft'
  BY <1>2, <1>3, <1>4 DEF StepsLeft
<1>6. \A i \in Int, x, y \in Nat : y < x => i + y < i + x
  OBVIOUS
<1> HIDE DEF z
<1> QED BY <1>1, <1>5, <1>6

\* The analysis ends, whatever was under way.
LEMMA StepsEnd ==
  ASSUME RangeInv, CostInv, phase \in {"counting", "running"},
         phase' \in {"succeeded", "failed"}, n = 0 => index = chunk_count
                                                \/ phase = "counting"
  PROVE  StepsLeft' < StepsLeft
<1>1. StepsLeft' = 0
  BY DEF StepsLeft
<1>2. CASE n > 0
  <2> DEFINE l == LastPage(index)
             b == top.range.last
             L == LeftsBelow(stack, n)
  <2>1. /\ StepsLeft = 8 * (pages - b) - 2 * (chunk_count - (index + 1)) - 3 * L
                         + n + CallLeft
        /\ CallLeft \in Nat /\ L \in Nat /\ chunk_count \in Nat /\ b \in Nat
        /\ index \in Nat /\ pages \in Nat /\ n \in Nat
    BY <1>2, StepsRunning
  <2>2. index < chunk_count /\ n \in 1 .. n /\ top = stack[n]
    BY <1>2, TopFacts
  <2>3. l \in Nat /\ l <= pages /\ chunk_count - (index + 1) <= pages - l
    BY <2>1, <2>2, InitialRanges
  <2>4. L + b <= l
    BY <2>2 DEF CostInv, Paid
  <2> HIDE DEF l, b, L
  <2>5. StepsLeft > 0
    BY <1>2, <2>1, <2>2, <2>3, <2>4
  <2> QED BY <1>1, <2>5
<1>3. CASE n = 0 /\ phase = "counting"
  BY <1>1, <1>3, ChunkingAssumption DEF StepsLeft
<1>4. CASE n = 0 /\ phase = "running"
  <2>1. index = chunk_count /\ pages \in Nat
    BY <1>4, ChunkingAssumption DEF RangeInv, ChunkInv, TypeOK
  <2>2. ~(index * ChunkSize < pages)
    BY <2>1, AllCovered
  <2>3. chunk_count \in Nat
    BY <2>1, ChunkCount
  <2>4. StepsLeft = 1
    BY <1>4, <2>1, <2>2, <2>3 DEF StepsLeft
  <2> QED BY <1>1, <2>4
<1>5. n \in Nat
  BY FrameFacts DEF RangeInv, ChunkInv
<1> QED BY <1>2, <1>3, <1>4, <1>5

LEMMA StepsOpen ==
  ASSUME RangeInv, OpenRange
  PROVE  StepsLeft' < StepsLeft
<1> DEFINE r == InitialRange(index)
           x == index * ChunkSize
           l == LastPage(index)
           c == chunk_count
<1>1. /\ stack = << >> /\ index < c /\ phase = "running"
      /\ UNCHANGED <<phase, pages, index, result>>
  BY DEF OpenRange
<1>2. n = 0
  BY <1>1, EmptySeq DEF n
<1>3. index \in Nat /\ pages \in Nat /\ result = Pending
  BY <1>1, <1>2, ChunkingAssumption DEF RangeInv, ChunkInv, TypeOK, Stops
<1>4. /\ x \in Nat /\ x < pages /\ r.first = x + 1 /\ r.last = l /\ l \in Nat /\ x < l
      /\ c \in Nat
  BY <1>1, <1>3, InitialRanges, ChunkCount
<1>5. /\ n' = 1 /\ top' = stack'[1] /\ stack'[1].range = r /\ stack'[1].at = "split"
  BY OpenStep DEF Frame
<1>6. LeftsBelow(stack', 1) = 0
  BY LeftsCount
<1>7. StepsLeft = 8 * (pages - x) - 2 * (c - index) + 1
  BY <1>1, <1>2, <1>4 DEF StepsLeft
<1>8. page_count(top'.range) = l - x
  BY <1>4, <1>5 DEF page_count
<1>9. CallLeft' = 8 * (l - x) - 3
  BY <1>1, <1>3, <1>5, <1>8 DEF CallLeft
<1>10. top'.range.last = l /\ c' = c
  BY <1>1, <1>4, <1>5 DEF chunk_count
<1> HIDE DEF x, l, c, r
<1>11. StepsLeft' = 8 * (pages - l) - 2 * (c - (index + 1)) - 3 * 0 + 1 + (8 * (l - x) - 3)
  BY <1>1, <1>5, <1>6, <1>9, <1>10 DEF StepsLeft, c
<1> QED BY <1>3, <1>4, <1>7, <1>11

LEMMA StepsBisect ==
  ASSUME RangeInv, Bisect
  PROVE  StepsLeft' < StepsLeft
<1> DEFINE r == top.range
           h == Left(r)
           L == LeftsBelow(stack, n)
           c == chunk_count
<1>1. /\ n > 0 /\ result = Pending /\ top.at = "submit"
      /\ UNCHANGED <<phase, pages, index, result>>
  BY FrameFacts DEF Bisect, At, RangeInv, ChunkInv
<1>2. /\ page_count(r) > 1 /\ n' = n + 1 /\ top' = Frame(h)
      /\ \A i \in 1 .. n - 1 : stack'[i] = stack[i]
      /\ stack'[n].at = "left"
  BY BisectFacts DEF RangeInv, ChunkInv
<1>3. /\ n \in Nat \ {0} /\ r \in PageRange /\ r.first \in Nat /\ r.last \in Nat
      /\ index \in Nat /\ pages \in Nat /\ phase = "running"
      /\ page_count(r) = r.last - r.first + 1
  <2>1. /\ r.first \in 1 .. MaxPages /\ r.last \in 1 .. MaxPages /\ n \in Nat
        /\ r \in PageRange /\ index \in Nat /\ pages \in Nat /\ phase = "running"
        /\ page_count(r) = r.last - r.first + 1
    BY <1>1, TopFacts
  <2> HIDE DEF r
  <2> QED BY <1>1, <2>1, ChunkingAssumption
<1>4. /\ StepsLeft = 8 * (pages - r.last) - 2 * (c - (index + 1)) - 3 * L + n + CallLeft
      /\ L \in Nat /\ c \in Nat
  BY <1>1, StepsRunning
<1>5. CallLeft = 8 * (r.last - r.first + 1) - 4
  BY <1>1, <1>3 DEF CallLeft
<1> HIDE DEF r
<1>6. h.first = r.first /\ h.last < r.last /\ h.last \in Nat
  BY <1>2, <1>3, SplitHalves, ChunkingAssumption
<1> HIDE DEF h
<1>7. top'.range = h /\ top'.at = "split"
  BY <1>2 DEF Frame
<1>8. CallLeft' = 8 * (h.last - h.first + 1) - 3
  BY <1>1, <1>7 DEF CallLeft, page_count
<1>9. LeftsBelow(stack', n + 1) = L + 1
  <2>1. LeftsBelow(stack', n) = L
    BY <1>2, <1>3, LeftsSame
  <2>2. LeftsBelow(stack', n + 1)
          = LeftsBelow(stack', n) + IF stack'[n].at = "left" THEN 1 ELSE 0
    BY <1>3, LeftsCount
  <2> QED BY <1>2, <1>4, <2>1, <2>2
<1>10. c' = c
  BY <1>1 DEF chunk_count
<1> HIDE DEF L, c
<1>11. StepsLeft' = 8 * (pages - h.last) - 2 * (c - (index + 1)) - 3 * (L + 1) + (n + 1)
                      + (8 * (h.last - h.first + 1) - 3)
  <2>1. phase' = "running" /\ n' > 0 /\ n' # 0
    BY <1>1, <1>2, <1>3
  <2> QED BY <1>1, <1>2, <1>7, <1>8, <1>9, <1>10, <2>1 DEF StepsLeft, c
<1> QED BY <1>3, <1>4, <1>5, <1>6, <1>11

LEMMA StepsReturnPart ==
  ASSUME RangeInv, NEW removed, ReturnPart(removed)
  PROVE  StepsLeft' < StepsLeft
<1> DEFINE l == LastPage(index)
           c == chunk_count
<1>1. /\ n = 1 /\ result # Pending /\ index' = index + 1 /\ phase = "running"
      /\ UNCHANGED <<phase, pages>>
  BY DEF ReturnPart, Returns
<1>2. n' = 0 /\ n > 0
  BY <1>1, PartStep
<1>3. /\ index \in Nat /\ index < c /\ pages \in Nat /\ top = stack[1]
  BY <1>1, <1>2, TopFacts
<1>4. stack[1].range = InitialRange(index)
  BY <1>2 DEF RangeInv, ChunkInv, Descent
<1>5. /\ l \in Nat /\ top.range.last = l
      /\ l = IF (index + 1) * ChunkSize < pages THEN (index + 1) * ChunkSize ELSE pages
  BY <1>3, <1>4, InitialRanges
<1>6. LeftsBelow(stack, 1) = 0
  BY LeftsCount
<1>7. /\ StepsLeft = 8 * (pages - top.range.last) - 2 * (c - (index + 1)) - 3 * 0
                       + 1 + 1
      /\ c \in Nat
  BY <1>1, <1>2, <1>6, StepsRunning DEF CallLeft
<1>8. c' = c
  BY <1>1 DEF chunk_count
<1> HIDE DEF l, c
<1>9. StepsLeft' = 8 * (pages - l) - 2 * (c - (index + 1)) + 1
  BY <1>1, <1>2, <1>5, <1>8 DEF StepsLeft, c
<1> QED BY <1>3, <1>5, <1>7, <1>9

LEMMA StepsReturnLeft ==
  ASSUME RangeInv, NEW removed, ReturnLeft(removed)
  PROVE  StepsLeft' < StepsLeft
<1> DEFINE r == caller.range
           g == Right(r)
           L == LeftsBelow(stack, n - 1)
           c == chunk_count
<1>1. /\ n > 1 /\ n > 0 /\ n \in Nat /\ result # Pending /\ caller.at = "left"
      /\ result' = Pending /\ UNCHANGED <<phase, pages, index>>
  BY FrameFacts DEF ReturnLeft, Returns, RangeInv, ChunkInv
<1>2. page_count(r) > 1 /\ top.range = Left(r)
  BY ReturnLeftStep
<1>3. /\ n' = n /\ top' = Frame(g)
      /\ \A i \in 1 .. n - 2 : stack'[i] = stack[i]
      /\ stack'[n - 1].at = "right"
  BY <1>2, ReturnLeftFacts DEF RangeInv, ChunkInv
<1>4. /\ caller = stack[n - 1] /\ n - 1 \in 1 .. n /\ n - 1 \in Nat \ {0} /\ (n - 1) + 1 = n
      /\ (n - 1) - 1 = n - 2
  BY <1>1 DEF caller
<1>5. r \in PageRange /\ r.last \in Nat
  BY <1>4, FrameFacts, ChunkingAssumption DEF RangeInv, ChunkInv
<1>6. /\ StepsLeft = 8 * (pages - top.range.last) - 2 * (c - (index + 1))
                       - 3 * LeftsBelow(stack, n) + n + CallLeft
      /\ c \in Nat /\ index \in Nat /\ pages \in Nat /\ top.range.last \in Nat
      /\ phase = "running"
  BY <1>1, StepsRunning, TopFacts
<1> HIDE DEF r
<1>7. g.first = top.range.last + 1 /\ g.last = r.last
  BY <1>2, <1>5, SplitHalves
<1> HIDE DEF g
<1>8. top'.range = g /\ top'.at = "split"
  BY <1>3 DEF Frame
<1>9. L \in Nat /\ LeftsBelow(stack, n) = L + 1
  <2>1. LeftsBelow(stack, (n - 1) + 1)
          = LeftsBelow(stack, n - 1) + IF stack[n - 1].at = "left" THEN 1 ELSE 0
    BY <1>4, LeftsCount
  <2>2. L \in Nat
    BY <1>4, LeftsCount
  <2> QED BY <1>1, <1>4, <2>1, <2>2
<1>10. LeftsBelow(stack', n) = L
  <2>1. LeftsBelow(stack', (n - 1) + 1)
          = LeftsBelow(stack', n - 1) + IF stack'[n - 1].at = "left" THEN 1 ELSE 0
    BY <1>4, LeftsCount
  <2>2. LeftsBelow(stack', n - 1) = L
    BY <1>3, <1>4, LeftsSame
  <2> QED BY <1>3, <1>4, <1>9, <2>1, <2>2
<1>11. CallLeft = 1 /\ CallLeft' = 8 * (g.last - g.first + 1) - 3
  BY <1>1, <1>8 DEF CallLeft, page_count
<1>12. c' = c
  BY <1>1 DEF chunk_count
<1> HIDE DEF L, c
<1>13. StepsLeft' = 8 * (pages - g.last) - 2 * (c - (index + 1)) - 3 * L + n
                      + (8 * (g.last - g.first + 1) - 3)
  <2>1. n' # 0 /\ n' > 0 /\ phase' = "running"
    BY <1>1, <1>3, <1>6
  <2> QED BY <1>1, <1>3, <1>8, <1>10, <1>11, <1>12, <2>1 DEF StepsLeft, c
<1> QED BY <1>1, <1>5, <1>6, <1>7, <1>9, <1>11, <1>13

\* A call returns to its caller, with the text of both halves or an error, after
\* its right half or its left one.
LEMMA StepsPop ==
  ASSUME RangeInv, n > 1, stack' = callers, result # Pending, result' # Pending,
         UNCHANGED <<phase, index, pages>>
  PROVE  StepsLeft' < StepsLeft
<1> DEFINE r == caller.range
           L == LeftsBelow(stack, n - 1)
           M == LeftsBelow(stack, n)
           b == top.range.last
           c == chunk_count
<1>1. n \in Nat /\ n > 0 /\ n - 1 \in Nat \ {0} /\ (n - 1) + 1 = n
      /\ n - 1 \in 1 .. n /\ n - 1 \in 1 .. n - 1
  BY FrameFacts DEF RangeInv, ChunkInv
<1>2. /\ n' = n - 1 /\ top' = caller /\ caller = stack[n - 1]
      /\ \A i \in 1 .. n - 1 : stack'[i] = stack[i]
  BY <1>1, PopFacts DEF RangeInv, ChunkInv, caller
<1>3. /\ StepsLeft = 8 * (pages - b) - 2 * (c - (index + 1)) - 3 * M + n + CallLeft
      /\ c \in Nat /\ index \in Nat /\ pages \in Nat /\ b \in Nat /\ phase = "running"
  BY <1>1, StepsRunning, TopFacts
<1>4. /\ page_count(r) > 1
      /\ \/ caller.at = "left" /\ top.range = Left(r)
         \/ caller.at = "right" /\ top.range = Right(r)
  BY <1>1, <1>2 DEF RangeInv, ChunkInv, Descent, top
<1>5. r \in PageRange /\ r.last \in Nat
  BY <1>1, <1>2, FrameFacts, ChunkingAssumption DEF RangeInv, ChunkInv
<1>6. L \in Nat /\ M = L + IF caller.at = "left" THEN 1 ELSE 0
  <2>1. LeftsBelow(stack, (n - 1) + 1)
          = LeftsBelow(stack, n - 1) + IF stack[n - 1].at = "left" THEN 1 ELSE 0
    BY <1>1, LeftsCount
  <2>2. L \in Nat
    BY <1>1, LeftsCount
  <2> QED BY <1>1, <1>2, <2>1, <2>2
<1>7. LeftsBelow(stack', n - 1) = L
  <2>1. \A j \in 1 .. (n - 1) - 1 : j \in 1 .. n - 1
    BY <1>1
  <2> QED BY <1>1, <1>2, <2>1, LeftsSame
<1>8. /\ caller.at = "left" => b < r.last
      /\ caller.at = "right" => b = r.last
  <2> HIDE DEF r
  <2> QED BY <1>4, <1>5, SplitHalves
<1>9. CallLeft = 1 /\ CallLeft' = 1
  BY DEF CallLeft
<1>10. c' = c
  BY DEF chunk_count
<1> HIDE DEF L, M, b, c
<1>11. StepsLeft' = 8 * (pages - r.last) - 2 * (c - (index + 1)) - 3 * L + (n - 1) + 1
  <2>1. n' # 0 /\ n' > 0 /\ phase' = "running"
    BY <1>1, <1>2, <1>3
  <2> QED BY <1>2, <1>7, <1>9, <1>10, <2>1 DEF StepsLeft, c
<1>12. caller.at = "left" \/ caller.at = "right"
  BY <1>4
<1> HIDE DEF r
<1> QED BY <1>1, <1>3, <1>5, <1>6, <1>8, <1>9, <1>11, <1>12

\* The first step counts the pages.
LEMMA StepsCount ==
  ASSUME RangeInv, NEW p \in 1 .. MaxPages, Count(p)
  PROVE  /\ StepsLeft' = 8 * pages' - 2 * chunk_count' + 1 /\ StepsLeft' < StepsLeft
         /\ StepsLeft' \in Int
<1> DEFINE c == (p + ChunkSize - 1) \div ChunkSize
<1>1. n = 0 /\ index = 0 /\ UNCHANGED <<index, stack>> /\ p \in Nat /\ p <= MaxPages
      /\ phase = "counting" /\ phase' = "running" /\ pages' = p
  BY ChunkingAssumption DEF RangeInv, ChunkInv, TextSoFar, Count
<1>2. n' = 0
  BY <1>1 DEF n
<1>3. c \in Nat /\ chunk_count' = c
  BY <1>1, CountIsNat DEF chunk_count
<1>4. 0 * ChunkSize = 0
  BY ChunkingAssumption
<1>5. (IF index' * ChunkSize < pages' THEN index' * ChunkSize ELSE pages') = 0
  BY <1>1, <1>4
<1> HIDE DEF c
<1>6. StepsLeft' = 8 * (p - 0) - 2 * (c - 0) + 1
  BY <1>1, <1>2, <1>3, <1>5 DEF StepsLeft
<1>7. StepsLeft = 8 * MaxPages + 2
  BY <1>1 DEF StepsLeft
<1> QED BY <1>1, <1>3, <1>6, <1>7, ChunkingAssumption

\* Until the analysis is over every step counts.
LEMMA StepsMove ==
  ASSUME RangeInv, CostInv, Next, ~ Done
  PROVE  StepsLeft' < StepsLeft
<1>1. TypeOK /\ CoreInv
  BY RangeInvSplit DEF RangeInv, ChunkInv
<1>2. stack # << >> => n > 0
  BY <1>1, FrameFacts
<1>3. stack = << >> => n = 0
  BY EmptySeq DEF n
<1>4. \A e : Err(e).kind = e /\ Ok(e).kind = "ok"
  BY DEF Err, Ok
<1>5. \A x : Ok(x) # Pending
  BY <1>4 DEF Pending
<1>6. ASSUME n > 0
      PROVE  /\ n \in Nat /\ n \in 1 .. n /\ top = stack[n] /\ CallLeft \in Nat
             /\ page_count(top.range) \in Nat \ {0}
  BY <1>6, TopFacts, StepsRunning
<1>8. ASSUME NEW p \in 1 .. MaxPages, Count(p) PROVE StepsLeft' < StepsLeft
  BY <1>8, StepsCount
<1>9. CASE CountFails \/ Finish
  BY <1>3, <1>9, StepsEnd DEF CountFails, Finish
<1>10. CASE OpenRange
  BY <1>10, StepsOpen
\* The steps that move the call in hand on.
<1>11. ASSUME NEW step \in {"submit", "left", "right", "raster", "picture"},
              n > 0, Goto(step)
       PROVE  /\ n' = n /\ top' = stack'[n] /\ top'.at = step
              /\ top'.range = top.range
              /\ \A i \in 1 .. n - 1 : stack'[i] = stack[i]
  BY <1>1, <1>6, <1>11, GotoFacts
<1>12. CASE WriteChunk
  <2>1. /\ n > 0 /\ result = Pending /\ top.at = "split" /\ Goto("submit")
        /\ UNCHANGED <<phase, pages, index, result>>
    BY <1>2, <1>12 DEF WriteChunk, At
  <2>2. /\ n' = n /\ top'.at = "submit" /\ top'.range = top.range
        /\ \A i \in 1 .. n - 1 : stack'[i] = stack[i]
    BY <1>11, <2>1
  <2>3. CallLeft' \in Nat /\ CallLeft' < CallLeft
    BY <1>6, <2>1, <2>2 DEF CallLeft
  <2> QED BY <2>1, <2>2, <2>3, StepsInHand
<1>13. CASE Rasterise
  <2>1. /\ n > 0 /\ result = Pending /\ top.at = "submit" /\ Goto("raster")
        /\ page_count(top.range) = 1
        /\ UNCHANGED <<phase, pages, index, result>>
    BY <1>2, <1>13 DEF Rasterise, TooLargePage, At
  <2>2. /\ n' = n /\ top'.at = "raster" /\ top'.range = top.range
        /\ \A i \in 1 .. n - 1 : stack'[i] = stack[i]
    BY <1>11, <2>1
  <2>3. CallLeft' \in Nat /\ CallLeft' < CallLeft
    BY <1>6, <2>1, <2>2 DEF CallLeft
  <2> QED BY <2>1, <2>2, <2>3, StepsInHand
<1>14. CASE WritePicture
  <2>1. /\ n > 0 /\ result = Pending /\ top.at = "raster" /\ Goto("picture")
        /\ UNCHANGED <<phase, pages, index, result>>
    BY <1>2, <1>14 DEF WritePicture, At
  <2>2. /\ n' = n /\ top'.at = "picture" /\ top'.range = top.range
        /\ \A i \in 1 .. n - 1 : stack'[i] = stack[i]
    BY <1>11, <2>1
  <2>3. CallLeft' \in Nat /\ CallLeft' < CallLeft
    BY <1>6, <2>1, <2>2 DEF CallLeft
  <2> QED BY <2>1, <2>2, <2>3, StepsInHand
\* The steps that give it its result.
<1>15. ASSUME n > 0, result = Pending, UNCHANGED <<phase, pages, index, stack>>,
              result' # Pending
       PROVE  StepsLeft' < StepsLeft
  <2>1. n' = n /\ top' = top /\ top'.range = top.range
        /\ \A i \in 1 .. n - 1 : stack'[i] = stack[i]
    BY <1>15 DEF n, top
  <2>2. CallLeft' \in Nat /\ CallLeft' < CallLeft
    BY <1>6, <1>15, <2>1 DEF CallLeft
  <2> QED BY <1>15, <2>1, <2>2, StepsInHand
<1>16. CASE WriteChunkFails
  BY <1>2, <1>4, <1>15, <1>16 DEF WriteChunkFails, At, Pending
<1>17. CASE SubmitSucceeds \/ SubmitFails
  BY <1>2, <1>4, <1>5, <1>15, <1>17 DEF SubmitSucceeds, SubmitFails, Submit, At, Pending
<1>18. ASSUME NEW left_over, WritePictureFails(left_over) PROVE StepsLeft' < StepsLeft
  BY <1>2, <1>4, <1>15, <1>18 DEF WritePictureFails, At, Pending
<1>19. ASSUME NEW removed, PictureSucceeds(removed) \/ PictureFails(removed)
       PROVE  StepsLeft' < StepsLeft
  BY <1>2, <1>4, <1>5, <1>15, <1>19
     DEF PictureSucceeds, PictureFails, SubmitPicture, At, Pending
<1>20. CASE Bisect
  BY <1>20, StepsBisect
<1>21. ASSUME NEW removed, ReturnPart(removed) \/ ReturnLeft(removed)
       PROVE  StepsLeft' < StepsLeft
  BY <1>21, StepsReturnPart, StepsReturnLeft
<1>22. ASSUME NEW removed, ReturnRight(removed) PROVE StepsLeft' < StepsLeft
  BY <1>5, <1>22, StepsPop DEF ReturnRight, ReturnRightTo, Returns
<1>23. ASSUME NEW removed, ReturnError(removed) PROVE StepsLeft' < StepsLeft
  <2>1. /\ stack # << >> /\ stack' = callers /\ result # Pending /\ phase = "running"
        /\ UNCHANGED <<index, result, pages>>
        /\ IF n = 1 THEN phase' = "failed" ELSE phase' = phase
    BY <1>23 DEF ReturnError, PropagateError, Returns
  <2>2. CASE n = 1
    BY <2>1, <2>2, StepsEnd
  <2>3. CASE n # 1
    BY <1>2, <1>6, <2>1, <2>3, StepsPop
  <2> QED BY <2>2, <2>3
<1> QED BY <1>8, <1>9, <1>10, <1>12, <1>13, <1>14, <1>16, <1>17, <1>18, <1>19, <1>20,
           <1>21, <1>22, <1>23 DEF Next

LEMMA StepsStep ==
  RangeInv /\ CostInv /\ [Next]_vars => [StepsLeft' < StepsLeft]_vars
<1>1. vars' # vars => ~ Done
  BY DEF Done
<1> QED BY <1>1, StepsMove

LEMMA StepsBoundStep ==
  RangeInv /\ CostInv /\ StepsBounded /\ StepsLeft' \in Nat /\ [Next]_vars
    => StepsBounded'
<1> SUFFICES ASSUME RangeInv, CostInv, StepsBounded, StepsLeft' \in Nat, [Next]_vars,
                    phase' # "counting"
             PROVE  StepsLeft' <= 8 * pages' - 2 * chunk_count' + 1
  BY DEF StepsBounded
<1>1. /\ pages \in Nat /\ chunk_count \in Nat /\ chunk_count <= pages
      /\ StepsLeft \in Nat
  BY ChunkCount, AllCovered, ChunkingAssumption
     DEF RangeInv, ChunkInv, TypeOK, StepsBounded
<1>2. CASE UNCHANGED vars
  <2>1. StepsLeft' = StepsLeft /\ chunk_count' = chunk_count /\ pages' = pages
        /\ phase' = phase
    BY <1>2 DEF vars, StepsLeft, CallLeft, LeftsBelow, chunk_count, top, n
  <2> QED BY <2>1 DEF StepsBounded
<1>3. ASSUME NEW p \in 1 .. MaxPages, Count(p)
      PROVE  StepsLeft' <= 8 * pages' - 2 * chunk_count' + 1
  BY <1>3, StepsCount
<1>4. CASE Next /\ ~ \E p \in 1 .. MaxPages : Count(p)
  <2>1. pages' = pages
    BY <1>4 DEF Next, CountFails, OpenRange, Finish, WriteChunk, WriteChunkFails,
       SubmitSucceeds, SubmitFails, Submit, Bisect, Rasterise, TooLargePage,
       WritePicture, WritePictureFails, PictureSucceeds, PictureFails, SubmitPicture,
       ReturnPart, ReturnLeft, ReturnRight, ReturnRightTo, ReturnError, Returns, Done, vars
  <2>2. chunk_count' = chunk_count
    BY <2>1 DEF chunk_count
  <2>3. CASE phase # "counting"
    <3>1. StepsLeft <= 8 * pages - 2 * chunk_count + 1
      BY <2>3 DEF StepsBounded
    <3>2. CASE vars' = vars
      BY <1>2, <3>2
    <3>3. CASE vars' # vars
      <4>1. StepsLeft' < StepsLeft
        BY <1>4, <3>3, StepsStep
      <4> QED BY <1>1, <2>1, <2>2, <3>1, <4>1
    <3> QED BY <3>2, <3>3
  <2>4. CASE phase = "counting"
    <3>1. n = 0
      BY <2>4 DEF RangeInv, ChunkInv, TextSoFar
    <3>2. phase' = "failed" /\ StepsLeft' = 0
      BY <1>4, <2>4 DEF Next, CountFails, OpenRange, Finish, WriteChunk,
         WriteChunkFails, SubmitSucceeds, SubmitFails, Submit, Bisect, Rasterise,
         TooLargePage, WritePicture, WritePictureFails, PictureSucceeds, PictureFails,
         SubmitPicture, ReturnPart, ReturnLeft, ReturnRight, ReturnRightTo, ReturnError,
         Returns, Done, At, StepsLeft
    <3> QED BY <1>1, <2>1, <2>2, <3>2
  <2> QED BY <2>3, <2>4
<1> QED BY <1>2, <1>3, <1>4

\* Whatever Azure refuses, the analysis takes at most eight steps for each page,
\* less two for each chunk, and one: no range is analysed twice
\* (pdf_chunk.rs:49-57, 128-157).  That the worker takes these steps is what
\* Terminates adds to it.
THEOREM EndsInBoundedSteps ==
  Spec => []StepsBounded /\ [][StepsLeft' < StepsLeft]_vars
<1>1. Init => StepsBounded
  BY ChunkingAssumption DEF Init, StepsBounded, StepsLeft
<1>2. RangeInv /\ CostInv => StepsLeft \in Nat
  BY StepsAreSome
<1>3. RangeInv /\ CostInv /\ [Next]_vars => [StepsLeft' < StepsLeft]_vars
  BY StepsStep
<1>4. RangeInv /\ CostInv /\ StepsBounded /\ (StepsLeft \in Nat)' /\ [Next]_vars
        => StepsBounded'
  BY StepsBoundStep
<1> QED BY <1>1, <1>2, <1>3, <1>4, RangeInvariant, CostReachable, PTL DEF Spec

\* The analysis can go on: with the next range, with the call in hand, or with
\* what that call returns.
GoesOn ==
  \/ phase = "counting"
  \/ phase = "running" /\ stack = << >> /\ index \in 0 .. chunk_count
  \/ \E step \in {"split", "submit", "raster", "picture"} : At(step)
  \/ /\ phase = "running" /\ stack # << >> /\ result # Pending
     /\ \/ result.kind \in {"too_large", "other"}
        \/ result.kind = "ok" /\ n = 1
        \/ result.kind = "ok" /\ n > 1 /\ caller.at \in {"left", "right"}

LEMMA PendingByKind == Spec => [](result.kind = "pending" => result = Pending)
<1> DEFINE Kinds == result.kind = "pending" => result = Pending
<1>1. Init => Kinds
  BY DEF Init
<1>2. Kinds /\ [Next]_vars => Kinds'
  <2> SUFFICES ASSUME Kinds, [Next]_vars PROVE Kinds'
    OBVIOUS
  <2>1. \/ UNCHANGED result \/ result' = Pending
        \/ (\E x : result' = Ok(x)) \/ result' = Err("other") \/ result' = Err("too_large")
    BY DEF Next, Count, CountFails, OpenRange, Finish, WriteChunk, WriteChunkFails,
       SubmitSucceeds, SubmitFails, Submit, Bisect, Rasterise, TooLargePage,
       WritePicture, WritePictureFails, PictureSucceeds, PictureFails, SubmitPicture,
       ReturnPart, ReturnLeft, ReturnRight, ReturnRightTo, ReturnError, PropagateError,
       Done, vars
  <2> QED BY <2>1 DEF Ok, Err, Pending
<1> QED BY <1>1, <1>2, PTL DEF Spec

\* What is being submitted has just been written.
LEMMA SubmittedIsWritten ==
  ASSUME RangeInv, Next, ~ Done, At("submit")' \/ At("picture")'
  PROVE  At("split") \/ At("raster")
<1>1. /\ phase' = "running" /\ stack' # << >> /\ result' = Pending
      /\ top'.at \in {"submit", "picture"}
  BY DEF At, Pending
<1>2. \A x : Ok(x) # Pending /\ Err("other") # Pending /\ Err("too_large") # Pending
  BY DEF Ok, Err, Pending
<1>3. TypeOK /\ (stack # << >> => n > 0) /\ (stack = << >> => n = 0)
  BY FrameFacts, EmptySeq DEF RangeInv, ChunkInv, n
<1>4. \A r : Frame(r).at = "split"
  BY DEF Frame
<1>5. ASSUME NEW p \in 1 .. MaxPages, Count(p) PROVE FALSE
  <2>1. stack = << >>
    BY <1>3, <1>5 DEF Count, RangeInv, ChunkInv, TextSoFar
  <2> QED BY <1>1, <1>5, <2>1 DEF Count
<1>6. CASE CountFails \/ Finish
  BY <1>1, <1>6 DEF CountFails, Finish
<1>7. CASE OpenRange
  <2>1. n' = 1 /\ top' = Frame(InitialRange(index))
    BY <1>7 DEF OpenRange, n, top
  <2> QED BY <1>1, <1>4, <2>1
<1>8. CASE WriteChunk \/ WritePicture
  BY <1>8 DEF WriteChunk, WritePicture
<1>9. CASE WriteChunkFails \/ SubmitSucceeds \/ SubmitFails
  BY <1>1, <1>2, <1>9 DEF WriteChunkFails, SubmitSucceeds, SubmitFails, Submit
<1>10. CASE Bisect
  <2>1. top'.at = "split"
    BY <1>3, <1>4, <1>10, BisectFacts
  <2> QED BY <1>1, <2>1
<1>11. CASE Rasterise
  <2>1. n > 0 /\ Goto("raster")
    BY <1>3, <1>11 DEF Rasterise, TooLargePage, At
  <2>2. top'.at = "raster"
    BY <1>3, <2>1, GotoFacts
  <2> QED BY <1>1, <2>2
<1>12. ASSUME NEW left_over, WritePictureFails(left_over) PROVE FALSE
  BY <1>1, <1>2, <1>12 DEF WritePictureFails
<1>13. ASSUME NEW removed, PictureSucceeds(removed) \/ PictureFails(removed) PROVE FALSE
  BY <1>1, <1>2, <1>13 DEF PictureSucceeds, PictureFails, SubmitPicture
<1>14. ASSUME NEW removed, ReturnPart(removed) \/ ReturnRight(removed) \/ ReturnError(removed)
       PROVE  FALSE
  BY <1>1, <1>2, <1>14 DEF ReturnPart, ReturnRight, ReturnRightTo, ReturnError,
     PropagateError, Returns
<1>15. ASSUME NEW removed, ReturnLeft(removed) PROVE FALSE
  <2>1. top'.at = "split"
    BY <1>3, <1>4, <1>15, ReturnLeftStep, ReturnLeftFacts
  <2> QED BY <1>1, <2>1
<1> QED BY <1>5, <1>6, <1>7, <1>8, <1>9, <1>10, <1>11, <1>12, <1>13, <1>14, <1>15
        DEF Next

\* It is never stuck: no index goes past the ranges, a call in hand has a step to
\* do, and a text that is returned has a caller that waits for it
\* (pdf_chunk.rs:49-57, 128-157).
THEOREM NeverStuck == Spec => [](phase \in {"counting", "running"} => GoesOn)
<1>1. RangeInv /\ (result.kind = "pending" => result = Pending)
        => (phase \in {"counting", "running"} => GoesOn)
  <2> SUFFICES ASSUME RangeInv, result.kind = "pending" => result = Pending,
                      phase = "running"
               PROVE  GoesOn
    BY DEF GoesOn
  <2>1. /\ TypeOK /\ Descent /\ TextSoFar /\ Stops
        /\ stack # << >> => n > 0 /\ n \in Nat
    BY FrameFacts DEF RangeInv, ChunkInv
  <2>2. CASE stack = << >>
    <3>1. index \in Nat /\ index <= chunk_count /\ chunk_count \in Nat
      BY <2>1, ChunkCount, ChunkingAssumption DEF TypeOK, TextSoFar
    <3> QED BY <2>2, <3>1 DEF GoesOn
  <2>3. CASE stack # << >> /\ result = Pending
    <3>1. top \in Frames /\ top.at \notin {"left", "right"}
      BY <2>1, <2>3, TopFacts DEF TextSoFar
    <3>2. top.at \in {"split", "submit", "raster", "picture"}
      BY <3>1 DEF Frames
    <3> QED BY <2>3, <3>2 DEF GoesOn, At
  <2>4. CASE stack # << >> /\ result # Pending
    <3>1. result.kind \in {"too_large", "other", "ok"}
      <4>1. result \in Results
        BY <2>1 DEF TypeOK
      <4>2. result.kind # "pending"
        BY <2>4
      <4> QED BY <4>1, <4>2 DEF Results
    <3>2. n > 1 => caller.at \in {"left", "right"}
      <4>1. n > 1 => n - 1 \in 1 .. n - 1
        BY <2>1, <2>4
      <4> QED BY <2>1, <4>1 DEF Descent, caller
    <3>3. n = 1 \/ n > 1
      BY <2>1, <2>4
    <3> QED BY <2>4, <3>1, <3>2, <3>3 DEF GoesOn
  <2> QED BY <2>2, <2>3, <2>4
<1> QED BY <1>1, RangeInvariant, PendingByKind, PTL
=============================================================================
