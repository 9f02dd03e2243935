------------------------ MODULE ProviderTurn_proofs ------------------------
(***************************************************************************)
(* For every set of dialects and tools and every bound: the loop gets      *)
(* whole turns only, the answers on the screen are what was delivered, and *)
(* a tool's result stays on the screen and beside its own call.            *)
(***************************************************************************)
EXTENDS ProviderTurn, FiniteSetTheorems, SequenceTheorems, WellFoundedInduction, TLAPS

-----------------------------------------------------------------------------
(* Counting and ordering.                                                    *)

\* A set of naturals that is not empty has a least element.
LEMMA LeastNatural ==
  ASSUME NEW T \in SUBSET Nat, T # {}
  PROVE  \E x \in T : \A y \in T : x <= y
<1> DEFINE R == {ss \in Nat \X Nat : ss[1] < ss[2]}
<1>1. IsWellFoundedOn(R, Nat)
  BY NatLessThanWellFounded DEF OpToRel
<1> HIDE DEF R
<1>2. PICK x \in T : \A y \in T : ~ (<<y, x>> \in R)
  BY <1>1, WFMin
<1>3. ASSUME NEW y \in T PROVE x <= y
  <2>1. ~(<<y, x>> \in R) /\ x \in Nat /\ y \in Nat
    BY <1>2
  <2>2. y < x => <<y, x>> \in R
    BY <2>1 DEF R
  <2> QED BY <2>1, <2>2
<1> QED BY <1>3

LEMMA MinIsLeast ==
  ASSUME NEW T \in SUBSET Nat, T # {}
  PROVE  Min(T) \in T /\ \A y \in T : Min(T) <= y
BY LeastNatural DEF Min

\* A bounded set has a greatest element.
LEMMA MaxIsGreatest ==
  ASSUME NEW n \in Nat, NEW T \in SUBSET (0 .. n), T # {}
  PROVE  Max(T) \in T /\ \A y \in T : y <= Max(T)
<1> DEFINE D == {n - x : x \in T}
<1>1. D \in SUBSET Nat /\ D # {}
  <2>1. \A x \in T : n - x \in Nat
    OBVIOUS
  <2> QED BY <2>1
<1>2. PICK d \in D : \A y \in D : d <= y
  BY <1>1, LeastNatural
<1>3. PICK x \in T : d = n - x
  BY <1>2
<1>4. ASSUME NEW y \in T PROVE y <= x
  <2>1. n - y \in D
    OBVIOUS
  <2>2. n - x <= n - y
    BY <1>2, <1>3, <2>1
  <2> QED BY <2>2
<1> QED BY <1>4 DEF Max

\* The places of the texts in a sequence of frames.
Places(frames) == {i \in DOMAIN frames : frames[i] = "text"}

LEMMA TextCountIs ==
  ASSUME NEW f \in Seq(Frame)
  PROVE  /\ TextCount(f) = Cardinality(Places(f))
         /\ IsFiniteSet(Places(f)) /\ TextCount(f) \in Nat
<1>1. TextCount(f) = Cardinality(Places(f))
  BY DEF TextCount, Quantify, Places
<1>2. IsFiniteSet(1 .. Len(f)) /\ Places(f) \subseteq 1 .. Len(f)
  BY FS_Interval DEF Places
<1>3. IsFiniteSet(Places(f))
  BY <1>2, FS_Subset
<1> QED BY <1>1, <1>3, FS_CardinalityType

\* The texts of two chunks are those of the one and those of the other.
LEMMA TextCountConcat ==
  ASSUME NEW f \in Seq(Frame), NEW g \in Seq(Frame)
  PROVE  TextCount(f \o g) = TextCount(f) + TextCount(g)
<1> DEFINE n == Len(f)
           Moved == {n + i : i \in Places(g)}
           shift == [i \in Places(g) |-> n + i]
<1>1. f \o g \in Seq(Frame) /\ n \in Nat /\ Len(g) \in Nat
  BY ConcatProperties
<1>2. Places(f \o g) = Places(f) \cup Moved
  <2>1. ASSUME NEW i \in 1 .. (n + Len(g))
        PROVE  i \in Places(f \o g) <=> i \in Places(f) \cup Moved
    <3>1. CASE i <= n
      <4>1. (f \o g)[i] = f[i] /\ i \in DOMAIN f /\ i \in DOMAIN (f \o g)
        BY <2>1, <3>1, <1>1, ConcatProperties
      <4>2. i \notin Moved
        BY <3>1, <1>1 DEF Places
      <4> QED BY <4>1, <4>2 DEF Places
    <3>2. CASE i > n
      <4>1. /\ (f \o g)[i] = g[i - n] /\ i - n \in DOMAIN g /\ i \notin DOMAIN f
            /\ i \in DOMAIN (f \o g)
        BY <2>1, <3>2, <1>1, ConcatProperties
      <4>2. i \in Moved <=> i - n \in Places(g)
        <5>1. ASSUME NEW j \in Places(g), i = n + j PROVE i - n \in Places(g)
          BY <5>1, <1>1 DEF Places
        <5>2. i = n + (i - n)
          BY <1>1
        <5> QED BY <5>1, <5>2
      <4> QED BY <4>1, <4>2 DEF Places
    <3> QED BY <3>1, <3>2, <1>1
  <2>2. Places(f \o g) \subseteq 1 .. (n + Len(g))
    BY <1>1, ConcatProperties DEF Places
  <2>3. Places(f) \cup Moved \subseteq 1 .. (n + Len(g))
    <3>1. Places(f) \subseteq 1 .. n /\ Places(g) \subseteq 1 .. Len(g)
      BY DEF Places
    <3> QED BY <3>1, <1>1
  <2> HIDE DEF Moved
  <2> QED BY <2>1, <2>2, <2>3
<1>3. Places(f) \cap Moved = {}
  BY <1>1 DEF Places
<1>4. IsFiniteSet(Moved) /\ Cardinality(Moved) = Cardinality(Places(g))
  <2>1. \A i, j \in Places(g) : n + i = n + j => i = j
    BY <1>1 DEF Places
  <2>2. shift \in Bijection(Places(g), Moved)
    BY <2>1 DEF Bijection, Injection, Surjection, IsInjective
  <2> HIDE DEF Moved, shift
  <2>3. ExistsBijection(Places(g), Moved)
    BY <2>2 DEF ExistsBijection
  <2> QED BY <2>3, TextCountIs, FS_Bijection
<1> HIDE DEF Moved, n
<1>5. Cardinality(Places(f) \cup Moved) = Cardinality(Places(f)) + Cardinality(Moved)
  <2>1. IsFiniteSet(Places(f)) /\ Cardinality(Places(f)) \in Nat
    BY TextCountIs
  <2>2. Cardinality(Moved) \in Nat
    BY <1>4, TextCountIs
  <2>3. Cardinality(Places(f) \cap Moved) = 0
    BY <1>3, FS_EmptySet
  <2>4. Cardinality(Places(f) \cup Moved)
          = Cardinality(Places(f)) + Cardinality(Moved) - Cardinality(Places(f) \cap Moved)
    BY <1>4, <2>1, FS_Union
  <2> QED BY <2>1, <2>2, <2>3, <2>4
<1> QED BY <1>1, <1>2, <1>4, <1>5, TextCountIs

-----------------------------------------------------------------------------
(* A stream being decoded.                                                   *)

\* What is still queued when k deltas are not yet taken: those, and the end if
\* the turn is whole.
Size(k, whole) == IF whole THEN k + 1 ELSE k
Waiting(k, whole) == [i \in 1 .. Size(k, whole) |-> IF i <= k THEN "text" ELSE "end"]
Assembled(n) == [i \in 1..n |-> number.attempts]
Whole == Verdict(sent) = "whole"

\* Every delta that was decoded is queued or assembled, in order, and belongs
\* to the attempt in flight; outside an attempt there is none.
StreamInv ==
  /\ number \in [attempts : Nat, calls : Nat, inputs : Nat]
  /\ pc \in {"stream", "returned"} => sent \in Seq(Frame)
  /\ pc = "stream" =>
       /\ Whole \/ (Verdict(sent) = "open" /\ dialect # "gemini")
       /\ \E k \in 0 .. Deltas(sent) :
            queue = Waiting(k, Whole) /\ content = Assembled(Deltas(sent) - k)
  /\ pc = "returned" => Whole /\ queue = <<>> /\ content = Assembled(Deltas(sent))
  /\ pc \notin {"stream", "returned"} => sent = <<>> /\ queue = <<>> /\ content = <<>>

\* What the first n elements of a sequence are.
LEMMA PrefixIs ==
  ASSUME NEW S, NEW s \in Seq(S), NEW n \in 0 .. Len(s)
  PROVE  /\ SubSeq(s, 1, n) \in Seq(S) /\ Len(SubSeq(s, 1, n)) = n
         /\ \A i \in 1 .. n : SubSeq(s, 1, n)[i] = s[i]
<1>1. n \in Int /\ \A i \in 1 .. n : s[i] \in S
  BY LenProperties, ElementOfSeq
<1>2. /\ SubSeq(s, 1, n) \in Seq(S)
      /\ Len(SubSeq(s, 1, n)) = IF 1 <= n THEN n - 1 + 1 ELSE 0
      /\ \A i \in 1 .. (n - 1 + 1) : SubSeq(s, 1, n)[i] = s[1 + i - 1]
  BY <1>1, SubSeqProperties
<1> QED BY <1>1, <1>2

LEMMA FramesAreSequences ==
  ASSUME NEW b, NEW f \in Frames(b), b \in Nat
  PROVE  f \in Seq(Frame)
<1>1. PICK n \in 1 .. b : f \in [1 .. n -> Frame]
  BY DEF Frames
<1> QED BY <1>1, SeqDef

LEMMA NothingIsOpen == Verdict(<<>>) = "open"
<1>1. Ends(<<>>) = {}
  BY DEF Ends
<1> QED BY <1>1 DEF Verdict

\* A whole turn is texts and calls up to the end frame, which is its last.
LEMMA WholeShape ==
  ASSUME NEW f \in Seq(Frame), Verdict(f) = "whole"
  PROVE  f # <<>> /\ Last(f) = "end" /\ Range(Front(f)) \subseteq {"text", "call"}
<1> DEFINE e == Min(Ends(f))
           before == SubSeq(f, 1, e - 1)
<1>1. Ends(f) # {}
  BY DEF Verdict
<1>2. Ends(f) \in SUBSET Nat /\ Ends(f) \subseteq 1 .. Len(f)
  BY DEF Ends
<1>3. e \in Ends(f) /\ \A i \in Ends(f) : e <= i
  BY <1>1, <1>2, MinIsLeast
<1> HIDE DEF e
<1>4. f[e] # "cap" /\ f[e] # "junk" /\ ~(e < Len(f)) /\ "badcall" \notin Range(before)
      /\ ~(f[e] = "end" /\ "cap" \in Range(before))
  BY <1>1 DEF Verdict, e
<1>5. e = Len(f) /\ f[e] = "end"
  BY <1>2, <1>3, <1>4 DEF Ends
<1>6. before = Front(f) /\ "cap" \notin Range(Front(f)) /\ "badcall" \notin Range(Front(f))
  BY <1>4, <1>5 DEF Front
<1>7. Len(f) \in Nat /\ Len(f) > 0 /\ f # <<>>
  BY <1>2, <1>3, <1>5
<1>8. ASSUME NEW x \in Range(Front(f)) PROVE x \in {"text", "call"}
  <2> DEFINE n == Len(f) - 1
  <2>1. n \in 0 .. Len(f) /\ n \in Nat
    BY <1>7
  <2> HIDE DEF n
  <2>2. /\ SubSeq(f, 1, n) \in Seq(Frame) /\ Len(SubSeq(f, 1, n)) = n
        /\ \A i \in 1 .. n : SubSeq(f, 1, n)[i] = f[i]
    BY <2>1, PrefixIs
  <2>3. SubSeq(f, 1, n) = Front(f)
    BY DEF Front, n
  <2>4. PICK i \in 1 .. (Len(f) - 1) : x = f[i]
    <3>1. PICK i \in DOMAIN Front(f) : x = Front(f)[i]
      BY <1>8 DEF Range
    <3>2. DOMAIN Front(f) = 1 .. n
      BY <2>2, <2>3, LenProperties
    <3> QED BY <2>1, <2>2, <2>3, <3>1, <3>2 DEF n
  <2>5. i \notin Ends(f)
    BY <1>3, <1>5, <1>7, <2>4
  <2>6. x \in Frame /\ x # "junk" /\ x # "end"
    BY <1>7, <2>4, <2>5 DEF Ends
  <2> QED BY <1>6, <1>8, <2>6 DEF Frame
<1> QED BY <1>5, <1>7, <1>8 DEF Last

\* The deltas of an attempt are a number of them, and those of two chunks add up.
LEMMA DeltasAdd ==
  /\ \A f \in Seq(Frame) : Deltas(f) \in Nat
  /\ Deltas(<<>>) = 0
  /\ dialect # "gemini" => \A f, g \in Seq(Frame) : Deltas(f \o g) = Deltas(f) + Deltas(g)
<1>1. \A f \in Seq(Frame) : Deltas(f) \in Nat
  BY TextCountIs DEF Deltas
<1>2. Deltas(<<>>) = 0
  <2>1. <<>> \in Seq(Frame) /\ Places(<<>>) = {}
    BY DEF Places
  <2> QED BY <2>1, TextCountIs, FS_EmptySet DEF Deltas
<1>3. ASSUME dialect # "gemini", NEW f \in Seq(Frame), NEW g \in Seq(Frame)
      PROVE  Deltas(f \o g) = Deltas(f) + Deltas(g)
  BY <1>3, TextCountConcat DEF Deltas
<1> QED BY <1>1, <1>2, <1>3

\* What the head of the queue tells of what waits in it.
LEMMA WaitingShape ==
  ASSUME NEW k \in Nat, NEW whole \in BOOLEAN
  PROVE  /\ Waiting(k, whole) = <<>> <=> k = 0 /\ ~whole
         /\ Waiting(k, whole) = <<"end">> => k = 0 /\ whole
         /\ Waiting(k, whole) # <<>> /\ Head(Waiting(k, whole)) = "text" =>
              k > 0 /\ Tail(Waiting(k, whole)) = Waiting(k - 1, whole)
<1> DEFINE S == {"text", "end"}
<1>1. ASSUME NEW n \in Nat
      PROVE  /\ Waiting(n, whole) \in Seq(S)
             /\ Len(Waiting(n, whole)) = Size(n, whole)
             /\ \A i \in 1 .. Size(n, whole) :
                  Waiting(n, whole)[i] = IF i <= n THEN "text" ELSE "end"
  <2>1. Size(n, whole) \in Nat
    BY DEF Size
  <2> QED BY <2>1, SeqDef DEF Waiting
<1> HIDE DEF S
<1>2. Waiting(k, whole) = <<>> <=> k = 0 /\ ~whole
  BY <1>1 DEF Size
<1>3. ASSUME Waiting(k, whole) = <<"end">> PROVE k = 0 /\ whole
  <2>1. Size(k, whole) = 1 /\ Waiting(k, whole)[1] = "end"
    <3>1. Len(<<"end">>) = 1 /\ <<"end">>[1] = "end"
      OBVIOUS
    <3>2. Len(Waiting(k, whole)) = Size(k, whole)
      BY <1>1
    <3> QED BY <1>3, <3>1, <3>2
  <2>2. k = 0
    BY <1>1, <2>1 DEF Size
  <2> QED BY <2>1, <2>2 DEF Size
<1>4. ASSUME Waiting(k, whole) # <<>>, Head(Waiting(k, whole)) = "text"
      PROVE  k > 0 /\ Tail(Waiting(k, whole)) = Waiting(k - 1, whole)
  <2>1. Waiting(k, whole)[1] = "text" /\ Size(k, whole) > 0
    BY <1>1, <1>2, <1>4 DEF Size
  <2>2. k > 0
    BY <1>1, <2>1 DEF Size
  <2>3. k - 1 \in Nat /\ Size(k - 1, whole) = Size(k, whole) - 1
    BY <2>2 DEF Size
  <2>4. /\ Tail(Waiting(k, whole)) \in Seq(S)
        /\ Len(Tail(Waiting(k, whole))) = Size(k, whole) - 1
        /\ \A i \in 1 .. (Size(k, whole) - 1) :
             Tail(Waiting(k, whole))[i] = Waiting(k, whole)[i + 1]
    BY <1>1, <1>4, HeadTailProperties
  <2>5. Size(k, whole) \in Nat
    BY DEF Size
  <2>6. ASSUME NEW i \in 1 .. (Size(k, whole) - 1)
        PROVE  Tail(Waiting(k, whole))[i] = Waiting(k - 1, whole)[i]
    <3>1. Waiting(k, whole)[i + 1] = IF i + 1 <= k THEN "text" ELSE "end"
      BY <1>1, <2>5
    <3>2. Waiting(k - 1, whole)[i] = IF i <= k - 1 THEN "text" ELSE "end"
      BY <1>1, <2>3
    <3> QED BY <2>4, <2>5, <3>1, <3>2
  <2>7. Waiting(k - 1, whole) \in Seq(S) /\ Len(Waiting(k - 1, whole)) = Size(k, whole) - 1
    BY <1>1, <2>3
  <2> QED BY <2>2, <2>4, <2>6, <2>7, SeqEqual
<1> QED BY <1>2, <1>3, <1>4

LEMMA QueuedWaits ==
  ASSUME NEW f \in Seq(Frame), NEW whole \in BOOLEAN
  PROVE  Queued(f, whole) = Waiting(Deltas(f), whole)
<1> DEFINE S == {"text", "end"}
           texts == [i \in 1 .. Deltas(f) |-> "text"]
<1>1. Deltas(f) \in Nat
  BY DeltasAdd
<1>2. texts \in Seq(S) /\ Len(texts) = Deltas(f)
  BY <1>1, SeqDef
<1>3. CASE whole
  <2>1. /\ texts \o <<"end">> \in Seq(S) /\ Len(texts \o <<"end">>) = Deltas(f) + 1
        /\ \A i \in 1 .. (Deltas(f) + 1) :
             (texts \o <<"end">>)[i] = IF i <= Deltas(f) THEN texts[i] ELSE <<"end">>[i - Deltas(f)]
    BY <1>1, <1>2, ConcatProperties
  <2>2. Queued(f, whole) = texts \o <<"end">>
    BY <1>3 DEF Queued
  <2>3. /\ Waiting(Deltas(f), whole) \in Seq(S) /\ Len(Waiting(Deltas(f), whole)) = Deltas(f) + 1
        /\ \A i \in 1 .. (Deltas(f) + 1) :
             Waiting(Deltas(f), whole)[i] = IF i <= Deltas(f) THEN "text" ELSE "end"
    BY <1>1, <1>3, SeqDef DEF Waiting, Size
  <2>4. ASSUME NEW i \in 1 .. (Deltas(f) + 1)
        PROVE  (texts \o <<"end">>)[i] = Waiting(Deltas(f), whole)[i]
    <3>1. i > Deltas(f) => <<"end">>[i - Deltas(f)] = "end"
      BY <1>1
    <3> QED BY <1>1, <2>1, <2>3, <3>1
  <2> HIDE DEF texts, S
  <2> QED BY <2>1, <2>2, <2>3, <2>4, SeqEqual
<1>4. CASE ~whole
  <2>1. Queued(f, whole) = texts
    BY <1>2, <1>4, ConcatEmptySeq DEF Queued
  <2>2. Waiting(Deltas(f), whole) = texts
    BY <1>1, <1>4 DEF Waiting, Size
  <2> QED BY <2>1, <2>2
<1> QED BY <1>3, <1>4

\* What a sequence of frames amounts to is of the dialect and the frames alone.
LEMMA VerdictIsOf ==
  ASSUME UNCHANGED dialect
  PROVE  Verdict(sent)' = Verdict(sent') /\ Deltas(sent)' = Deltas(sent')
BY DEF Verdict, Ends, Deltas

LEMMA InitStream == Init => StreamInv
BY DEF Init, StreamInv

\* An attempt or a request that is over leaves nothing of its stream.
LEMMA NothingLeft ==
  ASSUME StreamInv, pc' \notin {"stream", "returned"}, sent' = <<>>, queue' = <<>>, content' = <<>>,
         number' \in [attempts : Nat, calls : Nat, inputs : Nat]
  PROVE  StreamInv'
BY DEF StreamInv

LEMMA EndsLeaveNothing ==
  ASSUME StreamInv
  PROVE  /\ \A kind : Over(kind) => StreamInv'
         /\ Again => StreamInv'
         /\ MidStream => StreamInv'
         /\ Truncated => StreamInv'
<1>1. number \in [attempts : Nat, calls : Nat, inputs : Nat]
  BY DEF StreamInv
<1>2. ASSUME NEW kind, Over(kind) PROVE StreamInv'
  BY <1>1, <1>2, NothingLeft DEF Over, Keep
<1>3. ASSUME Again PROVE StreamInv'
  BY <1>1, <1>3, NothingLeft DEF Again
<1>4. ASSUME Truncated PROVE StreamInv'
  BY <1>1, <1>2, <1>4, NothingLeft DEF Truncated, Keep
<1> QED BY <1>2, <1>3, <1>4 DEF MidStream

\* A step that leaves the stream alone, and the number of the attempt.
LEMMA StreamStays ==
  ASSUME StreamInv, UNCHANGED <<dialect, pc, stream>>,
         number' \in [attempts : Nat, calls : Nat, inputs : Nat],
         number'.attempts = number.attempts
  PROVE  StreamInv'
<1>1. UNCHANGED <<dialect, pc, sent, queue, content>>
  BY DEF stream
<1>2. Verdict(sent)' = Verdict(sent) /\ Deltas(sent)' = Deltas(sent)
  BY <1>1, VerdictIsOf
<1>3. \A n : Assembled(n)' = Assembled(n)
  BY DEF Assembled
<1>4. CASE pc = "stream"
  <2>1. PICK k \in 0 .. Deltas(sent) :
          queue = Waiting(k, Whole) /\ content = Assembled(Deltas(sent) - k)
    BY <1>4 DEF StreamInv
  <2>2. queue' = Waiting(k, Whole') /\ content' = Assembled(Deltas(sent) - k)'
    BY <1>1, <1>2, <1>3, <2>1 DEF Whole
  <2> QED BY <1>1, <1>2, <1>4, <2>1, <2>2 DEF StreamInv, Whole
<1>5. CASE pc = "returned"
  <2>1. content' = Assembled(Deltas(sent))'
    BY <1>1, <1>2, <1>3, <1>5 DEF StreamInv
  <2> QED BY <1>1, <1>2, <1>5, <2>1 DEF StreamInv, Whole
<1>6. CASE pc \notin {"stream", "returned"}
  BY <1>1, <1>6, NothingLeft DEF StreamInv
<1> QED BY <1>4, <1>5, <1>6

\* The stream that is decoded now: k of its deltas wait.
LEMMA Decoded ==
  ASSUME NEW f \in Seq(Frame), NEW k \in 0 .. Deltas(f), UNCHANGED <<dialect, number>>,
         number \in [attempts : Nat, calls : Nat, inputs : Nat],
         Verdict(f) = "whole" \/ (Verdict(f) = "open" /\ dialect # "gemini"),
         pc' = "stream", sent' = f, queue' = Waiting(k, Verdict(f) = "whole"),
         content' = Assembled(Deltas(f) - k)
  PROVE  StreamInv'
<1>1. Verdict(sent)' = Verdict(f) /\ Deltas(sent)' = Deltas(f)
  BY VerdictIsOf
<1>2. content' = Assembled(Deltas(f) - k)'
  BY DEF Assembled, Deltas
<1>3. queue' = Waiting(k, Whole') /\ content' = Assembled(Deltas(sent) - k)'
  BY <1>1, <1>2 DEF Whole
<1> QED BY <1>1, <1>3 DEF StreamInv, Whole

LEMMA RespondStream ==
  ASSUME StreamInv, NEW f \in Seq(Frame), Respond(f)
  PROVE  StreamInv'
<1>1. CASE Truncated
  BY <1>1, EndsLeaveNothing
<1>2. CASE /\ Verdict(f) = "whole" /\ pc' = "stream" /\ sent' = f /\ queue' = Queued(f, TRUE)
           /\ UNCHANGED <<dialect, content, number>> /\ pc = "establish"
  <2>1. queue' = Waiting(Deltas(f), TRUE) /\ Deltas(f) \in Nat
    BY <1>2, QueuedWaits, DeltasAdd
  <2>2. content' = Assembled(Deltas(f) - Deltas(f))
    BY <1>2, <2>1 DEF StreamInv, Assembled
  <2>3. number \in [attempts : Nat, calls : Nat, inputs : Nat]
    BY DEF StreamInv
  <2>4. Deltas(f) \in 0 .. Deltas(f)
    BY <2>1
  <2>5. queue' = Waiting(Deltas(f), Verdict(f) = "whole")
    BY <1>2, <2>1
  <2> QED BY <1>2, <2>2, <2>3, <2>4, <2>5, Decoded
<1> QED BY <1>1, <1>2 DEF Respond

LEMMA ArriveStream ==
  ASSUME StreamInv, NEW f \in Seq(Frame), Arrive(f)
  PROVE  StreamInv'
<1> DEFINE all == sent \o f
<1>1. /\ pc = "stream" /\ queue = <<>> /\ Verdict(sent) = "open"
      /\ \/ MidStream
         \/ Truncated
         \/ /\ Verdict(all) \notin {"broken", "truncated"}
            /\ sent' = all /\ queue' = Queued(f, Verdict(all) = "whole")
            /\ UNCHANGED <<dialect, pc, content, number>>
  BY DEF Arrive
<1>2. sent \in Seq(Frame) /\ dialect # "gemini" /\ ~Whole
      /\ number \in [attempts : Nat, calls : Nat, inputs : Nat]
  BY <1>1 DEF StreamInv, Whole
<1>3. all \in Seq(Frame)
  BY <1>2, ConcatProperties
<1> HIDE DEF all
<1>4. CASE /\ Verdict(all) \notin {"broken", "truncated"}
           /\ sent' = all /\ queue' = Queued(f, Verdict(all) = "whole")
           /\ UNCHANGED <<dialect, pc, content, number>>
  <2>1. PICK k \in 0 .. Deltas(sent) :
          queue = Waiting(k, Whole) /\ content = Assembled(Deltas(sent) - k)
    BY <1>1 DEF StreamInv
  <2>2. Deltas(sent) \in Nat /\ Deltas(f) \in Nat /\ Deltas(all) = Deltas(sent) + Deltas(f)
    BY <1>2, DeltasAdd DEF all
  <2>3. k = 0
    <3>1. k \in Nat /\ Whole \in BOOLEAN /\ Waiting(k, Whole) = <<>>
      BY <1>1, <2>1, <2>2 DEF Whole
    <3> QED BY <3>1, WaitingShape
  <2>4. content' = Assembled(Deltas(all) - Deltas(f))
    BY <1>4, <2>1, <2>2, <2>3
  <2>5. queue' = Waiting(Deltas(f), Verdict(all) = "whole")
    BY <1>4, QueuedWaits
  <2>6. Verdict(all) \in {"open", "whole", "broken", "truncated"}
    BY DEF Verdict
  <2>7. Deltas(f) \in 0 .. Deltas(all)
    BY <2>2
  <2> QED BY <1>1, <1>2, <1>3, <1>4, <2>4, <2>5, <2>6, <2>7, Decoded
<1> QED BY <1>1, <1>4, EndsLeaveNothing

\* One more delta of this attempt is assembled.
LEMMA AssembledGrows ==
  ASSUME NEW n \in Nat
  PROVE  Append(Assembled(n), number.attempts) = Assembled(n + 1)
BY DEF Assembled

LEMMA ShowStream ==
  ASSUME StreamInv, Show
  PROVE  StreamInv'
<1>1. /\ pc = "stream" /\ queue # <<>> /\ Head(queue) = "text" /\ queue' = Tail(queue)
      /\ content' = Append(content, number.attempts)
      /\ UNCHANGED <<dialect, pc, sent, number>>
  BY DEF Show
<1>2. sent \in Seq(Frame) /\ number \in [attempts : Nat, calls : Nat, inputs : Nat]
  BY <1>1 DEF StreamInv
<1>3. PICK k \in 0 .. Deltas(sent) :
        queue = Waiting(k, Whole) /\ content = Assembled(Deltas(sent) - k)
  BY <1>1 DEF StreamInv
<1>4. Deltas(sent) \in Nat /\ k \in Nat /\ Whole \in BOOLEAN
  BY <1>2, DeltasAdd DEF Whole
<1>5. k > 0 /\ queue' = Waiting(k - 1, Whole)
  BY <1>1, <1>3, <1>4, WaitingShape
<1>6. content' = Assembled(Deltas(sent) - (k - 1))
  <2>1. Deltas(sent) - k \in Nat /\ Deltas(sent) - k + 1 = Deltas(sent) - (k - 1)
    BY <1>3, <1>4
  <2> QED BY <1>1, <1>3, <2>1, AssembledGrows
<1>7. k - 1 \in 0 .. Deltas(sent)
  BY <1>4, <1>5
<1>8. Verdict(sent) = "whole" \/ (Verdict(sent) = "open" /\ dialect # "gemini")
  BY <1>1 DEF StreamInv, Whole
<1> QED BY <1>1, <1>2, <1>5, <1>6, <1>7, <1>8, Decoded DEF Whole

LEMMA ReturnStream ==
  ASSUME StreamInv, Return
  PROVE  StreamInv'
<1>1. CASE Over("failed")
  BY <1>1, EndsLeaveNothing
<1>2. CASE /\ pc = "stream" /\ queue = <<"end">> /\ pc' = "returned" /\ queue' = <<>>
           /\ UNCHANGED <<dialect, sent, content, number>>
  <2>1. PICK k \in 0 .. Deltas(sent) :
          queue = Waiting(k, Whole) /\ content = Assembled(Deltas(sent) - k)
    BY <1>2 DEF StreamInv
  <2>2. sent \in Seq(Frame) /\ Deltas(sent) \in Nat
    BY <1>2, DeltasAdd DEF StreamInv
  <2>3. k = 0 /\ Whole
    <3>1. k \in Nat /\ Whole \in BOOLEAN /\ Waiting(k, Whole) = <<"end">>
      BY <1>2, <2>1, <2>2 DEF Whole
    <3> QED BY <3>1, WaitingShape
  <2>4. Verdict(sent)' = Verdict(sent) /\ Deltas(sent)' = Deltas(sent)
    BY <1>2, VerdictIsOf
  <2>5. content' = Assembled(Deltas(sent))'
    BY <1>2, <2>1, <2>2, <2>3, <2>4 DEF Assembled
  <2> QED BY <1>2, <2>2, <2>3, <2>4, <2>5 DEF StreamInv, Whole
<1> QED BY <1>1, <1>2 DEF Return

LEMMA NextStream == StreamInv /\ [Next]_vars => StreamInv'
<1> SUFFICES ASSUME StreamInv, [Next]_vars PROVE StreamInv'
  OBVIOUS
<1>n. number \in [attempts : Nat, calls : Nat, inputs : Nat]
  BY DEF StreamInv
<1>b. MaxFrames \in Nat /\ MaxChunk \in Nat /\ MaxCalls \in Nat
  BY ProviderAssumption
<1>0. ASSUME UNCHANGED vars PROVE StreamInv'
  BY <1>0, <1>n, StreamStays DEF vars, stream
<1>1. ASSUME Ask PROVE StreamInv'
  BY <1>1, <1>n, NothingLeft DEF Ask, stream, StreamInv
<1>2. ASSUME Begin PROVE StreamInv'
  BY <1>2, <1>n, NothingLeft DEF Begin, stream, StreamInv
<1>3. ASSUME Refused \/ Answer \/ Stop PROVE StreamInv'
  BY <1>3, EndsLeaveNothing DEF Refused, Answer, Stop
<1>4. ASSUME Established PROVE StreamInv'
  <2>1. <<>> \in Seq(Frame) /\ Deltas(<<>>) = 0 /\ Verdict(<<>>) = "open"
    BY DeltasAdd, NothingIsOpen
  <2>2. /\ UNCHANGED <<dialect, number, sent, queue, content>> /\ dialect # "gemini"
        /\ sent = <<>> /\ queue = <<>> /\ content = <<>> /\ pc' = "stream"
    BY <1>4 DEF Established, stream, StreamInv
  <2>3. queue' = Waiting(0, Verdict(<<>>) = "whole")
    <3>1. Waiting(0, FALSE) = <<>>
      BY WaitingShape
    <3> QED BY <2>1, <2>2, <3>1
  <2>4. content' = Assembled(Deltas(<<>>) - 0) /\ 0 \in 0 .. Deltas(<<>>)
    BY <2>1, <2>2 DEF Assembled
  <2> QED BY <1>n, <2>1, <2>2, <2>3, <2>4, Decoded
<1>5. ASSUME NEW f \in Frames(MaxFrames), Respond(f) PROVE StreamInv'
  BY <1>5, <1>b, FramesAreSequences, RespondStream
<1>6. ASSUME NEW f \in Frames(MaxChunk), Arrive(f) PROVE StreamInv'
  BY <1>6, <1>b, FramesAreSequences, ArriveStream
<1>7. ASSUME Drop PROVE StreamInv'
  BY <1>7, EndsLeaveNothing DEF Drop
<1>8. ASSUME NEW calls \in Calls, StartTools(calls) PROVE StreamInv'
  <2>1. Len(calls) \in Nat
    BY <1>b DEF Calls
  <2>2. number' \in [attempts : Nat, calls : Nat, inputs : Nat]
    BY <1>8, <1>n, <2>1 DEF StartTools
  <2> QED BY <1>8, <2>2, NothingLeft DEF StartTools, StreamInv, Keep
<1>9. ASSUME Emit PROVE StreamInv'
  BY <1>9, <1>n, StreamStays DEF Emit, stream
<1>10. ASSUME NextTurn PROVE StreamInv'
  BY <1>10, <1>n, NothingLeft DEF NextTurn, stream, StreamInv
<1>11. ASSUME Notice PROVE StreamInv'
  <2>1. number' \in [attempts : Nat, calls : Nat, inputs : Nat] /\ number'.attempts = number.attempts
    BY <1>11, <1>n DEF Notice
  <2> QED BY <1>11, <2>1, StreamStays DEF Notice
<1> QED
  BY <1>0, <1>1, <1>2, <1>3, <1>4, <1>5, <1>6, <1>7, <1>8, <1>9, <1>10, <1>11,
     ShowStream, ReturnStream DEF Next

LEMMA SpecStream == Spec => []StreamInv
BY InitStream, NextStream, PTL DEF Spec

\* The loop gets a turn only when the service has sent its end: nothing cut
\* off, garbled or put together from two attempts (receive and the decoders).
THEOREM WholeTurns == Spec => []OnlyWholeTurns
<1>1. StreamInv => OnlyWholeTurns
  BY WholeShape DEF StreamInv, OnlyWholeTurns, Whole, Assembled
<1> QED BY <1>1, SpecStream, PTL

-----------------------------------------------------------------------------
(* Flattening.                                                               *)

\* h holds what the first n of the sequences ss come to, one after the other.
Flattening(h, ss, n) == h = [i \in 1 .. n |-> IF i = 1 THEN ss[i] ELSE h[i - 1] \o ss[i]]

Lists(ss, n, S) == \A i \in 1 .. n : ss[i] \in Seq(S)

LEMMA FlatteningExists ==
  ASSUME NEW ss, NEW n \in Nat
  PROVE  \E h : Flattening(h, ss, n)
<1> DEFINE T == {x \in Nat : ~\E h : Flattening(h, ss, x)}
<1> SUFFICES ASSUME T # {} PROVE FALSE
  OBVIOUS
<1>1. PICK x \in T : \A y \in T : x <= y
  BY LeastNatural
<1>2. x \in Nat /\ ~\E h : Flattening(h, ss, x)
  BY <1>1
<1>3. CASE x = 0
  <2> DEFINE h == [i \in 1 .. 0 |-> <<>>]
  <2>1. Flattening(h, ss, 0)
    BY DEF Flattening
  <2> QED BY <1>2, <1>3, <2>1
<1>4. CASE x # 0
  <2>1. x - 1 \in Nat /\ x - 1 \notin T
    BY <1>1, <1>2, <1>4
  <2>2. PICK g : Flattening(g, ss, x - 1)
    BY <2>1
  <2> DEFINE last == IF x = 1 THEN ss[x] ELSE g[x - 1] \o ss[x]
             h == [i \in 1 .. x |-> IF i = x THEN last ELSE g[i]]
  <2> HIDE DEF last
  <2>3. ASSUME NEW i \in 1 .. x
        PROVE  h[i] = IF i = 1 THEN ss[i] ELSE h[i - 1] \o ss[i]
    <3>1. CASE i = x
      <4>1. h[i] = last /\ (i # 1 => h[i - 1] = g[i - 1])
        BY <1>2, <1>4, <3>1
      <4> QED BY <3>1, <4>1 DEF last
    <3>2. CASE i # x
      <4>1. i \in 1 .. (x - 1) /\ h[i] = g[i] /\ (i # 1 => h[i - 1] = g[i - 1])
        BY <1>2, <3>2
      <4> QED BY <2>2, <4>1 DEF Flattening
    <3> QED BY <3>1, <3>2
  <2>4. Flattening(h, ss, x)
    BY <2>3 DEF Flattening
  <2> QED BY <1>2, <2>4
<1> QED BY <1>3, <1>4

\* It is of the same elements, and depends on no more than the first sequences.
LEMMA FlatteningUnique ==
  ASSUME NEW S, NEW g, NEW h, NEW ss, NEW tt, NEW m \in Nat, NEW n \in Nat, n <= m,
         Flattening(g, ss, n), Flattening(h, tt, m), Lists(ss, n, S), \A i \in 1 .. n : ss[i] = tt[i]
  PROVE  \A i \in 1 .. n : g[i] = h[i] /\ g[i] \in Seq(S)
<1> DEFINE T == {i \in 1 .. n : ~(g[i] = h[i] /\ g[i] \in Seq(S))}
<1> SUFFICES ASSUME T # {} PROVE FALSE
  OBVIOUS
<1>1. T \in SUBSET Nat
  OBVIOUS
<1>2. PICK x \in T : \A y \in T : x <= y
  BY <1>1, LeastNatural
<1>3. x \in 1 .. n /\ x \in 1 .. m /\ ~(g[x] = h[x] /\ g[x] \in Seq(S))
  BY <1>2
<1>4. /\ g[x] = IF x = 1 THEN ss[x] ELSE g[x - 1] \o ss[x]
      /\ h[x] = IF x = 1 THEN tt[x] ELSE h[x - 1] \o tt[x]
  BY <1>3 DEF Flattening
<1>5. x # 1 => g[x - 1] = h[x - 1] /\ g[x - 1] \in Seq(S)
  <2>1. x # 1 => x - 1 \in 1 .. n /\ x - 1 \notin T
    BY <1>2, <1>3
  <2> QED BY <2>1
<1>6. CASE x = 1
  BY <1>3, <1>4, <1>6 DEF Lists
<1>7. CASE x # 1
  <2>1. g[x - 1] \o ss[x] \in Seq(S)
    BY <1>3, <1>5, <1>7, ConcatProperties DEF Lists
  <2> QED BY <1>3, <1>4, <1>5, <1>7, <2>1
<1> QED BY <1>6, <1>7

LEMMA FlattenIs ==
  ASSUME NEW S, NEW ss \in Seq(Seq(S)), ss # <<>>
  PROVE  \E h : Flattening(h, ss, Len(ss)) /\ FlattenSeq(ss) = h[Len(ss)]
<1>1. Len(ss) \in Nat /\ Len(ss) # 0
  BY EmptySeq
<1> DEFINE h == CHOOSE h : Flattening(h, ss, Len(ss))
<1>2. Flattening(h, ss, Len(ss))
  BY <1>1, FlatteningExists
<1>3. FlattenSeq(ss) = h[Len(ss)]
  BY <1>1 DEF FlattenSeq, Flattening
<1> QED BY <1>2, <1>3

LEMMA FlattenEmpty == FlattenSeq(<<>>) = <<>>
BY DEF FlattenSeq

LEMMA FlattenType ==
  ASSUME NEW S, NEW ss \in Seq(Seq(S))
  PROVE  FlattenSeq(ss) \in Seq(S)
<1>1. CASE ss = <<>>
  <2>1. FlattenSeq(ss) = <<>>
    BY <1>1, FlattenEmpty
  <2> QED BY <2>1, EmptySeq
<1>2. CASE ss # <<>>
  <2>1. PICK h : Flattening(h, ss, Len(ss)) /\ FlattenSeq(ss) = h[Len(ss)]
    BY <1>2, FlattenIs
  <2>2. Len(ss) \in Nat /\ Len(ss) \in 1 .. Len(ss)
    BY <1>2, EmptySeq
  <2>3. Lists(ss, Len(ss), S)
    BY ElementOfSeq DEF Lists
  <2> QED BY <2>1, <2>2, <2>3, FlatteningUnique
<1> QED BY <1>1, <1>2

\* One more sequence comes after the others.
LEMMA FlattenAppend ==
  ASSUME NEW S, NEW ss \in Seq(Seq(S)), NEW t \in Seq(S)
  PROVE  FlattenSeq(Append(ss, t)) = FlattenSeq(ss) \o t
<1> DEFINE tt == Append(ss, t)
           n == Len(ss)
<1>1. /\ tt \in Seq(Seq(S)) /\ tt # <<>> /\ Len(tt) = n + 1 /\ n \in Nat
      /\ \A i \in 1 .. n : tt[i] = ss[i]
      /\ tt[n + 1] = t
  BY AppendProperties
<1> HIDE DEF tt
<1>2. PICK h : Flattening(h, tt, Len(tt)) /\ FlattenSeq(tt) = h[Len(tt)]
  BY <1>1, FlattenIs
<1>3. h[n + 1] = IF n = 0 THEN t ELSE h[n] \o t
  <2>1. n + 1 \in 1 .. Len(tt) /\ (n + 1 = 1 <=> n = 0) /\ n + 1 - 1 = n
    BY <1>1
  <2>2. ASSUME NEW i \in 1 .. Len(tt)
        PROVE  h[i] = IF i = 1 THEN tt[i] ELSE h[i - 1] \o tt[i]
    <3>1. Flattening(h, tt, Len(tt))
      BY <1>2
    <3> QED BY <3>1 DEF Flattening
  <2>3. h[n + 1] = IF n + 1 = 1 THEN tt[n + 1] ELSE h[n + 1 - 1] \o tt[n + 1]
    BY <2>1, <2>2
  <2> QED BY <1>1, <2>1, <2>3
<1>4. CASE n = 0
  <2>1. ss = <<>> /\ <<>> \o t = t
    BY <1>4, EmptySeq, ConcatEmptySeq
  <2> QED BY <1>1, <1>2, <1>3, <1>4, <2>1, FlattenEmpty DEF tt
<1>5. CASE n # 0
  <2>1. PICK g : Flattening(g, ss, n) /\ FlattenSeq(ss) = g[n]
    BY <1>5, <1>1, FlattenIs, EmptySeq
  <2>2. (\A i \in 1 .. n : ss[i] = tt[i]) /\ Lists(ss, n, S)
    BY <1>1, ElementOfSeq DEF Lists
  <2>3. n + 1 \in Nat /\ n <= n + 1 /\ n \in 1 .. n /\ Flattening(h, tt, n + 1)
    BY <1>1, <1>2, <1>5
  <2>4. g[n] = h[n]
    <3> HIDE DEF n
    <3>1. n \in Nat /\ n + 1 \in Nat /\ Flattening(g, ss, n)
      BY <1>1, <2>1
    <3>2. \A i \in 1 .. n : g[i] = h[i] /\ g[i] \in Seq(S)
      BY ONLY <2>2, <2>3, <3>1, FlatteningUnique
    <3> QED BY <2>3, <3>2
  <2> QED BY <1>1, <1>2, <1>3, <1>5, <2>1, <2>4 DEF tt
<1> QED BY <1>4, <1>5

-----------------------------------------------------------------------------
(* Blocks and the text they show.                                            *)

Texts == Seq(Nat)
IsSeq(s) == \E S : s \in Seq(S)
Answered == [kind : {"answer"}, text : Texts \ {<<>>}]
BlockOK(b) == b.kind = "answer" => b \in Answered
Blocks(bs) == IsSeq(bs) /\ \A i \in DOMAIN bs : BlockOK(bs[i])

TextOf(b) == IF b.kind = "answer" THEN b.text ELSE <<>>
TextsOf(bs) == [i \in DOMAIN bs |-> TextOf(bs[i])]
Shown(bs) == FlattenSeq(TextsOf(bs))

LEMMA ShownTextIs == ShownText(view) = Shown(view.blocks)
BY DEF ShownText, Shown, TextsOf, TextOf

LEMMA ConcatAssociates ==
  ASSUME NEW x \in Texts, NEW y \in Texts, NEW z \in Texts
  PROVE  (x \o y) \o z = x \o (y \o z)
BY DEF Texts

LEMMA SeqFacts ==
  ASSUME NEW s, IsSeq(s)
  PROVE  /\ Len(s) \in Nat /\ DOMAIN s = 1 .. Len(s)
         /\ s = <<>> <=> Len(s) = 0
BY EmptySeq DEF IsSeq

LEMMA SeqAppended ==
  ASSUME NEW s, IsSeq(s), NEW e
  PROVE  /\ IsSeq(Append(s, e)) /\ Len(Append(s, e)) = Len(s) + 1
         /\ \A i \in 1 .. Len(s) : Append(s, e)[i] = s[i]
         /\ Append(s, e)[Len(s) + 1] = e
<1>1. PICK S : s \in Seq(S)
  BY DEF IsSeq
<1> DEFINE U == S \cup {e}
<1>2. s \in Seq(U) /\ e \in U
  BY <1>1, SeqMonotonic
<1> HIDE DEF U
<1> QED BY <1>2, AppendProperties DEF IsSeq

LEMMA SeqCut ==
  ASSUME NEW s, IsSeq(s), NEW n \in 0 .. Len(s)
  PROVE  /\ IsSeq(SubSeq(s, 1, n)) /\ Len(SubSeq(s, 1, n)) = n
         /\ \A i \in 1 .. n : SubSeq(s, 1, n)[i] = s[i]
BY PrefixIs DEF IsSeq

LEMMA SeqSame ==
  ASSUME NEW s, IsSeq(s), NEW t, IsSeq(t), Len(s) = Len(t), \A i \in 1 .. Len(s) : s[i] = t[i]
  PROVE  s = t
<1>1. PICK S : s \in Seq(S)
  BY DEF IsSeq
<1>2. PICK T : t \in Seq(T)
  BY DEF IsSeq
<1> DEFINE U == S \cup T
<1>3. s \in Seq(U) /\ t \in Seq(U)
  BY <1>1, <1>2, SeqMonotonic
<1> HIDE DEF U
<1> QED BY <1>3, SeqEqual

\* Two sequences that begin alike have the same prefix.
LEMMA PrefixSame ==
  ASSUME NEW s, IsSeq(s), NEW t, IsSeq(t), NEW n \in 0 .. Len(s), n <= Len(t),
         \A i \in 1 .. n : s[i] = t[i]
  PROVE  SubSeq(s, 1, n) = SubSeq(t, 1, n)
<1>1. n \in 0 .. Len(t)
  BY SeqFacts
<1>2. IsSeq(SubSeq(s, 1, n)) /\ Len(SubSeq(s, 1, n)) = n /\ \A i \in 1 .. n : SubSeq(s, 1, n)[i] = s[i]
  BY SeqCut
<1>3. IsSeq(SubSeq(t, 1, n)) /\ Len(SubSeq(t, 1, n)) = n /\ \A i \in 1 .. n : SubSeq(t, 1, n)[i] = t[i]
  BY <1>1, SeqCut
<1> QED BY <1>2, <1>3, SeqSame

LEMMA PrefixWhole ==
  ASSUME NEW s, IsSeq(s)
  PROVE  SubSeq(s, 1, Len(s)) = s
<1>1. Len(s) \in 0 .. Len(s)
  BY SeqFacts
<1>2. /\ IsSeq(SubSeq(s, 1, Len(s))) /\ Len(SubSeq(s, 1, Len(s))) = Len(s)
      /\ \A i \in 1 .. Len(s) : SubSeq(s, 1, Len(s))[i] = s[i]
  BY <1>1, SeqCut
<1> QED BY <1>2, SeqSame

\* A prefix is the prefix before it with one more element.
LEMMA PrefixStep ==
  ASSUME NEW s, IsSeq(s), NEW n \in 1 .. Len(s)
  PROVE  SubSeq(s, 1, n) = Append(SubSeq(s, 1, n - 1), s[n])
<1> DEFINE p == SubSeq(s, 1, n)
           m == n - 1
           q == SubSeq(s, 1, m)
<1>1. n \in 0 .. Len(s) /\ m \in 0 .. Len(s) /\ m + 1 = n /\ m \in Nat
  BY SeqFacts
<1> HIDE DEF m
<1>2. IsSeq(p) /\ Len(p) = n /\ \A i \in 1 .. n : p[i] = s[i]
  BY <1>1, SeqCut
<1>3. IsSeq(q) /\ Len(q) = m /\ \A i \in 1 .. m : q[i] = s[i]
  BY <1>1, SeqCut
<1> HIDE DEF p, q
<1>4. /\ IsSeq(Append(q, s[n])) /\ Len(Append(q, s[n])) = n
      /\ \A i \in 1 .. m : Append(q, s[n])[i] = q[i]
      /\ Append(q, s[n])[n] = s[n]
  BY <1>1, <1>3, SeqAppended
<1>5. \A i \in 1 .. n : p[i] = Append(q, s[n])[i]
  BY <1>1, <1>2, <1>3, <1>4
<1>6. p = Append(q, s[n])
  BY <1>2, <1>4, <1>5, SeqSame
<1> QED BY <1>6 DEF p, q, m

LEMMA TextsType ==
  ASSUME NEW bs, Blocks(bs)
  PROVE  /\ TextsOf(bs) \in Seq(Texts) /\ Len(TextsOf(bs)) = Len(bs)
         /\ \A i \in 1 .. Len(bs) : TextsOf(bs)[i] = TextOf(bs[i]) /\ TextOf(bs[i]) \in Texts
         /\ Shown(bs) \in Texts
<1>1. Len(bs) \in Nat /\ DOMAIN bs = 1 .. Len(bs)
  BY SeqFacts DEF Blocks
<1>2. <<>> \in Texts
  BY EmptySeq DEF Texts
<1>3. ASSUME NEW i \in 1 .. Len(bs) PROVE TextOf(bs[i]) \in Texts
  BY <1>1, <1>2 DEF Blocks, BlockOK, Answered, TextOf
<1>4. TextsOf(bs) = [i \in 1 .. Len(bs) |-> TextOf(bs[i])]
  BY <1>1 DEF TextsOf
<1>5. TextsOf(bs) \in [1 .. Len(bs) -> Texts]
  BY <1>3, <1>4
<1>6. TextsOf(bs) \in Seq(Texts) /\ Len(TextsOf(bs)) = Len(bs)
  BY <1>1, <1>5, SeqDef
<1> QED BY <1>3, <1>4, <1>6, FlattenType DEF Shown, Texts

\* What is pushed shows its text after that of the others.
LEMMA PushedShows ==
  ASSUME NEW bs, Blocks(bs), NEW b, BlockOK(b)
  PROVE  /\ Blocks(Append(bs, b))
         /\ Shown(Append(bs, b)) = Shown(bs) \o TextOf(b)
         /\ b.kind # "answer" => Shown(Append(bs, b)) = Shown(bs)
<1> DEFINE as == Append(bs, b)
           n == Len(bs)
<1>0. n \in Nat
  BY SeqFacts DEF Blocks
<1>1. /\ IsSeq(as) /\ Len(as) = n + 1 /\ as[n + 1] = b
      /\ \A i \in 1 .. n : as[i] = bs[i]
  BY SeqAppended DEF Blocks
<1> HIDE DEF as
<1>2. Blocks(as)
  <2>1. ASSUME NEW i \in DOMAIN as PROVE BlockOK(as[i])
    <3>1. i \in 1 .. n \/ i = n + 1
      BY <1>0, <1>1, SeqFacts
    <3>2. CASE i \in 1 .. n
      <4>1. i \in DOMAIN bs
        BY <3>2, SeqFacts DEF Blocks
      <4> QED BY <1>1, <3>2, <4>1 DEF Blocks
    <3> QED BY <1>1, <3>1, <3>2
  <2> QED BY <1>1, <2>1 DEF Blocks
<1>3. TextOf(b) \in Texts
  <2>1. <<>> \in Texts
    BY EmptySeq DEF Texts
  <2> QED BY <2>1 DEF BlockOK, Answered, TextOf
<1>4. TextsOf(as) = Append(TextsOf(bs), TextOf(b))
  <2>1. /\ TextsOf(bs) \in Seq(Texts) /\ Len(TextsOf(bs)) = n
        /\ \A i \in 1 .. n : TextsOf(bs)[i] = TextOf(bs[i])
    BY TextsType
  <2>2. /\ TextsOf(as) \in Seq(Texts) /\ Len(TextsOf(as)) = n + 1
        /\ \A i \in 1 .. (n + 1) : TextsOf(as)[i] = TextOf(as[i])
    BY <1>1, <1>2, TextsType
  <2> DEFINE ts == Append(TextsOf(bs), TextOf(b))
  <2>3. /\ ts \in Seq(Texts) /\ Len(ts) = n + 1 /\ ts[n + 1] = TextOf(b)
        /\ \A i \in 1 .. n : ts[i] = TextsOf(bs)[i]
    BY <1>3, <2>1, AppendProperties
  <2> HIDE DEF ts
  <2>4. ASSUME NEW i \in 1 .. (n + 1) PROVE TextsOf(as)[i] = ts[i]
    <3>1. i \in 1 .. n \/ i = n + 1
      BY <1>0
    <3> QED BY <1>1, <2>1, <2>2, <2>3, <3>1
  <2> QED BY <2>2, <2>3, <2>4, SeqEqual DEF ts
<1>5. Shown(as) = Shown(bs) \o TextOf(b)
  BY <1>3, <1>4, TextsType, FlattenAppend DEF Shown, Texts
<1>6. b.kind # "answer" => Shown(bs) \o TextOf(b) = Shown(bs)
  BY TextsType, ConcatEmptySeq DEF TextOf, Texts
<1> QED BY <1>2, <1>5, <1>6 DEF as

LEMMA CutBlocks ==
  ASSUME NEW bs, Blocks(bs), NEW n \in 0 .. Len(bs)
  PROVE  Blocks(SubSeq(bs, 1, n)) /\ Len(SubSeq(bs, 1, n)) = n
         /\ \A i \in 1 .. n : SubSeq(bs, 1, n)[i] = bs[i]
<1>1. IsSeq(bs) /\ Len(bs) \in Nat /\ DOMAIN bs = 1 .. Len(bs)
  BY SeqFacts DEF Blocks
<1> DEFINE p == SubSeq(bs, 1, n)
<1>2. IsSeq(p) /\ Len(p) = n /\ \A i \in 1 .. n : p[i] = bs[i]
  BY <1>1, SeqCut
<1> HIDE DEF p
<1>3. DOMAIN p = 1 .. n /\ \A i \in 1 .. n : i \in DOMAIN bs
  BY <1>1, <1>2, SeqFacts
<1>4. Blocks(p)
  BY <1>2, <1>3 DEF Blocks
<1> QED BY <1>2, <1>4 DEF p

\* What shows no text may go from the end.
LEMMA TailShowsNothing ==
  ASSUME NEW bs, Blocks(bs), NEW n \in 0 .. Len(bs),
         \A i \in (n + 1) .. Len(bs) : bs[i].kind # "answer"
  PROVE  Shown(SubSeq(bs, 1, n)) = Shown(bs)
<1>0. Len(bs) \in Nat /\ IsSeq(bs) /\ n \in Nat
  BY SeqFacts DEF Blocks
<1> DEFINE T == {k \in n .. Len(bs) : Shown(SubSeq(bs, 1, k)) = Shown(bs)}
<1>1. Len(bs) \in T
  <2>1. SubSeq(bs, 1, Len(bs)) = bs
    BY <1>0, PrefixWhole
  <2>2. Shown(SubSeq(bs, 1, Len(bs))) = Shown(bs)
    BY <2>1
  <2>3. Len(bs) \in n .. Len(bs)
    BY <1>0
  <2> QED BY <2>2, <2>3
<1>2. T \in SUBSET Nat /\ T # {}
  BY <1>0, <1>1
<1>3. PICK k \in T : \A j \in T : k <= j
  BY <1>2, LeastNatural
<1>4. k \in n .. Len(bs) /\ Shown(SubSeq(bs, 1, k)) = Shown(bs)
  BY <1>3
<1>5. CASE k = n
  BY <1>4, <1>5
<1>6. CASE k # n
  <2> DEFINE m == k - 1
  <2>1. m \in n .. Len(bs) /\ m \in 0 .. Len(bs) /\ k \in 1 .. Len(bs) /\ ~(k <= m)
        /\ k \in (n + 1) .. Len(bs)
    BY <1>0, <1>4, <1>6
  <2>2. SubSeq(bs, 1, k) = Append(SubSeq(bs, 1, m), bs[k])
    BY <1>0, <2>1, PrefixStep
  <2> HIDE DEF m
  <2>3. Blocks(SubSeq(bs, 1, m)) /\ BlockOK(bs[k]) /\ bs[k].kind # "answer"
    <3>1. k \in DOMAIN bs
      BY <1>0, <2>1, SeqFacts
    <3> QED BY <2>1, <3>1, CutBlocks DEF Blocks
  <2>4. Shown(SubSeq(bs, 1, m)) = Shown(bs)
    <3>1. Shown(Append(SubSeq(bs, 1, m), bs[k])) = Shown(SubSeq(bs, 1, m))
      BY ONLY <2>3, PushedShows
    <3> QED BY <1>4, <2>2, <3>1
  <2>5. m \in T
    BY <2>1, <2>4
  <2> QED BY <1>3, <2>1, <2>5
<1> QED BY <1>5, <1>6

-----------------------------------------------------------------------------
(* What the transcript's methods leave of the text that is shown.            *)

AllOpen(v) == \A e \in v.pending : e.open
ViewOK(v) ==
  /\ v = [blocks |-> v.blocks, pending |-> v.pending, mark |-> v.mark]
  /\ Blocks(v.blocks) /\ IsFiniteSet(v.pending) /\ IsFiniteSet(v.mark.pending)

\* View w shows what v shows, and may hold more at its end.
Extends(w, v) ==
  /\ ViewOK(w) /\ w.mark = v.mark /\ Len(w.blocks) >= Len(v.blocks)
  /\ \A i \in 1 .. Len(v.blocks) : w.blocks[i] = v.blocks[i]

LEMMA PushIs ==
  ASSUME NEW v, ViewOK(v), NEW kind, NEW text, BlockOK(Block(kind, text))
  PROVE  /\ Extends(Push(v, kind, text), v)
         /\ Push(v, kind, text).pending = v.pending
         /\ Push(v, kind, text).blocks = Append(v.blocks, Block(kind, text))
         /\ Shown(Push(v, kind, text).blocks) = Shown(v.blocks) \o TextOf(Block(kind, text))
         /\ Block(kind, text).kind # "answer" => Shown(Push(v, kind, text).blocks) = Shown(v.blocks)
<1> DEFINE b == Block(kind, text)
           w == Push(v, kind, text)
<1>1. BlockOK(b)
  OBVIOUS
<1> HIDE DEF b
<1>2. v = [blocks |-> v.blocks, pending |-> v.pending, mark |-> v.mark]
  BY DEF ViewOK
<1>3. w = [blocks |-> Append(v.blocks, b), pending |-> v.pending, mark |-> v.mark]
  BY <1>2 DEF Push, b
<1>4. w.blocks = Append(v.blocks, b) /\ w.pending = v.pending /\ w.mark = v.mark
  BY <1>3
<1>5. /\ Blocks(Append(v.blocks, b)) /\ Shown(Append(v.blocks, b)) = Shown(v.blocks) \o TextOf(b)
      /\ b.kind # "answer" => Shown(Append(v.blocks, b)) = Shown(v.blocks)
  BY <1>1, PushedShows DEF ViewOK
<1>6. /\ Len(Append(v.blocks, b)) = Len(v.blocks) + 1 /\ Len(v.blocks) \in Nat
      /\ \A i \in 1 .. Len(v.blocks) : Append(v.blocks, b)[i] = v.blocks[i]
  BY SeqAppended, SeqFacts DEF ViewOK, Blocks
<1> HIDE DEF w
<1>7. ViewOK(w)
  BY <1>3, <1>4, <1>5 DEF ViewOK
<1>8. Extends(w, v)
  BY <1>4, <1>6, <1>7 DEF Extends
<1> QED BY <1>4, <1>5, <1>8 DEF w, b

LEMMA PushExtends ==
  ASSUME NEW v, ViewOK(v), NEW kind, NEW text, kind # "answer"
  PROVE  /\ Extends(Push(v, kind, text), v)
         /\ Push(v, kind, text).pending = v.pending
         /\ Shown(Push(v, kind, text).blocks) = Shown(v.blocks)
<1>1. Block(kind, text).kind # "answer" /\ BlockOK(Block(kind, text))
  BY DEF Block, BlockOK
<1> QED BY <1>1, PushIs

LEMMA ExtendsSelf ==
  ASSUME NEW v, ViewOK(v)
  PROVE  Extends(v, v)
BY SeqFacts DEF Extends, ViewOK, Blocks

LEMMA SpacedExtends ==
  ASSUME NEW v, ViewOK(v)
  PROVE  /\ Extends(Spaced(v), v) /\ Spaced(v).pending = v.pending
         /\ Shown(Spaced(v).blocks) = Shown(v.blocks)
<1>1. CASE Spaced(v) = v
  BY <1>1, ExtendsSelf
<1>2. CASE Spaced(v) = Push(v, "spacer", <<>>)
  BY <1>2, PushExtends
<1> QED BY <1>1, <1>2 DEF Spaced

\* How many of the last blocks are live lines of a run, at most n.
LEMMA TrailingIs ==
  ASSUME NEW bs, IsSeq(bs), NEW n \in Nat
  PROVE  /\ Trailing(bs, n) \in 0 .. Len(bs) /\ Trailing(bs, n) <= n
         /\ \A i \in (Len(bs) - Trailing(bs, n) + 1) .. Len(bs) : bs[i].kind \in {"request", "result"}
<1> DEFINE l == Min({n, Len(bs)})
           T == {k \in 0 .. l : \A i \in Len(bs) - k + 1 .. Len(bs) : bs[i].kind \in {"request", "result"}}
<1>1. Len(bs) \in Nat
  BY SeqFacts
<1>2. l \in {n, Len(bs)} /\ l <= Len(bs) /\ l <= n /\ l \in Nat
  <2>1. {n, Len(bs)} \in SUBSET Nat /\ {n, Len(bs)} # {}
    BY <1>1
  <2> QED BY <1>1, <2>1, MinIsLeast
<1>3. Trailing(bs, n) = Max(T)
  BY DEF Trailing
<1> HIDE DEF l
<1>4. 0 \in T /\ T \in SUBSET (0 .. l)
  BY <1>1, <1>2
<1>5. Max(T) \in T
  BY <1>2, <1>4, MaxIsGreatest
<1>6. /\ Max(T) \in 0 .. l
      /\ \A i \in Len(bs) - Max(T) + 1 .. Len(bs) : bs[i].kind \in {"request", "result"}
  BY <1>5
<1> HIDE DEF T
<1> QED BY <1>1, <1>2, <1>3, <1>6

\* Folding takes no text away, and leaves only open calls; where all are open
\* it changes nothing.
LEMMA FlushShows ==
  ASSUME NEW v, ViewOK(v)
  PROVE  /\ ViewOK(Flush(v)) /\ Flush(v).mark = v.mark /\ AllOpen(Flush(v))
         /\ Shown(Flush(v).blocks) = Shown(v.blocks)
         /\ AllOpen(v) => Flush(v).blocks = v.blocks
<1> DEFINE closed == {e \in v.pending : ~e.open}
           n == 2 * Cardinality(closed)
           kept == Len(v.blocks) - Trailing(v.blocks, n)
           group == Block("group", {<<e.call, e.result>> : e \in closed})
           bs == IF Folds(closed) THEN Append(SubSeq(v.blocks, 1, kept), group) ELSE v.blocks
           w == Flush(v)
<1>1. v = [blocks |-> v.blocks, pending |-> v.pending, mark |-> v.mark]
  BY DEF ViewOK
<1>2. w = [blocks |-> bs, pending |-> v.pending \ closed, mark |-> v.mark]
  <2>1. w = [v EXCEPT !.pending = v.pending \ closed, !.blocks = bs]
    BY DEF Flush
  <2> HIDE DEF w, bs, closed
  <2> QED BY <1>1, <2>1
<1>3. w.blocks = bs /\ w.pending = v.pending \ closed /\ w.mark = v.mark
  BY <1>2
<1>4. IsFiniteSet(closed) /\ IsFiniteSet(v.pending \ closed) /\ Cardinality(closed) \in Nat
  <2>1. closed \subseteq v.pending /\ v.pending \ closed \subseteq v.pending
    OBVIOUS
  <2> QED BY <2>1, FS_Subset, FS_CardinalityType DEF ViewOK
<1>5. group.kind = "group" /\ BlockOK(group)
  BY DEF Block, BlockOK
<1>6. n \in Nat /\ IsSeq(v.blocks) /\ Len(v.blocks) \in Nat
  BY <1>4, SeqFacts DEF ViewOK, Blocks
<1> HIDE DEF n, group
<1>7. /\ Trailing(v.blocks, n) \in 0 .. Len(v.blocks)
      /\ \A i \in (Len(v.blocks) - Trailing(v.blocks, n) + 1) .. Len(v.blocks) :
           v.blocks[i].kind \in {"request", "result"}
  BY <1>6, TrailingIs
<1>8. /\ kept \in 0 .. Len(v.blocks)
      /\ \A i \in (kept + 1) .. Len(v.blocks) : v.blocks[i].kind # "answer"
  <2> DEFINE t == Trailing(v.blocks, n)
  <2>1. kept = Len(v.blocks) - t /\ t \in 0 .. Len(v.blocks)
    BY <1>7
  <2>2. \A i \in (kept + 1) .. Len(v.blocks) : v.blocks[i].kind \in {"request", "result"}
    BY <1>7, <2>1
  <2> HIDE DEF t
  <2>3. kept \in 0 .. Len(v.blocks)
    BY <1>6, <2>1
  <2> QED BY <2>2, <2>3
<1> HIDE DEF kept
<1>9. /\ Blocks(SubSeq(v.blocks, 1, kept))
      /\ Shown(SubSeq(v.blocks, 1, kept)) = Shown(v.blocks)
  BY <1>8, CutBlocks, TailShowsNothing DEF ViewOK
<1>10. Blocks(bs) /\ Shown(bs) = Shown(v.blocks)
  BY <1>5, <1>9, PushedShows DEF ViewOK
<1>11. AllOpen(v) => bs = v.blocks
  <2>1. AllOpen(v) => closed = {}
    BY DEF AllOpen
  <2>2. ~Folds({})
    BY FS_EmptySet DEF Folds
  <2> QED BY <2>1, <2>2
<1>12. AllOpen(w)
  BY <1>3 DEF AllOpen
<1> HIDE DEF bs, closed, w
<1>13. ViewOK(w)
  BY <1>2, <1>3, <1>4, <1>10 DEF ViewOK
<1> QED BY <1>3, <1>10, <1>11, <1>12, <1>13 DEF w

LEMMA BufferShows ==
  ASSUME NEW v, ViewOK(v), NEW call, NEW tool
  PROVE  ViewOK(Buffer(v, call, tool)) /\ Shown(Buffer(v, call, tool).blocks) = Shown(v.blocks)
<1> DEFINE w == Push(v, "request", <<call>>)
           e == [call |-> call, tool |-> tool, open |-> TRUE, result |-> call, ok |-> TRUE]
           x == Buffer(v, call, tool)
<1>1. ViewOK(w) /\ w.pending = v.pending /\ Shown(w.blocks) = Shown(v.blocks) /\ w.mark = v.mark
  BY PushExtends DEF Extends
<1>2. x = [w EXCEPT !.pending = @ \cup {e}]
  BY DEF Buffer
<1> HIDE DEF w, e, x
<1>3. w = [blocks |-> w.blocks, pending |-> w.pending, mark |-> w.mark]
  BY <1>1 DEF ViewOK
<1>4. x = [blocks |-> w.blocks, pending |-> w.pending \cup {e}, mark |-> w.mark]
  BY <1>2, <1>3
<1>5. IsFiniteSet(w.pending \cup {e})
  BY <1>1, FS_AddElement DEF ViewOK
<1>6. ViewOK(x) /\ x.blocks = w.blocks
  BY <1>1, <1>4, <1>5 DEF ViewOK
<1> QED BY <1>1, <1>6 DEF x

LEMMA CompleteShows ==
  ASSUME NEW v, ViewOK(v), NEW call, NEW tool, NEW ok
  PROVE  /\ ViewOK(Complete(v, call, tool, ok))
         /\ Shown(Complete(v, call, tool, ok).blocks) = Shown(v.blocks)
<1> DEFINE w == Push(v, "result", <<call>>)
           taken == OldestOpen(v, tool)
           closed == [taken EXCEPT !.open = FALSE, !.result = call, !.ok = ok]
           y == [w EXCEPT !.pending = (@ \ {taken}) \cup {closed}]
           x == Complete(v, call, tool, ok)
<1>1. ViewOK(w) /\ w.pending = v.pending /\ Shown(w.blocks) = Shown(v.blocks)
  BY PushExtends DEF Extends
<1>2. x = w \/ x = y
  BY DEF Complete
<1> HIDE DEF w, taken, closed, x
<1>3. w = [blocks |-> w.blocks, pending |-> w.pending, mark |-> w.mark]
  BY <1>1 DEF ViewOK
<1>4. y = [blocks |-> w.blocks, pending |-> (w.pending \ {taken}) \cup {closed}, mark |-> w.mark]
  BY <1>3
<1>5. IsFiniteSet((w.pending \ {taken}) \cup {closed})
  BY <1>1, FS_AddElement, FS_RemoveElement DEF ViewOK
<1>6. ViewOK(y) /\ y.blocks = w.blocks
  BY <1>1, <1>4, <1>5 DEF ViewOK
<1> QED BY <1>1, <1>2, <1>6 DEF x

-----------------------------------------------------------------------------
(* The mark of the attempt in flight.                                        *)

\* What a rollback to the mark would show.
Before(v) ==
  IF v.mark.tail > 0
  THEN Shown(SubSeq(v.blocks, 1, v.mark.blocks - 1)) \o SubSeq(v.blocks[v.mark.blocks].text, 1, v.mark.tail)
  ELSE Shown(SubSeq(v.blocks, 1, v.mark.blocks))

\* The mark points into the blocks, at the answer that was last if one was.
Marked(v) ==
  /\ v.mark.blocks \in 0 .. Len(v.blocks) /\ v.mark.tail \in Nat
  /\ v.mark.tail > 0 <=> v.mark.blocks > 0 /\ v.blocks[v.mark.blocks].kind = "answer"
  /\ v.mark.tail > 0 => v.mark.tail <= Len(v.blocks[v.mark.blocks].text)

\* An answer block, and what it shows.
LEMMA AnswerIs ==
  ASSUME NEW v, ViewOK(v), NEW i \in 1 .. Len(v.blocks), v.blocks[i].kind = "answer"
  PROVE  /\ v.blocks[i] = [kind |-> "answer", text |-> v.blocks[i].text]
         /\ v.blocks[i].text \in Texts \ {<<>>}
         /\ Len(v.blocks[i].text) \in Nat \ {0}
<1>1. i \in DOMAIN v.blocks
  BY SeqFacts DEF ViewOK, Blocks
<1>2. v.blocks[i] \in Answered
  BY <1>1 DEF ViewOK, Blocks, BlockOK
<1>3. /\ v.blocks[i] = [kind |-> "answer", text |-> v.blocks[i].text]
      /\ v.blocks[i].text \in Texts \ {<<>>}
  BY <1>2 DEF Answered
<1> QED BY <1>3, EmptySeq DEF Texts

\* Pushing leaves what the mark is of.
LEMMA ExtendsMarked ==
  ASSUME NEW v, ViewOK(v), Marked(v), NEW w, Extends(w, v)
  PROVE  Marked(w) /\ Before(w) = Before(v)
<1> DEFINE m == v.mark.blocks
<1>1. /\ m \in 0 .. Len(v.blocks) /\ Len(v.blocks) \in Nat /\ Len(w.blocks) \in Nat
      /\ Len(w.blocks) >= Len(v.blocks) /\ w.mark = v.mark
      /\ IsSeq(v.blocks) /\ IsSeq(w.blocks)
      /\ \A i \in 1 .. Len(v.blocks) : w.blocks[i] = v.blocks[i]
  BY SeqFacts DEF Marked, Extends, ViewOK, Blocks
<1>2. m > 0 => w.blocks[m] = v.blocks[m]
  BY <1>1
<1>3. Marked(w)
  BY <1>1, <1>2 DEF Marked
<1>4. ASSUME NEW k \in 0 .. m PROVE SubSeq(w.blocks, 1, k) = SubSeq(v.blocks, 1, k)
  <2>1. k \in 0 .. Len(w.blocks) /\ k <= Len(v.blocks) /\ \A i \in 1 .. k : w.blocks[i] = v.blocks[i]
    BY <1>1
  <2> QED BY <1>1, <2>1, PrefixSame
<1>5. CASE v.mark.tail > 0
  <2>1. m > 0 /\ m - 1 \in 0 .. m
    BY <1>1, <1>5 DEF Marked
  <2>2. SubSeq(w.blocks, 1, m - 1) = SubSeq(v.blocks, 1, m - 1)
    BY <1>4, <2>1
  <2> QED BY <1>1, <1>2, <1>3, <1>5, <2>1, <2>2 DEF Before
<1>6. CASE ~(v.mark.tail > 0)
  <2>1. SubSeq(w.blocks, 1, m) = SubSeq(v.blocks, 1, m)
    BY <1>1, <1>4
  <2> QED BY <1>1, <1>3, <1>6, <2>1 DEF Before
<1> QED BY <1>3, <1>5, <1>6

\* Blocks whose last is an answer: what comes before it, and it.
LEMMA LastAnswer ==
  ASSUME NEW v, ViewOK(v), NEW n \in 1 .. Len(v.blocks), v.blocks[n].kind = "answer"
  PROVE  /\ Shown(SubSeq(v.blocks, 1, n)) = Shown(SubSeq(v.blocks, 1, n - 1)) \o v.blocks[n].text
         /\ Blocks(SubSeq(v.blocks, 1, n - 1)) /\ Len(SubSeq(v.blocks, 1, n - 1)) = n - 1
         /\ \A i \in 1 .. (n - 1) : SubSeq(v.blocks, 1, n - 1)[i] = v.blocks[i]
<1> DEFINE m == n - 1
<1>1. m \in 0 .. Len(v.blocks) /\ IsSeq(v.blocks) /\ n \in DOMAIN v.blocks
  BY SeqFacts DEF ViewOK, Blocks
<1>2. SubSeq(v.blocks, 1, n) = Append(SubSeq(v.blocks, 1, m), v.blocks[n])
  BY <1>1, PrefixStep
<1> HIDE DEF m
<1>3. /\ Blocks(SubSeq(v.blocks, 1, m)) /\ Len(SubSeq(v.blocks, 1, m)) = m
      /\ \A i \in 1 .. m : SubSeq(v.blocks, 1, m)[i] = v.blocks[i]
  BY <1>1, CutBlocks DEF ViewOK
<1>4. BlockOK(v.blocks[n])
  BY <1>1 DEF ViewOK, Blocks
<1>5. Shown(SubSeq(v.blocks, 1, n)) = Shown(SubSeq(v.blocks, 1, m)) \o v.blocks[n].text
  <2>1. Shown(Append(SubSeq(v.blocks, 1, m), v.blocks[n]))
          = Shown(SubSeq(v.blocks, 1, m)) \o TextOf(v.blocks[n])
    BY <1>3, <1>4, PushedShows
  <2>2. TextOf(v.blocks[n]) = v.blocks[n].text
    BY DEF TextOf
  <2> QED BY <1>2, <2>1, <2>2
<1> QED BY <1>3, <1>5 DEF m

\* A mark taken now is of all that is shown.
LEMMA MarkShows ==
  ASSUME NEW v, ViewOK(v)
  PROVE  /\ ViewOK(Mark(v)) /\ Marked(Mark(v)) /\ Before(Mark(v)) = Shown(v.blocks)
         /\ Mark(v).pending = v.pending /\ Mark(v).blocks = v.blocks
<1> DEFINE n == Len(v.blocks)
           tail == IF EndsIn(v, "answer") THEN Len(Last(v.blocks).text) ELSE 0
           mark == [blocks |-> n, pending |-> v.pending, tail |-> tail]
           w == Mark(v)
<1>1. w = [blocks |-> v.blocks, pending |-> v.pending, mark |-> mark]
  BY DEF Mark, ViewOK
<1>2. w.blocks = v.blocks /\ w.pending = v.pending /\ w.mark = mark
  BY <1>1
<1>3. n \in Nat /\ (v.blocks = <<>> <=> n = 0) /\ IsSeq(v.blocks)
  BY SeqFacts DEF ViewOK, Blocks
<1>4. EndsIn(v, "answer") <=> n > 0 /\ v.blocks[n].kind = "answer"
  BY <1>3 DEF EndsIn, Last
<1>5. ViewOK(w)
  BY <1>1, <1>2 DEF ViewOK
<1>6. mark.blocks = n /\ mark.tail = tail
  OBVIOUS
<1>7. EndsIn(v, "answer") =>
        /\ tail = Len(v.blocks[n].text) /\ tail \in Nat \ {0}
        /\ v.blocks[n].text \in Texts
  <2>1. ASSUME EndsIn(v, "answer")
        PROVE  /\ tail = Len(v.blocks[n].text) /\ tail \in Nat \ {0}
               /\ v.blocks[n].text \in Texts
    <3>1. n \in 1 .. Len(v.blocks) /\ v.blocks[n].kind = "answer"
      BY <1>3, <1>4, <2>1
    <3>2. v.blocks[n].text \in Texts \ {<<>>} /\ Len(v.blocks[n].text) \in Nat \ {0}
      BY <3>1, AnswerIs
    <3>3. tail = Len(v.blocks[n].text)
      BY <2>1 DEF Last
    <3> QED BY <3>2, <3>3
  <2> QED BY <2>1
<1>8. ~EndsIn(v, "answer") => tail = 0
  OBVIOUS
<1> HIDE DEF tail, mark, w
<1>9. Marked(w)
  BY <1>2, <1>3, <1>4, <1>6, <1>7, <1>8 DEF Marked
<1>10. Before(w) = Shown(v.blocks)
  <2>1. SubSeq(v.blocks, 1, n) = v.blocks
    BY <1>3, PrefixWhole
  <2>2. CASE EndsIn(v, "answer")
    <3>1. n \in 1 .. Len(v.blocks)
      BY <1>3, <1>4, <2>2
    <3>2. Shown(v.blocks) = Shown(SubSeq(v.blocks, 1, n - 1)) \o v.blocks[n].text
      BY <1>4, <2>1, <2>2, <3>1, LastAnswer
    <3>3. SubSeq(v.blocks[n].text, 1, tail) = v.blocks[n].text
      BY <1>7, <2>2, PrefixWhole DEF Texts, IsSeq
    <3>4. w.mark.tail > 0
      BY <1>2, <1>6, <1>7, <2>2
    <3> QED BY <1>2, <1>6, <3>2, <3>3, <3>4 DEF Before
  <2>3. CASE ~EndsIn(v, "answer")
    <3>1. ~(w.mark.tail > 0)
      BY <1>2, <1>6, <1>8, <2>3
    <3> QED BY <1>2, <1>6, <2>1, <3>1 DEF Before
  <2> QED BY <2>2, <2>3
<1> QED BY <1>2, <1>5, <1>9, <1>10 DEF w

LEMMA StartShows ==
  ASSUME NEW v, ViewOK(v)
  PROVE  /\ ViewOK(StartAttempt(v)) /\ Marked(StartAttempt(v)) /\ AllOpen(StartAttempt(v))
         /\ Shown(StartAttempt(v).blocks) = Shown(v.blocks)
         /\ Before(StartAttempt(v)) = Shown(v.blocks)
<1>1. ViewOK(Flush(v)) /\ AllOpen(Flush(v)) /\ Shown(Flush(v).blocks) = Shown(v.blocks)
  BY FlushShows
<1> DEFINE f == Flush(v)
<1> HIDE DEF f
<1>2. /\ ViewOK(Mark(f)) /\ Marked(Mark(f)) /\ Before(Mark(f)) = Shown(f.blocks)
      /\ Mark(f).pending = f.pending /\ Mark(f).blocks = f.blocks
  BY <1>1, MarkShows DEF f
<1>3. AllOpen(Mark(f))
  BY <1>1, <1>2 DEF AllOpen, f
<1> QED BY <1>1, <1>2, <1>3 DEF StartAttempt, f

\* The last element of a sequence changed.
LEMMA LastReplaced ==
  ASSUME NEW s, IsSeq(s), s # <<>>, NEW e
  PROVE  [s EXCEPT ![Len(s)] = e] = Append(SubSeq(s, 1, Len(s) - 1), e)
<1> DEFINE n == Len(s)
           m == n - 1
           p == SubSeq(s, 1, m)
           r == [s EXCEPT ![n] = e]
<1>1. PICK S : s \in Seq(S)
  BY DEF IsSeq
<1> DEFINE U == S \cup {e}
<1>2. s \in Seq(U) /\ e \in U
  BY <1>1, SeqMonotonic
<1>3. n \in Nat /\ n # 0 /\ m \in 0 .. n /\ m + 1 = n /\ m \in Nat
  BY SeqFacts
<1> HIDE DEF U, m
<1>4. n \in 1 .. n
  BY <1>3
<1>5. r \in Seq(U) /\ Len(r) = n /\ \A j \in 1 .. n : r[j] = IF j = n THEN e ELSE s[j]
  BY <1>2, <1>4, ExceptSeq
<1>6. IsSeq(p) /\ Len(p) = m /\ \A i \in 1 .. m : p[i] = s[i]
  BY <1>3, SeqCut
<1> HIDE DEF p, r
<1>7. /\ IsSeq(Append(p, e)) /\ Len(Append(p, e)) = n /\ Append(p, e)[n] = e
      /\ \A i \in 1 .. m : Append(p, e)[i] = p[i]
  BY <1>3, <1>6, SeqAppended
<1>8. IsSeq(r)
  BY <1>5 DEF IsSeq
<1>9. \A i \in 1 .. n : r[i] = Append(p, e)[i]
  BY <1>3, <1>5, <1>6, <1>7
<1>10. r = Append(p, e)
  BY <1>5, <1>7, <1>8, <1>9, SeqSame
<1> QED BY <1>10 DEF r, p, m

\* A last answer b put in place of another answer, after the same blocks.
LEMMA AnswerReplaced ==
  ASSUME NEW bs, Blocks(bs), bs # <<>>, bs[Len(bs)] \in Answered, NEW t \in Texts \ {<<>>}
  PROVE  LET as == [bs EXCEPT ![Len(bs)].text = t]
             p == SubSeq(bs, 1, Len(bs) - 1)
         IN /\ Blocks(as) /\ Len(as) = Len(bs) /\ as[Len(bs)] = [kind |-> "answer", text |-> t]
            /\ \A i \in 1 .. (Len(bs) - 1) : as[i] = bs[i]
            /\ Shown(as) = Shown(p) \o t
<1> DEFINE n == Len(bs)
           m == n - 1
           b == [kind |-> "answer", text |-> t]
           as == [bs EXCEPT ![n].text = t]
           p == SubSeq(bs, 1, m)
<1>1. n \in Nat /\ n # 0 /\ m \in 0 .. n /\ m + 1 = n /\ m \in Nat /\ IsSeq(bs)
  BY SeqFacts DEF Blocks
<1>2. [bs[n] EXCEPT !.text = t] = b
  BY DEF Answered
<1>3. as = [bs EXCEPT ![n] = b]
  BY <1>2
<1>4. as = Append(p, b)
  BY <1>1, <1>3, LastReplaced
<1>5. BlockOK(b) /\ TextOf(b) = t
  BY DEF BlockOK, TextOf, Answered
<1> HIDE DEF as, b, m
<1>6. Blocks(p) /\ Len(p) = m /\ \A i \in 1 .. m : p[i] = bs[i]
  BY <1>1, CutBlocks
<1> HIDE DEF p
<1>7. Blocks(as) /\ Shown(as) = Shown(p) \o t
  BY <1>4, <1>5, <1>6, PushedShows
<1>8. Len(as) = n /\ as[n] = b /\ \A i \in 1 .. m : as[i] = bs[i]
  <2>1. /\ Len(Append(p, b)) = m + 1 /\ Append(p, b)[m + 1] = b
        /\ \A i \in 1 .. m : Append(p, b)[i] = p[i]
    BY <1>6, SeqAppended DEF Blocks
  <2> QED BY <1>1, <1>4, <1>6, <2>1
<1> QED BY <1>7, <1>8 DEF as, b, p, m

\* Blocks cs are bs with the last, an answer, replaced by one with text t.
Replaced(cs, bs, t) ==
  /\ Blocks(cs) /\ Len(cs) = Len(bs) /\ cs[Len(bs)] = [kind |-> "answer", text |-> t]
  /\ \A i \in 1 .. (Len(bs) - 1) : cs[i] = bs[i]

LEMMA AnswerIsReplaced ==
  ASSUME NEW bs, Blocks(bs), bs # <<>>, bs[Len(bs)] \in Answered, NEW t \in Texts \ {<<>>}
  PROVE  Replaced([bs EXCEPT ![Len(bs)].text = t], bs, t)
<1> DEFINE cs == [bs EXCEPT ![Len(bs)].text = t]
<1>1. /\ Blocks(cs) /\ Len(cs) = Len(bs) /\ cs[Len(bs)] = [kind |-> "answer", text |-> t]
      /\ \A i \in 1 .. (Len(bs) - 1) : cs[i] = bs[i]
  BY AnswerReplaced
<1> HIDE DEF cs
<1>2. Replaced(cs, bs, t)
  BY <1>1 DEF Replaced
<1> QED BY <1>2 DEF cs

\* A delta is shown after the rest, and leaves what the mark is of.
LEMMA DeltaOpensAnswer ==
  ASSUME NEW v, ViewOK(v), Marked(v), NEW d \in Nat, ~EndsIn(v, "answer")
  PROVE  /\ ViewOK(PushText(v, d)) /\ Marked(PushText(v, d)) /\ Before(PushText(v, d)) = Before(v)
         /\ PushText(v, d).pending = v.pending
         /\ Shown(PushText(v, d).blocks) = Shown(v.blocks) \o <<d>>
<1> DEFINE s == Spaced(v)
           w == Push(s, "answer", <<d>>)
<1>1. PushText(v, d) = w
  BY DEF PushText
<1>2. Extends(s, v) /\ s.pending = v.pending /\ Shown(s.blocks) = Shown(v.blocks)
  BY SpacedExtends
<1>3. <<d>> \in Texts \ {<<>>}
  BY DEF Texts
<1>4. BlockOK(Block("answer", <<d>>)) /\ TextOf(Block("answer", <<d>>)) = <<d>>
  BY <1>3 DEF BlockOK, TextOf, Block, Answered
<1> HIDE DEF s
<1>5. ViewOK(s) /\ Marked(s) /\ Before(s) = Before(v)
  BY <1>2, ExtendsMarked DEF Extends
<1>6. Extends(w, s) /\ w.pending = s.pending /\ Shown(w.blocks) = Shown(s.blocks) \o <<d>>
  <2>1. /\ Extends(w, s) /\ w.pending = s.pending
        /\ Shown(w.blocks) = Shown(s.blocks) \o TextOf(Block("answer", <<d>>))
    <3>1. BlockOK(Block("answer", <<d>>)) /\ ViewOK(s)
      BY <1>4, <1>5
    <3> QED BY ONLY <3>1, PushIs
  <2> QED BY <1>4, <2>1
<1> HIDE DEF w
<1>7. ViewOK(w) /\ Marked(w) /\ Before(w) = Before(s)
  BY <1>5, <1>6, ExtendsMarked DEF Extends
<1> QED BY <1>1, <1>2, <1>5, <1>6, <1>7

LEMMA DeltaGrowsAnswer ==
  ASSUME NEW v, ViewOK(v), Marked(v), NEW d \in Nat, EndsIn(v, "answer")
  PROVE  /\ ViewOK(PushText(v, d)) /\ Marked(PushText(v, d)) /\ Before(PushText(v, d)) = Before(v)
         /\ PushText(v, d).pending = v.pending
         /\ Shown(PushText(v, d).blocks) = Shown(v.blocks) \o <<d>>
<1> DEFINE n == Len(v.blocks)
           t == v.blocks[n].text
           bs == [v.blocks EXCEPT ![n].text = Append(t, d)]
           w == PushText(v, d)
           m == v.mark.blocks
<1>1. n \in Nat /\ n > 0 /\ v.blocks # <<>> /\ v.blocks[n].kind = "answer" /\ IsSeq(v.blocks)
  BY SeqFacts DEF EndsIn, Last, ViewOK, Blocks
<1>2. n \in 1 .. Len(v.blocks) /\ n \in DOMAIN v.blocks
  BY <1>1, SeqFacts
<1>3. t \in Texts \ {<<>>} /\ Len(t) \in Nat \ {0} /\ v.blocks[n] \in Answered
  BY <1>1, <1>2, AnswerIs DEF ViewOK, Blocks, BlockOK
<1>4. /\ Append(t, d) \in Texts \ {<<>>} /\ Append(t, d) = t \o <<d>> /\ Len(Append(t, d)) = Len(t) + 1
      /\ \A i \in 1 .. Len(t) : Append(t, d)[i] = t[i]
  <2>1. t \in Seq(Nat)
    BY <1>3 DEF Texts
  <2> HIDE DEF t
  <2>2. /\ Append(t, d) \in Seq(Nat) /\ Append(t, d) # <<>> /\ Len(Append(t, d)) = Len(t) + 1
        /\ \A i \in 1 .. Len(t) : Append(t, d)[i] = t[i]
    BY <2>1, AppendProperties
  <2>3. Append(t, d) = t \o <<d>>
    BY <2>1, AppendIsConcat
  <2> QED BY <2>2, <2>3 DEF Texts
<1>5. w = [blocks |-> bs, pending |-> v.pending, mark |-> v.mark]
  <2>1. w = [v EXCEPT !.blocks = bs]
    BY DEF PushText
  <2> HIDE DEF bs, w
  <2> QED BY <2>1 DEF ViewOK
<1>6. w.blocks = bs /\ w.pending = v.pending /\ w.mark = v.mark
  BY <1>5
<1> DEFINE p == SubSeq(v.blocks, 1, n - 1)
           t2 == Append(t, d)
<1>7. /\ Blocks(bs) /\ Len(bs) = n /\ bs[n] = [kind |-> "answer", text |-> t2]
      /\ \A i \in 1 .. (n - 1) : bs[i] = v.blocks[i]
      /\ Shown(bs) = Shown(p) \o t2
  BY <1>1, <1>3, <1>4, AnswerReplaced DEF ViewOK
<1>8. /\ Shown(v.blocks) = Shown(p) \o t /\ Blocks(p)
  <2>1. SubSeq(v.blocks, 1, n) = v.blocks
    BY <1>1, PrefixWhole
  <2>2. Shown(SubSeq(v.blocks, 1, n)) = Shown(p) \o t /\ Blocks(p)
    BY <1>1, <1>2, LastAnswer
  <2> QED BY <2>1, <2>2
<1> HIDE DEF bs, w, p, t2
<1>9. ViewOK(w)
  BY <1>5, <1>6, <1>7 DEF ViewOK
<1>10. Shown(bs) = Shown(v.blocks) \o <<d>>
  <2>1. Shown(p) \in Texts /\ t \in Texts /\ <<d>> \in Texts
    BY <1>3, <1>8, TextsType DEF Texts
  <2>2. (Shown(p) \o t) \o <<d>> = Shown(p) \o (t \o <<d>>)
    BY <2>1, ConcatAssociates
  <2> QED BY <1>4, <1>7, <1>8, <2>2 DEF t2
<1>11. m \in 0 .. n /\ (m < n => m = 0 \/ bs[m] = v.blocks[m])
  <2>1. m \in 0 .. n
    BY DEF Marked
  <2>2. \A i \in 1 .. (n - 1) : bs[i] = v.blocks[i]
    BY <1>7
  <2> HIDE DEF m, n
  <2> QED BY <1>1, <2>1, <2>2
<1>12. ASSUME NEW k \in 0 .. (n - 1) PROVE SubSeq(bs, 1, k) = SubSeq(v.blocks, 1, k)
  <2>1. k \in 0 .. Len(bs) /\ k <= Len(v.blocks) /\ \A i \in 1 .. k : bs[i] = v.blocks[i]
    BY <1>1, <1>7
  <2> QED BY <1>1, <1>7, <2>1, PrefixSame DEF Blocks
<1>13. CASE m < n
  <2>1. Marked(w)
    BY <1>1, <1>6, <1>7, <1>11, <1>13 DEF Marked
  <2>2. SubSeq(bs, 1, m) = SubSeq(v.blocks, 1, m)
    <3>1. m \in 0 .. (n - 1)
      BY <1>1, <1>11, <1>13
    <3> QED BY <1>12, <3>1
  <2>3. v.mark.tail > 0 => SubSeq(bs, 1, m - 1) = SubSeq(v.blocks, 1, m - 1) /\ bs[m] = v.blocks[m]
    <3>1. v.mark.tail > 0 => m > 0 /\ m - 1 \in 0 .. (n - 1)
      BY <1>1, <1>11, <1>13 DEF Marked
    <3> QED BY <1>11, <1>12, <1>13, <3>1
  <2>4. Before(w) = Before(v)
    BY <1>6, <2>2, <2>3 DEF Before
  <2> QED BY <1>6, <1>9, <1>10, <2>1, <2>4 DEF w
<1>14. CASE m = n
  <2>1. v.mark.tail \in Nat /\ v.mark.tail > 0 /\ v.mark.tail <= Len(t)
    BY <1>1, <1>14 DEF Marked
  <2>2. bs[m].kind = "answer" /\ bs[m].text = t2 /\ Len(t2) = Len(t) + 1
    <3>1. Len(t2) = Len(t) + 1
      BY <1>4 DEF t2
    <3>2. bs[n] = [kind |-> "answer", text |-> t2]
      BY <1>7
    <3> QED BY <1>14, <3>1, <3>2
  <2>3. Marked(w)
    BY <1>1, <1>3, <1>6, <1>7, <1>14, <2>1, <2>2 DEF Marked
  <2>4. SubSeq(t2, 1, v.mark.tail) = SubSeq(t, 1, v.mark.tail)
    <3>1. IsSeq(t) /\ IsSeq(t2) /\ Len(t) \in Nat
      BY <1>3, <1>4 DEF t2, Texts, IsSeq
    <3>2. Len(t2) = Len(t) + 1 /\ \A i \in 1 .. Len(t) : t2[i] = t[i]
      BY <1>4 DEF t2
    <3>3. /\ v.mark.tail \in 0 .. Len(t2) /\ v.mark.tail <= Len(t)
          /\ \A i \in 1 .. v.mark.tail : t2[i] = t[i]
      BY <2>1, <3>1, <3>2
    <3> QED BY <3>1, <3>3, PrefixSame
  <2>5. SubSeq(bs, 1, m - 1) = SubSeq(v.blocks, 1, m - 1)
    BY <1>1, <1>12, <1>14
  <2>6. Before(w) = Before(v)
    BY <1>6, <1>14, <2>1, <2>2, <2>4, <2>5 DEF Before
  <2> QED BY <1>6, <1>9, <1>10, <2>3, <2>6 DEF w
<1> QED BY <1>1, <1>11, <1>13, <1>14

\* Blocks bs go on from the blocks cs with nothing a tool's call is about.
Alike(b, c) == b = c \/ (b.kind = "answer" /\ c.kind = "answer")
Quiet(b) == b.kind \notin {"request", "result", "group"}
Continues(bs, cs) ==
  /\ IsSeq(bs) /\ IsSeq(cs) /\ Len(cs) <= Len(bs)
  /\ \A i \in 1 .. Len(cs) : Alike(bs[i], cs[i])
  /\ \A i \in (Len(cs) + 1) .. Len(bs) : Quiet(bs[i])

LEMMA QuietContinues ==
  ASSUME NEW bs, NEW cs, Continues(bs, cs), NEW b, Quiet(b)
  PROVE  Continues(Append(bs, b), cs)
<1>1. IsSeq(bs) /\ Len(bs) \in Nat /\ Len(cs) \in Nat /\ Len(cs) <= Len(bs)
  BY SeqFacts DEF Continues
<1>2. /\ IsSeq(Append(bs, b)) /\ Len(Append(bs, b)) = Len(bs) + 1
      /\ \A i \in 1 .. Len(bs) : Append(bs, b)[i] = bs[i]
      /\ Append(bs, b)[Len(bs) + 1] = b
  BY <1>1, SeqAppended
<1> DEFINE ds == Append(bs, b)
<1> HIDE DEF ds
<1>3. /\ IsSeq(ds) /\ Len(ds) = Len(bs) + 1 /\ ds[Len(bs) + 1] = b
      /\ \A i \in 1 .. Len(bs) : ds[i] = bs[i]
  BY <1>2 DEF ds
<1>4. ASSUME NEW i \in 1 .. Len(cs) PROVE Alike(ds[i], cs[i])
  <2>1. i \in 1 .. Len(bs)
    BY <1>1
  <2> QED BY <1>3, <2>1 DEF Continues
<1>5. ASSUME NEW i \in (Len(cs) + 1) .. Len(ds) PROVE Quiet(ds[i])
  <2>1. i = Len(bs) + 1 \/ (i \in 1 .. Len(bs) /\ i \in (Len(cs) + 1) .. Len(bs))
    BY <1>1, <1>3
  <2> QED BY <1>3, <2>1 DEF Continues
<1>6. Continues(ds, cs)
  BY <1>1, <1>3, <1>4, <1>5 DEF Continues
<1> QED BY <1>6 DEF ds

\* A rollback shows what the mark is of, and is quiet after it.
LEMMA RollbackShows ==
  ASSUME NEW v, ViewOK(v), Marked(v)
  PROVE  /\ ViewOK(Rollback(v)) /\ Shown(Rollback(v).blocks) = Before(v)
         /\ Rollback(v).pending = v.mark.pending
         /\ Continues(Rollback(v).blocks, SubSeq(v.blocks, 1, v.mark.blocks))
<1> DEFINE m == v.mark.blocks
           tail == v.mark.tail
           kept == SubSeq(v.blocks, 1, m)
           grew == tail > 0 /\ kept # <<>> /\ Last(kept).kind = "answer"
           cut == IF grew THEN [kept EXCEPT ![Len(kept)].text = SubSeq(@, 1, tail)] ELSE kept
           rest == [v EXCEPT !.blocks = cut, !.pending = v.mark.pending]
<1>1. /\ m \in 0 .. Len(v.blocks) /\ Len(v.blocks) \in Nat /\ tail \in Nat /\ m \in Nat
      /\ IsSeq(v.blocks) /\ Blocks(v.blocks)
  BY SeqFacts DEF Marked, ViewOK, Blocks
<1>2. Min({m, Len(v.blocks)}) = m
  <2>1. {m, Len(v.blocks)} \in SUBSET Nat /\ {m, Len(v.blocks)} # {}
    BY <1>1
  <2>2. /\ Min({m, Len(v.blocks)}) \in {m, Len(v.blocks)}
        /\ \A y \in {m, Len(v.blocks)} : Min({m, Len(v.blocks)}) <= y
    BY <2>1, MinIsLeast
  <2> QED BY <1>1, <2>2
<1>3. Rollback(v) = rest \/ Rollback(v) = Push(rest, "retry", <<>>)
  BY <1>2 DEF Rollback
<1>4. Blocks(kept) /\ Len(kept) = m /\ \A i \in 1 .. m : kept[i] = v.blocks[i]
  BY <1>1, CutBlocks
<1>5. grew <=> tail > 0
  <2>1. kept # <<>> <=> m > 0
    BY <1>1, <1>4, SeqFacts DEF Blocks
  <2>2. m > 0 => Last(kept) = v.blocks[m]
    BY <1>1, <1>4 DEF Last
  <2> QED BY <1>1, <2>1, <2>2 DEF Marked
<1>6. Blocks(cut) /\ Shown(cut) = Before(v) /\ Continues(cut, kept)
  <2>1. CASE tail > 0
    <3>1. m > 0 /\ v.blocks[m].kind = "answer" /\ tail <= Len(v.blocks[m].text) /\ m \in 1 .. Len(v.blocks)
      BY <1>1, <2>1 DEF Marked
    <3> DEFINE t == v.blocks[m].text
               short == SubSeq(t, 1, tail)
               p == SubSeq(v.blocks, 1, m - 1)
    <3>2. v.blocks[m] \in Answered /\ t \in Texts /\ Len(t) \in Nat
      BY <3>1, AnswerIs, SeqFacts DEF ViewOK, Blocks, BlockOK
    <3>3. short \in Texts \ {<<>>}
      <4>1. tail \in 0 .. Len(t)
        BY <1>1, <3>1, <3>2
      <4>2. short \in Seq(Nat) /\ Len(short) = tail
        BY <3>2, <4>1, PrefixIs DEF Texts
      <4>3. short # <<>>
        <5>1. Len(<<>>) = 0
          BY EmptySeq
        <5> HIDE DEF short
        <5> QED BY <2>1, <4>2, <5>1
      <4> QED BY <4>2, <4>3 DEF Texts
    <3>4. kept # <<>> /\ kept[m] = v.blocks[m] /\ kept[Len(kept)] \in Answered
      <4>1. m \in 1 .. m
        BY <1>1, <3>1
      <4>2. kept[m] = v.blocks[m] /\ Len(kept) = m
        BY <1>4, <4>1
      <4>3. kept # <<>>
        BY <1>4, <3>1, SeqFacts DEF Blocks
      <4> QED BY <3>2, <4>2, <4>3
    <3>5. cut = [kept EXCEPT ![Len(kept)].text = short]
      <4>1. cut = [kept EXCEPT ![Len(kept)].text = SubSeq(kept[Len(kept)].text, 1, tail)]
        BY <1>5, <2>1
      <4>2. SubSeq(kept[Len(kept)].text, 1, tail) = short
        BY <1>4, <3>4
      <4> HIDE DEF short, cut
      <4> QED BY <4>1, <4>2
    <3> HIDE DEF short, cut, kept
    <3>6. /\ Blocks(cut) /\ Shown(cut) = Shown(SubSeq(kept, 1, Len(kept) - 1)) \o short
          /\ Len(cut) = Len(kept) /\ cut[Len(kept)] = [kind |-> "answer", text |-> short]
          /\ \A i \in 1 .. (Len(kept) - 1) : cut[i] = kept[i]
      <4>1. Blocks(cut) /\ Shown(cut) = Shown(SubSeq(kept, 1, Len(kept) - 1)) \o short
        BY <1>4, <3>3, <3>4, <3>5, AnswerReplaced
      <4>2. /\ Len(cut) = Len(kept) /\ cut[Len(kept)] = [kind |-> "answer", text |-> short]
            /\ \A i \in 1 .. (Len(kept) - 1) : cut[i] = kept[i]
        <5>1. Replaced(cut, kept, short)
          BY <1>4, <3>3, <3>4, <3>5, AnswerIsReplaced
        <5> QED BY <5>1 DEF Replaced
      <4> QED BY <4>1, <4>2
    <3>8. Continues(cut, kept)
      <4>1. IsSeq(cut) /\ IsSeq(kept) /\ Len(kept) \in Nat
        BY <1>4, <3>6, SeqFacts DEF Blocks
      <4>2. kept[Len(kept)].kind = "answer"
        BY <3>4 DEF Answered
      <4>3. ASSUME NEW i \in 1 .. Len(kept) PROVE Alike(cut[i], kept[i])
        <5>1. CASE i = Len(kept)
          BY <3>6, <4>2, <5>1 DEF Alike
        <5>2. CASE i # Len(kept)
          <6>1. i \in 1 .. (Len(kept) - 1)
            BY <4>1, <5>2
          <6> QED BY <3>6, <6>1 DEF Alike
        <5> QED BY <5>1, <5>2
      <4> QED BY <3>6, <4>1, <4>3 DEF Continues
    <3>7. SubSeq(kept, 1, Len(kept) - 1) = p
      <4>1. /\ IsSeq(kept) /\ m - 1 \in 0 .. Len(kept) /\ m - 1 <= Len(v.blocks)
            /\ \A i \in 1 .. (m - 1) : kept[i] = v.blocks[i]
        BY <1>1, <1>4, <3>1 DEF Blocks
      <4> QED BY <1>1, <1>4, <4>1, PrefixSame
    <3> QED BY <2>1, <3>6, <3>7, <3>8 DEF Before, short
  <2>2. CASE ~(tail > 0)
    <3>1. cut = kept
      BY <1>5, <2>2
    <3>2. Continues(kept, kept)
      <4> HIDE DEF kept, cut
      <4> QED BY <1>4, SeqFacts DEF Continues, Alike, Blocks
    <3> QED BY <1>4, <2>2, <3>1, <3>2 DEF Before
  <2> QED BY <2>1, <2>2
<1> HIDE DEF cut
<1>7. rest = [blocks |-> cut, pending |-> v.mark.pending, mark |-> v.mark]
  <2>1. v = [blocks |-> v.blocks, pending |-> v.pending, mark |-> v.mark]
    BY DEF ViewOK
  <2>2. rest = [v EXCEPT !.blocks = cut, !.pending = v.mark.pending]
    OBVIOUS
  <2> HIDE DEF rest
  <2> QED BY <2>1, <2>2
<1>8. rest.blocks = cut /\ rest.pending = v.mark.pending /\ rest.mark = v.mark
  BY <1>7
<1> HIDE DEF rest
<1>9. ViewOK(rest)
  BY <1>6, <1>7, <1>8 DEF ViewOK
<1> DEFINE noted == Push(rest, "retry", <<>>)
           b == Block("retry", <<>>)
<1>10. Quiet(b) /\ BlockOK(b)
  BY DEF Quiet, Block, BlockOK
<1>11. /\ Extends(noted, rest) /\ noted.pending = rest.pending
       /\ noted.blocks = Append(rest.blocks, b)
  BY <1>9, <1>10, PushIs
<1>12. ViewOK(noted) /\ Shown(noted.blocks) = Shown(rest.blocks)
  BY <1>9, PushExtends DEF Extends
<1> HIDE DEF noted, b, kept
<1>13. Continues(noted.blocks, kept)
  BY <1>6, <1>8, <1>10, <1>11, QuietContinues
<1> QED BY <1>3, <1>6, <1>8, <1>9, <1>11, <1>12, <1>13 DEF noted, kept

-----------------------------------------------------------------------------
(* What is shown is what was delivered.                                      *)

\* The screen shows what was delivered and the attempt's deltas; during an
\* attempt no finished call waits to be folded, and the mark is of exactly
\* what was delivered.
ShowInv ==
  /\ ViewOK(view) /\ delivered \in Texts /\ content \in Texts
  /\ Shown(view.blocks) = delivered \o content
  /\ pc \in {"establish", "stream"} =>
       AllOpen(view) /\ Marked(view) /\ Before(view) = delivered

LEMMA InitShow == Init => ShowInv
<1> SUFFICES ASSUME Init PROVE ShowInv
  OBVIOUS
<1>1. /\ view = [blocks |-> <<>>, pending |-> {}, mark |-> [blocks |-> 0, tail |-> 0, pending |-> {}]]
      /\ pc = "idle" /\ content = <<>> /\ delivered = <<>>
  BY DEF Init, EmptyView
<1>2. view.blocks = <<>> /\ view.pending = {} /\ view.mark.pending = {}
  BY <1>1
<1>3. Blocks(<<>>) /\ TextsOf(<<>>) = <<>> /\ IsFiniteSet({})
  BY EmptySeq, FS_EmptySet DEF Blocks, IsSeq, TextsOf
<1>4. Shown(<<>>) = <<>> /\ <<>> \in Texts /\ <<>> \o <<>> = <<>>
  BY <1>3, FlattenEmpty, ConcatEmptySeq, EmptySeq DEF Shown, Texts
<1>5. ViewOK(view)
  BY <1>1, <1>2, <1>3 DEF ViewOK
<1> QED BY <1>1, <1>2, <1>4, <1>5 DEF ShowInv

\* Text that is kept is delivered.
LEMMA KeepShows ==
  ASSUME ShowInv, Keep
  PROVE  delivered' \in Texts /\ content' \in Texts /\ delivered' \o content' = delivered \o content
<1>1. delivered \o content \in Texts
  BY ConcatProperties DEF ShowInv, Texts
<1>2. <<>> \in Texts
  BY EmptySeq DEF Texts
<1>3. (delivered \o content) \o <<>> = delivered \o content
  BY <1>1, ConcatEmptySeq DEF Texts
<1> QED BY <1>1, <1>2, <1>3 DEF Keep

\* A step to a label outside an attempt that shows the same text.
LEMMA QuietShows ==
  ASSUME pc' \notin {"establish", "stream"}, ViewOK(view'), delivered' \in Texts, content' \in Texts,
         Shown(view'.blocks) = delivered' \o content'
  PROVE  ShowInv'
BY DEF ShowInv

LEMMA OverShows ==
  ASSUME ShowInv, NEW kind, Over(kind)
  PROVE  ShowInv'
<1>1. ViewOK(view) /\ Shown(view.blocks) = delivered \o content
  BY DEF ShowInv
<1>2. /\ view' = Flush(view) \/ view' = Push(view, "note", <<>>)
      /\ Keep /\ pc' = "idle"
  BY DEF Over
<1>3. ViewOK(view') /\ Shown(view'.blocks) = Shown(view.blocks)
  <2>1. CASE view' = Flush(view)
    BY <1>1, <2>1, FlushShows
  <2>2. CASE view' = Push(view, "note", <<>>)
    BY <1>1, <2>2, PushExtends DEF Extends
  <2> QED BY <1>2, <2>1, <2>2
<1> QED BY <1>1, <1>2, <1>3, KeepShows, QuietShows

LEMMA TruncatedShows ==
  ASSUME ShowInv, Truncated
  PROVE  ShowInv'
<1>1. CASE Over("failed")
  BY <1>1, OverShows
<1>2. CASE pc' = "turn" /\ Keep /\ view' = view
  BY <1>2, KeepShows, QuietShows DEF ShowInv
<1> QED BY <1>1, <1>2 DEF Truncated

LEMMA MidStreamShows ==
  ASSUME ShowInv, pc = "stream", MidStream
  PROVE  ShowInv'
<1>1. CASE Over("failed")
  BY <1>1, OverShows
<1>2. CASE Again
  <2>1. pc' = "wait" /\ content' = <<>> /\ delivered' = delivered /\ view' = Rollback(view)
    BY <1>2 DEF Again, history
  <2>2. ViewOK(Rollback(view)) /\ Shown(Rollback(view).blocks) = delivered
    BY RollbackShows DEF ShowInv
  <2>3. delivered \in Texts /\ <<>> \in Texts /\ delivered \o <<>> = delivered
    BY EmptySeq, ConcatEmptySeq DEF ShowInv, Texts
  <2> QED BY <2>1, <2>2, <2>3, QuietShows
<1> QED BY <1>1, <1>2 DEF MidStream

LEMMA DeltaShows ==
  ASSUME ShowInv, StreamInv, Show
  PROVE  ShowInv'
<1> DEFINE d == number.attempts
           f == Flush(view)
           w == PushText(f, d)
<1>1. /\ pc = "stream" /\ pc' = pc /\ content' = Append(content, d) /\ view' = w
      /\ delivered' = delivered
  BY DEF Show, history
<1>2. d \in Nat
  BY DEF StreamInv
<1>3. /\ ViewOK(view) /\ AllOpen(view) /\ Marked(view) /\ Before(view) = delivered
      /\ Shown(view.blocks) = delivered \o content /\ delivered \in Seq(Nat) /\ content \in Seq(Nat)
  BY <1>1 DEF ShowInv, Texts
<1> HIDE DEF d
<1>4. /\ ViewOK(f) /\ f.mark = view.mark /\ AllOpen(f) /\ f.blocks = view.blocks
  BY <1>3, FlushShows
<1> HIDE DEF f
<1>5. Marked(f) /\ Before(f) = delivered
  BY <1>3, <1>4 DEF Marked, Before
<1>6. /\ ViewOK(w) /\ Marked(w) /\ Before(w) = Before(f) /\ w.pending = f.pending
      /\ Shown(w.blocks) = Shown(f.blocks) \o <<d>>
  <2>1. CASE EndsIn(f, "answer")
    BY <1>2, <1>4, <1>5, <2>1, DeltaGrowsAnswer
  <2>2. CASE ~EndsIn(f, "answer")
    BY <1>2, <1>4, <1>5, <2>2, DeltaOpensAnswer
  <2> QED BY <2>1, <2>2
<1> HIDE DEF w
<1>7. AllOpen(w)
  BY <1>4, <1>6 DEF AllOpen
<1>8. content' \in Seq(Nat) /\ content' = content \o <<d>> /\ <<d>> \in Seq(Nat)
  BY <1>1, <1>2, <1>3, AppendProperties, AppendIsConcat
<1>9. (delivered \o content) \o <<d>> = delivered \o (content \o <<d>>)
  BY <1>3, <1>8, ConcatAssociates DEF Texts
<1>10. Shown(w.blocks) = delivered' \o content'
  BY <1>1, <1>3, <1>4, <1>6, <1>8, <1>9
<1> QED BY <1>1, <1>3, <1>5, <1>6, <1>7, <1>8, <1>10 DEF ShowInv, Texts

\* A step that leaves the stream's text alone, and pushes no text.
LEMMA PushedNoText ==
  ASSUME ShowInv, UNCHANGED <<pc, content, delivered>>,
         Extends(view', view), view'.pending = view.pending, Shown(view'.blocks) = Shown(view.blocks)
  PROVE  ShowInv'
<1>1. ViewOK(view')
  BY DEF Extends
<1>2. AllOpen(view) => AllOpen(view')
  BY DEF AllOpen
<1>3. ViewOK(view) /\ (Marked(view) => Marked(view') /\ Before(view') = Before(view))
  BY ExtendsMarked DEF ShowInv
<1> QED BY <1>1, <1>2, <1>3 DEF ShowInv

\* What the tools have still to emit.
Emitted == [kind : {"request", "result", "stray", "denied"}, call : Nat, tool : Tool,
            ok : BOOLEAN, checked : BOOLEAN]
DueInv == due \in Seq(Emitted)

LEMMA OneByOneType ==
  ASSUME NEW c \in Nat, NEW t \in Tool, NEW fate \in Fate
  PROVE  OneByOne(c, t, fate) \in Seq(Emitted)
<1>1. \A ok, checked \in BOOLEAN :
        /\ Asked(c, t, checked) \in Emitted /\ Step("stray", c, t, ok, checked) \in Emitted
        /\ Step("result", c, t, ok, checked) \in Emitted /\ Step("denied", c, t, ok, checked) \in Emitted
  BY DEF Asked, Step, Emitted
<1>2. \A x, y \in Emitted : <<x>> \in Seq(Emitted) /\ <<x, y>> \in Seq(Emitted)
  OBVIOUS
<1>3. \/ \E ok, checked \in BOOLEAN :
           OneByOne(c, t, fate) = <<Asked(c, t, TRUE), Step("result", c, t, ok, checked)>>
      \/ OneByOne(c, t, fate) = <<Step("stray", c, t, FALSE, TRUE)>>
      \/ OneByOne(c, t, fate) = <<Asked(c, t, TRUE), Step("denied", c, t, FALSE, FALSE)>>
  BY DEF OneByOne, Fate
<1>4. CASE \E ok, checked \in BOOLEAN :
             OneByOne(c, t, fate) = <<Asked(c, t, TRUE), Step("result", c, t, ok, checked)>>
  BY <1>1, <1>2, <1>4
<1>5. CASE OneByOne(c, t, fate) = <<Step("stray", c, t, FALSE, TRUE)>>
  BY <1>1, <1>2, <1>5
<1>6. CASE OneByOne(c, t, fate) = <<Asked(c, t, TRUE), Step("denied", c, t, FALSE, FALSE)>>
  BY <1>1, <1>2, <1>6
<1> QED BY <1>3, <1>4, <1>5, <1>6

LEMMA PlanType ==
  ASSUME StreamInv, NEW calls \in Calls
  PROVE  Plan(calls) \in Seq(Emitted)
<1> DEFINE id(i) == number.calls + i
           asked == [i \in DOMAIN calls |-> Asked(id(i), calls[i].tool, i = 1)]
           told == [i \in DOMAIN calls |-> Step("result", id(i), calls[i].tool, calls[i].fate = "ok", TRUE)]
           each == [i \in DOMAIN calls |-> OneByOne(id(i), calls[i].tool, calls[i].fate)]
<1>1. PICK n \in 1 .. MaxCalls : calls \in [1 .. n -> [tool : Tool, fate : Fate]]
  BY DEF Calls
<1>2. n \in Nat /\ DOMAIN calls = 1 .. n /\ number.calls \in Nat
  BY <1>1, ProviderAssumption DEF StreamInv
<1>3. \A i \in 1 .. n : calls[i].tool \in Tool /\ calls[i].fate \in Fate /\ id(i) \in Nat
  BY <1>1, <1>2
<1>4. CASE Plan(calls) = asked \o told
  <2>1. \A i \in 1 .. n : asked[i] \in Emitted /\ told[i] \in Emitted
    BY <1>2, <1>3 DEF Asked, Step, Emitted
  <2>2. asked \in [1 .. n -> Emitted] /\ told \in [1 .. n -> Emitted]
    BY <1>2, <2>1
  <2> HIDE DEF asked, told
  <2>3. asked \in Seq(Emitted) /\ told \in Seq(Emitted)
    BY <1>2, <2>2, SeqDef
  <2> QED BY <1>4, <2>3, ConcatProperties
<1>5. CASE Plan(calls) = FlattenSeq(each)
  <2>1. \A i \in 1 .. n : each[i] \in Seq(Emitted)
    BY <1>2, <1>3, OneByOneType
  <2>2. each \in [1 .. n -> Seq(Emitted)]
    BY <1>2, <2>1
  <2>3. each \in Seq(Seq(Emitted))
    BY <1>2, <2>2, SeqDef
  <2> HIDE DEF each
  <2> QED BY <1>5, <2>3, FlattenType
<1> QED BY <1>4, <1>5 DEF Plan

LEMMA NextDue == StreamInv /\ DueInv /\ [Next]_vars => DueInv'
<1> SUFFICES ASSUME StreamInv, DueInv, [Next]_vars PROVE DueInv'
  OBVIOUS
<1>1. <<>> \in Seq(Emitted)
  BY EmptySeq
<1>2. ASSUME NEW kind, Over(kind) PROVE DueInv'
  BY <1>1, <1>2 DEF Over, DueInv
<1>3. ASSUME UNCHANGED due PROVE DueInv'
  BY <1>3 DEF DueInv
<1>4. ASSUME MidStream \/ Truncated PROVE DueInv'
  BY <1>2, <1>3, <1>4 DEF MidStream, Again, Truncated
<1>5. ASSUME NEW calls \in Calls, StartTools(calls) PROVE DueInv'
  BY <1>5, PlanType DEF StartTools, DueInv
<1>6. ASSUME Emit PROVE DueInv'
  BY <1>6, HeadTailProperties DEF Emit, DueInv
<1>7. ASSUME \/ Ask \/ Begin \/ Established \/ Show \/ NextTurn \/ Notice \/ UNCHANGED vars
      PROVE DueInv'
  BY <1>3, <1>7 DEF Ask, Begin, Established, Show, NextTurn, Notice, vars
<1>8. ASSUME NEW f, Respond(f) \/ Arrive(f) PROVE DueInv'
  BY <1>3, <1>4, <1>8 DEF Respond, Arrive
<1>9. ASSUME Drop \/ Refused \/ Answer \/ Stop \/ Return PROVE DueInv'
  BY <1>2, <1>3, <1>4, <1>9 DEF Drop, Refused, Answer, Stop, Return
<1> QED BY <1>5, <1>6, <1>7, <1>8, <1>9 DEF Next

LEMMA EmitShows ==
  ASSUME ShowInv, DueInv, Emit
  PROVE  ShowInv'
<1> DEFINE e == Head(due)
<1>1. /\ pc' \notin {"establish", "stream"} /\ UNCHANGED <<content, delivered>>
      /\ view' = CASE e.kind = "request" -> Buffer(view, e.call, e.tool)
                  [] e.kind \in {"result", "stray"} -> Complete(view, e.call, e.tool, e.ok)
                  [] e.kind = "denied" -> Push(Flush(view), "note", <<>>)
  BY DEF Emit, stream
<1>2. ViewOK(view) /\ Shown(view.blocks) = delivered \o content /\ delivered \in Texts /\ content \in Texts
  BY DEF ShowInv
<1>k. e.kind \in {"request", "result", "stray", "denied"}
  <2>1. due \in Seq(Emitted) /\ due # <<>>
    BY DEF DueInv, Emit
  <2>2. e \in Emitted
    BY <2>1, HeadTailProperties
  <2> QED BY <2>2 DEF Emitted
<1> HIDE DEF e
<1>3. CASE e.kind = "request"
  BY <1>1, <1>2, <1>3, BufferShows, QuietShows
<1>4. CASE e.kind \in {"result", "stray"}
  BY <1>1, <1>2, <1>4, CompleteShows, QuietShows
<1>5. CASE e.kind = "denied"
  <2>1. ViewOK(Flush(view)) /\ Shown(Flush(view).blocks) = Shown(view.blocks)
    BY <1>2, FlushShows
  <2>2. view' = Push(Flush(view), "note", <<>>)
    BY <1>1, <1>5
  <2>3. ViewOK(view') /\ Shown(view'.blocks) = Shown(view.blocks)
    BY <2>1, <2>2, PushExtends DEF Extends
  <2> QED BY <1>1, <1>2, <2>3, QuietShows
<1> QED BY <1>k, <1>3, <1>4, <1>5

LEMMA BeginShows ==
  ASSUME ShowInv, StreamInv, Begin
  PROVE  ShowInv'
<1> DEFINE w == StartAttempt(view)
<1>1. /\ pc \notin {"stream", "returned"} /\ UNCHANGED <<content, delivered>>
      /\ view' = w
  BY DEF Begin, stream, history
<1>2. content = <<>> /\ ViewOK(view) /\ delivered \in Texts /\ Shown(view.blocks) = delivered \o content
  BY <1>1 DEF StreamInv, ShowInv
<1>3. delivered \o <<>> = delivered
  BY <1>2, ConcatEmptySeq DEF Texts
<1>4. /\ ViewOK(w) /\ AllOpen(w) /\ Marked(w)
      /\ Before(w) = Shown(view.blocks) /\ Shown(w.blocks) = Shown(view.blocks)
  BY <1>2, StartShows
<1> HIDE DEF w
<1> QED BY <1>1, <1>2, <1>3, <1>4 DEF ShowInv

\* A step that leaves the view and the stream's text, within an attempt or out of it.
LEMMA SameShows ==
  ASSUME ShowInv, UNCHANGED <<view, content, delivered>>,
         pc' \in {"establish", "stream"} => pc \in {"establish", "stream"}
  PROVE  ShowInv'
<1>1. AllOpen(view)' = AllOpen(view) /\ Marked(view)' = Marked(view) /\ Before(view)' = Before(view)
  BY DEF AllOpen, Marked, Before
<1> QED BY <1>1 DEF ShowInv

LEMMA NextShow == ShowInv /\ StreamInv /\ DueInv /\ [Next]_vars => ShowInv'
<1> SUFFICES ASSUME ShowInv, StreamInv, DueInv, [Next]_vars PROVE ShowInv'
  OBVIOUS
<1>v. ViewOK(view)
  BY DEF ShowInv
<1>0. ASSUME UNCHANGED vars PROVE ShowInv'
  BY <1>0, SameShows DEF vars, stream, history
<1>1. ASSUME Ask PROVE ShowInv'
  <2>1. /\ ViewOK(Spaced(view)) /\ Shown(Spaced(view).blocks) = Shown(view.blocks)
    BY <1>v, SpacedExtends DEF Extends
  <2>2. /\ view' = Push(Spaced(view), "user", <<>>) /\ pc' = "turn"
        /\ UNCHANGED <<content, delivered>>
    BY <1>1 DEF Ask, stream, history
  <2>3. ViewOK(view') /\ Shown(view'.blocks) = Shown(view.blocks)
    BY <2>1, <2>2, PushExtends DEF Extends
  <2> QED BY <2>2, <2>3, QuietShows DEF ShowInv
<1>2. ASSUME Refused \/ Answer \/ Stop PROVE ShowInv'
  BY <1>2, OverShows DEF Refused, Answer, Stop
<1>3. ASSUME Established PROVE ShowInv'
  BY <1>3, SameShows DEF Established, stream, history
<1>4. ASSUME NEW f, Respond(f) PROVE ShowInv'
  BY <1>4, TruncatedShows, SameShows DEF Respond, history
<1>5. ASSUME NEW f, Arrive(f) PROVE ShowInv'
  BY <1>5, MidStreamShows, TruncatedShows, SameShows DEF Arrive, history
<1>6. ASSUME Drop PROVE ShowInv'
  BY <1>6, MidStreamShows DEF Drop
<1>7. ASSUME Return PROVE ShowInv'
  BY <1>7, OverShows, SameShows DEF Return, history
<1>8. ASSUME NEW calls, StartTools(calls) PROVE ShowInv'
  <2>1. Keep /\ view' = view /\ pc' = "emit"
    BY <1>8 DEF StartTools
  <2> QED BY <1>v, <2>1, KeepShows, QuietShows DEF ShowInv
<1>9. ASSUME NextTurn PROVE ShowInv'
  BY <1>9, SameShows DEF NextTurn, stream, history
<1>10. ASSUME Notice PROVE ShowInv'
  <2>1. /\ view' = Push(view, "note", <<>>) /\ UNCHANGED <<pc, content, delivered>>
    BY <1>10 DEF Notice, stream, history
  <2> QED BY <1>v, <2>1, PushExtends, PushedNoText
<1> QED
  BY <1>0, <1>1, <1>2, <1>3, <1>4, <1>5, <1>6, <1>7, <1>8, <1>9, <1>10,
     BeginShows, DeltaShows, EmitShows DEF Next

\* A broken attempt leaves none of its text on the screen and takes nobody
\* else's along, whatever was folded, pushed or noticed since the mark
\* (rollback_attempt, append_delta, flush_tool_buffer).
THEOREM AnswersDelivered == Spec => []ShownIsDelivered
<1>1. Init => StreamInv /\ DueInv /\ ShowInv
  BY InitStream, InitShow, EmptySeq DEF Init, DueInv
<1>2. StreamInv /\ DueInv /\ ShowInv /\ [Next]_vars => (StreamInv /\ DueInv /\ ShowInv)'
  BY NextStream, NextDue, NextShow
<1>3. ShowInv => ShownIsDelivered
  BY ShownTextIs DEF ShowInv, ShownIsDelivered
<1> QED BY <1>1, <1>2, <1>3, PTL DEF Spec

-----------------------------------------------------------------------------
(* What is shown of the tools' results.                                      *)

\* The calls whose result a block tells.
Tells(b) ==
  IF b.kind = "result" THEN Range(b.text)
  ELSE IF b.kind = "group" THEN {pair[2] : pair \in b.text} ELSE {}
Told(bs, k) == \E i \in DOMAIN bs : k \in Tells(bs[i])

\* The calls of the steps of a kind that are still due.
CallsOf(q, kinds) == {q[j].call : j \in {j \in DOMAIN q : q[j].kind \in kinds}}
Ending == {"result", "denied"}
Ended == {"result", "denied", "stray"}

\* The calls that were requested and have their result, or their denial, to come.
Awaited(q) == CallsOf(q, Ending) \ CallsOf(q, {"request"})

\* The order of what is due: calls end in the order of their numbers, each is
\* requested once and before its end; a denial comes right after its request,
\* and what a stray result precedes went one call after the other.
NextIn(q, i, j) ==
  /\ q[i].kind \in Ended /\ q[j].kind \in Ended => q[i].call < q[j].call
  /\ q[i].kind \in Ended /\ q[j].kind = "request" => q[i].call # q[j].call
  /\ q[i].kind = "request" /\ q[j].kind = "request" => q[i].call # q[j].call
  /\ q[i].kind = "request" /\ q[j].call = q[i].call => q[j].kind # "stray" /\ q[j].tool = q[i].tool
AfterRequest(q, j) == q[j - 1].kind = "request" /\ q[j - 1].call = q[j].call
Ordered(q) ==
  /\ \A i, j \in DOMAIN q : i < j => NextIn(q, i, j)
  /\ \A i, j \in DOMAIN q : i < j /\ q[i].kind = "stray" /\ q[j].kind \in Ending => AfterRequest(q, j)
  /\ \A j \in DOMAIN q : j > 1 /\ q[j].kind = "denied" => AfterRequest(q, j)
  /\ \A i \in DOMAIN q : q[i].kind = "request" =>
       \E j \in DOMAIN q : i < j /\ q[j].kind \in Ending /\ q[j].call = q[i].call
  /\ \A j \in DOMAIN q : q[j].kind = "denied" => ~q[j].checked
  /\ \A j \in DOMAIN q : q[j].kind = "stray" => ~q[j].ok

\* The run of calls: of each call one entry, of a call that is no more to be
\* requested.
Entry == [call : Nat, tool : Tool, open : BOOLEAN, result : Nat, ok : BOOLEAN]
Closed(v) == {e \in v.pending : ~e.open}
EntriesOK(v, q) ==
  /\ v.pending \subseteq Entry /\ IsFiniteSet(v.pending)
  /\ \A e, f \in v.pending : e.call = f.call => e = f
  /\ \A e \in v.pending : e.call \notin CallsOf(q, {"request"})

\* A result that is told, or recorded in the run, is not still to come.
Spoken(v, k) == Told(v.blocks, k) \/ \E e \in Closed(v) : e.result = k
AllFresh(v, q) == \A k \in CallsOf(q, Ended) : ~Spoken(v, k)

\* The run takes the right lines along when it folds: the lines of another
\* result stand before a block that is no line, or so far up that the lines of
\* the run's own calls, two each, come between, or the run has a failed call
\* and does not fold.
Live(b) == b.kind \in {"request", "result"}
LineStays(v, q, i) ==
  \/ \E j \in (i + 1) .. Len(v.blocks) : ~Live(v.blocks[j])
  \/ Len(v.blocks) - i >= 2 * Cardinality(Closed(v)) + Cardinality(Awaited(q))
  \/ \E e \in Closed(v) : ~e.ok
LinesStay(v, q, R) ==
  \A i \in DOMAIN v.blocks : \A r \in R :
    v.blocks[i].kind = "result" /\ r.call \in Tells(v.blocks[i])
      => LineStays(v, q, i) \/ \E e \in Closed(v) : e.result = r.call

\* Every call that awaits its end has an open entry of its own, and of a tool
\* all of whose calls got a result no other entry is open.
AllOpened(v, q) ==
  \A j \in DOMAIN q : q[j].kind \in Ending /\ q[j].call \in Awaited(q)
    => \E e \in v.pending : e.open /\ e.call = q[j].call /\ e.tool = q[j].tool
NoneLeft(v, q, U) == \A e \in v.pending : e.open /\ e.tool \notin U => e.call \in Awaited(q)

\* Each result is told, and is beside its own call.
AllTold(v, R) == \A r \in R : Told(v.blocks, r.call)
Beside(call, result, R, U) == \A r \in R : r.call = result /\ r.tool \notin U => call = result
AllBeside(v, R, U) ==
  /\ \A i \in DOMAIN v.blocks :
       v.blocks[i].kind = "group" => \A pair \in v.blocks[i].text : Beside(pair[1], pair[2], R, U)
  /\ \A e \in Closed(v) : Beside(e.call, e.result, R, U)

Evidence(v, q, R, U) ==
  /\ EntriesOK(v, q) /\ AllFresh(v, q) /\ LinesStay(v, q, R) /\ AllOpened(v, q)
  /\ NoneLeft(v, q, U) /\ AllTold(v, R) /\ AllBeside(v, R, U)

\* No number was used that has not been given out.
Numbered(v, q, n) ==
  /\ \A e \in v.pending : e.call <= n
  /\ \A k \in Nat : Spoken(v, k) => k <= n
  /\ \A j \in DOMAIN q : q[j].call <= n

Attempting == pc \in {"establish", "stream"}
EvidenceInv ==
  /\ Ordered(due) /\ (pc # "emit" => due = <<>>)
  /\ Evidence(view, due, results, unanswered)
  /\ Numbered(view, due, number.calls)
  /\ Attempting =>
       /\ view.pending = view.mark.pending
       /\ \A r \in results : Told(SubSeq(view.blocks, 1, view.mark.blocks), r.call)

-----------------------------------------------------------------------------
(* What is due, and what one step of it leaves.                              *)

LEMMA TailIs ==
  ASSUME NEW q \in Seq(Emitted), q # <<>>
  PROVE  /\ Tail(q) \in Seq(Emitted) /\ Head(q) = q[1] /\ Len(q) \in Nat \ {0} /\ 1 \in DOMAIN q
         /\ DOMAIN q = 1 .. Len(q) /\ DOMAIN Tail(q) = 1 .. (Len(q) - 1)
         /\ \A i \in DOMAIN Tail(q) : Tail(q)[i] = q[i + 1] /\ i + 1 \in DOMAIN q
         /\ \A i \in DOMAIN q \ {1} : i - 1 \in DOMAIN Tail(q) /\ q[i] = Tail(q)[i - 1]
         /\ \A i \in DOMAIN q : q[i] \in Emitted
<1>1. Len(q) \in Nat /\ Len(q) # 0 /\ DOMAIN q = 1 .. Len(q)
  BY EmptySeq
<1>2. /\ Tail(q) \in Seq(Emitted) /\ Len(Tail(q)) = Len(q) - 1 /\ Head(q) = q[1]
      /\ \A i \in 1 .. Len(Tail(q)) : Tail(q)[i] = q[i + 1]
  BY HeadTailProperties
<1>3. DOMAIN Tail(q) = 1 .. (Len(q) - 1)
  BY <1>1, <1>2, LenProperties
<1>4. \A i \in DOMAIN q : q[i] \in Emitted
  BY <1>1, ElementOfSeq
<1>5. \A i \in 2 .. Len(q) : i - 1 \in 1 .. (Len(q) - 1) /\ (i - 1) + 1 = i
  BY <1>1
<1>6. \A i \in 1 .. (Len(q) - 1) : i + 1 \in 1 .. Len(q)
  BY <1>1
<1>7. ASSUME NEW i \in DOMAIN q \ {1} PROVE i - 1 \in DOMAIN Tail(q) /\ q[i] = Tail(q)[i - 1]
  <2>1. i - 1 \in 1 .. (Len(q) - 1) /\ (i - 1) + 1 = i
    BY <1>1
  <2> QED BY <1>2, <1>3, <2>1
<1> QED BY <1>1, <1>2, <1>3, <1>4, <1>6, <1>7

LEMMA StepNumbers ==
  ASSUME NEW q \in Seq(Emitted)
  PROVE  \A j \in DOMAIN q : q[j].call \in Nat /\ q[j].tool \in Tool /\ q[j].ok \in BOOLEAN
<1>1. ASSUME NEW j \in DOMAIN q PROVE q[j] \in Emitted
  BY LenProperties, ElementOfSeq
<1> QED BY <1>1 DEF Emitted

LEMMA TailOrdered ==
  ASSUME NEW q \in Seq(Emitted), q # <<>>, Ordered(q)
  PROVE  Ordered(Tail(q))
<1> DEFINE t == Tail(q)
<1>1. DOMAIN t \subseteq Nat /\ \A i \in DOMAIN t : t[i] = q[i + 1] /\ i + 1 \in DOMAIN q /\ i + 1 > 1
  BY TailIs
<1>2. ASSUME NEW i \in DOMAIN t, NEW j \in DOMAIN t, i < j PROVE NextIn(t, i, j)
  <2>1. NextIn(q, i + 1, j + 1)
    BY <1>1, <1>2 DEF Ordered
  <2> QED BY <1>1, <2>1 DEF NextIn
<1>3. ASSUME NEW j \in DOMAIN t, j > 1, AfterRequest(q, j + 1) PROVE AfterRequest(t, j)
  <2>1. j - 1 \in DOMAIN t /\ (j - 1) + 1 = (j + 1) - 1
    BY <1>1, <1>3, TailIs
  <2>2. t[j - 1] = q[(j + 1) - 1] /\ t[j] = q[j + 1]
    BY <1>1, <2>1
  <2> QED BY <1>3, <2>2 DEF AfterRequest
<1>4. ASSUME NEW i \in DOMAIN t, NEW j \in DOMAIN t, i < j, t[i].kind = "stray", t[j].kind \in Ending
      PROVE  AfterRequest(t, j)
  <2>1. AfterRequest(q, j + 1)
    BY <1>1, <1>4 DEF Ordered
  <2> QED BY <1>1, <1>3, <1>4, <2>1
<1>5. ASSUME NEW j \in DOMAIN t, j > 1, t[j].kind = "denied" PROVE AfterRequest(t, j)
  <2>1. AfterRequest(q, j + 1)
    BY <1>1, <1>5 DEF Ordered
  <2> QED BY <1>3, <1>5, <2>1
<1>6. ASSUME NEW i \in DOMAIN t, t[i].kind = "request"
      PROVE  \E j \in DOMAIN t : i < j /\ t[j].kind \in Ending /\ t[j].call = t[i].call
  <2>1. PICK j \in DOMAIN q : i + 1 < j /\ q[j].kind \in Ending /\ q[j].call = q[i + 1].call
    BY <1>1, <1>6 DEF Ordered
  <2>2. j - 1 \in DOMAIN t /\ t[j - 1] = q[j] /\ i < j - 1
    BY <1>1, <2>1, TailIs
  <2> QED BY <1>1, <2>1, <2>2
<1>7. \A j \in DOMAIN t : (t[j].kind = "denied" => ~t[j].checked) /\ (t[j].kind = "stray" => ~t[j].ok)
  BY <1>1 DEF Ordered
<1> HIDE DEF t
<1>8. Ordered(t)
  BY <1>2, <1>4, <1>5, <1>6, <1>7 DEF Ordered
<1> QED BY <1>8 DEF t

LEMMA TailCalls ==
  ASSUME NEW q \in Seq(Emitted), q # <<>>, NEW kinds
  PROVE  CallsOf(q, kinds) =
           CallsOf(Tail(q), kinds) \cup (IF Head(q).kind \in kinds THEN {Head(q).call} ELSE {})
<1> DEFINE t == Tail(q)
           first == IF q[1].kind \in kinds THEN {q[1].call} ELSE {}
<1>1. /\ 1 \in DOMAIN q /\ Head(q) = q[1]
      /\ \A i \in DOMAIN t : t[i] = q[i + 1] /\ i + 1 \in DOMAIN q
      /\ \A i \in DOMAIN q \ {1} : i - 1 \in DOMAIN t /\ q[i] = t[i - 1]
  BY TailIs
<1> HIDE DEF t
<1>2. ASSUME NEW c \in CallsOf(q, kinds) PROVE c \in CallsOf(t, kinds) \cup first
  <2>1. PICK i \in DOMAIN q : q[i].kind \in kinds /\ c = q[i].call
    BY <1>2 DEF CallsOf
  <2>2. CASE i = 1
    BY <2>1, <2>2
  <2>3. CASE i # 1
    BY <1>1, <2>1, <2>3 DEF CallsOf
  <2> QED BY <2>2, <2>3
<1>3. ASSUME NEW c \in CallsOf(t, kinds) PROVE c \in CallsOf(q, kinds)
  <2>1. PICK i \in DOMAIN t : t[i].kind \in kinds /\ c = t[i].call
    BY <1>3 DEF CallsOf
  <2> QED BY <1>1, <2>1 DEF CallsOf
<1>4. first \subseteq CallsOf(q, kinds)
  BY <1>1 DEF CallsOf
<1> HIDE DEF first
<1>5. CallsOf(q, kinds) = CallsOf(t, kinds) \cup first
  BY <1>2, <1>3, <1>4
<1> QED BY <1>1, <1>5 DEF t, first

LEMMA RequestCalls ==
  ASSUME NEW q \in Seq(Emitted), q # <<>>
  PROVE  LET c == Head(q).call  k == Head(q).kind  t == Tail(q) IN
         /\ CallsOf(q, Ending) = CallsOf(t, Ending) \cup (IF k \in Ending THEN {c} ELSE {})
         /\ CallsOf(q, {"request"}) = CallsOf(t, {"request"}) \cup (IF k = "request" THEN {c} ELSE {})
         /\ k = "request" => k \notin Ending
         /\ k = "stray" => k \notin Ending
<1>1. CallsOf(q, Ending) = CallsOf(Tail(q), Ending) \cup (IF Head(q).kind \in Ending THEN {Head(q).call} ELSE {})
  BY TailCalls
<1>2. CallsOf(q, {"request"}) =
        CallsOf(Tail(q), {"request"}) \cup (IF Head(q).kind \in {"request"} THEN {Head(q).call} ELSE {})
  BY TailCalls
<1> QED BY <1>1, <1>2 DEF Ending

LEMMA CallsAreFinite ==
  ASSUME NEW q \in Seq(Emitted), NEW kinds
  PROVE  IsFiniteSet(CallsOf(q, kinds)) /\ CallsOf(q, kinds) \subseteq Nat
<1> DEFINE D == {j \in DOMAIN q : q[j].kind \in kinds}
<1>1. Len(q) \in Nat /\ DOMAIN q = 1 .. Len(q)
  BY LenProperties
<1>2. IsFiniteSet(D)
  <2>1. IsFiniteSet(1 .. Len(q)) /\ D \subseteq 1 .. Len(q)
    BY <1>1, FS_Interval
  <2> HIDE DEF D
  <2> QED BY <2>1, FS_Subset
<1>3. \A j \in DOMAIN q : q[j].call \in Nat
  BY StepNumbers
<1> HIDE DEF D
<1>4. IsFiniteSet({q[j].call : j \in D})
  <2> DEFINE f == [j \in D |-> q[j].call]
             T == {q[j].call : j \in D}
  <2>1. f \in Surjection(D, T)
    BY DEF Surjection
  <2> HIDE DEF f, T
  <2>2. IsFiniteSet(T)
    BY <1>2, <2>1, FS_Surjection
  <2> QED BY <2>2 DEF T
<1> QED BY <1>3, <1>4 DEF CallsOf, D

LEMMA AwaitedIsFinite ==
  ASSUME NEW q \in Seq(Emitted)
  PROVE  IsFiniteSet(Awaited(q)) /\ Cardinality(Awaited(q)) \in Nat /\ Awaited(q) \subseteq Nat
<1>1. IsFiniteSet(CallsOf(q, Ending)) /\ CallsOf(q, Ending) \subseteq Nat
  BY CallsAreFinite
<1>2. Awaited(q) \subseteq CallsOf(q, Ending)
  BY DEF Awaited
<1>3. IsFiniteSet(Awaited(q))
  BY <1>1, <1>2, FS_Subset
<1> QED BY <1>1, <1>2, <1>3, FS_CardinalityType

LEMMA NothingAwaited == Awaited(<<>>) = {} /\ \A kinds : CallsOf(<<>>, kinds) = {}
BY DEF Awaited, CallsOf

\* A call that was requested awaits its end.
LEMMA RequestAwaited ==
  ASSUME NEW q \in Seq(Emitted), q # <<>>, Ordered(q), Head(q).kind = "request"
  PROVE  /\ Head(q).call \in Awaited(Tail(q))
         /\ Awaited(Tail(q)) = Awaited(q) \cup {Head(q).call}
         /\ Head(q).call \notin CallsOf(Tail(q), {"request"})
         /\ Cardinality(Awaited(Tail(q))) <= Cardinality(Awaited(q)) + 1
<1> DEFINE t == Tail(q)
           c == Head(q).call
<1>1. /\ 1 \in DOMAIN q /\ Head(q) = q[1] /\ DOMAIN q \subseteq Nat
      /\ \A i \in DOMAIN t : t[i] = q[i + 1] /\ i + 1 \in DOMAIN q /\ 1 < i + 1
  BY TailIs
<1>2. /\ CallsOf(q, Ending) = CallsOf(t, Ending)
      /\ CallsOf(q, {"request"}) = CallsOf(t, {"request"}) \cup {c}
  <2>1. /\ CallsOf(q, Ending) = CallsOf(t, Ending) \cup (IF Head(q).kind \in Ending THEN {c} ELSE {})
        /\ CallsOf(q, {"request"}) = CallsOf(t, {"request"}) \cup (IF Head(q).kind = "request" THEN {c} ELSE {})
    BY RequestCalls
  <2>2. Head(q).kind = "request" /\ Head(q).kind \notin Ending
    BY DEF Ending
  <2> HIDE DEF t, c
  <2> QED BY <2>1, <2>2
<1>3. c \notin CallsOf(t, {"request"})
  <2>1. ASSUME NEW i \in DOMAIN t, t[i].kind = "request", t[i].call = c PROVE FALSE
    <3>1. NextIn(q, 1, i + 1)
      BY <1>1 DEF Ordered
    <3> QED BY <1>1, <2>1, <3>1 DEF NextIn
  <2> QED BY <2>1 DEF CallsOf
<1>4. c \in CallsOf(q, Ending)
  <2>1. PICK j \in DOMAIN q : q[j].kind \in Ending /\ q[j].call = q[1].call
    BY <1>1 DEF Ordered
  <2> QED BY <1>1, <2>1 DEF CallsOf
<1> HIDE DEF t, c
<1>5. Awaited(t) = Awaited(q) \cup {c} /\ c \in Awaited(t)
  BY <1>2, <1>3, <1>4 DEF Awaited
<1>6. Cardinality(Awaited(q) \cup {c}) <= Cardinality(Awaited(q)) + 1
  <2>1. IsFiniteSet(Awaited(q)) /\ Cardinality(Awaited(q)) \in Nat
    BY AwaitedIsFinite
  <2>2. Cardinality(Awaited(q) \cup {c}) =
          IF c \in Awaited(q) THEN Cardinality(Awaited(q)) ELSE Cardinality(Awaited(q)) + 1
    BY <2>1, FS_AddElement
  <2> QED BY <2>1, <2>2
<1> QED BY <1>3, <1>5, <1>6 DEF t, c

\* A call that ends is the first that awaits its end.
LEMMA EndAwaited ==
  ASSUME NEW q \in Seq(Emitted), q # <<>>, Ordered(q), Head(q).kind \in Ending
  PROVE  /\ Head(q).call \in Awaited(q)
         /\ Awaited(Tail(q)) = Awaited(q) \ {Head(q).call}
         /\ \A k \in Awaited(q) : Head(q).call <= k
         /\ Cardinality(Awaited(q)) = Cardinality(Awaited(Tail(q))) + 1
<1> DEFINE t == Tail(q)
           c == Head(q).call
<1>1. /\ 1 \in DOMAIN q /\ Head(q) = q[1] /\ DOMAIN q \subseteq Nat /\ c \in Nat
      /\ \A i \in DOMAIN t : t[i] = q[i + 1] /\ i + 1 \in DOMAIN q /\ 1 < i + 1
  BY TailIs, StepNumbers
<1>2. /\ CallsOf(q, Ending) = CallsOf(t, Ending) \cup {c}
      /\ CallsOf(q, {"request"}) = CallsOf(t, {"request"})
  BY RequestCalls DEF Ending
<1>3. ASSUME NEW i \in DOMAIN t PROVE NextIn(q, 1, i + 1)
  BY <1>1 DEF Ordered
<1>4. ASSUME NEW k \in CallsOf(t, Ending) PROVE c < k
  <2>1. PICK i \in DOMAIN t : t[i].kind \in Ending /\ k = t[i].call
    BY DEF CallsOf
  <2> QED BY <1>1, <1>3, <2>1 DEF NextIn, Ending, Ended
<1>5. c \notin CallsOf(t, {"request"})
  <2>1. ASSUME NEW i \in DOMAIN t, t[i].kind = "request", t[i].call = c PROVE FALSE
    BY <1>1, <1>3, <2>1 DEF NextIn, Ending, Ended
  <2> QED BY <2>1 DEF CallsOf
<1> HIDE DEF t, c
<1>6. c \notin CallsOf(t, Ending)
  BY <1>1, <1>4
<1>7. c \in Awaited(q) /\ Awaited(t) = Awaited(q) \ {c}
  BY <1>2, <1>5, <1>6 DEF Awaited
<1>8. \A k \in Awaited(q) : c <= k
  <2>1. \A k \in Awaited(q) : k = c \/ k \in CallsOf(t, Ending)
    BY <1>2 DEF Awaited
  <2>2. \A k \in Awaited(q) : k \in Nat
    BY AwaitedIsFinite
  <2> QED BY <1>1, <1>4, <2>1, <2>2
<1>9. Cardinality(Awaited(q)) = Cardinality(Awaited(t)) + 1
  <2>1. IsFiniteSet(Awaited(q)) /\ Cardinality(Awaited(q)) \in Nat
    BY AwaitedIsFinite
  <2>2. Cardinality(Awaited(q) \ {c}) = Cardinality(Awaited(q)) - 1
    BY <1>7, <2>1, FS_RemoveElement
  <2> QED BY <1>7, <2>1, <2>2
<1> QED BY <1>7, <1>8, <1>9 DEF t, c

\* A stray result comes when no call awaits its end.
LEMMA StrayAwaited ==
  ASSUME NEW q \in Seq(Emitted), q # <<>>, Ordered(q), Head(q).kind = "stray"
  PROVE  Awaited(q) = {} /\ Awaited(Tail(q)) = {}
<1> DEFINE t == Tail(q)
<1>1. /\ 1 \in DOMAIN q /\ Head(q) = q[1] /\ DOMAIN q = 1 .. Len(q) /\ Len(q) \in Nat
  BY TailIs
<1>2. CallsOf(q, Ending) = CallsOf(t, Ending) /\ CallsOf(q, {"request"}) = CallsOf(t, {"request"})
  <2>1. Head(q).kind \notin Ending /\ Head(q).kind # "request"
    BY DEF Ending
  <2>2. /\ CallsOf(q, Ending) = CallsOf(t, Ending) \cup (IF Head(q).kind \in Ending THEN {Head(q).call} ELSE {})
        /\ CallsOf(q, {"request"}) =
             CallsOf(t, {"request"}) \cup (IF Head(q).kind = "request" THEN {Head(q).call} ELSE {})
    BY RequestCalls
  <2> HIDE DEF t
  <2> QED BY <2>1, <2>2
<1>3. ASSUME NEW j \in DOMAIN q, q[j].kind \in Ending PROVE q[j].call \in CallsOf(q, {"request"})
  <2>1. 1 < j /\ j - 1 \in DOMAIN q
    BY <1>1, <1>3 DEF Ending
  <2>2. AfterRequest(q, j)
    BY <1>1, <1>3, <2>1 DEF Ordered
  <2> QED BY <2>1, <2>2 DEF AfterRequest, CallsOf
<1>4. CallsOf(q, Ending) \subseteq CallsOf(q, {"request"})
  BY <1>3 DEF CallsOf
<1> QED BY <1>2, <1>4 DEF Awaited

\* What ends later has a greater number.
LEMMA EndsInOrder ==
  ASSUME NEW q \in Seq(Emitted), q # <<>>, Ordered(q), Head(q).kind \in Ended
  PROVE  \A k \in CallsOf(Tail(q), Ended) : Head(q).call # k
<1> DEFINE t == Tail(q)
<1>1. /\ 1 \in DOMAIN q /\ Head(q) = q[1] /\ DOMAIN q \subseteq Nat /\ q[1].call \in Nat
      /\ \A i \in DOMAIN t : t[i] = q[i + 1] /\ i + 1 \in DOMAIN q /\ 1 < i + 1 /\ t[i].call \in Nat
  BY TailIs, StepNumbers
<1>2. ASSUME NEW i \in DOMAIN t, t[i].kind \in Ended PROVE q[1].call # t[i].call
  <2>1. NextIn(q, 1, i + 1)
    BY <1>1 DEF Ordered
  <2> QED BY <1>1, <1>2, <2>1 DEF NextIn
<1> QED BY <1>1, <1>2 DEF CallsOf

-----------------------------------------------------------------------------
(* What growing, folding and rolling back leave of the evidence.             *)

Grown(w, v) == w.pending = v.pending /\ Continues(w.blocks, v.blocks)

LEMMA AlikeTell ==
  ASSUME NEW b, NEW c, Alike(b, c)
  PROVE  Tells(b) = Tells(c) /\ b.kind = c.kind /\ (b.kind = "group" => b.text = c.text)
BY DEF Alike, Tells

LEMMA ContinuesTold ==
  ASSUME NEW bs, NEW cs, Continues(bs, cs), NEW k
  PROVE  Told(bs, k) <=> Told(cs, k)
<1>1. DOMAIN bs = 1 .. Len(bs) /\ DOMAIN cs = 1 .. Len(cs)
  BY SeqFacts DEF Continues
<1>2. Len(bs) \in Nat /\ Len(cs) \in Nat /\ Len(cs) <= Len(bs)
  BY SeqFacts DEF Continues
<1>3. ASSUME NEW i \in 1 .. Len(cs) PROVE i \in 1 .. Len(bs) /\ Tells(bs[i]) = Tells(cs[i])
  <2>1. Alike(bs[i], cs[i])
    BY DEF Continues
  <2>2. Tells(bs[i]) = Tells(cs[i])
    BY ONLY <2>1, AlikeTell
  <2> QED BY <1>2, <2>2
<1>4. ASSUME NEW i \in 1 .. Len(bs), k \in Tells(bs[i]) PROVE i \in 1 .. Len(cs)
  <2>1. ~Quiet(bs[i])
    BY <1>4 DEF Quiet, Tells
  <2>2. \A j \in (Len(cs) + 1) .. Len(bs) : Quiet(bs[j])
    BY DEF Continues
  <2>3. i \notin (Len(cs) + 1) .. Len(bs)
    BY <2>1, <2>2
  <2> QED BY <1>2, <2>3
<1> QED BY <1>1, <1>3, <1>4 DEF Told

LEMMA GrownSpoken ==
  ASSUME NEW w, NEW v, Grown(w, v), NEW k
  PROVE  Spoken(w, k) <=> Spoken(v, k)
<1>1. Closed(w) = Closed(v)
  BY DEF Closed, Grown
<1> QED BY <1>1, ContinuesTold DEF Spoken, Grown

LEMMA GrownBeside ==
  ASSUME NEW w, NEW v, NEW R, NEW U, Grown(w, v), AllBeside(v, R, U)
  PROVE  AllBeside(w, R, U)
<1>1. Closed(w) = Closed(v)
  BY DEF Closed, Grown
<1>2. Len(v.blocks) \in Nat /\ Len(w.blocks) \in Nat /\ Len(v.blocks) <= Len(w.blocks)
  BY SeqFacts DEF Continues, Grown
<1>3. DOMAIN w.blocks = 1 .. Len(w.blocks) /\ DOMAIN v.blocks = 1 .. Len(v.blocks)
  BY SeqFacts DEF Continues, Grown
<1>4. ASSUME NEW i \in DOMAIN w.blocks, w.blocks[i].kind = "group"
      PROVE  i \in DOMAIN v.blocks /\ v.blocks[i].kind = "group" /\ v.blocks[i].text = w.blocks[i].text
  <2>1. i \notin (Len(v.blocks) + 1) .. Len(w.blocks)
    BY <1>4 DEF Continues, Grown, Quiet
  <2>2. i \in 1 .. Len(v.blocks)
    BY <1>2, <1>3, <2>1
  <2>3. Alike(w.blocks[i], v.blocks[i])
    BY <2>2 DEF Continues, Grown
  <2> QED BY <1>3, <1>4, <2>2, <2>3 DEF Alike
<1> QED BY <1>1, <1>4 DEF AllBeside

LEMMA GrownEvidence ==
  ASSUME NEW w, NEW v, NEW q, NEW R, NEW U, Grown(w, v), Evidence(v, q, R, U),
         Cardinality(Closed(v)) \in Nat, Cardinality(Awaited(q)) \in Nat
  PROVE  Evidence(w, q, R, U)
<1>1. Closed(w) = Closed(v) /\ w.pending = v.pending
  BY DEF Closed, Grown
<1>2. /\ DOMAIN w.blocks = 1 .. Len(w.blocks) /\ DOMAIN v.blocks = 1 .. Len(v.blocks)
      /\ Len(w.blocks) \in Nat /\ Len(v.blocks) \in Nat /\ Len(v.blocks) <= Len(w.blocks)
  BY SeqFacts DEF Continues, Grown
<1>3. ASSUME NEW i \in 1 .. Len(v.blocks)
      PROVE  /\ Tells(w.blocks[i]) = Tells(v.blocks[i]) /\ w.blocks[i].kind = v.blocks[i].kind
             /\ w.blocks[i].kind = "group" => w.blocks[i].text = v.blocks[i].text
  BY AlikeTell DEF Continues, Grown
<1>4. \A i \in (Len(v.blocks) + 1) .. Len(w.blocks) : Quiet(w.blocks[i])
  BY DEF Continues, Grown
<1>5. EntriesOK(w, q) /\ AllOpened(w, q) /\ NoneLeft(w, q, U)
  BY <1>1 DEF Evidence, EntriesOK, AllOpened, NoneLeft
<1>6. AllFresh(w, q)
  BY GrownSpoken DEF Evidence, AllFresh
<1>7. AllTold(w, R)
  BY ContinuesTold DEF Evidence, AllTold, Grown
<1>8. AllBeside(w, R, U)
  BY GrownBeside DEF Evidence
<1>9. LinesStay(w, q, R)
  <2>1. ASSUME NEW i \in DOMAIN w.blocks, NEW r \in R,
               w.blocks[i].kind = "result", r.call \in Tells(w.blocks[i])
        PROVE  LineStays(w, q, i) \/ \E e \in Closed(w) : e.result = r.call
    <3>1. i \in DOMAIN v.blocks
      BY <1>2, <1>4, <2>1 DEF Quiet
    <3>2. LineStays(v, q, i) \/ \E e \in Closed(v) : e.result = r.call
      BY <1>2, <1>3, <2>1, <3>1 DEF Evidence, LinesStay
    <3>3. CASE \E j \in (i + 1) .. Len(v.blocks) : ~Live(v.blocks[j])
      <4>1. PICK j \in (i + 1) .. Len(v.blocks) : ~Live(v.blocks[j])
        BY <3>3
      <4>2. j \in (i + 1) .. Len(w.blocks) /\ ~Live(w.blocks[j])
        BY <1>2, <1>3, <3>1, <4>1 DEF Live
      <4> QED BY <4>2 DEF LineStays
    <3>4. CASE Len(v.blocks) - i >= 2 * Cardinality(Closed(v)) + Cardinality(Awaited(q))
      <4>1. Len(w.blocks) - i >= Len(v.blocks) - i
        BY <1>2, <2>1
      <4>2. Len(w.blocks) - i >= 2 * Cardinality(Closed(w)) + Cardinality(Awaited(q))
        BY <1>1, <1>2, <2>1, <3>4, <4>1
      <4> QED BY <4>2 DEF LineStays
    <3> QED BY <1>1, <3>2, <3>3, <3>4 DEF LineStays
  <2> QED BY <2>1 DEF LinesStay
<1> QED BY <1>5, <1>6, <1>7, <1>8, <1>9 DEF Evidence

\* What is pushed that no call is about.
LEMMA PushGrows ==
  ASSUME NEW v, ViewOK(v), NEW kind, NEW text, BlockOK(Block(kind, text)),
         kind \notin {"request", "result", "group"}
  PROVE  /\ Grown(Push(v, kind, text), v) /\ ViewOK(Push(v, kind, text))
         /\ Push(v, kind, text).mark = v.mark
         /\ Len(Push(v, kind, text).blocks) = Len(v.blocks) + 1
         /\ ~Live(Push(v, kind, text).blocks[Len(v.blocks) + 1])
<1> DEFINE b == Block(kind, text)
           w == Push(v, kind, text)
<1>1. Extends(w, v) /\ w.pending = v.pending /\ w.blocks = Append(v.blocks, b)
  BY PushIs
<1>2. IsSeq(v.blocks) /\ Len(v.blocks) \in Nat
  BY SeqFacts DEF ViewOK, Blocks
<1>3. Quiet(b) /\ ~Live(b)
  BY DEF Block, Quiet, Live
<1> HIDE DEF b, w
<1>4. /\ IsSeq(w.blocks) /\ Len(w.blocks) = Len(v.blocks) + 1
      /\ \A i \in 1 .. Len(v.blocks) : w.blocks[i] = v.blocks[i]
      /\ w.blocks[Len(v.blocks) + 1] = b
  BY <1>1, <1>2, SeqAppended
<1>5. \A i \in (Len(v.blocks) + 1) .. Len(w.blocks) : i = Len(v.blocks) + 1
  BY <1>2, <1>4
<1>6. Grown(w, v)
  BY <1>1, <1>2, <1>3, <1>4, <1>5 DEF Grown, Continues, Alike
<1> QED BY <1>1, <1>3, <1>4, <1>6 DEF w, Extends

LEMMA GrownAgain ==
  ASSUME NEW w, NEW v, NEW u, Grown(w, v), Grown(v, u)
  PROVE  Grown(w, u)
<1> DEFINE a == w.blocks
           b == v.blocks
           c == u.blocks
<1>1. /\ Continues(a, b) /\ Continues(b, c) /\ w.pending = u.pending
  BY DEF Grown
<1>2. IsSeq(a) /\ IsSeq(b) /\ IsSeq(c) /\ Len(a) \in Nat /\ Len(b) \in Nat /\ Len(c) \in Nat
      /\ Len(c) <= Len(b) /\ Len(b) <= Len(a)
  BY <1>1, SeqFacts DEF Continues
<1> HIDE DEF a, b, c
<1>3. ASSUME NEW i \in 1 .. Len(c) PROVE Alike(a[i], c[i])
  <2>1. i \in 1 .. Len(b)
    BY <1>2
  <2>2. Alike(a[i], b[i]) /\ Alike(b[i], c[i])
    BY <1>1, <2>1 DEF Continues
  <2> QED BY <2>2 DEF Alike
<1>4. ASSUME NEW i \in (Len(c) + 1) .. Len(a) PROVE Quiet(a[i])
  <2>1. CASE i \in 1 .. Len(b)
    <3>1. Quiet(b[i]) /\ Alike(a[i], b[i])
      BY <1>1, <1>2, <2>1 DEF Continues
    <3> QED BY <3>1 DEF Quiet, Alike
  <2>2. CASE i \in (Len(b) + 1) .. Len(a)
    BY <1>1, <2>2 DEF Continues
  <2> QED BY <1>2, <2>1, <2>2
<1>5. Continues(a, c)
  BY <1>2, <1>3, <1>4 DEF Continues
<1> QED BY <1>1, <1>5 DEF Grown, a, c

LEMMA GrownSelf ==
  ASSUME NEW v, ViewOK(v)
  PROVE  Grown(v, v)
<1>1. IsSeq(v.blocks) /\ Len(v.blocks) \in Nat
  BY SeqFacts DEF ViewOK, Blocks
<1> QED BY <1>1 DEF Grown, Continues, Alike

LEMMA SpacedGrows ==
  ASSUME NEW v, ViewOK(v)
  PROVE  Grown(Spaced(v), v) /\ ViewOK(Spaced(v)) /\ Spaced(v).mark = v.mark
<1>1. BlockOK(Block("spacer", <<>>))
  BY DEF BlockOK, Block
<1>2. CASE Spaced(v) = v
  BY <1>2, GrownSelf
<1>3. CASE Spaced(v) = Push(v, "spacer", <<>>)
  BY <1>1, <1>3, PushGrows
<1> QED BY <1>2, <1>3 DEF Spaced

\* A note that is pushed leaves every line before it where it is.
LEMMA NotedLinesStay ==
  ASSUME NEW v, ViewOK(v), NEW q, NEW R
  PROVE  LinesStay(Push(v, "note", <<>>), q, R)
<1> DEFINE w == Push(v, "note", <<>>)
           n == Len(v.blocks) + 1
<1>1. BlockOK(Block("note", <<>>))
  BY DEF BlockOK, Block
<1>2. ViewOK(w) /\ Len(w.blocks) = n /\ ~Live(w.blocks[n]) /\ n \in Nat
  BY <1>1, PushGrows, SeqFacts DEF ViewOK, Blocks
<1> HIDE DEF w, n
<1>3. DOMAIN w.blocks = 1 .. n
  BY <1>2, SeqFacts DEF ViewOK, Blocks
<1>4. ASSUME NEW i \in DOMAIN w.blocks, w.blocks[i].kind = "result" PROVE LineStays(w, q, i)
  <2>1. i # n
    BY <1>2, <1>4 DEF Live
  <2>2. n \in (i + 1) .. Len(w.blocks)
    BY <1>2, <1>3, <2>1
  <2> QED BY <1>2, <2>2 DEF LineStays
<1> QED BY <1>4 DEF LinesStay, w

\* A delta grows the trailing answer, or opens one.
LEMMA TextGrows ==
  ASSUME NEW v, ViewOK(v), NEW d \in Nat
  PROVE  Grown(PushText(v, d), v) /\ PushText(v, d).mark = v.mark
<1> DEFINE n == Len(v.blocks)
           w == PushText(v, d)
<1>1. CASE EndsIn(v, "answer")
  <2> DEFINE t == v.blocks[n].text
             t2 == Append(t, d)
             bs == [v.blocks EXCEPT ![n].text = t2]
  <2>1. n \in Nat /\ n > 0 /\ v.blocks # <<>> /\ v.blocks[n].kind = "answer" /\ IsSeq(v.blocks)
    BY <1>1, SeqFacts DEF EndsIn, Last, ViewOK, Blocks
  <2>2. n \in 1 .. Len(v.blocks) /\ n \in DOMAIN v.blocks
    BY <2>1, SeqFacts
  <2>3. v.blocks[n] \in Answered /\ t \in Seq(Nat)
    BY <2>1, <2>2, AnswerIs DEF ViewOK, Blocks, BlockOK, Texts
  <2>4. w = [blocks |-> bs, pending |-> v.pending, mark |-> v.mark]
    <3>1. w = [v EXCEPT !.blocks = bs]
      BY <1>1 DEF PushText
    <3> HIDE DEF bs, w
    <3> QED BY <3>1 DEF ViewOK
  <2>5. w.blocks = bs /\ w.pending = v.pending /\ w.mark = v.mark
    BY <2>4
  <2> HIDE DEF t
  <2>6. t2 \in Texts \ {<<>>}
    BY <2>3, AppendProperties DEF Texts
  <2> HIDE DEF t2
  <2>7. /\ Blocks(bs) /\ Len(bs) = n /\ bs[n] = [kind |-> "answer", text |-> t2]
        /\ \A i \in 1 .. (n - 1) : bs[i] = v.blocks[i]
    <3>1. Blocks(v.blocks) /\ v.blocks # <<>> /\ v.blocks[Len(v.blocks)] \in Answered
      BY <2>1, <2>3 DEF ViewOK
    <3>2. Replaced([v.blocks EXCEPT ![Len(v.blocks)].text = t2], v.blocks, t2)
      BY ONLY <2>6, <3>1, AnswerIsReplaced
    <3>3. Replaced(bs, v.blocks, t2)
      BY <3>2
    <3> HIDE DEF bs
    <3> QED BY <3>3 DEF Replaced
  <2> HIDE DEF bs, w
  <2>8. ASSUME NEW i \in 1 .. n PROVE Alike(bs[i], v.blocks[i])
    <3>1. CASE i = n
      BY <2>1, <2>7, <3>1 DEF Alike
    <3>2. CASE i # n
      <4>1. i \in 1 .. (n - 1)
        BY <2>1, <3>2
      <4> QED BY <2>7, <4>1 DEF Alike
    <3> QED BY <3>1, <3>2
  <2>9. Continues(bs, v.blocks)
    BY <2>1, <2>7, <2>8 DEF Continues, Blocks
  <2> QED BY <2>5, <2>9 DEF Grown, w
<1>2. CASE ~EndsIn(v, "answer")
  <2> DEFINE s == Spaced(v)
  <2>1. Grown(s, v) /\ ViewOK(s) /\ s.mark = v.mark
    BY SpacedGrows
  <2>2. BlockOK(Block("answer", <<d>>))
    BY EmptySeq DEF BlockOK, Block, Answered, Texts
  <2> HIDE DEF s
  <2>3. Grown(Push(s, "answer", <<d>>), s) /\ Push(s, "answer", <<d>>).mark = s.mark
    BY <2>1, <2>2, PushGrows
  <2>4. w = Push(s, "answer", <<d>>)
    BY <1>2 DEF PushText, s
  <2> HIDE DEF w
  <2>5. Grown(w, s) /\ Grown(s, v)
    BY <2>1, <2>3, <2>4
  <2>6. Grown(w, v)
    BY ONLY <2>5, GrownAgain
  <2> QED BY <2>1, <2>3, <2>4, <2>6 DEF w
<1> QED BY <1>1, <1>2

\* What is folded: the run's own lines, and its calls stand in the group.
Folded(bs, v, kept) ==
  /\ Len(bs) = kept + 1 /\ Len(v.blocks) - kept <= 2 * Cardinality(Closed(v))
  /\ \A i \in (kept + 1) .. Len(v.blocks) : Live(v.blocks[i])
  /\ \A i \in 1 .. kept : bs[i] = v.blocks[i]
  /\ bs[kept + 1] = Block("group", {<<e.call, e.result>> : e \in Closed(v)})

LEMMA FlushIs ==
  ASSUME NEW v, ViewOK(v)
  PROVE  /\ Flush(v).pending = v.pending \ Closed(v)
         /\ IsFiniteSet(Closed(v)) /\ Cardinality(Closed(v)) \in Nat
         /\ ~Folds(Closed(v)) => Flush(v).blocks = v.blocks
         /\ Folds(Closed(v)) => \E kept \in 0 .. Len(v.blocks) : Folded(Flush(v).blocks, v, kept)
<1> DEFINE n == 2 * Cardinality(Closed(v))
           kept == Len(v.blocks) - Trailing(v.blocks, n)
           group == Block("group", {<<e.call, e.result>> : e \in Closed(v)})
           rest == SubSeq(v.blocks, 1, kept)
           bs == IF Folds(Closed(v)) THEN Append(rest, group) ELSE v.blocks
           w == Flush(v)
<1>1. w = [blocks |-> bs, pending |-> v.pending \ Closed(v), mark |-> v.mark]
  <2>1. w = [v EXCEPT !.pending = v.pending \ Closed(v), !.blocks = bs]
    BY DEF Flush, Closed
  <2> HIDE DEF w, bs
  <2> QED BY <2>1 DEF ViewOK
<1>2. w.blocks = bs /\ w.pending = v.pending \ Closed(v)
  BY <1>1
<1>3. IsFiniteSet(Closed(v)) /\ Cardinality(Closed(v)) \in Nat
  <2>1. Closed(v) \subseteq v.pending
    BY DEF Closed
  <2> QED BY <2>1, FS_Subset, FS_CardinalityType DEF ViewOK
<1>4. n \in Nat /\ IsSeq(v.blocks) /\ Len(v.blocks) \in Nat
  BY <1>3, SeqFacts DEF ViewOK, Blocks
<1> HIDE DEF n, group
<1>5. /\ Trailing(v.blocks, n) \in 0 .. Len(v.blocks) /\ Trailing(v.blocks, n) <= n
      /\ \A i \in (Len(v.blocks) - Trailing(v.blocks, n) + 1) .. Len(v.blocks) :
           v.blocks[i].kind \in {"request", "result"}
  BY <1>4, TrailingIs
<1>6. /\ kept \in 0 .. Len(v.blocks) /\ Len(v.blocks) - kept <= n
      /\ \A i \in (kept + 1) .. Len(v.blocks) : Live(v.blocks[i])
  BY <1>4, <1>5 DEF Live
<1> HIDE DEF kept
<1>7. IsSeq(rest) /\ Len(rest) = kept /\ \A i \in 1 .. kept : rest[i] = v.blocks[i]
  BY <1>4, <1>6, SeqCut
<1> HIDE DEF rest
<1>8. /\ Len(Append(rest, group)) = kept + 1 /\ Append(rest, group)[kept + 1] = group
      /\ \A i \in 1 .. kept : Append(rest, group)[i] = v.blocks[i]
  BY <1>7, SeqAppended
<1>9. ASSUME Folds(Closed(v)) PROVE Folded(w.blocks, v, kept)
  <2>1. w.blocks = Append(rest, group)
    BY <1>2, <1>9
  <2> HIDE DEF w, bs
  <2> QED BY <1>6, <1>8, <2>1 DEF Folded, group, n
<1> QED BY <1>2, <1>3, <1>6, <1>9

\* Folding takes no result off the screen and puts none beside another call.
LEMMA FlushEvidence ==
  ASSUME NEW v, ViewOK(v), NEW q \in Seq(Emitted), NEW R, NEW U, Evidence(v, q, R, U)
  PROVE  LET f == Flush(v) IN
         /\ EntriesOK(f, q) /\ AllFresh(f, q) /\ AllOpened(f, q) /\ NoneLeft(f, q, U)
         /\ AllTold(f, R) /\ AllBeside(f, R, U)
         /\ Awaited(q) = {} => LinesStay(f, q, R)
         /\ \A k : Spoken(f, k) => Spoken(v, k)
<1> DEFINE f == Flush(v)
           group == Block("group", {<<e.call, e.result>> : e \in Closed(v)})
<1>1. /\ f.pending = v.pending \ Closed(v)
      /\ IsFiniteSet(Closed(v)) /\ Cardinality(Closed(v)) \in Nat
      /\ ~Folds(Closed(v)) => f.blocks = v.blocks
      /\ Folds(Closed(v)) => \E kept \in 0 .. Len(v.blocks) : Folded(f.blocks, v, kept)
  BY FlushIs
<1>2. ViewOK(f)
  BY FlushShows
<1> HIDE DEF f
<1>3. f.pending \subseteq v.pending /\ Closed(f) = {} /\ \A e \in v.pending : e.open => e \in f.pending
  BY <1>1 DEF Closed
<1>4. Len(v.blocks) \in Nat /\ Len(f.blocks) \in Nat
  BY <1>2, SeqFacts DEF ViewOK, Blocks
<1>5. DOMAIN v.blocks = 1 .. Len(v.blocks) /\ DOMAIN f.blocks = 1 .. Len(f.blocks)
  BY <1>2, SeqFacts DEF ViewOK, Blocks
<1>6. EntriesOK(f, q)
  <2>1. IsFiniteSet(f.pending)
    BY <1>2 DEF ViewOK
  <2> QED BY <1>3, <2>1 DEF Evidence, EntriesOK
<1>7. AllOpened(f, q) /\ NoneLeft(f, q, U)
  BY <1>3 DEF Evidence, AllOpened, NoneLeft
<1>8. Awaited(q) = {} => LinesStay(f, q, R)
  <2>1. ASSUME Awaited(q) = {}, NEW i \in DOMAIN f.blocks PROVE LineStays(f, q, i)
    <3>1. Cardinality(Closed(f)) = 0 /\ Cardinality(Awaited(q)) = 0
      BY <1>3, <2>1, FS_EmptySet
    <3>2. Len(f.blocks) - i >= 0
      BY <1>4, <1>5
    <3>3. Len(f.blocks) - i >= 2 * Cardinality(Closed(f)) + Cardinality(Awaited(q))
      BY <1>4, <1>5, <3>1, <3>2
    <3> QED BY <3>3 DEF LineStays
  <2> QED BY <2>1 DEF LinesStay
<1>9. CASE ~Folds(Closed(v))
  <2>1. f.blocks = v.blocks
    BY <1>1, <1>9
  <2>2. \A k : Spoken(f, k) => Spoken(v, k)
    BY <1>3, <2>1 DEF Spoken
  <2>3. AllFresh(f, q) /\ AllTold(f, R) /\ AllBeside(f, R, U)
    BY <1>3, <2>1, <2>2 DEF Evidence, AllFresh, AllTold, AllBeside
  <2> QED BY <1>6, <1>7, <1>8, <2>2, <2>3 DEF f
<1>10. CASE Folds(Closed(v))
  <2>1. PICK kept \in 0 .. Len(v.blocks) : Folded(f.blocks, v, kept)
    BY <1>1, <1>10
  <2>2. /\ Len(f.blocks) = kept + 1 /\ Len(v.blocks) - kept <= 2 * Cardinality(Closed(v))
        /\ \A i \in (kept + 1) .. Len(v.blocks) : Live(v.blocks[i])
        /\ \A i \in 1 .. kept : f.blocks[i] = v.blocks[i]
        /\ f.blocks[kept + 1] = group
    BY <2>1 DEF Folded
  <2>3. /\ group.kind = "group" /\ group.text = {<<e.call, e.result>> : e \in Closed(v)}
        /\ \A k : k \in Tells(group) <=> \E e \in Closed(v) : e.result = k
    <3> DEFINE S == {<<e.call, e.result>> : e \in Closed(v)}
    <3>1. group.kind = "group" /\ group.text = S
      BY DEF Block
    <3> HIDE DEF group
    <3>2. Tells(group) = {pair[2] : pair \in S}
      BY <3>1 DEF Tells
    <3>3. \A e \in Closed(v) : <<e.call, e.result>> \in S /\ <<e.call, e.result>>[2] = e.result
      OBVIOUS
    <3>4. \A pair \in S : \E e \in Closed(v) : pair[2] = e.result
      OBVIOUS
    <3> HIDE DEF S
    <3>5. \A k : k \in Tells(group) <=> \E e \in Closed(v) : e.result = k
      BY <3>2, <3>3, <3>4
    <3> QED BY <3>1, <3>5 DEF S
  <2> HIDE DEF group
  <2>4. \A i \in DOMAIN f.blocks : (i \in 1 .. kept /\ i \in DOMAIN v.blocks) \/ i = kept + 1
    BY <1>4, <1>5, <2>2
  <2>5. 1 .. kept \subseteq DOMAIN v.blocks /\ 1 .. kept \subseteq DOMAIN f.blocks /\ kept + 1 \in DOMAIN f.blocks
    BY <1>4, <1>5, <2>2
  <2>6. ASSUME NEW k, Spoken(f, k) PROVE Spoken(v, k)
    <3>1. PICK i \in DOMAIN f.blocks : k \in Tells(f.blocks[i])
      BY <1>3, <2>6 DEF Spoken, Told
    <3>2. CASE i = kept + 1
      BY <2>2, <2>3, <3>1, <3>2 DEF Spoken
    <3>3. CASE i \in 1 .. kept /\ i \in DOMAIN v.blocks
      BY <2>2, <3>1, <3>3 DEF Spoken, Told
    <3> QED BY <2>4, <3>2, <3>3
  <2>7. AllFresh(f, q)
    BY <2>6 DEF Evidence, AllFresh
  <2>8. AllBeside(f, R, U)
    <3>1. ASSUME NEW i \in DOMAIN f.blocks, f.blocks[i].kind = "group", NEW pair \in f.blocks[i].text
          PROVE  Beside(pair[1], pair[2], R, U)
      <4>1. CASE i = kept + 1
        <5>1. PICK e \in Closed(v) : pair = <<e.call, e.result>>
          BY <2>2, <2>3, <3>1, <4>1
        <5> QED BY <5>1 DEF Evidence, AllBeside
      <4>2. CASE i \in 1 .. kept /\ i \in DOMAIN v.blocks
        BY <2>2, <3>1, <4>2 DEF Evidence, AllBeside
      <4> QED BY <2>4, <4>1, <4>2
    <3> QED BY <1>3, <3>1 DEF AllBeside
  <2>9. AllTold(f, R)
    <3>1. ASSUME NEW r \in R PROVE Told(f.blocks, r.call)
      <4>1. PICK i \in DOMAIN v.blocks : r.call \in Tells(v.blocks[i])
        BY DEF Evidence, AllTold, Told
      <4>2. CASE i \in 1 .. kept
        BY <2>2, <2>5, <4>1, <4>2 DEF Told
      <4>3. CASE i \notin 1 .. kept
        <5>1. i \in (kept + 1) .. Len(v.blocks)
          BY <1>4, <1>5, <4>3
        <5>2. Live(v.blocks[i]) /\ v.blocks[i].kind = "result"
          <6>1. Live(v.blocks[i])
            BY <2>2, <5>1
          <6> QED BY <4>1, <6>1 DEF Live, Tells
        <5>3. ~LineStays(v, q, i)
          <6>1. ~ \E j \in (i + 1) .. Len(v.blocks) : ~Live(v.blocks[j])
            <7>1. \A j \in (i + 1) .. Len(v.blocks) : j \in (kept + 1) .. Len(v.blocks)
              BY <1>4, <5>1
            <7> QED BY <2>2, <7>1
          <6>2. ~(Len(v.blocks) - i >= 2 * Cardinality(Closed(v)) + Cardinality(Awaited(q)))
            <7>1. Cardinality(Awaited(q)) \in Nat
              BY AwaitedIsFinite
            <7> QED BY <1>1, <1>4, <2>2, <5>1, <7>1
          <6>3. ~ \E e \in Closed(v) : ~e.ok
            BY <1>10 DEF Folds
          <6> QED BY <6>1, <6>2, <6>3 DEF LineStays
        <5>4. \E e \in Closed(v) : e.result = r.call
          BY <4>1, <5>2, <5>3 DEF Evidence, LinesStay
        <5>5. r.call \in Tells(f.blocks[kept + 1])
          BY <2>2, <2>3, <5>4
        <5> QED BY <2>5, <5>5 DEF Told
      <4> QED BY <4>2, <4>3
    <3> QED BY <3>1 DEF AllTold
  <2> QED BY <1>6, <1>7, <1>8, <2>6, <2>7, <2>8, <2>9 DEF f
<1> QED BY <1>9, <1>10

\* Where no finished call waits to be folded, folding changes nothing.
LEMMA OpenFlush ==
  ASSUME NEW v, ViewOK(v), AllOpen(v)
  PROVE  Flush(v).pending = v.pending /\ Flush(v).blocks = v.blocks /\ Flush(v).mark = v.mark /\ ViewOK(Flush(v))
<1>1. Closed(v) = {}
  BY DEF AllOpen, Closed
<1>2. Flush(v).pending = v.pending
  BY <1>1, FlushIs
<1> QED BY <1>2, FlushShows

\* Blocks bs are the view's with a line of the run pushed.
Lined(bs, v, kind, c) ==
  /\ Len(v.blocks) \in Nat /\ Len(bs) = Len(v.blocks) + 1
  /\ \A i \in DOMAIN v.blocks : i \in DOMAIN bs /\ bs[i] = v.blocks[i] /\ i \in 1 .. Len(v.blocks)
  /\ \A i \in DOMAIN bs : i \in DOMAIN v.blocks \/ i = Len(bs)
  /\ Len(bs) \in DOMAIN bs /\ bs[Len(bs)].kind = kind
  /\ \A k : k \in Tells(bs[Len(bs)]) <=> kind = "result" /\ k = c
  /\ \A k : Told(bs, k) <=> Told(v.blocks, k) \/ (kind = "result" /\ k = c)

LEMMA LineAdded ==
  ASSUME NEW v, ViewOK(v), NEW kind, kind \in {"request", "result"}, NEW c
  PROVE  Lined(Append(v.blocks, Block(kind, <<c>>)), v, kind, c)
<1> DEFINE b == Block(kind, <<c>>)
           bs == Append(v.blocks, b)
           n == Len(v.blocks)
<1>1. IsSeq(v.blocks) /\ n \in Nat
  BY SeqFacts DEF ViewOK, Blocks
<1>2. b.kind = kind /\ \A k : k \in Tells(b) <=> kind = "result" /\ k = c
  BY DEF Block, Tells, Range
<1> HIDE DEF b
<1>3. /\ IsSeq(bs) /\ Len(bs) = n + 1 /\ bs[n + 1] = b
      /\ \A i \in 1 .. n : bs[i] = v.blocks[i]
  BY <1>1, SeqAppended
<1>4. DOMAIN v.blocks = 1 .. n
  BY <1>1, SeqFacts
<1> HIDE DEF bs
<1>5. DOMAIN bs = 1 .. (n + 1)
  BY <1>3, SeqFacts
<1>6. /\ \A i \in DOMAIN v.blocks : i \in DOMAIN bs /\ bs[i] = v.blocks[i] /\ i \in 1 .. n
      /\ \A i \in DOMAIN bs : i \in DOMAIN v.blocks \/ i = n + 1
      /\ n + 1 \in DOMAIN bs
  BY <1>1, <1>3, <1>4, <1>5
<1>7. ASSUME NEW k PROVE Told(bs, k) <=> Told(v.blocks, k) \/ (kind = "result" /\ k = c)
  BY <1>2, <1>3, <1>6 DEF Told
<1>8. Lined(bs, v, kind, c)
  BY <1>1, <1>2, <1>3, <1>6, <1>7 DEF Lined
<1> QED BY <1>8 DEF bs, b

LEMMA LinePushed ==
  ASSUME NEW v, ViewOK(v), NEW kind, NEW text, kind # "answer"
  PROVE  /\ ViewOK(Push(v, kind, text)) /\ Push(v, kind, text).pending = v.pending
         /\ Push(v, kind, text).blocks = Append(v.blocks, Block(kind, text))
<1>1. BlockOK(Block(kind, text))
  BY DEF BlockOK, Block
<1>2. /\ Extends(Push(v, kind, text), v) /\ Push(v, kind, text).pending = v.pending
      /\ Push(v, kind, text).blocks = Append(v.blocks, Block(kind, text))
  BY <1>1, PushIs
<1>3. ViewOK(Push(v, kind, text))
  BY <1>2 DEF Extends
<1> QED BY <1>2, <1>3

LEMMA BufferIs ==
  ASSUME NEW v, ViewOK(v), NEW c, NEW tool
  PROVE  /\ Buffer(v, c, tool).blocks = Append(v.blocks, Block("request", <<c>>))
         /\ Buffer(v, c, tool).pending =
              v.pending \cup {[call |-> c, tool |-> tool, open |-> TRUE, result |-> c, ok |-> TRUE]}
<1> DEFINE w == Push(v, "request", <<c>>)
           e == [call |-> c, tool |-> tool, open |-> TRUE, result |-> c, ok |-> TRUE]
           x == Buffer(v, c, tool)
<1>2. ViewOK(w) /\ w.pending = v.pending /\ w.blocks = Append(v.blocks, Block("request", <<c>>))
  BY LinePushed
<1>3. x = [w EXCEPT !.pending = @ \cup {e}]
  BY DEF Buffer
<1> HIDE DEF w, e, x
<1>4. w = [blocks |-> w.blocks, pending |-> w.pending, mark |-> w.mark]
  BY <1>2 DEF ViewOK
<1>5. x = [blocks |-> w.blocks, pending |-> w.pending \cup {e}, mark |-> w.mark]
  BY <1>3, <1>4
<1> QED BY <1>2, <1>5 DEF x, e

\* The open entry of the tool with the least number gets the result.
Taken(x, v, taken, closed, c, tool, ok) ==
  /\ taken \in v.pending /\ taken.open /\ taken.tool = tool
  /\ \A e \in v.pending : e.open /\ e.tool = tool => taken.call <= e.call
  /\ closed \in Entry /\ closed.call = taken.call /\ closed.tool = tool
  /\ ~closed.open /\ closed.result = c /\ closed.ok = ok
  /\ x.pending = (v.pending \ {taken}) \cup {closed}

LEMMA CompleteIs ==
  ASSUME NEW v, ViewOK(v), v.pending \subseteq Entry, NEW c \in Nat, NEW tool, NEW ok \in BOOLEAN
  PROVE  LET x == Complete(v, c, tool, ok) IN
         /\ x.blocks = Append(v.blocks, Block("result", <<c>>))
         /\ \/ (\A e \in v.pending : ~(e.open /\ e.tool = tool)) /\ x.pending = v.pending
            \/ \E taken, closed : Taken(x, v, taken, closed, c, tool, ok)
<1> DEFINE w == Push(v, "result", <<c>>)
           taken == OldestOpen(v, tool)
           closed == [taken EXCEPT !.open = FALSE, !.result = c, !.ok = ok]
           y == [w EXCEPT !.pending = (@ \ {taken}) \cup {closed}]
           x == Complete(v, c, tool, ok)
<1>2. ViewOK(w) /\ w.pending = v.pending /\ w.blocks = Append(v.blocks, Block("result", <<c>>))
  BY LinePushed
<1>3. (Open(v, tool) = {} => x = w) /\ (Open(v, tool) # {} => x = y)
  BY DEF Complete
<1>4. CASE Open(v, tool) = {}
  <2>1. x.blocks = Append(v.blocks, Block("result", <<c>>)) /\ x.pending = v.pending
    BY <1>2, <1>3, <1>4
  <2>2. \A e \in v.pending : ~(e.open /\ e.tool = tool)
    BY <1>4 DEF Open
  <2> QED BY <2>1, <2>2
<1>5. CASE Open(v, tool) # {}
  <2>1. \A e \in Open(v, tool) : e \in Entry /\ e.open /\ e.tool = tool /\ e \in v.pending
    BY DEF Open
  <2>2. \A e \in Open(v, tool) : e.call \in Nat
    BY <2>1 DEF Entry
  <2>3. \E e \in Open(v, tool) : \A f \in Open(v, tool) : e.call <= f.call
    <3> DEFINE T == {e.call : e \in Open(v, tool)}
    <3>1. T \in SUBSET Nat /\ T # {}
      BY <1>5, <2>2
    <3>2. PICK k \in T : \A l \in T : k <= l
      BY ONLY <3>1, LeastNatural
    <3> QED BY <3>2
  <2>4. taken \in Open(v, tool) /\ \A f \in Open(v, tool) : taken.call <= f.call
    BY <2>3 DEF OldestOpen
  <2>5. taken \in Entry /\ taken.open /\ taken.tool = tool /\ taken \in v.pending
    BY <2>1, <2>4
  <2>6. /\ closed \in Entry /\ closed.call = taken.call /\ closed.tool = tool
        /\ ~closed.open /\ closed.result = c /\ closed.ok = ok
    <3> HIDE DEF taken
    <3> QED BY <2>5 DEF Entry
  <2>7. \A e \in v.pending : e.open /\ e.tool = tool => taken.call <= e.call
    BY <2>4 DEF Open
  <2>8. w = [blocks |-> w.blocks, pending |-> w.pending, mark |-> w.mark]
    BY <1>2 DEF ViewOK
  <2>9. x = y
    BY <1>3, <1>5
  <2> HIDE DEF w, taken, closed, x
  <2>10. x.blocks = w.blocks /\ x.pending = (w.pending \ {taken}) \cup {closed}
    BY <2>8, <2>9
  <2>11. Taken(x, v, taken, closed, c, tool, ok)
    BY <1>2, <2>5, <2>6, <2>7, <2>10 DEF Taken
  <2> QED BY <1>2, <2>10, <2>11 DEF x
<1> QED BY <1>4, <1>5

LEMMA FewerCalls ==
  ASSUME NEW q \in Seq(Emitted), q # <<>>, NEW kinds
  PROVE  CallsOf(Tail(q), kinds) \subseteq CallsOf(q, kinds)
BY TailCalls

LEMMA TailNumbered ==
  ASSUME NEW q \in Seq(Emitted), q # <<>>, NEW n \in Nat, \A j \in DOMAIN q : q[j].call <= n
  PROVE  (\A j \in DOMAIN Tail(q) : Tail(q)[j].call <= n) /\ Head(q).call \in Nat /\ Head(q).call <= n
<1>1. \A j \in DOMAIN Tail(q) : Tail(q)[j] = q[j + 1] /\ j + 1 \in DOMAIN q
  BY TailIs
<1>2. Head(q) = q[1] /\ 1 \in DOMAIN q
  BY TailIs
<1>3. Head(q).call \in Nat
  BY <1>2, StepNumbers
<1> QED BY <1>1, <1>2, <1>3

\* A request is put: its call has an open entry of its own.
LEMMA RequestEvidence ==
  ASSUME NEW v, ViewOK(v), NEW q \in Seq(Emitted), q # <<>>, Ordered(q), Head(q).kind = "request",
         NEW R, NEW U, NEW n \in Nat, Evidence(v, q, R, U), Numbered(v, q, n)
  PROVE  LET w == Buffer(v, Head(q).call, Head(q).tool) IN
         Evidence(w, Tail(q), R, U) /\ Numbered(w, Tail(q), n)
<1> DEFINE c == Head(q).call
           tool == Head(q).tool
           t == Tail(q)
           w == Buffer(v, c, tool)
           e0 == [call |-> c, tool |-> tool, open |-> TRUE, result |-> c, ok |-> TRUE]
           bs == Append(v.blocks, Block("request", <<c>>))
<1>1. w.blocks = bs /\ w.pending = v.pending \cup {e0}
  BY BufferIs
<1>2. /\ Len(v.blocks) \in Nat /\ Len(bs) = Len(v.blocks) + 1
      /\ \A i \in DOMAIN v.blocks : i \in DOMAIN bs /\ bs[i] = v.blocks[i] /\ i \in 1 .. Len(v.blocks)
      /\ \A i \in DOMAIN bs : i \in DOMAIN v.blocks \/ i = Len(bs)
      /\ bs[Len(bs)].kind = "request"
      /\ \A k : Told(bs, k) <=> Told(v.blocks, k)
  <2>1. "request" \in {"request", "result"} /\ ViewOK(v)
    OBVIOUS
  <2>2. Lined(bs, v, "request", c)
    BY ONLY <2>1, LineAdded
  <2> HIDE DEF bs
  <2> QED BY <2>2 DEF Lined
<1>3. /\ 1 \in DOMAIN q /\ Head(q) = q[1] /\ DOMAIN q \subseteq Nat
      /\ \A i \in DOMAIN t : t[i] = q[i + 1] /\ i + 1 \in DOMAIN q /\ 1 < i + 1
  BY TailIs
<1>4. c \in Nat /\ tool \in Tool
  BY <1>3, StepNumbers
<1>5. e0 \in Entry /\ e0.open /\ e0.call = c /\ e0.tool = tool
  BY <1>4 DEF Entry
<1>6. /\ c \in Awaited(t) /\ Awaited(t) = Awaited(q) \cup {c}
      /\ c \notin CallsOf(t, {"request"})
      /\ Cardinality(Awaited(t)) <= Cardinality(Awaited(q)) + 1
  BY RequestAwaited
<1>7. /\ CallsOf(t, {"request"}) \subseteq CallsOf(q, {"request"}) /\ CallsOf(t, Ended) \subseteq CallsOf(q, Ended)
      /\ c \in CallsOf(q, {"request"})
  <2>1. CallsOf(t, {"request"}) \subseteq CallsOf(q, {"request"})
    BY FewerCalls
  <2>2. CallsOf(t, Ended) \subseteq CallsOf(q, Ended)
    BY FewerCalls
  <2>3. c \in CallsOf(q, {"request"})
    BY <1>3 DEF CallsOf
  <2> QED BY <2>1, <2>2, <2>3
<1>8. (\A j \in DOMAIN t : t[j].call <= n) /\ c <= n
  BY TailNumbered DEF Numbered
<1>9. ASSUME NEW j \in DOMAIN t, t[j].call = c PROVE t[j].tool = tool
  <2>1. NextIn(q, 1, j + 1)
    BY <1>3 DEF Ordered
  <2> QED BY <1>3, <1>9, <2>1 DEF NextIn
<1> HIDE DEF c, tool, t, w, e0, bs
<1>10. Closed(w) = Closed(v)
  BY <1>1, <1>5 DEF Closed
<1>11. \A k : Spoken(w, k) <=> Spoken(v, k)
  BY <1>1, <1>2, <1>10 DEF Spoken
<1>12. EntriesOK(w, t)
  <2>1. w.pending \subseteq Entry /\ IsFiniteSet(w.pending)
    BY <1>1, <1>5, FS_AddElement DEF Evidence, EntriesOK
  <2>2. \A e \in v.pending : e.call # c
    BY <1>7 DEF Evidence, EntriesOK
  <2>3. \A e, f \in w.pending : e.call = f.call => e = f
    BY <1>1, <1>5, <2>2 DEF Evidence, EntriesOK
  <2>4. \A e \in w.pending : e.call \notin CallsOf(t, {"request"})
    BY <1>1, <1>5, <1>6, <1>7 DEF Evidence, EntriesOK
  <2> QED BY <2>1, <2>3, <2>4 DEF EntriesOK
<1>13. AllFresh(w, t)
  BY <1>7, <1>11 DEF Evidence, AllFresh
<1>14. LinesStay(w, t, R)
  <2>1. ASSUME NEW i \in DOMAIN w.blocks, NEW r \in R, w.blocks[i].kind = "result", r.call \in Tells(w.blocks[i])
        PROVE  LineStays(w, t, i) \/ \E e \in Closed(w) : e.result = r.call
    <3>1. i \in DOMAIN v.blocks /\ w.blocks[i] = v.blocks[i] /\ i \in 1 .. Len(v.blocks)
      BY <1>1, <1>2, <2>1
    <3>2. LineStays(v, q, i) \/ \E e \in Closed(v) : e.result = r.call
      BY <2>1, <3>1 DEF Evidence, LinesStay
    <3>3. CASE \E j \in (i + 1) .. Len(v.blocks) : ~Live(v.blocks[j])
      <4>1. PICK j \in (i + 1) .. Len(v.blocks) : ~Live(v.blocks[j])
        BY <3>3
      <4>2. j \in 1 .. Len(v.blocks) /\ j \in (i + 1) .. Len(w.blocks)
        BY <1>1, <1>2, <3>1
      <4>3. j \in DOMAIN v.blocks
        BY <4>2, SeqFacts DEF ViewOK, Blocks
      <4>4. w.blocks[j] = v.blocks[j]
        BY <1>1, <1>2, <4>3
      <4> QED BY <4>1, <4>2, <4>4 DEF LineStays
    <3>4. CASE Len(v.blocks) - i >= 2 * Cardinality(Closed(v)) + Cardinality(Awaited(q))
      <4>1. Cardinality(Awaited(q)) \in Nat /\ Cardinality(Closed(v)) \in Nat
        BY AwaitedIsFinite, FlushIs
      <4>2. Cardinality(Awaited(t)) \in Nat
        BY AwaitedIsFinite, TailIs DEF t
      <4>3. Cardinality(Awaited(t)) <= Cardinality(Awaited(q)) + 1 /\ Cardinality(Closed(w)) = Cardinality(Closed(v))
        BY <1>6, <1>10
      <4>4. i \in Nat /\ Len(v.blocks) \in Nat /\ Len(w.blocks) = Len(v.blocks) + 1
        BY <1>1, <1>2, <3>1
      <4> DEFINE before == Len(v.blocks)
                 lines == Cardinality(Closed(v))
                 awaited == Cardinality(Awaited(q))
                 more == Cardinality(Awaited(t))
      <4>5. /\ before \in Nat /\ lines \in Nat /\ awaited \in Nat /\ more \in Nat /\ more <= awaited + 1
            /\ i \in Nat /\ before - i >= 2 * lines + awaited
        BY <3>4, <4>1, <4>2, <4>3, <4>4
      <4> HIDE DEF before, lines, awaited, more
      <4>6. (before + 1) - i >= 2 * lines + more
        BY ONLY <4>5
      <4>7. Len(w.blocks) - i >= 2 * Cardinality(Closed(w)) + Cardinality(Awaited(t))
        BY <4>3, <4>4, <4>6 DEF before, lines, more
      <4> QED BY <4>7 DEF LineStays
    <3> QED BY <1>10, <3>2, <3>3, <3>4 DEF LineStays
  <2> QED BY <2>1 DEF LinesStay
<1>15. AllOpened(w, t)
  <2>1. ASSUME NEW j \in DOMAIN t, t[j].kind \in Ending, t[j].call \in Awaited(t)
        PROVE  \E e \in w.pending : e.open /\ e.call = t[j].call /\ e.tool = t[j].tool
    <3>1. CASE t[j].call = c
      BY <1>1, <1>5, <1>9, <3>1
    <3>2. CASE t[j].call # c
      <4>1. t[j] = q[j + 1] /\ j + 1 \in DOMAIN q /\ t[j].call \in Awaited(q)
        BY <1>3, <1>6, <2>1, <3>2
      <4> QED BY <1>1, <2>1, <4>1 DEF Evidence, AllOpened
    <3> QED BY <3>1, <3>2
  <2> QED BY <2>1 DEF AllOpened
<1>16. NoneLeft(w, t, U)
  BY <1>1, <1>5, <1>6 DEF Evidence, NoneLeft
<1>17. AllTold(w, R)
  BY <1>1, <1>2 DEF Evidence, AllTold
<1>18. AllBeside(w, R, U)
  <2>1. \A i \in DOMAIN w.blocks : w.blocks[i].kind = "group" => i \in DOMAIN v.blocks /\ v.blocks[i] = w.blocks[i]
    BY <1>1, <1>2
  <2> QED BY <1>10, <2>1 DEF Evidence, AllBeside
<1>19. Numbered(w, t, n)
  BY <1>1, <1>5, <1>8, <1>11 DEF Numbered
<1>20. Evidence(w, t, R, U)
  BY <1>12, <1>13, <1>14, <1>15, <1>16, <1>17, <1>18 DEF Evidence
<1> QED BY <1>19, <1>20 DEF w, t, c, tool

LEMMA TakenCloses ==
  ASSUME NEW x, NEW v, ViewOK(v), NEW taken, NEW closed, NEW c, NEW tool, NEW ok,
         Taken(x, v, taken, closed, c, tool, ok)
  PROVE  /\ Closed(x) = Closed(v) \cup {closed}
         /\ Cardinality(Closed(x)) \in Nat /\ Cardinality(Closed(v)) \in Nat
         /\ Cardinality(Closed(x)) <= Cardinality(Closed(v)) + 1
<1>1. Closed(x) = Closed(v) \cup {closed}
  BY DEF Taken, Closed
<1>2. IsFiniteSet(Closed(v)) /\ Cardinality(Closed(v)) \in Nat
  BY FlushIs
<1>3. Cardinality(Closed(v) \cup {closed}) =
        IF closed \in Closed(v) THEN Cardinality(Closed(v)) ELSE Cardinality(Closed(v)) + 1
  BY <1>2, FS_AddElement
<1> QED BY <1>1, <1>2, <1>3

\* A result comes, of the run or a stray one.
LEMMA CompleteEvidence ==
  ASSUME NEW v, ViewOK(v), NEW q \in Seq(Emitted), q # <<>>, Ordered(q), Head(q).kind \in {"result", "stray"},
         NEW R, NEW U, NEW n \in Nat, Evidence(v, q, R, U), Numbered(v, q, n)
  PROVE  LET w == Complete(v, Head(q).call, Head(q).tool, Head(q).ok) IN
         /\ Lined(w.blocks, v, "result", Head(q).call) /\ ~Spoken(v, Head(q).call)
         /\ EntriesOK(w, Tail(q)) /\ AllFresh(w, Tail(q)) /\ Numbered(w, Tail(q), n)
         /\ \/ w.pending = v.pending /\ (\A e \in v.pending : ~(e.open /\ e.tool = Head(q).tool))
            \/ \E taken, closed : Taken(w, v, taken, closed, Head(q).call, Head(q).tool, Head(q).ok)
<1> DEFINE c == Head(q).call
           tool == Head(q).tool
           ok == Head(q).ok
           t == Tail(q)
           w == Complete(v, c, tool, ok)
<1>1. 1 \in DOMAIN q /\ Head(q) = q[1]
  BY TailIs
<1>2. c \in Nat /\ tool \in Tool /\ ok \in BOOLEAN
  BY <1>1, StepNumbers
<1>3. /\ w.blocks = Append(v.blocks, Block("result", <<c>>))
      /\ \/ w.pending = v.pending /\ (\A e \in v.pending : ~(e.open /\ e.tool = tool))
         \/ \E taken, closed : Taken(w, v, taken, closed, c, tool, ok)
  <2>1. v.pending \subseteq Entry
    BY DEF Evidence, EntriesOK
  <2> QED BY <1>2, <2>1, CompleteIs
<1>4. c \in CallsOf(q, Ended) /\ \A k \in CallsOf(t, Ended) : k # c
  <2>1. Head(q).kind \in Ended
    BY DEF Ended
  <2>2. c \in CallsOf(q, Ended)
    BY <1>1, <2>1 DEF CallsOf
  <2> QED BY <2>1, <2>2, EndsInOrder
<1>5. CallsOf(t, Ended) \subseteq CallsOf(q, Ended)
  BY FewerCalls
<1>6. CallsOf(t, {"request"}) \subseteq CallsOf(q, {"request"})
  BY FewerCalls
<1>7. (\A j \in DOMAIN t : t[j].call <= n) /\ c <= n
  BY TailNumbered DEF Numbered
<1>8. Lined(w.blocks, v, "result", c)
  <2>1. "result" \in {"request", "result"} /\ ViewOK(v)
    OBVIOUS
  <2>2. Lined(Append(v.blocks, Block("result", <<c>>)), v, "result", c)
    BY ONLY <2>1, LineAdded
  <2> QED BY <1>3, <2>2
<1> HIDE DEF c, tool, ok, t, w
<1>9. ~Spoken(v, c)
  BY <1>4 DEF Evidence, AllFresh
<1>10. /\ EntriesOK(w, t) /\ (\A e \in w.pending : e.call <= n)
       /\ \A k : Spoken(w, k) => Spoken(v, k) \/ k = c
  <2>1. \A k : Told(w.blocks, k) => Told(v.blocks, k) \/ k = c
    BY <1>8 DEF Lined
  <2>2. CASE w.pending = v.pending
    <3>1. Closed(w) = Closed(v)
      BY <2>2 DEF Closed
    <3>2. EntriesOK(w, t)
      BY <1>6, <2>2 DEF Evidence, EntriesOK
    <3> QED BY <2>1, <2>2, <3>1, <3>2 DEF Spoken, Numbered
  <2>3. CASE \E taken, closed : Taken(w, v, taken, closed, c, tool, ok)
    <3>1. PICK taken, closed : Taken(w, v, taken, closed, c, tool, ok)
      BY <2>3
    <3>2. /\ taken \in v.pending /\ closed \in Entry /\ closed.call = taken.call /\ closed.result = c
          /\ w.pending = (v.pending \ {taken}) \cup {closed}
      BY <3>1 DEF Taken
    <3>3. Closed(w) = Closed(v) \cup {closed}
      BY <3>1, TakenCloses
    <3>4. w.pending \subseteq Entry /\ IsFiniteSet(w.pending)
      <4>1. IsFiniteSet(v.pending \ {taken})
        BY FS_RemoveElement DEF Evidence, EntriesOK
      <4>2. IsFiniteSet((v.pending \ {taken}) \cup {closed})
        BY ONLY <4>1, FS_AddElement
      <4> QED BY <3>2, <4>2 DEF Evidence, EntriesOK
    <3>5. \A e, f \in w.pending : e.call = f.call => e = f
      BY <3>2 DEF Evidence, EntriesOK
    <3>6. \A e \in w.pending : e.call \notin CallsOf(t, {"request"}) /\ e.call <= n
      BY <1>6, <3>2 DEF Evidence, EntriesOK, Numbered
    <3>7. EntriesOK(w, t)
      BY <3>4, <3>5, <3>6 DEF EntriesOK
    <3>8. \A k : Spoken(w, k) => Spoken(v, k) \/ k = c
      BY <2>1, <3>2, <3>3 DEF Spoken
    <3> QED BY <3>6, <3>7, <3>8
  <2> QED BY <1>3, <2>2, <2>3
<1>11. AllFresh(w, t)
  BY <1>4, <1>5, <1>10 DEF Evidence, AllFresh
<1>12. Numbered(w, t, n)
  BY <1>7, <1>10 DEF Numbered
<1> QED BY <1>3, <1>8, <1>9, <1>10, <1>11, <1>12 DEF w, t, c, tool, ok

\* A call's result comes: the oldest open call of its tool is its own, unless
\* an earlier one got no result.
LEMMA ResultEvidence ==
  ASSUME NEW v, ViewOK(v), NEW q \in Seq(Emitted), q # <<>>, Ordered(q), Head(q).kind = "result",
         NEW R, NEW U, NEW n \in Nat, Evidence(v, q, R, U), Numbered(v, q, n)
  PROVE  LET w == Complete(v, Head(q).call, Head(q).tool, Head(q).ok)
             r == [call |-> Head(q).call, tool |-> Head(q).tool]
         IN Evidence(w, Tail(q), R \cup {r}, U) /\ Numbered(w, Tail(q), n)
<1> DEFINE c == Head(q).call
           tool == Head(q).tool
           ok == Head(q).ok
           t == Tail(q)
           w == Complete(v, c, tool, ok)
           r0 == [call |-> c, tool |-> tool]
           S == R \cup {r0}
<1>1. /\ Lined(w.blocks, v, "result", c) /\ ~Spoken(v, c)
      /\ EntriesOK(w, t) /\ AllFresh(w, t) /\ Numbered(w, t, n)
      /\ \/ w.pending = v.pending /\ (\A e \in v.pending : ~(e.open /\ e.tool = tool))
         \/ \E taken, closed : Taken(w, v, taken, closed, c, tool, ok)
  BY CompleteEvidence
<1>2. /\ 1 \in DOMAIN q /\ Head(q) = q[1] /\ DOMAIN q \subseteq Nat
      /\ \A i \in DOMAIN t : t[i] = q[i + 1] /\ i + 1 \in DOMAIN q
  BY TailIs
<1>3. c \in Nat
  BY <1>2, StepNumbers
<1>4. /\ c \in Awaited(q) /\ Awaited(t) = Awaited(q) \ {c} /\ Awaited(q) \subseteq Nat
      /\ \A k \in Awaited(q) : c <= k
      /\ Cardinality(Awaited(q)) = Cardinality(Awaited(t)) + 1
      /\ Cardinality(Awaited(t)) \in Nat
  <2>1. Head(q).kind \in Ending
    BY DEF Ending
  <2>2. /\ c \in Awaited(q) /\ Awaited(t) = Awaited(q) \ {c}
        /\ \A k \in Awaited(q) : c <= k
        /\ Cardinality(Awaited(q)) = Cardinality(Awaited(t)) + 1
    BY <2>1, EndAwaited
  <2>3. t \in Seq(Emitted)
    BY TailIs
  <2>4. Cardinality(Awaited(t)) \in Nat
    BY <2>3, AwaitedIsFinite
  <2>5. Awaited(q) \subseteq Nat
    BY AwaitedIsFinite
  <2> QED BY <2>2, <2>4, <2>5
<1>5. PICK own \in v.pending : own.open /\ own.call = c /\ own.tool = tool
  <2>1. q[1].kind \in Ending /\ q[1].call \in Awaited(q)
    BY <1>2, <1>4 DEF Ending
  <2> QED BY <1>2, <2>1 DEF Evidence, AllOpened
<1>6. PICK taken, closed : Taken(w, v, taken, closed, c, tool, ok)
  BY <1>1, <1>5
<1>7. r0.call = c /\ r0.tool = tool
  OBVIOUS
<1> HIDE DEF c, tool, ok, t, w, r0
<1>8. /\ taken \in v.pending /\ taken.open /\ taken.tool = tool /\ taken.call <= c
      /\ closed.call = taken.call /\ ~closed.open /\ closed.result = c /\ closed.ok = ok
      /\ w.pending = (v.pending \ {taken}) \cup {closed}
  BY <1>5, <1>6 DEF Taken
<1>9. /\ Closed(w) = Closed(v) \cup {closed} /\ Cardinality(Closed(w)) \in Nat /\ Cardinality(Closed(v)) \in Nat
      /\ Cardinality(Closed(w)) <= Cardinality(Closed(v)) + 1
  BY <1>6, TakenCloses
<1>10. \A e \in v.pending : e.call \in Nat
  BY DEF Evidence, EntriesOK, Entry
<1>11. tool \notin U => taken.call = c
  <2>1. tool \notin U => taken.call \in Awaited(q)
    BY <1>8 DEF Evidence, NoneLeft
  <2> QED BY <1>3, <1>4, <1>8, <1>10, <2>1
<1>12. ~Told(v.blocks, c) /\ \A e \in Closed(v) : e.result # c
  BY <1>1 DEF Spoken
<1>13. \A r \in R : r.call # c
  BY <1>12 DEF Evidence, AllTold
<1>14. /\ Len(v.blocks) \in Nat /\ Len(w.blocks) = Len(v.blocks) + 1
       /\ \A i \in DOMAIN v.blocks : i \in DOMAIN w.blocks /\ w.blocks[i] = v.blocks[i] /\ i \in 1 .. Len(v.blocks)
       /\ \A i \in DOMAIN w.blocks : i \in DOMAIN v.blocks \/ i = Len(w.blocks)
       /\ w.blocks[Len(w.blocks)].kind = "result"
       /\ \A k : k \in Tells(w.blocks[Len(w.blocks)]) => k = c
       /\ \A k : Told(w.blocks, k) <=> Told(v.blocks, k) \/ k = c
  BY <1>1 DEF Lined
<1>15. AllTold(w, S)
  BY <1>7, <1>14 DEF Evidence, AllTold
<1>16. ASSUME NEW call, NEW result, result # c, Beside(call, result, R, U) PROVE Beside(call, result, S, U)
  BY <1>7, <1>16 DEF Beside
<1>17. AllBeside(w, S, U)
  <2>1. ASSUME NEW i \in DOMAIN w.blocks, w.blocks[i].kind = "group", NEW pair \in w.blocks[i].text
        PROVE  Beside(pair[1], pair[2], S, U)
    <3>1. i \in DOMAIN v.blocks /\ w.blocks[i] = v.blocks[i]
      BY <1>14, <2>1
    <3>2. pair[2] # c
      BY <1>12, <2>1, <3>1 DEF Told, Tells
    <3>3. Beside(pair[1], pair[2], R, U)
      BY <2>1, <3>1 DEF Evidence, AllBeside
    <3> QED BY <1>16, <3>2, <3>3
  <2>2. \A e \in Closed(v) : Beside(e.call, e.result, S, U)
    BY <1>12, <1>16 DEF Evidence, AllBeside
  <2>3. Beside(closed.call, closed.result, S, U)
    BY <1>7, <1>8, <1>11, <1>13 DEF Beside
  <2> QED BY <1>9, <2>1, <2>2, <2>3 DEF AllBeside
<1>18. AllOpened(w, t)
  <2>1. ASSUME NEW j \in DOMAIN t, t[j].kind \in Ending, t[j].call \in Awaited(t)
        PROVE  \E e \in w.pending : e.open /\ e.call = t[j].call /\ e.tool = t[j].tool
    <3>1. t[j] = q[j + 1] /\ j + 1 \in DOMAIN q /\ t[j].call \in Awaited(q) /\ t[j].call # c
      BY <1>2, <1>4, <2>1
    <3>2. PICK e \in v.pending : e.open /\ e.call = t[j].call /\ e.tool = t[j].tool
      BY <2>1, <3>1 DEF Evidence, AllOpened
    <3>3. c <= e.call /\ e.call # c /\ e.call \in Nat
      BY <1>4, <3>1, <3>2
    <3>4. e # taken
      BY <1>3, <1>8, <1>10, <3>3
    <3> QED BY <1>8, <3>2, <3>4
  <2> QED BY <2>1 DEF AllOpened
<1>19. NoneLeft(w, t, U)
  <2>1. ASSUME NEW e \in w.pending, e.open, e.tool \notin U PROVE e.call \in Awaited(t)
    <3>1. e \in v.pending /\ e # taken
      BY <1>8, <2>1
    <3>2. e.call \in Awaited(q)
      BY <2>1, <3>1 DEF Evidence, NoneLeft
    <3>3. ASSUME e.call = c PROVE FALSE
      <4>1. e = own
        BY <1>5, <3>1, <3>3 DEF Evidence, EntriesOK
      <4>2. taken = own
        BY <1>5, <1>8, <1>11, <2>1, <4>1 DEF Evidence, EntriesOK
      <4> QED BY <3>1, <4>1, <4>2
    <3> QED BY <1>4, <3>2, <3>3
  <2> QED BY <2>1 DEF NoneLeft
<1>20. LinesStay(w, t, S)
  <2>1. ASSUME NEW i \in DOMAIN w.blocks, NEW r \in S, w.blocks[i].kind = "result", r.call \in Tells(w.blocks[i])
        PROVE  LineStays(w, t, i) \/ \E e \in Closed(w) : e.result = r.call
    <3>1. CASE r.call = c
      BY <1>8, <1>9, <3>1
    <3>2. CASE r.call # c
      <4>1. i \in DOMAIN v.blocks /\ w.blocks[i] = v.blocks[i] /\ i \in 1 .. Len(v.blocks) /\ r \in R
        BY <1>7, <1>14, <2>1, <3>2
      <4>2. LineStays(v, q, i) \/ \E e \in Closed(v) : e.result = r.call
        BY <2>1, <4>1 DEF Evidence, LinesStay
      <4>3. CASE \E j \in (i + 1) .. Len(v.blocks) : ~Live(v.blocks[j])
        <5>1. PICK j \in (i + 1) .. Len(v.blocks) : ~Live(v.blocks[j])
          BY <4>3
        <5>2. j \in 1 .. Len(v.blocks) /\ j \in (i + 1) .. Len(w.blocks)
          BY <1>14, <4>1
        <5>3. j \in DOMAIN v.blocks
          BY <5>2, SeqFacts DEF ViewOK, Blocks
        <5>4. w.blocks[j] = v.blocks[j]
          BY <1>14, <5>3
        <5> QED BY <5>1, <5>2, <5>4 DEF LineStays
      <4>4. CASE Len(v.blocks) - i >= 2 * Cardinality(Closed(v)) + Cardinality(Awaited(q))
        <5> DEFINE before == Len(v.blocks)
                   lines == Cardinality(Closed(v))
                   more == Cardinality(Closed(w))
                   awaited == Cardinality(Awaited(t))
        <5>1. i \in Nat /\ before \in Nat /\ Len(w.blocks) = before + 1
          BY <1>14, <4>1
        <5>2. more \in Nat /\ lines \in Nat /\ more <= lines + 1
          BY <1>9
        <5>3. awaited \in Nat /\ Cardinality(Awaited(q)) = awaited + 1
          BY <1>4
        <5>4. before - i >= 2 * lines + (awaited + 1)
          BY <4>4, <5>3
        <5> HIDE DEF before, lines, more, awaited
        <5>5. (before + 1) - i >= 2 * more + awaited
          BY ONLY <5>1, <5>2, <5>3, <5>4
        <5> QED BY <5>1, <5>5 DEF LineStays, more, awaited
      <4> QED BY <1>9, <4>2, <4>3, <4>4 DEF LineStays
    <3> QED BY <3>1, <3>2
  <2> QED BY <2>1 DEF LinesStay
<1>21. Evidence(w, t, S, U)
  BY <1>1, <1>15, <1>17, <1>18, <1>19, <1>20 DEF Evidence, t, w, c, tool, ok
<1> QED BY <1>1, <1>21 DEF w, t, r0, c, tool, ok

\* A stray result: it takes an open call only where one was left without its
\* result, and then the run no more folds.
LEMMA StrayEvidence ==
  ASSUME NEW v, ViewOK(v), NEW q \in Seq(Emitted), q # <<>>, Ordered(q), Head(q).kind = "stray",
         NEW R, NEW U, NEW n \in Nat, Evidence(v, q, R, U), Numbered(v, q, n)
  PROVE  LET w == Complete(v, Head(q).call, Head(q).tool, Head(q).ok)
         IN Evidence(w, Tail(q), R, U) /\ Numbered(w, Tail(q), n)
<1> DEFINE c == Head(q).call
           tool == Head(q).tool
           ok == Head(q).ok
           t == Tail(q)
           w == Complete(v, c, tool, ok)
<1>1. /\ Lined(w.blocks, v, "result", c) /\ ~Spoken(v, c)
      /\ EntriesOK(w, t) /\ AllFresh(w, t) /\ Numbered(w, t, n)
      /\ \/ w.pending = v.pending /\ (\A e \in v.pending : ~(e.open /\ e.tool = tool))
         \/ \E taken, closed : Taken(w, v, taken, closed, c, tool, ok)
  BY CompleteEvidence
<1>2. Awaited(q) = {} /\ Awaited(t) = {} /\ Cardinality(Awaited(q)) = 0 /\ Cardinality(Awaited(t)) = 0
  BY StrayAwaited, FS_EmptySet
<1>3. ~ok
  BY TailIs DEF Ordered
<1> HIDE DEF c, tool, ok, t, w
<1>4. ~Told(v.blocks, c) /\ \A e \in Closed(v) : e.result # c
  BY <1>1 DEF Spoken
<1>5. \A r \in R : r.call # c
  BY <1>4 DEF Evidence, AllTold
<1>6. /\ Len(v.blocks) \in Nat /\ Len(w.blocks) = Len(v.blocks) + 1
      /\ \A i \in DOMAIN v.blocks : i \in DOMAIN w.blocks /\ w.blocks[i] = v.blocks[i] /\ i \in 1 .. Len(v.blocks)
      /\ \A i \in DOMAIN w.blocks : i \in DOMAIN v.blocks \/ i = Len(w.blocks)
      /\ w.blocks[Len(w.blocks)].kind = "result"
      /\ \A k : k \in Tells(w.blocks[Len(w.blocks)]) => k = c
      /\ \A k : Told(w.blocks, k) <=> Told(v.blocks, k) \/ k = c
  BY <1>1 DEF Lined
<1>7. AllTold(w, R) /\ AllOpened(w, t)
  BY <1>2, <1>6 DEF Evidence, AllTold, AllOpened
<1>8. \A i \in DOMAIN w.blocks : w.blocks[i].kind = "group" => i \in DOMAIN v.blocks /\ v.blocks[i] = w.blocks[i]
  BY <1>6
<1>9. NoneLeft(w, t, U) /\ AllBeside(w, R, U) /\ LinesStay(w, t, R)
  <2>1. CASE w.pending = v.pending
    <3>1. Closed(w) = Closed(v)
      BY <2>1 DEF Closed
    <3>2. NoneLeft(w, t, U) /\ AllBeside(w, R, U)
      BY <1>2, <1>8, <2>1, <3>1 DEF Evidence, NoneLeft, AllBeside
    <3>3. ASSUME NEW i \in DOMAIN w.blocks, NEW r \in R, w.blocks[i].kind = "result", r.call \in Tells(w.blocks[i])
          PROVE  LineStays(w, t, i) \/ \E e \in Closed(w) : e.result = r.call
      <4>1. i \in DOMAIN v.blocks /\ w.blocks[i] = v.blocks[i] /\ i \in 1 .. Len(v.blocks)
        BY <1>5, <1>6, <3>3
      <4>2. LineStays(v, q, i) \/ \E e \in Closed(v) : e.result = r.call
        BY <3>3, <4>1 DEF Evidence, LinesStay
      <4>3. CASE \E j \in (i + 1) .. Len(v.blocks) : ~Live(v.blocks[j])
        <5>1. PICK j \in (i + 1) .. Len(v.blocks) : ~Live(v.blocks[j])
          BY <4>3
        <5>2. j \in 1 .. Len(v.blocks) /\ j \in (i + 1) .. Len(w.blocks)
          BY <1>6, <4>1
        <5>3. j \in DOMAIN v.blocks
          BY <5>2, SeqFacts DEF ViewOK, Blocks
        <5>4. w.blocks[j] = v.blocks[j]
          BY <1>6, <5>3
        <5> QED BY <5>1, <5>2, <5>4 DEF LineStays
      <4>4. CASE Len(v.blocks) - i >= 2 * Cardinality(Closed(v)) + Cardinality(Awaited(q))
        <5>1. Cardinality(Closed(v)) \in Nat
          BY FlushIs
        <5>2. Len(w.blocks) - i >= 2 * Cardinality(Closed(w)) + Cardinality(Awaited(t))
          BY <1>2, <1>6, <3>1, <4>1, <4>4, <5>1
        <5> QED BY <5>2 DEF LineStays
      <4> QED BY <3>1, <4>2, <4>3, <4>4 DEF LineStays
    <3>4. LinesStay(w, t, R)
      BY <3>3 DEF LinesStay
    <3> QED BY <3>2, <3>4
  <2>2. CASE \E taken, closed : Taken(w, v, taken, closed, c, tool, ok)
    <3>1. PICK taken, closed : Taken(w, v, taken, closed, c, tool, ok)
      BY <2>2
    <3>2. Closed(w) = Closed(v) \cup {closed}
      BY <3>1, TakenCloses
    <3>3. /\ ~closed.open /\ closed.result = c /\ ~closed.ok
          /\ w.pending = (v.pending \ {taken}) \cup {closed}
      BY <1>3, <3>1 DEF Taken
    <3>4. NoneLeft(w, t, U)
      BY <1>2, <3>3 DEF Evidence, NoneLeft
    <3>5. AllBeside(w, R, U)
      <4>1. Beside(closed.call, closed.result, R, U)
        BY <1>5, <3>3 DEF Beside
      <4> QED BY <1>8, <3>2, <4>1 DEF Evidence, AllBeside
    <3>6. LinesStay(w, t, R)
      BY <3>2, <3>3 DEF LinesStay, LineStays
    <3> QED BY <3>4, <3>5, <3>6
  <2> QED BY <1>1, <2>1, <2>2
<1>10. Evidence(w, t, R, U)
  BY <1>1, <1>7, <1>9 DEF Evidence, t, w, c, tool, ok
<1> QED BY <1>1, <1>10 DEF w, t, c, tool, ok

\* A call is denied: its entry stays open, and its tool is one of those a call
\* of which got no result.
LEMMA DeniedEvidence ==
  ASSUME NEW v, ViewOK(v), NEW q \in Seq(Emitted), q # <<>>, Ordered(q), Head(q).kind = "denied",
         NEW R, NEW U, NEW n \in Nat, Evidence(v, q, R, U), Numbered(v, q, n)
  PROVE  LET w == Push(Flush(v), "note", <<>>) IN
         Evidence(w, Tail(q), R, U \cup {Head(q).tool}) /\ Numbered(w, Tail(q), n)
<1> DEFINE c == Head(q).call
           tool == Head(q).tool
           t == Tail(q)
           f == Flush(v)
           w == Push(f, "note", <<>>)
           W == U \cup {tool}
<1>1. /\ EntriesOK(f, q) /\ AllFresh(f, q) /\ AllOpened(f, q) /\ NoneLeft(f, q, U)
      /\ AllTold(f, R) /\ AllBeside(f, R, U)
      /\ \A k : Spoken(f, k) => Spoken(v, k)
  BY FlushEvidence
<1>2. ViewOK(f) /\ f.pending \subseteq v.pending
  BY FlushShows, FlushIs
<1> HIDE DEF f
<1>3. LinesStay(w, t, R)
  BY <1>2, NotedLinesStay
<1>4. Grown(w, f) /\ w.pending = f.pending
  <2>1. BlockOK(Block("note", <<>>))
    BY DEF Block, BlockOK
  <2>2. Grown(w, f)
    BY <1>2, <2>1, PushGrows
  <2> QED BY <2>2 DEF Grown
<1>5. /\ 1 \in DOMAIN q /\ Head(q) = q[1] /\ DOMAIN q \subseteq Nat
      /\ \A i \in DOMAIN t : t[i] = q[i + 1] /\ i + 1 \in DOMAIN q
  BY TailIs
<1>6. c \in Awaited(q) /\ Awaited(t) = Awaited(q) \ {c}
  BY EndAwaited DEF Ending
<1>7. CallsOf(t, {"request"}) \subseteq CallsOf(q, {"request"})
  BY FewerCalls
<1>8. CallsOf(t, Ended) \subseteq CallsOf(q, Ended)
  BY FewerCalls
<1>9. \A j \in DOMAIN t : t[j].call <= n
  BY TailNumbered DEF Numbered
<1>10. PICK own \in v.pending : own.open /\ own.call = c /\ own.tool = tool
  <2>1. q[1].kind \in Ending /\ q[1].call \in Awaited(q)
    BY <1>5, <1>6 DEF Ending
  <2> QED BY <1>5, <2>1 DEF Evidence, AllOpened
<1> HIDE DEF c, tool, t, w
<1>11. Closed(w) = Closed(f)
  BY <1>4 DEF Closed
<1>12. \A k : Spoken(w, k) <=> Spoken(f, k)
  BY <1>4, GrownSpoken
<1>13. EntriesOK(w, t) /\ AllFresh(w, t)
  BY <1>1, <1>4, <1>7, <1>8, <1>12 DEF EntriesOK, AllFresh
<1>14. AllOpened(w, t)
  <2>1. ASSUME NEW j \in DOMAIN t, t[j].kind \in Ending, t[j].call \in Awaited(t)
        PROVE  \E e \in w.pending : e.open /\ e.call = t[j].call /\ e.tool = t[j].tool
    <3>1. t[j] = q[j + 1] /\ j + 1 \in DOMAIN q /\ t[j].call \in Awaited(q)
      BY <1>5, <1>6, <2>1
    <3> QED BY <1>1, <1>4, <2>1, <3>1 DEF AllOpened
  <2> QED BY <2>1 DEF AllOpened
<1>15. NoneLeft(w, t, W)
  <2>1. ASSUME NEW e \in w.pending, e.open, e.tool \notin W PROVE e.call \in Awaited(t)
    <3>1. e \in v.pending /\ e.call \in Awaited(q)
      BY <1>1, <1>2, <1>4, <2>1 DEF NoneLeft
    <3>2. e.call # c
      BY <1>10, <2>1, <3>1 DEF Evidence, EntriesOK
    <3> QED BY <1>6, <3>1, <3>2
  <2> QED BY <2>1 DEF NoneLeft
<1>16. AllTold(w, R)
  BY <1>1, <1>4, ContinuesTold DEF AllTold, Grown
<1>17. AllBeside(w, R, U) /\ AllBeside(w, R, W)
  <2>1. AllBeside(w, R, U)
    BY <1>1, <1>4, GrownBeside
  <2>2. \A call, result : Beside(call, result, R, U) => Beside(call, result, R, W)
    BY DEF Beside
  <2> QED BY <2>1, <2>2 DEF AllBeside
<1>18. Numbered(w, t, n)
  BY <1>1, <1>2, <1>4, <1>9, <1>12 DEF Numbered
<1>19. Evidence(w, t, R, W)
  BY <1>3, <1>13, <1>14, <1>15, <1>16, <1>17 DEF Evidence
<1> QED BY <1>18, <1>19 DEF w, t, f, tool

\* What stays of a prefix when the rest grows.
LEMMA GrownPrefix ==
  ASSUME NEW bs, NEW cs, Continues(bs, cs), NEW m \in 0 .. Len(cs), NEW k
  PROVE  Told(SubSeq(bs, 1, m), k) <=> Told(SubSeq(cs, 1, m), k)
<1> DEFINE ps == SubSeq(bs, 1, m)
           qs == SubSeq(cs, 1, m)
<1>1. IsSeq(bs) /\ IsSeq(cs) /\ Len(bs) \in Nat /\ Len(cs) \in Nat /\ Len(cs) <= Len(bs)
  BY SeqFacts DEF Continues
<1>2. m \in 0 .. Len(bs) /\ m \in Nat
  BY <1>1
<1>3. IsSeq(ps) /\ Len(ps) = m /\ \A i \in 1 .. m : ps[i] = bs[i]
  BY ONLY <1>1, <1>2, SeqCut
<1>4. IsSeq(qs) /\ Len(qs) = m /\ \A i \in 1 .. m : qs[i] = cs[i]
  BY <1>1, SeqCut
<1>5. \A i \in 1 .. m : i \in 1 .. Len(cs)
  BY <1>1, <1>2
<1> HIDE DEF ps, qs
<1>6. \A i \in 1 .. Len(qs) : Alike(ps[i], qs[i])
  BY <1>3, <1>4, <1>5 DEF Continues
<1>7. \A i \in (Len(qs) + 1) .. Len(ps) : Quiet(ps[i])
  BY <1>2, <1>3, <1>4
<1>8. Continues(ps, qs)
  BY <1>2, <1>3, <1>4, <1>6, <1>7 DEF Continues
<1>9. Told(ps, k) <=> Told(qs, k)
  BY <1>8, ContinuesTold
<1> QED BY <1>9 DEF ps, qs

\* What a prefix tells, the whole tells.
LEMMA PrefixTells ==
  ASSUME NEW bs, IsSeq(bs), NEW m \in 0 .. Len(bs), NEW k, Told(SubSeq(bs, 1, m), k)
  PROVE  Told(bs, k)
<1> DEFINE ps == SubSeq(bs, 1, m)
<1>1. IsSeq(ps) /\ Len(ps) = m /\ \A i \in 1 .. m : ps[i] = bs[i]
  BY SeqCut
<1>2. PICK i \in DOMAIN ps : k \in Tells(ps[i])
  BY DEF Told
<1> HIDE DEF ps
<1>3. Len(bs) \in Nat
  BY SeqFacts
<1>4. i \in 1 .. m
  BY <1>1, <1>2, SeqFacts
<1>5. i \in 1 .. Len(bs)
  BY <1>3, <1>4
<1>6. i \in DOMAIN bs
  BY <1>5, SeqFacts
<1> QED BY <1>1, <1>2, <1>4, <1>6 DEF Told

LEMMA GrownNumbered ==
  ASSUME NEW w, NEW v, NEW q, NEW n, Grown(w, v), Numbered(v, q, n)
  PROVE  Numbered(w, q, n)
<1>1. \A k : Spoken(w, k) <=> Spoken(v, k)
  BY GrownSpoken
<1> QED BY <1>1 DEF Numbered, Grown

\* A rollback takes no result along: they all stand before the mark.
LEMMA RollbackEvidence ==
  ASSUME NEW v, ViewOK(v), Marked(v), AllOpen(v), v.pending = v.mark.pending,
         NEW R, NEW U, NEW n, Evidence(v, <<>>, R, U), Numbered(v, <<>>, n),
         \A r \in R : Told(SubSeq(v.blocks, 1, v.mark.blocks), r.call)
  PROVE  Evidence(Rollback(v), <<>>, R, U) /\ Numbered(Rollback(v), <<>>, n)
<1> DEFINE w == Rollback(v)
           m == v.mark.blocks
           p == SubSeq(v.blocks, 1, m)
<1>1. ViewOK(w) /\ w.pending = v.pending /\ Continues(w.blocks, p)
  BY RollbackShows
<1>2. m \in 0 .. Len(v.blocks) /\ IsSeq(v.blocks) /\ Len(v.blocks) \in Nat
  BY SeqFacts DEF Marked, ViewOK, Blocks
<1>3. IsSeq(p) /\ Len(p) = m /\ \A i \in 1 .. m : p[i] = v.blocks[i]
  BY <1>2, SeqCut
<1>4. \A k : Told(p, k) => Told(v.blocks, k)
  BY <1>2, PrefixTells
<1> HIDE DEF w, p
<1>5. \A k : Told(w.blocks, k) <=> Told(p, k)
  BY <1>1, ContinuesTold
<1>6. Closed(w) = {} /\ Closed(v) = {}
  BY <1>1 DEF Closed, AllOpen
<1>7. \A k : Spoken(w, k) => Spoken(v, k)
  BY <1>4, <1>5, <1>6 DEF Spoken
<1>8. EntriesOK(w, <<>>) /\ AllFresh(w, <<>>) /\ AllOpened(w, <<>>) /\ NoneLeft(w, <<>>, U)
  BY <1>1, <1>7 DEF Evidence, EntriesOK, AllFresh, AllOpened, NoneLeft
<1>9. AllTold(w, R)
  BY <1>5 DEF AllTold, p
<1>10. LinesStay(w, <<>>, R)
  <2>1. ASSUME NEW i \in DOMAIN w.blocks PROVE LineStays(w, <<>>, i)
    <3>1. Cardinality(Closed(w)) = 0 /\ Cardinality(Awaited(<<>>)) = 0
      BY <1>6, NothingAwaited, FS_EmptySet
    <3>2. Len(w.blocks) \in Nat /\ i \in 1 .. Len(w.blocks)
      BY <1>1, SeqFacts DEF ViewOK, Blocks
    <3>3. Len(w.blocks) - i >= 2 * Cardinality(Closed(w)) + Cardinality(Awaited(<<>>))
      BY <3>1, <3>2
    <3> QED BY <3>3 DEF LineStays
  <2> QED BY <2>1 DEF LinesStay
<1>11. AllBeside(w, R, U)
  <2>1. Len(w.blocks) \in Nat /\ Len(p) <= Len(w.blocks)
    BY <1>1, SeqFacts DEF Continues
  <2>2. DOMAIN w.blocks = 1 .. Len(w.blocks)
    BY <1>1, SeqFacts DEF Continues
  <2>3. DOMAIN v.blocks = 1 .. Len(v.blocks)
    BY <1>2, SeqFacts
  <2>4. ASSUME NEW i \in DOMAIN w.blocks, w.blocks[i].kind = "group"
        PROVE  i \in DOMAIN v.blocks /\ v.blocks[i].kind = "group" /\ v.blocks[i].text = w.blocks[i].text
    <3>1. i \notin (Len(p) + 1) .. Len(w.blocks)
      BY <1>1, <2>4 DEF Continues, Quiet
    <3>2. i \in 1 .. m
      BY <1>2, <1>3, <2>1, <2>2, <3>1
    <3>3. Alike(w.blocks[i], p[i]) /\ p[i] = v.blocks[i]
      BY <1>1, <1>3, <3>2 DEF Continues
    <3>4. i \in 1 .. Len(v.blocks)
      BY <1>2, <3>2
    <3> QED BY <2>3, <2>4, <3>3, <3>4 DEF Alike
  <2> QED BY <1>6, <2>4 DEF Evidence, AllBeside
<1>12. Numbered(w, <<>>, n)
  BY <1>1, <1>7 DEF Numbered
<1>13. Evidence(w, <<>>, R, U)
  BY <1>8, <1>9, <1>10, <1>11 DEF Evidence
<1> QED BY <1>12, <1>13 DEF w

\* What was due is dropped: the tools whose calls were to end are among those
\* a call of which got no result.
LEMMA DroppedEvidence ==
  ASSUME NEW v, ViewOK(v), NEW q \in Seq(Emitted), NEW R, NEW U, NEW W, NEW n,
         Evidence(v, q, R, U), Numbered(v, q, n), U \subseteq W,
         \A j \in DOMAIN q : q[j].kind \in Ending /\ q[j].call \in Awaited(q) => q[j].tool \in W
  PROVE  Evidence(v, <<>>, R, W) /\ Numbered(v, <<>>, n)
<1>1. Awaited(<<>>) = {} /\ \A kinds : CallsOf(<<>>, kinds) = {}
  BY NothingAwaited
<1>2. EntriesOK(v, <<>>) /\ AllFresh(v, <<>>)
  BY <1>1 DEF Evidence, EntriesOK, AllFresh
<1>3. LinesStay(v, <<>>, R)
  <2>1. ASSUME NEW i \in DOMAIN v.blocks, LineStays(v, q, i) PROVE LineStays(v, <<>>, i)
    <3>1. Cardinality(Awaited(<<>>)) = 0 /\ Cardinality(Awaited(q)) \in Nat /\ Cardinality(Closed(v)) \in Nat
      BY <1>1, FS_EmptySet, AwaitedIsFinite, FlushIs
    <3>2. Len(v.blocks) \in Nat /\ i \in 1 .. Len(v.blocks)
      BY SeqFacts DEF ViewOK, Blocks
    <3>3. Len(v.blocks) - i >= 2 * Cardinality(Closed(v)) + Cardinality(Awaited(q))
            => Len(v.blocks) - i >= 2 * Cardinality(Closed(v)) + Cardinality(Awaited(<<>>))
      BY <3>1, <3>2
    <3> QED BY <2>1, <3>3 DEF LineStays
  <2> QED BY <2>1 DEF Evidence, LinesStay
<1>4. AllOpened(v, <<>>)
  BY DEF AllOpened
<1>5. NoneLeft(v, <<>>, W)
  <2>1. ASSUME NEW e \in v.pending, e.open, e.tool \notin W PROVE FALSE
    <3>1. e.call \in Awaited(q)
      BY <2>1 DEF Evidence, NoneLeft
    <3>2. PICK j \in DOMAIN q : q[j].kind \in Ending /\ q[j].call = e.call
      BY <3>1 DEF Awaited, CallsOf
    <3>3. PICK f \in v.pending : f.open /\ f.call = e.call /\ f.tool = q[j].tool
      BY <3>1, <3>2 DEF Evidence, AllOpened
    <3>4. e = f
      BY <3>3 DEF Evidence, EntriesOK
    <3> QED BY <2>1, <3>1, <3>2, <3>3, <3>4
  <2> QED BY <2>1 DEF NoneLeft
<1>6. AllTold(v, R) /\ AllBeside(v, R, W)
  <2>1. \A call, result : Beside(call, result, R, U) => Beside(call, result, R, W)
    BY DEF Beside
  <2> QED BY <2>1 DEF Evidence, AllBeside
<1>7. Numbered(v, <<>>, n)
  BY DEF Numbered
<1> QED BY <1>2, <1>3, <1>4, <1>5, <1>6, <1>7 DEF Evidence

-----------------------------------------------------------------------------
(* The plan of a turn's calls is in order.                                   *)

\* Every call in q has a number above lo and at most hi.
Between(q, lo, hi) == \A j \in DOMAIN q : lo < q[j].call /\ q[j].call <= hi

\* What one call emits that goes after the other.
Single(p, c) ==
  /\ p \in Seq(Emitted) /\ \A j \in DOMAIN p : p[j].call = c
  /\ \/ Len(p) = 1 /\ p[1].kind = "stray" /\ ~p[1].ok
     \/ /\ Len(p) = 2 /\ p[1].kind = "request" /\ p[2].kind \in Ending /\ p[2].tool = p[1].tool
        /\ p[2].kind = "denied" => ~p[2].checked

\* Every end comes right after its request.
Paired(q) == \A j \in DOMAIN q : q[j].kind \in Ending => j > 1 /\ AfterRequest(q, j)

LEMMA PairSingle ==
  ASSUME NEW c \in Nat, NEW t \in Tool, NEW kind \in Ending, NEW ok \in BOOLEAN, NEW checked \in BOOLEAN,
         kind = "denied" => ~checked
  PROVE  Single(<<Asked(c, t, TRUE), Step(kind, c, t, ok, checked)>>, c)
<1> DEFINE a == Asked(c, t, TRUE)
           b == Step(kind, c, t, ok, checked)
           p == <<a, b>>
<1>1. /\ a.call = c /\ a.kind = "request" /\ a.tool = t
      /\ b.call = c /\ b.kind = kind /\ b.tool = t /\ b.checked = checked
  BY DEF Asked, Step
<1>2. a \in Emitted /\ b \in Emitted
  BY DEF Asked, Step, Emitted, Ending
<1> HIDE DEF a, b
<1>3. p \in Seq(Emitted) /\ Len(p) = 2 /\ p[1] = a /\ p[2] = b /\ \A j \in DOMAIN p : p[j] = a \/ p[j] = b
  BY <1>2
<1> HIDE DEF p
<1>4. Single(p, c)
  BY <1>1, <1>3 DEF Single
<1> QED BY <1>4 DEF p, a, b

LEMMA OneByOneSingle ==
  ASSUME NEW c \in Nat, NEW t \in Tool, NEW fate \in Fate
  PROVE  Single(OneByOne(c, t, fate), c)
<1>1. CASE fate = "repeat"
  <2> DEFINE a == Step("stray", c, t, FALSE, TRUE)
             p == OneByOne(c, t, fate)
  <2>1. p \in Seq(Emitted)
    BY OneByOneType
  <2>2. p = <<a>>
    BY <1>1 DEF OneByOne
  <2>3. a.call = c /\ a.kind = "stray" /\ ~a.ok
    BY DEF Step
  <2> HIDE DEF a, p
  <2>4. Len(p) = 1 /\ p[1] = a /\ \A j \in DOMAIN p : p[j] = a
    BY <2>2
  <2>5. Single(p, c)
    BY <2>1, <2>3, <2>4 DEF Single
  <2> QED BY <2>5 DEF p
<1>2. "result" \in Ending /\ "denied" \in Ending /\ TRUE \in BOOLEAN /\ FALSE \in BOOLEAN
  BY DEF Ending
<1>3. CASE fate = "ok"
  <2>1. Single(<<Asked(c, t, TRUE), Step("result", c, t, TRUE, TRUE)>>, c)
    BY <1>2, PairSingle
  <2> QED BY <1>3, <2>1 DEF OneByOne
<1>4. CASE fate = "bad"
  <2>1. Single(<<Asked(c, t, TRUE), Step("result", c, t, FALSE, TRUE)>>, c)
    BY <1>2, PairSingle
  <2> QED BY <1>4, <2>1 DEF OneByOne
<1>5. CASE fate = "invalid"
  <2>1. Single(<<Asked(c, t, TRUE), Step("result", c, t, FALSE, FALSE)>>, c)
    BY <1>2, PairSingle
  <2> QED BY <1>5, <2>1 DEF OneByOne
<1>6. CASE fate = "denied"
  <2>1. Single(<<Asked(c, t, TRUE), Step("denied", c, t, FALSE, FALSE)>>, c)
    BY <1>2, PairSingle
  <2> QED BY <1>6, <2>1 DEF OneByOne
<1> QED BY <1>1, <1>3, <1>4, <1>5, <1>6 DEF Fate

LEMMA PairedAwaitNothing ==
  ASSUME NEW q \in Seq(Emitted), Paired(q)
  PROVE  Awaited(q) = {}
<1>1. Len(q) \in Nat
  BY LenProperties
<1>2. DOMAIN q = 1 .. Len(q)
  BY LenProperties
<1>3. ASSUME NEW j \in DOMAIN q, q[j].kind \in Ending PROVE q[j].call \in CallsOf(q, {"request"})
  <2>1. j - 1 \in DOMAIN q /\ AfterRequest(q, j)
    BY <1>1, <1>2, <1>3 DEF Paired
  <2> QED BY <2>1 DEF AfterRequest, CallsOf
<1> QED BY <1>3 DEF Awaited, CallsOf

\* One more call after the others keeps the order.
LEMMA SingleMore ==
  ASSUME NEW q \in Seq(Emitted), NEW p, NEW lo \in Nat, NEW c \in Nat, lo < c,
         Ordered(q), Paired(q), Between(q, lo, c - 1), Single(p, c)
  PROVE  /\ q \o p \in Seq(Emitted) /\ Ordered(q \o p) /\ Paired(q \o p) /\ Between(q \o p, lo, c)
<1> DEFINE r == q \o p
           l == Len(q)
<1>1. p \in Seq(Emitted) /\ Len(p) \in {1, 2} /\ l \in Nat
  BY LenProperties DEF Single
<1>2. /\ r \in Seq(Emitted) /\ Len(r) = l + Len(p)
      /\ \A i \in 1 .. l : r[i] = q[i]
      /\ \A i \in 1 .. Len(p) : r[l + i] = p[i]
  <2>1. \A i \in 1 .. Len(r) : r[i] = IF i <= l THEN q[i] ELSE p[i - l]
    BY <1>1, ConcatProperties
  <2>2. r \in Seq(Emitted) /\ Len(r) = l + Len(p)
    BY <1>1, ConcatProperties
  <2>3. \A i \in 1 .. l : i \in 1 .. Len(r) /\ i <= l
    BY <1>1, <2>2
  <2>4. \A i \in 1 .. Len(p) : l + i \in 1 .. Len(r) /\ ~(l + i <= l) /\ (l + i) - l = i
    BY <1>1, <2>2
  <2> HIDE DEF r, l
  <2> QED BY <2>1, <2>2, <2>3, <2>4
<1> HIDE DEF r
<1>3. DOMAIN q = 1 .. l
  BY LenProperties
<1>4. DOMAIN p = 1 .. Len(p)
  BY <1>1, LenProperties
<1> DEFINE k == Len(p)
<1>0. l \in Nat /\ (k = 1 \/ k = 2)
  BY <1>1
<1>5. DOMAIN r = 1 .. Len(r)
  BY <1>2, LenProperties
<1>6. ASSUME NEW j \in DOMAIN q PROVE lo < q[j].call /\ q[j].call < c /\ q[j].call \in Nat
  <2>1. q[j].call \in Nat
    BY StepNumbers
  <2> QED BY <2>1 DEF Between
<1>19. DOMAIN r = 1 .. (l + k)
  BY <1>2, <1>5
<1>20. Len(p) = k
  OBVIOUS
<1> HIDE DEF l, k
<1>7. r[l + 1] = p[1] /\ p[1].call = c
  BY <1>1, <1>2, <1>4, <1>20 DEF Single
<1>8. k = 2 => r[l + 2] = p[2] /\ p[2].call = c
  BY <1>1, <1>2, <1>4, <1>20 DEF Single
<1>9. ASSUME NEW i \in DOMAIN r PROVE i \in DOMAIN q \/ i = l + 1 \/ (i = l + 2 /\ k = 2)
  <2>1. i \in 1 .. (l + k)
    BY <1>19
  <2>2. i \in 1 .. l \/ i = l + 1 \/ (i = l + 2 /\ k = 2)
    BY <1>0, <2>1
  <2> QED BY <1>3, <2>2
<1>10. \A i \in DOMAIN q : i <= l /\ i \in 1 .. l /\ r[i] = q[i] /\ i \in DOMAIN r
  BY <1>1, <1>2, <1>3, <1>5
<1>11. l + 1 \in DOMAIN r /\ l + 1 \in Nat /\ (k = 2 => l + 2 \in DOMAIN r /\ l + 1 < l + 2 /\ l + 2 > 1 /\ (l + 2) - 1 = l + 1)
  <2>2. l + 1 \in 1 .. (l + k) /\ (k = 2 => l + 2 \in 1 .. (l + k))
    BY <1>0
  <2>3. l + 1 \in Nat /\ l + 1 < l + 2 /\ l + 2 > 1 /\ (l + 2) - 1 = l + 1
    BY <1>1
  <2> QED BY <1>19, <2>2, <2>3
<1>12. \/ k = 1 /\ r[l + 1].kind = "stray" /\ ~r[l + 1].ok
       \/ /\ k = 2 /\ r[l + 1].kind = "request" /\ r[l + 2].kind \in Ending /\ r[l + 2].tool = r[l + 1].tool
          /\ r[l + 2].kind = "denied" => ~r[l + 2].checked
  BY <1>7, <1>8, <1>20 DEF Single
<1>13. Paired(r)
  <2>1. ASSUME NEW j \in DOMAIN r, r[j].kind \in Ending PROVE j > 1 /\ AfterRequest(r, j)
    <3>1. CASE j \in DOMAIN q
      <4>1. j > 1 /\ AfterRequest(q, j)
        BY <1>10, <2>1, <3>1 DEF Paired
      <4>2. j - 1 \in DOMAIN q
        BY <1>1, <1>3, <3>1, <4>1
      <4> QED BY <1>10, <3>1, <4>1, <4>2 DEF AfterRequest
    <3>2. CASE j = l + 1
      BY <1>12, <2>1, <3>2 DEF Ending
    <3>3. CASE j = l + 2 /\ k = 2
      BY <1>7, <1>8, <1>11, <1>12, <3>3 DEF AfterRequest
    <3> QED BY <1>9, <3>1, <3>2, <3>3
  <2> QED BY <2>1 DEF Paired
<1>14. ASSUME NEW i \in DOMAIN r, NEW j \in DOMAIN r, i < j PROVE NextIn(r, i, j)
  <2>1. CASE j \in DOMAIN q
    <3>1. i \in DOMAIN q
      BY <1>1, <1>2, <1>3, <1>5, <1>14, <2>1
    <3>2. NextIn(q, i, j)
      BY <1>14, <2>1, <3>1 DEF Ordered
    <3> QED BY <1>10, <2>1, <3>1, <3>2 DEF NextIn
  <2>2. CASE j \notin DOMAIN q /\ i \in DOMAIN q
    <3>1. r[j].call = c
      BY <1>7, <1>8, <1>9, <2>2
    <3>2. r[i].call < c /\ r[i].call # c
      BY <1>6, <1>10, <2>2
    <3> QED BY <3>1, <3>2 DEF NextIn
  <2>3. CASE j \notin DOMAIN q /\ i \notin DOMAIN q
    <3>1. i = l + 1 /\ j = l + 2 /\ k = 2
      BY <1>1, <1>9, <1>14, <2>3
    <3>2. r[i].kind = "request" /\ r[j].kind \in Ending /\ r[j].tool = r[i].tool
      BY <1>12, <3>1
    <3> QED BY <3>2 DEF NextIn, Ending, Ended
  <2> QED BY <2>1, <2>2, <2>3
<1>15. ASSUME NEW i \in DOMAIN r, r[i].kind = "request"
       PROVE  \E j \in DOMAIN r : i < j /\ r[j].kind \in Ending /\ r[j].call = r[i].call
  <2>1. CASE i \in DOMAIN q
    <3>1. PICK j \in DOMAIN q : i < j /\ q[j].kind \in Ending /\ q[j].call = q[i].call
      BY <1>10, <1>15, <2>1 DEF Ordered
    <3> QED BY <1>10, <2>1, <3>1
  <2>2. CASE i = l + 1
    BY <1>7, <1>8, <1>11, <1>12, <1>15, <2>2
  <2>3. CASE i = l + 2 /\ k = 2
    BY <1>12, <1>15, <2>3 DEF Ending
  <2> QED BY <1>9, <2>1, <2>2, <2>3
<1>16. ASSUME NEW j \in DOMAIN r
       PROVE  (r[j].kind = "denied" => ~r[j].checked) /\ (r[j].kind = "stray" => ~r[j].ok)
  <2>1. CASE j \in DOMAIN q
    BY <1>10, <2>1 DEF Ordered
  <2>2. CASE j = l + 1
    BY <1>12, <2>2
  <2>3. CASE j = l + 2 /\ k = 2
    BY <1>12, <2>3 DEF Ending
  <2> QED BY <1>9, <2>1, <2>2, <2>3
<1>17. Ordered(r)
  <2>1. \A j \in DOMAIN r : r[j].kind \in Ending => AfterRequest(r, j)
    BY <1>13 DEF Paired
  <2>2. \A j \in DOMAIN r : r[j].kind = "denied" => r[j].kind \in Ending
    BY DEF Ending
  <2> QED BY <1>14, <1>15, <1>16, <2>1, <2>2 DEF Ordered
<1>18. Between(r, lo, c)
  <2>1. ASSUME NEW j \in DOMAIN r PROVE lo < r[j].call /\ r[j].call <= c
    <3>1. CASE j \in DOMAIN q
      BY <1>6, <1>10, <3>1
    <3>2. CASE j \notin DOMAIN q
      BY <1>7, <1>8, <1>9, <3>2
    <3> QED BY <3>1, <3>2
  <2> QED BY <2>1 DEF Between
<1> QED BY <1>2, <1>13, <1>17, <1>18 DEF r

\* The calls that go one after the other, in order.
InOrder(q, lo, hi) == q \in Seq(Emitted) /\ Ordered(q) /\ Paired(q) /\ Between(q, lo, hi)

LEMMA SinglesInOrder ==
  ASSUME NEW lo \in Nat, NEW each \in Seq(Seq(Emitted)), \A i \in 1 .. Len(each) : Single(each[i], lo + i)
  PROVE  InOrder(FlattenSeq(each), lo, lo + Len(each))
<1> DEFINE m == Len(each)
           part(n) == SubSeq(each, 1, n)
           Good(n) == InOrder(FlattenSeq(part(n)), lo, lo + n)
           Bad == {n \in 0 .. m : ~Good(n)}
<1>1. m \in Nat /\ IsSeq(each)
  BY LenProperties DEF IsSeq
<1>2. ASSUME NEW n \in 0 .. m PROVE part(n) \in Seq(Seq(Emitted))
  BY <1>2, PrefixIs
<1>3. Good(0)
  <2>1. part(0) \in Seq(Seq(Emitted)) /\ Len(part(0)) = 0
    BY <1>1, PrefixIs
  <2>2. part(0) = <<>>
    BY <2>1, EmptySeq
  <2>3. FlattenSeq(part(0)) = <<>>
    BY <2>2, FlattenEmpty
  <2>4. InOrder(<<>>, lo, lo + 0)
    BY EmptySeq DEF InOrder, Ordered, Paired, Between
  <2> QED BY <2>3, <2>4
<1>4. ASSUME NEW n \in 1 .. m, Good(n - 1) PROVE Good(n)
  <2> DEFINE k == n - 1
             q == FlattenSeq(part(k))
             p == each[n]
             c == lo + n
  <2>1. k \in 0 .. m /\ n = k + 1 /\ c \in Nat /\ lo < c /\ lo + k = c - 1
    BY <1>1
  <2>2. part(n) = Append(part(k), p)
    BY <1>1, PrefixStep
  <2>3. Single(p, c)
    OBVIOUS
  <2>4. p \in Seq(Emitted)
    BY <2>3 DEF Single
  <2>5. InOrder(q, lo, c - 1)
    BY <1>4, <2>1
  <2> HIDE DEF k, p, c
  <2>6. part(k) \in Seq(Seq(Emitted))
    BY <1>2, <2>1
  <2> HIDE DEF part
  <2>7. FlattenSeq(part(n)) = q \o p
    BY <2>2, <2>4, <2>6, FlattenAppend
  <2> HIDE DEF q
  <2>8. q \in Seq(Emitted) /\ Ordered(q) /\ Paired(q) /\ Between(q, lo, c - 1)
    BY <2>5 DEF InOrder
  <2>9. q \o p \in Seq(Emitted) /\ Ordered(q \o p) /\ Paired(q \o p) /\ Between(q \o p, lo, c)
    BY <2>1, <2>3, <2>8, SingleMore
  <2> QED BY <2>7, <2>9 DEF InOrder, c
<1> HIDE DEF Good, part, m
<1>5. Bad = {}
  <2>1. SUFFICES ASSUME Bad # {} PROVE FALSE
    OBVIOUS
  <2>2. Bad \in SUBSET Nat
    BY <1>1
  <2>3. PICK n \in Bad : \A y \in Bad : n <= y
    BY <2>1, <2>2, LeastNatural
  <2>4. n \in 1 .. m
    BY <1>1, <1>3, <2>3
  <2>5. n - 1 \in 0 .. m /\ ~(n <= n - 1)
    BY <1>1, <2>4
  <2>6. Good(n - 1)
    BY <2>3, <2>5
  <2> QED BY <1>4, <2>3, <2>4, <2>6
<1>6. Good(m)
  <2>1. m \in 0 .. m
    BY <1>1
  <2>2. m \notin Bad
    BY <1>5
  <2> QED BY <2>1, <2>2
<1>7. part(m) = each
  BY <1>1, PrefixWhole DEF part, m
<1> QED BY <1>6, <1>7 DEF Good, m

\* All at once: the requests, and the results in the same order.
Batch(a, b, lo, m) ==
  /\ Len(a) = m /\ Len(b) = m
  /\ \A i \in 1 .. m : /\ a[i].kind = "request" /\ b[i].kind = "result" /\ a[i].tool = b[i].tool
                       /\ a[i].call = lo + i /\ b[i].call = lo + i

LEMMA BatchInOrder ==
  ASSUME NEW lo \in Nat, NEW m \in Nat, NEW a \in Seq(Emitted), NEW b \in Seq(Emitted), Batch(a, b, lo, m)
  PROVE  /\ Ordered(a \o b) /\ Between(a \o b, lo, lo + m) /\ Awaited(a \o b) = {}
<1> DEFINE r == a \o b
<1>0. /\ Len(a) = m /\ Len(b) = m
      /\ \A i \in 1 .. m : /\ a[i].kind = "request" /\ b[i].kind = "result" /\ a[i].tool = b[i].tool
                           /\ a[i].call = lo + i /\ b[i].call = lo + i
  BY DEF Batch
<1>1. r \in Seq(Emitted) /\ Len(r) = m + m /\ \A i \in 1 .. Len(r) : r[i] = IF i <= m THEN a[i] ELSE b[i - m]
  <2>1. a \in Seq(Emitted) /\ b \in Seq(Emitted)
    OBVIOUS
  <2>2. /\ r \in Seq(Emitted) /\ Len(r) = Len(a) + Len(b)
        /\ \A i \in 1 .. Len(a) + Len(b) : r[i] = IF i <= Len(a) THEN a[i] ELSE b[i - Len(a)]
    BY ONLY <2>1, ConcatProperties
  <2> HIDE DEF r
  <2> QED BY <1>0, <2>2
<1> HIDE DEF r
<1>2. DOMAIN r = 1 .. (m + m)
  BY <1>1, LenProperties
<1>3. ASSUME NEW i \in 1 .. m
      PROVE  /\ i \in DOMAIN r /\ m + i \in DOMAIN r /\ i < m + i
             /\ r[i] = a[i] /\ r[m + i] = b[i]
             /\ r[i].kind = "request" /\ r[m + i].kind = "result" /\ r[i].tool = r[m + i].tool
             /\ r[i].call = lo + i /\ r[m + i].call = lo + i
  <2>1. i \in 1 .. (m + m) /\ m + i \in 1 .. (m + m) /\ i <= m /\ ~(m + i <= m) /\ (m + i) - m = i /\ i < m + i
    OBVIOUS
  <2>2. r[i] = a[i]
    BY <1>1, <2>1
  <2>3. r[m + i] = b[(m + i) - m]
    BY <1>1, <2>1
  <2>4. r[m + i] = b[i]
    BY <2>1, <2>3
  <2> QED BY <1>0, <1>2, <2>1, <2>2, <2>4
<1>4. \A i \in DOMAIN r : i \in 1 .. m \/ (i - m \in 1 .. m /\ i = m + (i - m) /\ i > m)
  <2>1. \A i \in 1 .. (m + m) : i \in 1 .. m \/ (i - m \in 1 .. m /\ i = m + (i - m) /\ i > m)
    OBVIOUS
  <2> QED BY <1>2, <2>1
<1>5. ASSUME NEW i \in DOMAIN r, NEW j \in DOMAIN r, i < j PROVE NextIn(r, i, j)
  <2>1. CASE i \in 1 .. m /\ j \in 1 .. m
    <3>1. r[i].kind = "request" /\ r[j].kind = "request" /\ r[i].call # r[j].call
      BY <1>3, <1>5, <2>1
    <3> QED BY <3>1 DEF NextIn, Ended
  <2>2. CASE i \in 1 .. m /\ j \notin 1 .. m
    <3> DEFINE k == j - m
    <3>1. k \in 1 .. m /\ j = m + k
      BY <1>4, <2>2
    <3> HIDE DEF k
    <3>2. r[i].kind = "request" /\ r[j].kind = "result"
      BY <1>3, <2>2, <3>1
    <3>3. r[i].call = lo + i /\ r[j].call = lo + k /\ r[k].tool = r[j].tool
      BY <1>3, <2>2, <3>1
    <3>4. r[i].call = r[j].call => i = k
      BY <2>2, <3>1, <3>3
    <3> QED BY <3>2, <3>3, <3>4 DEF NextIn, Ended
  <2>3. CASE i \notin 1 .. m /\ j \notin 1 .. m
    <3> DEFINE k == i - m
               l == j - m
    <3>1. k \in 1 .. m /\ i = m + k /\ l \in 1 .. m /\ j = m + l /\ k < l
      BY <1>4, <1>5, <2>3
    <3> HIDE DEF k, l
    <3>2. r[i].kind = "result" /\ r[j].kind = "result" /\ r[i].call = lo + k /\ r[j].call = lo + l
      BY <1>3, <3>1
    <3>3. r[i].call < r[j].call
      BY <3>1, <3>2
    <3> QED BY <3>2, <3>3 DEF NextIn
  <2>4. ~(i \notin 1 .. m /\ j \in 1 .. m)
    BY <1>4, <1>5
  <2> QED BY <2>1, <2>2, <2>3, <2>4
<1>6. ASSUME NEW i \in DOMAIN r PROVE r[i].kind \in {"request", "result"} /\ r[i].call \in (lo + 1) .. (lo + m)
  <2>1. CASE i \in 1 .. m
    BY <1>3, <2>1
  <2>2. CASE i \notin 1 .. m
    <3> DEFINE k == i - m
    <3>1. k \in 1 .. m /\ i = m + k
      BY <1>4, <2>2
    <3> HIDE DEF k
    <3>2. r[i].kind = "result" /\ r[i].call = lo + k
      BY <1>3, <3>1
    <3> QED BY <3>1, <3>2
  <2> QED BY <2>1, <2>2
<1>7. ASSUME NEW i \in DOMAIN r, r[i].kind = "request"
      PROVE  \E j \in DOMAIN r : i < j /\ r[j].kind \in Ending /\ r[j].call = r[i].call
  <2>1. i \in 1 .. m
    <3> DEFINE k == i - m
    <3>1. i \notin 1 .. m => k \in 1 .. m /\ i = m + k
      BY <1>4
    <3> HIDE DEF k
    <3> QED BY <1>3, <1>7, <3>1
  <2> QED BY <1>3, <2>1 DEF Ending
<1>8. Ordered(r)
  BY <1>5, <1>6, <1>7 DEF Ordered
<1>9. Between(r, lo, lo + m)
  <2>1. \A i \in DOMAIN r : lo < r[i].call /\ r[i].call <= lo + m
    BY <1>6
  <2> QED BY <2>1 DEF Between
<1>10. Awaited(r) = {}
  <2>1. ASSUME NEW i \in DOMAIN r, r[i].kind \in Ending PROVE r[i].call \in CallsOf(r, {"request"})
    <3> DEFINE k == i - m
    <3>1. k \in 1 .. m /\ i = m + k
      BY <1>3, <1>4, <2>1 DEF Ending
    <3> HIDE DEF k
    <3>2. r[k].kind = "request" /\ r[k].call = r[i].call /\ k \in DOMAIN r
      BY <1>3, <3>1
    <3> QED BY <3>2 DEF CallsOf
  <2> QED BY <2>1 DEF Awaited, CallsOf
<1> QED BY <1>8, <1>9, <1>10 DEF r

LEMMA PlanInOrder ==
  ASSUME StreamInv, NEW calls \in Calls
  PROVE  /\ Ordered(Plan(calls)) /\ Awaited(Plan(calls)) = {}
         /\ Len(calls) \in Nat /\ Between(Plan(calls), number.calls, number.calls + Len(calls))
<1> DEFINE lo == number.calls
           id(i) == lo + i
           asked == [i \in DOMAIN calls |-> Asked(id(i), calls[i].tool, i = 1)]
           told == [i \in DOMAIN calls |-> Step("result", id(i), calls[i].tool, calls[i].fate = "ok", TRUE)]
           each == [i \in DOMAIN calls |-> OneByOne(id(i), calls[i].tool, calls[i].fate)]
<1>1. PICK n \in 1 .. MaxCalls : calls \in [1 .. n -> [tool : Tool, fate : Fate]]
  BY DEF Calls
<1>2. n \in Nat /\ DOMAIN calls = 1 .. n /\ lo \in Nat
  BY <1>1, ProviderAssumption DEF StreamInv
<1>3. \A i \in 1 .. n : calls[i].tool \in Tool /\ calls[i].fate \in Fate /\ id(i) \in Nat
  BY <1>1, <1>2
<1>4. Len(calls) = n
  <2> DEFINE C == [tool : Tool, fate : Fate]
  <2>1. calls \in [1 .. n -> C]
    BY <1>1
  <2> HIDE DEF C
  <2>2. calls \in Seq(C)
    BY <1>2, <2>1, SeqDef
  <2> QED BY <1>2, <2>2, LenProperties
<1>5. CASE Plan(calls) = asked \o told
  <2>1. \A i \in 1 .. n :
          /\ asked[i] \in Emitted /\ told[i] \in Emitted
          /\ asked[i].kind = "request" /\ told[i].kind = "result" /\ asked[i].tool = told[i].tool
          /\ asked[i].call = lo + i /\ told[i].call = lo + i
    BY <1>2, <1>3 DEF Asked, Step, Emitted
  <2>2. asked \in [1 .. n -> Emitted] /\ told \in [1 .. n -> Emitted]
    BY <1>2, <2>1
  <2>3. asked \in Seq(Emitted) /\ told \in Seq(Emitted) /\ Len(asked) = n /\ Len(told) = n
    <3> HIDE DEF asked, told
    <3>1. asked \in Seq(Emitted) /\ told \in Seq(Emitted)
      BY <1>2, <2>2, SeqDef
    <3>2. DOMAIN asked = 1 .. n /\ DOMAIN told = 1 .. n
      BY <2>2
    <3>3. /\ DOMAIN asked = 1 .. Len(asked) /\ Len(asked) \in Nat
          /\ DOMAIN told = 1 .. Len(told) /\ Len(told) \in Nat
      BY ONLY <3>1, LenProperties
    <3>4. n \in Nat
      BY <1>2
    <3> QED BY ONLY <3>1, <3>2, <3>3, <3>4
  <2> HIDE DEF asked, told, lo
  <2>4. Ordered(asked \o told) /\ Between(asked \o told, lo, lo + n) /\ Awaited(asked \o told) = {}
    <3>1. Batch(asked, told, lo, n)
      BY ONLY <2>1, <2>3 DEF Batch
    <3>2. lo \in Nat /\ n \in Nat
      BY ONLY <1>2
    <3> QED BY ONLY <2>3, <3>1, <3>2, BatchInOrder
  <2> QED BY <1>2, <1>4, <1>5, <2>4 DEF lo
<1>6. CASE Plan(calls) = FlattenSeq(each)
  <2>1. \A i \in 1 .. n : each[i] \in Seq(Emitted) /\ Single(each[i], lo + i)
    <3>1. ASSUME NEW i \in 1 .. n PROVE each[i] \in Seq(Emitted) /\ Single(each[i], lo + i)
      <4>1. calls[i].tool \in Tool /\ calls[i].fate \in Fate /\ lo + i \in Nat
        BY <1>3
      <4>2. Single(OneByOne(lo + i, calls[i].tool, calls[i].fate), lo + i)
        BY ONLY <4>1, OneByOneSingle
      <4> QED BY <1>2, <4>2 DEF Single
    <3> QED BY <3>1
  <2>2. each \in [1 .. n -> Seq(Emitted)]
    BY <1>2, <2>1
  <2> HIDE DEF each, lo
  <2>3. each \in Seq(Seq(Emitted)) /\ Len(each) = n
    <3>1. each \in Seq(Seq(Emitted))
      BY <1>2, <2>2, SeqDef
    <3>2. DOMAIN each = 1 .. n
      BY <2>2
    <3> QED BY <1>2, <3>1, <3>2, LenProperties
  <2>4. InOrder(FlattenSeq(each), lo, lo + Len(each))
    <3>1. \A i \in 1 .. Len(each) : Single(each[i], lo + i)
      BY <2>1, <2>3
    <3> QED BY ONLY <1>2, <2>3, <3>1, SinglesInOrder
  <2>5. Awaited(FlattenSeq(each)) = {}
    BY <2>4, PairedAwaitNothing DEF InOrder
  <2> QED BY <1>2, <1>4, <1>6, <2>3, <2>4, <2>5 DEF InOrder, lo
<1> QED BY <1>5, <1>6 DEF Plan

-----------------------------------------------------------------------------
(* Every step keeps the evidence.                                            *)

LEMMA InitEvidence == Init => EvidenceInv
<1> SUFFICES ASSUME Init PROVE EvidenceInv
  OBVIOUS
<1>1. /\ view = [blocks |-> <<>>, pending |-> {}, mark |-> [blocks |-> 0, tail |-> 0, pending |-> {}]]
      /\ pc = "idle" /\ due = <<>> /\ results = {}
  BY DEF Init, EmptyView
<1>2. view.blocks = <<>> /\ view.pending = {} /\ Closed(view) = {}
  BY <1>1 DEF Closed
<1>3. \A k : ~Spoken(view, k)
  BY <1>2 DEF Spoken, Told
<1>4. EntriesOK(view, due) /\ AllFresh(view, due) /\ LinesStay(view, due, results)
  BY <1>1, <1>2, <1>3, FS_EmptySet DEF EntriesOK, AllFresh, LinesStay
<1>5. AllOpened(view, due) /\ NoneLeft(view, due, unanswered) /\ AllTold(view, results)
  BY <1>1, <1>2 DEF AllOpened, NoneLeft, AllTold
<1>6. AllBeside(view, results, unanswered)
  BY <1>2 DEF AllBeside
<1>7. Ordered(due) /\ Numbered(view, due, number.calls)
  BY <1>1, <1>2, <1>3 DEF Ordered, Numbered
<1> QED BY <1>1, <1>4, <1>5, <1>6, <1>7 DEF EvidenceInv, Evidence, Attempting

\* A step outside an attempt.
LEMMA RestingStep ==
  ASSUME pc' \notin {"establish", "stream"}, pc' # "emit" => due' = <<>>, Ordered(due'),
         Evidence(view', due', results', unanswered'), Numbered(view', due', number'.calls)
  PROVE  EvidenceInv'
BY DEF EvidenceInv, Attempting

\* A step that does no more than push what no call is about.
LEMMA GrowingStep ==
  ASSUME EvidenceInv, ShowInv, DueInv, Grown(view', view), UNCHANGED <<due, results, unanswered>>,
         number'.calls = number.calls, pc' # "emit" => due = <<>>,
         pc' \in {"establish", "stream"} => Attempting /\ view'.mark = view.mark
  PROVE  EvidenceInv'
<1>1. ViewOK(view) /\ due \in Seq(Emitted) /\ Evidence(view, due, results, unanswered)
  BY DEF ShowInv, DueInv, EvidenceInv
<1>2. Cardinality(Closed(view)) \in Nat
  BY <1>1, FlushIs
<1>3. Cardinality(Awaited(due)) \in Nat
  BY <1>1, AwaitedIsFinite
<1>4. Evidence(view', due, results, unanswered)
  BY <1>1, <1>2, <1>3, GrownEvidence
<1>5. Numbered(view', due, number.calls)
  BY GrownNumbered DEF EvidenceInv
<1>6. ASSUME pc' \in {"establish", "stream"}
      PROVE  /\ view'.pending = view'.mark.pending
             /\ \A r \in results : Told(SubSeq(view'.blocks, 1, view'.mark.blocks), r.call)
  <2>1. Attempting /\ view'.mark = view.mark
    BY <1>6
  <2>2. /\ view.pending = view.mark.pending
        /\ \A r \in results : Told(SubSeq(view.blocks, 1, view.mark.blocks), r.call)
    BY <2>1 DEF EvidenceInv
  <2>3. view.mark.blocks \in 0 .. Len(view.blocks)
    BY <2>1 DEF ShowInv, Attempting, Marked
  <2>4. Continues(view'.blocks, view.blocks) /\ view'.pending = view.pending
    BY DEF Grown
  <2>5. \A k : Told(SubSeq(view'.blocks, 1, view.mark.blocks), k) <=> Told(SubSeq(view.blocks, 1, view.mark.blocks), k)
    BY <2>3, <2>4, GrownPrefix
  <2> QED BY <2>1, <2>2, <2>4, <2>5
<1>7. Ordered(due)
  BY DEF EvidenceInv
<1> QED BY <1>4, <1>5, <1>6, <1>7 DEF EvidenceInv, Attempting

\* The request is over.
LEMMA OverEvidence ==
  ASSUME EvidenceInv, ShowInv, DueInv, NEW kind, Over(kind),
         due = <<>> \/ (due # <<>> /\ Head(due).checked)
  PROVE  EvidenceInv'
<1> DEFINE W == unanswered'
<1>1. /\ pc' = "idle" /\ due' = <<>> /\ UNCHANGED <<number, results>>
      /\ view' = Flush(view) \/ view' = Push(view, "note", <<>>)
      /\ unanswered' = unanswered \cup {e.tool : e \in {e \in Range(due) : CutOff(e)}}
  BY DEF Over
<1>2. ViewOK(view) /\ due \in Seq(Emitted) /\ Ordered(due) /\ Evidence(view, due, results, unanswered)
      /\ Numbered(view, due, number.calls)
  BY DEF ShowInv, DueInv, EvidenceInv
<1>3. ASSUME NEW j \in DOMAIN due, due[j].kind \in Ending, due[j].call \in Awaited(due) PROVE due[j].tool \in W
  <2>1. due # <<>> /\ Head(due).checked
    <3>1. due = <<>> => DOMAIN due = {}
      BY EmptySeq
    <3> QED BY <1>3, <3>1
  <2>2. Head(due) = due[1] /\ DOMAIN due = 1 .. Len(due)
    BY <1>2, <2>1, TailIs
  <2>3. \A i \in DOMAIN due : due[i].call = due[j].call => due[i].kind # "request"
    BY <1>3 DEF Awaited, CallsOf
  <2>4. due[j].kind # "denied"
    <3>1. SUFFICES ASSUME due[j].kind = "denied" PROVE FALSE
      OBVIOUS
    <3>2. j # 1
      BY <1>2, <2>1, <2>2, <3>1 DEF Ordered
    <3>3. j > 1 /\ j - 1 \in DOMAIN due
      BY <2>2, <3>2
    <3>4. AfterRequest(due, j)
      BY <1>2, <3>1, <3>3 DEF Ordered
    <3> QED BY <2>3, <3>3, <3>4 DEF AfterRequest
  <2>5. CutOff(due[j]) /\ due[j] \in Range(due)
    <3>1. due[j].kind = "result"
      BY <1>3, <2>4 DEF Ending
    <3> QED BY <2>3, <3>1 DEF CutOff, Range
  <2> QED BY <1>1, <2>5
<1>4. unanswered \subseteq W
  BY <1>1
<1> HIDE DEF W
<1>5. Evidence(view, <<>>, results, W) /\ Numbered(view, <<>>, number.calls)
  BY <1>2, <1>3, <1>4, DroppedEvidence
<1>6. <<>> \in Seq(Emitted) /\ Awaited(<<>>) = {}
  BY EmptySeq, NothingAwaited
<1>7. Evidence(view', <<>>, results, W) /\ Numbered(view', <<>>, number.calls)
  <2>1. CASE view' = Flush(view)
    <3> DEFINE f == Flush(view)
    <3>1. /\ EntriesOK(f, <<>>) /\ AllFresh(f, <<>>) /\ AllOpened(f, <<>>) /\ NoneLeft(f, <<>>, W)
          /\ AllTold(f, results) /\ AllBeside(f, results, W) /\ LinesStay(f, <<>>, results)
          /\ \A k : Spoken(f, k) => Spoken(view, k)
      BY <1>2, <1>5, <1>6, FlushEvidence
    <3>2. f.pending \subseteq view.pending
      BY <1>2, FlushIs
    <3> HIDE DEF f
    <3>3. Evidence(f, <<>>, results, W)
      BY <3>1 DEF Evidence
    <3>4. Numbered(f, <<>>, number.calls)
      BY <1>5, <3>1, <3>2 DEF Numbered
    <3> QED BY <2>1, <3>3, <3>4 DEF f
  <2>2. CASE view' = Push(view, "note", <<>>)
    <3>1. BlockOK(Block("note", <<>>))
      BY DEF Block, BlockOK
    <3>2. Grown(view', view)
      BY <1>2, <2>2, <3>1, PushGrows
    <3>3. Cardinality(Closed(view)) \in Nat
      BY <1>2, FlushIs
    <3>4. Cardinality(Awaited(<<>>)) \in Nat
      BY <1>6, AwaitedIsFinite
    <3>5. Evidence(view', <<>>, results, W)
      BY <1>5, <3>2, <3>3, <3>4, GrownEvidence
    <3>6. Numbered(view', <<>>, number.calls)
      BY <1>5, <3>2, GrownNumbered
    <3> QED BY <3>5, <3>6
  <2> QED BY <1>1, <2>1, <2>2
<1>8. Ordered(<<>>)
  BY DEF Ordered
<1> QED BY <1>1, <1>7, <1>8, RestingStep DEF W

LEMMA TruncatedEvidence ==
  ASSUME EvidenceInv, ShowInv, DueInv, due = <<>>, Truncated
  PROVE  EvidenceInv'
<1>1. CASE Over("failed")
  BY <1>1, OverEvidence
<1>2. CASE pc' = "turn" /\ UNCHANGED <<due, view, number, results, unanswered>>
  <2>1. Grown(view', view)
    BY <1>2, GrownSelf DEF ShowInv
  <2> QED BY <1>2, <2>1, GrowingStep
<1> QED BY <1>1, <1>2 DEF Truncated

LEMMA MidStreamEvidence ==
  ASSUME EvidenceInv, ShowInv, DueInv, pc = "stream", MidStream
  PROVE  EvidenceInv'
<1>1. due = <<>>
  BY DEF EvidenceInv
<1>2. CASE Over("failed")
  BY <1>1, <1>2, OverEvidence
<1>3. CASE Again
  <2>1. pc' = "wait" /\ view' = Rollback(view) /\ UNCHANGED <<due, number, results, unanswered>>
    BY <1>3 DEF Again, history
  <2>2. /\ ViewOK(view) /\ Marked(view) /\ AllOpen(view) /\ view.pending = view.mark.pending
        /\ Evidence(view, <<>>, results, unanswered) /\ Numbered(view, <<>>, number.calls)
        /\ \A r \in results : Told(SubSeq(view.blocks, 1, view.mark.blocks), r.call)
    BY <1>1 DEF ShowInv, EvidenceInv, Attempting
  <2>3. Evidence(view', <<>>, results, unanswered) /\ Numbered(view', <<>>, number.calls)
    BY <2>1, <2>2, RollbackEvidence
  <2>4. Ordered(<<>>)
    BY DEF Ordered
  <2> QED BY <1>1, <2>1, <2>3, <2>4, RestingStep
<1> QED BY <1>2, <1>3 DEF MidStream

\* The mark of an attempt is taken of all there is.
LEMMA MarkIs ==
  ASSUME NEW v, ViewOK(v)
  PROVE  /\ Mark(v).pending = v.pending /\ Mark(v).blocks = v.blocks
         /\ Mark(v).mark.blocks = Len(v.blocks) /\ Mark(v).mark.pending = v.pending
<1>1. v = [blocks |-> v.blocks, pending |-> v.pending, mark |-> v.mark]
  BY DEF ViewOK
<1> DEFINE tail == IF EndsIn(v, "answer") THEN Len(Last(v.blocks).text) ELSE 0
           mark == [blocks |-> Len(v.blocks), pending |-> v.pending, tail |-> tail]
<1>2. Mark(v) = [v EXCEPT !.mark = mark]
  BY DEF Mark
<1> HIDE DEF tail
<1>3. mark.blocks = Len(v.blocks) /\ mark.pending = v.pending
  OBVIOUS
<1> HIDE DEF mark
<1>4. Mark(v) = [blocks |-> v.blocks, pending |-> v.pending, mark |-> mark]
  BY <1>1, <1>2
<1> QED BY <1>3, <1>4

LEMMA BeginEvidence ==
  ASSUME EvidenceInv, ShowInv, DueInv, Begin
  PROVE  EvidenceInv'
<1> DEFINE f == Flush(view)
<1>1. /\ due = <<>> /\ view' = Mark(f) /\ number'.calls = number.calls
      /\ UNCHANGED <<due, results, unanswered>>
  <2>1. pc \in {"turn", "wait"} /\ view' = Mark(f) /\ UNCHANGED <<due, results, unanswered>>
    BY DEF Begin, StartAttempt, history
  <2>2. number'.calls = number.calls
    BY DEF Begin
  <2> QED BY <2>1, <2>2 DEF EvidenceInv
<1>2. /\ ViewOK(view) /\ Evidence(view, <<>>, results, unanswered) /\ Numbered(view, <<>>, number.calls)
  BY <1>1 DEF ShowInv, EvidenceInv
<1>3. <<>> \in Seq(Emitted) /\ Awaited(<<>>) = {}
  BY EmptySeq, NothingAwaited
<1>4. /\ EntriesOK(f, <<>>) /\ AllFresh(f, <<>>) /\ AllOpened(f, <<>>) /\ NoneLeft(f, <<>>, unanswered)
      /\ AllTold(f, results) /\ AllBeside(f, results, unanswered) /\ LinesStay(f, <<>>, results)
      /\ \A k : Spoken(f, k) => Spoken(view, k)
  BY <1>2, <1>3, FlushEvidence
<1>5. f.pending \subseteq view.pending
  BY <1>2, FlushIs
<1>6. ViewOK(f)
  BY <1>2, FlushShows
<1> HIDE DEF f
<1>7. /\ view'.pending = f.pending /\ view'.blocks = f.blocks
      /\ view'.mark.blocks = Len(f.blocks) /\ view'.mark.pending = f.pending
  BY <1>1, <1>6, MarkIs
<1>8. Evidence(view', <<>>, results, unanswered)
  BY <1>4, <1>7 DEF Evidence, EntriesOK, AllFresh, AllOpened, NoneLeft, AllTold, AllBeside,
                    LinesStay, LineStays, Spoken, Closed
<1>9. Numbered(view', <<>>, number.calls)
  <2>1. \A k : Spoken(view', k) => Spoken(f, k)
    BY <1>7 DEF Spoken, Closed
  <2> QED BY <1>2, <1>4, <1>5, <1>7, <2>1 DEF Numbered
<1>10. SubSeq(view'.blocks, 1, view'.mark.blocks) = view'.blocks
  BY <1>6, <1>7, PrefixWhole DEF ViewOK, Blocks
<1>11. \A r \in results : Told(SubSeq(view'.blocks, 1, view'.mark.blocks), r.call)
  BY <1>4, <1>7, <1>10 DEF AllTold
<1>12. Ordered(<<>>)
  BY DEF Ordered
<1> QED BY <1>1, <1>7, <1>8, <1>9, <1>11, <1>12 DEF EvidenceInv

LEMMA ShowEvidence ==
  ASSUME EvidenceInv, ShowInv, StreamInv, DueInv, Show
  PROVE  EvidenceInv'
<1> DEFINE f == Flush(view)
           d == number.attempts
<1>1. /\ pc = "stream" /\ pc' = pc /\ view' = PushText(f, d)
      /\ UNCHANGED <<due, number, results, unanswered>>
  BY DEF Show, history
<1>2. ViewOK(view) /\ AllOpen(view)
  BY <1>1 DEF ShowInv
<1>3. f.pending = view.pending /\ f.blocks = view.blocks /\ f.mark = view.mark /\ ViewOK(f)
  BY <1>2, OpenFlush
<1>4. d \in Nat
  BY DEF StreamInv
<1> HIDE DEF f, d
<1>5. Grown(view', f) /\ view'.mark = f.mark
  BY <1>1, <1>3, <1>4, TextGrows
<1>6. Grown(view', view) /\ view'.mark = view.mark
  BY <1>3, <1>5 DEF Grown
<1>7. Attempting /\ due = <<>>
  BY <1>1 DEF Attempting, EvidenceInv
<1> QED BY <1>1, <1>6, <1>7, GrowingStep

LEMMA StartToolsEvidence ==
  ASSUME EvidenceInv, ShowInv, StreamInv, DueInv, NEW calls \in Calls, StartTools(calls)
  PROVE  EvidenceInv'
<1> DEFINE p == Plan(calls)
           n == number.calls
           m == Len(calls)
<1>1. /\ due = <<>> /\ due' = p /\ pc' = "emit" /\ number'.calls = n + m
      /\ UNCHANGED <<view, results, unanswered>>
  <2>1. pc = "returned" /\ due' = p /\ pc' = "emit" /\ UNCHANGED <<view, results, unanswered>>
    BY DEF StartTools
  <2>2. number'.calls = n + m
    BY DEF StartTools, StreamInv
  <2> QED BY <2>1, <2>2 DEF EvidenceInv
<1>2. Ordered(p) /\ Awaited(p) = {} /\ m \in Nat /\ Between(p, n, n + m)
  BY PlanInOrder
<1>3. p \in Seq(Emitted) /\ n \in Nat
  BY PlanType DEF StreamInv
<1>4. /\ ViewOK(view) /\ Evidence(view, <<>>, results, unanswered) /\ Numbered(view, <<>>, n)
  BY <1>1 DEF ShowInv, EvidenceInv
<1>5. Awaited(<<>>) = {}
  BY NothingAwaited
<1> HIDE DEF p, n, m
<1>6. ASSUME NEW kinds, NEW k \in CallsOf(p, kinds) PROVE k \in Nat /\ n < k
  <2>1. PICK j \in DOMAIN p : k = p[j].call
    BY <1>6 DEF CallsOf
  <2>2. p[j].call \in Nat
    BY <1>3, StepNumbers
  <2> QED BY <1>2, <2>1, <2>2 DEF Between
<1>7. EntriesOK(view, p)
  <2>1. \A e \in view.pending : e.call \in Nat /\ e.call <= n
    BY <1>4 DEF Evidence, EntriesOK, Entry, Numbered
  <2>2. \A e \in view.pending : e.call \notin CallsOf(p, {"request"})
    BY <1>3, <1>6, <2>1
  <2> QED BY <1>4, <2>2 DEF Evidence, EntriesOK
<1>8. AllFresh(view, p)
  <2>1. \A k \in Nat : Spoken(view, k) => k <= n
    BY <1>4 DEF Numbered
  <2> QED BY <1>3, <1>6, <2>1 DEF AllFresh
<1>9. LinesStay(view, p, results) /\ AllOpened(view, p) /\ NoneLeft(view, p, unanswered)
  BY <1>2, <1>4, <1>5 DEF Evidence, LinesStay, LineStays, AllOpened, NoneLeft
<1>10. Evidence(view, p, results, unanswered)
  BY <1>4, <1>7, <1>8, <1>9 DEF Evidence
<1>11. Numbered(view, p, n + m)
  <2>1. \A e \in view.pending : e.call <= n + m
    <3>1. \A e \in view.pending : e.call \in Nat /\ e.call <= n
      BY <1>4 DEF Evidence, EntriesOK, Entry, Numbered
    <3> QED BY <1>2, <1>3, <3>1
  <2>2. \A k \in Nat : Spoken(view, k) => k <= n + m
    <3>1. \A k \in Nat : Spoken(view, k) => k <= n
      BY <1>4 DEF Numbered
    <3> QED BY <1>2, <1>3, <3>1
  <2>3. \A j \in DOMAIN p : p[j].call <= n + m
    BY <1>2 DEF Between
  <2> QED BY <2>1, <2>2, <2>3 DEF Numbered
<1> QED BY <1>1, <1>2, <1>10, <1>11, RestingStep DEF p, n, m

LEMMA EmitEvidence ==
  ASSUME EvidenceInv, ShowInv, StreamInv, DueInv, Emit
  PROVE  EvidenceInv'
<1> DEFINE e == Head(due)
           n == number.calls
           r == [call |-> e.call, tool |-> e.tool]
<1>1. /\ pc' = "emit" /\ due # <<>> /\ due' = Tail(due) /\ number' = number
      /\ view' = CASE e.kind = "request" -> Buffer(view, e.call, e.tool)
                   [] e.kind \in {"result", "stray"} -> Complete(view, e.call, e.tool, e.ok)
                   [] e.kind = "denied" -> Push(Flush(view), "note", <<>>)
      /\ results' = IF e.kind = "result" THEN results \cup {r} ELSE results
      /\ unanswered' = IF e.kind = "denied" THEN unanswered \cup {e.tool} ELSE unanswered
  BY DEF Emit
<1>2. /\ ViewOK(view) /\ due \in Seq(Emitted) /\ n \in Nat
      /\ Ordered(due) /\ Evidence(view, due, results, unanswered) /\ Numbered(view, due, n)
  BY DEF ShowInv, DueInv, StreamInv, EvidenceInv
<1>3. Ordered(due')
  BY <1>1, <1>2, TailOrdered
<1>4. e.kind \in {"request", "result", "stray", "denied"}
  <2>1. e \in Emitted
    BY <1>1, <1>2, HeadTailProperties
  <2> QED BY <2>1 DEF Emitted
<1>5. Evidence(view', due', results', unanswered') /\ Numbered(view', due', n)
  <2>1. CASE e.kind = "request"
    <3> DEFINE w == Buffer(view, e.call, e.tool)
    <3>1. Evidence(w, Tail(due), results, unanswered) /\ Numbered(w, Tail(due), n)
      BY <1>1, <1>2, <2>1, RequestEvidence
    <3>2. view' = w /\ results' = results /\ unanswered' = unanswered
      BY <1>1, <2>1
    <3> QED BY <1>1, <3>1, <3>2
  <2>2. CASE e.kind = "result"
    <3> DEFINE w == Complete(view, e.call, e.tool, e.ok)
    <3>1. Evidence(w, Tail(due), results \cup {r}, unanswered) /\ Numbered(w, Tail(due), n)
      BY <1>1, <1>2, <2>2, ResultEvidence
    <3>2. view' = w /\ results' = results \cup {r} /\ unanswered' = unanswered
      BY <1>1, <2>2
    <3> QED BY <1>1, <3>1, <3>2
  <2>3. CASE e.kind = "stray"
    <3> DEFINE w == Complete(view, e.call, e.tool, e.ok)
    <3>1. Evidence(w, Tail(due), results, unanswered) /\ Numbered(w, Tail(due), n)
      BY <1>1, <1>2, <2>3, StrayEvidence
    <3>2. view' = w /\ results' = results /\ unanswered' = unanswered
      BY <1>1, <2>3
    <3> QED BY <1>1, <3>1, <3>2
  <2>4. CASE e.kind = "denied"
    <3> DEFINE w == Push(Flush(view), "note", <<>>)
    <3>1. Evidence(w, Tail(due), results, unanswered \cup {e.tool}) /\ Numbered(w, Tail(due), n)
      BY <1>1, <1>2, <2>4, DeniedEvidence
    <3>2. view' = w /\ results' = results /\ unanswered' = unanswered \cup {e.tool}
      BY <1>1, <2>4
    <3> QED BY <1>1, <3>1, <3>2
  <2> QED BY <1>4, <2>1, <2>2, <2>3, <2>4
<1> QED BY <1>1, <1>3, <1>5, RestingStep

\* The user asks, or is told something.
LEMMA AskEvidence ==
  ASSUME EvidenceInv, ShowInv, StreamInv, DueInv, Ask \/ Notice
  PROVE  EvidenceInv'
<1>1. BlockOK(Block("user", <<>>)) /\ BlockOK(Block("note", <<>>)) /\ ViewOK(view)
  BY DEF Block, BlockOK, ShowInv
<1>2. number'.calls = number.calls
  BY DEF Ask, Notice, StreamInv
<1>3. CASE Ask
  <2>1. Grown(Spaced(view), view) /\ ViewOK(Spaced(view))
    BY <1>1, SpacedGrows
  <2>2. view' = Push(Spaced(view), "user", <<>>) /\ pc = "idle" /\ pc' = "turn" /\ UNCHANGED <<due, results, unanswered>>
    BY <1>3 DEF Ask, history
  <2>3. Grown(view', Spaced(view))
    BY <1>1, <2>1, <2>2, PushGrows
  <2>4. Grown(view', view)
    BY <2>1, <2>3, GrownAgain
  <2>5. due = <<>>
    BY <2>2 DEF EvidenceInv
  <2> QED BY <1>2, <2>2, <2>4, <2>5, GrowingStep
<1>4. CASE Notice
  <2>1. view' = Push(view, "note", <<>>) /\ UNCHANGED <<pc, due, results, unanswered>>
    BY <1>4 DEF Notice, history
  <2>2. Grown(view', view) /\ view'.mark = view.mark
    BY <1>1, <2>1, PushGrows
  <2>3. pc # "emit" => due = <<>>
    BY DEF EvidenceInv
  <2> QED BY <1>2, <2>1, <2>2, <2>3, GrowingStep DEF Attempting
<1> QED BY <1>3, <1>4

\* A step that leaves the view and what is due, within an attempt or out of it.
LEMMA SameEvidence ==
  ASSUME EvidenceInv, ShowInv, DueInv, UNCHANGED <<view, due, number, results, unanswered>>,
         pc' # "emit" => due = <<>>, pc' \in {"establish", "stream"} => Attempting
  PROVE  EvidenceInv'
<1>1. Grown(view', view)
  BY GrownSelf DEF ShowInv
<1> QED BY <1>1, GrowingStep

LEMMA NextEvidence == EvidenceInv /\ ShowInv /\ StreamInv /\ DueInv /\ [Next]_vars => EvidenceInv'
<1> SUFFICES ASSUME EvidenceInv, ShowInv, StreamInv, DueInv, [Next]_vars PROVE EvidenceInv'
  OBVIOUS
<1>d. pc # "emit" => due = <<>>
  BY DEF EvidenceInv
<1>0. ASSUME UNCHANGED vars PROVE EvidenceInv'
  BY <1>0, <1>d, SameEvidence DEF vars, history, Attempting
<1>1. ASSUME Refused \/ Answer \/ Stop PROVE EvidenceInv'
  <2>1. due = <<>> \/ (due # <<>> /\ Head(due).checked)
    BY <1>1, <1>d DEF Refused, Answer, Stop
  <2> QED BY <1>1, <2>1, OverEvidence DEF Refused, Answer, Stop
<1>2. ASSUME Established PROVE EvidenceInv'
  BY <1>2, <1>d, SameEvidence DEF Established, history, Attempting
<1>3. ASSUME NEW f, Respond(f) PROVE EvidenceInv'
  <2>1. pc = "establish" /\ due = <<>>
    BY <1>3, <1>d DEF Respond
  <2>2. CASE Truncated
    BY <2>1, <2>2, TruncatedEvidence
  <2>3. CASE pc' = "stream" /\ UNCHANGED <<due, view, number, history>>
    BY <2>1, <2>3, SameEvidence DEF history, Attempting
  <2> QED BY <1>3, <2>2, <2>3 DEF Respond
<1>4. ASSUME NEW f, Arrive(f) PROVE EvidenceInv'
  <2>1. pc = "stream" /\ due = <<>>
    BY <1>4, <1>d DEF Arrive
  <2>2. CASE Truncated
    BY <2>1, <2>2, TruncatedEvidence
  <2>3. CASE MidStream
    BY <2>1, <2>3, MidStreamEvidence
  <2>4. CASE UNCHANGED <<pc, due, view, number, history>>
    BY <2>1, <2>4, SameEvidence DEF history, Attempting
  <2> QED BY <1>4, <2>2, <2>3, <2>4 DEF Arrive
<1>5. ASSUME Drop PROVE EvidenceInv'
  BY <1>5, MidStreamEvidence DEF Drop
<1>6. ASSUME Return PROVE EvidenceInv'
  <2>1. due = <<>>
    BY <1>6, <1>d DEF Return
  <2>2. CASE Over("failed")
    BY <2>1, <2>2, OverEvidence
  <2>3. CASE pc' = "returned" /\ UNCHANGED <<due, view, number, history>>
    BY <2>1, <2>3, SameEvidence DEF history
  <2> QED BY <1>6, <2>2, <2>3 DEF Return
<1>7. ASSUME NextTurn PROVE EvidenceInv'
  BY <1>7, SameEvidence DEF NextTurn, history
<1> QED
  BY <1>0, <1>1, <1>2, <1>3, <1>4, <1>5, <1>6, <1>7, BeginEvidence, ShowEvidence,
     StartToolsEvidence, EmitEvidence, AskEvidence DEF Next

LEMMA EvidenceIsShown == EvidenceInv => EvidenceStays
<1> SUFFICES ASSUME EvidenceInv, NEW r \in results
             PROVE  /\ r.call \in ShownResults(view)
                    /\ r.tool \notin unanswered => \A pair \in Groups(view) : pair[2] = r.call => pair[1] = r.call
  BY DEF EvidenceStays
<1>1. r.call \in ShownResults(view)
  <2>1. PICK i \in DOMAIN view.blocks : r.call \in Tells(view.blocks[i])
    BY DEF EvidenceInv, Evidence, AllTold, Told
  <2>2. CASE view.blocks[i].kind = "result"
    BY <2>1, <2>2 DEF Tells, ShownResults
  <2>3. CASE view.blocks[i].kind = "group"
    <3>1. PICK pair \in view.blocks[i].text : r.call = pair[2]
      BY <2>1, <2>3 DEF Tells
    <3>2. pair \in Groups(view)
      BY <2>3, <3>1 DEF Groups
    <3> QED BY <3>1, <3>2 DEF ShownResults
  <2> QED BY <2>1, <2>2, <2>3 DEF Tells
<1>2. ASSUME r.tool \notin unanswered, NEW pair \in Groups(view), pair[2] = r.call PROVE pair[1] = r.call
  <2>1. PICK i \in DOMAIN view.blocks : view.blocks[i].kind = "group" /\ pair \in view.blocks[i].text
    BY DEF Groups
  <2>2. Beside(pair[1], pair[2], results, unanswered)
    BY <2>1 DEF EvidenceInv, Evidence, AllBeside
  <2> QED BY <1>2, <2>2 DEF Beside
<1> QED BY <1>1, <1>2

\* A result the tools gave stays on the screen, through folds, resets, stops
\* and the next request's blocks, and beside its own call in a folded group
\* (buffer_tool_request, buffer_tool_completion, flush_tool_buffer, rollback_attempt).
THEOREM EvidenceKept == Spec => []EvidenceStays
<1>1. Init => StreamInv /\ DueInv /\ ShowInv /\ EvidenceInv
  BY InitStream, InitShow, InitEvidence, EmptySeq DEF Init, DueInv
<1>2. StreamInv /\ DueInv /\ ShowInv /\ EvidenceInv /\ [Next]_vars
        => (StreamInv /\ DueInv /\ ShowInv /\ EvidenceInv)'
  BY NextStream, NextDue, NextShow, NextEvidence
<1> QED BY <1>1, <1>2, EvidenceIsShown, PTL DEF Spec
=============================================================================
