---------------------------- MODULE PipelinesProofs ----------------------------
(***************************************************************************)
(* Theorems about the pipelines that index a library, for any assets,       *)
(* workers and capacities of their channels.                                 *)
(* Recognition: a text is filed under the revision it was read at, and a     *)
(* pass accounts for every image of its selection.                           *)
(* The image index: vectors and frames are of the revision they are filed    *)
(* under, failure rows are of files that cannot be decoded, and a complete   *)
(* pass covers its selection.                                                *)
(* The asset catalog: a row holds what a probe of its very edition reads.    *)
(***************************************************************************)
EXTENDS OcrPipeline, ImagePipeline, CatalogPipeline, FiniteSetTheorems, SequenceTheorems, TLAPS

\* The selection as a sequence: every element once (SetToSeq).
LEMMA SetListed ==
    ASSUME NEW S, IsFiniteSet(S)
    PROVE  /\ SetToSeq(S) \in Seq(S) /\ DOMAIN SetToSeq(S) = 1 .. Len(SetToSeq(S))
           /\ \A i, j \in DOMAIN SetToSeq(S) : i # j => SetToSeq(S)[i] # SetToSeq(S)[j]
           /\ \A a \in S : \E i \in DOMAIN SetToSeq(S) : SetToSeq(S)[i] = a
<1> DEFINE n == Cardinality(S)
<1>1. n \in Nat /\ ExistsBijection(1 .. n, S)
  BY FS_CardinalityType
<1>2. PICK g \in [1 .. n -> S] : IsInjective(g)
  BY <1>1 DEF ExistsBijection, Bijection, Injection
<1>3. SetToSeq(S) \in [1 .. n -> S] /\ IsInjective(SetToSeq(S))
  BY <1>2 DEF SetToSeq
<1>4. IsFiniteSet(1 .. n) /\ Cardinality(1 .. n) = n
  BY <1>1, FS_Interval
<1>5. SetToSeq(S) \in Surjection(1 .. n, S)
  BY <1>3, <1>4, FS_Injection DEF Injection
<1>6. \A a \in S : \E i \in 1 .. n : SetToSeq(S)[i] = a
  BY <1>5 DEF Surjection
<1>7. ASSUME NEW f \in [1 .. n -> S]
      PROVE  f \in Seq(S) /\ Len(f) = n /\ DOMAIN f = 1 .. n
  <2>1. f \in Seq(S)
    BY <1>1
  <2> QED BY <1>1, <2>1, LenProperties
<1>8. SetToSeq(S) \in Seq(S) /\ DOMAIN SetToSeq(S) = 1 .. n /\ Len(SetToSeq(S)) = n
  BY <1>3, <1>7
<1> QED BY <1>3, <1>6, <1>8 DEF IsInjective

\* What a send adds to a channel, and what a receive takes from it.
LEMMA Sent ==
    ASSUME NEW S, NEW q \in Seq(S), NEW e \in S
    PROVE  /\ Append(q, e) \in Seq(S) /\ DOMAIN Append(q, e) = DOMAIN q \cup {Len(q) + 1}
           /\ Len(q) + 1 \notin DOMAIN q /\ Append(q, e)[Len(q) + 1] = e
           /\ \A k \in DOMAIN q : Append(q, e)[k] = q[k]
  BY AppendProperties, LenProperties

\* What a receive takes from a channel, and what it leaves there.
LEMMA Received ==
    ASSUME NEW S, NEW q \in Seq(S), q # <<>>
    PROVE  /\ Tail(q) \in Seq(S) /\ Head(q) \in S /\ Head(q) = q[1] /\ 1 \in DOMAIN q
           /\ \A k \in DOMAIN Tail(q) : k + 1 \in DOMAIN q /\ k + 1 # 1 /\ Tail(q)[k] = q[k + 1]
           /\ \A k \in DOMAIN q : k = 1 \/ (k - 1 \in DOMAIN Tail(q) /\ Tail(q)[k - 1] = q[k])
           /\ \A k, j \in DOMAIN Tail(q) : k # j => k + 1 # j + 1
  BY HeadTailProperties, LenProperties

-----------------------------------------------------------------------------
(* Recognition.                                                             *)

\* A send adds one image to those a channel names, and names it once.
LEMMA NamedSent ==
    ASSUME NEW S, NEW q \in Seq(S), NEW e \in S
    PROVE  /\ Named(Append(q, e)) = Named(q) \cup {e.image}
           /\ Once(q) /\ e.image \notin Named(q) => Once(Append(q, e))
  BY Sent DEF Named, Once

\* A receive takes the first image from those a channel names.
LEMMA NamedReceived ==
    ASSUME NEW S, NEW q \in Seq(S), q # <<>>
    PROVE  /\ Head(q).image \in Named(q)
           /\ Once(q) => Named(Tail(q)) = Named(q) \ {Head(q).image} /\ Once(Tail(q))
<1> USE Received DEF Named, Once
<1>1. Head(q).image \in Named(q)
  OBVIOUS
<1>2. ASSUME Once(q)
      PROVE  Once(Tail(q))
  BY <1>2
<1>3. ASSUME Once(q), NEW a \in Named(Tail(q))
      PROVE  a \in Named(q) \ {Head(q).image}
  BY <1>3
<1>4. ASSUME Once(q), NEW a \in Named(q) \ {Head(q).image}
      PROVE  a \in Named(Tail(q))
  <2>1. PICK k \in DOMAIN q : q[k].image = a
    BY <1>4
  <2>2. k - 1 \in DOMAIN Tail(q) /\ Tail(q)[k - 1] = q[k]
    BY <2>1, <1>4
  <2> QED BY <2>1, <2>2
<1> QED BY <1>1, <1>2, <1>3, <1>4

\* As many images as entries, when each is named once.
LEMMA NamedCounted ==
    ASSUME NEW S, NEW q \in Seq(S), Once(q)
    PROVE  IsFiniteSet(Named(q)) /\ Cardinality(Named(q)) = Len(q)
<1> DEFINE f == [k \in 1 .. Len(q) |-> q[k].image]
<1>1. Len(q) \in Nat /\ DOMAIN q = 1 .. Len(q)
  BY LenProperties
<1>2. IsFiniteSet(1 .. Len(q)) /\ Cardinality(1 .. Len(q)) = Len(q)
  BY <1>1, FS_Interval
<1>3. f \in Bijection(1 .. Len(q), Named(q))
  BY <1>1 DEF Bijection, Injection, Surjection, IsInjective, Named, Once
<1>4. ExistsBijection(1 .. Len(q), Named(q))
  BY <1>3 DEF ExistsBijection
<1> QED BY <1>2, <1>4, FS_Bijection

\* What the channel of outcomes says of images after a send and a receive.
LEMMA OutcomeSent ==
    ASSUME outcomeQueue \in Seq(OcrOutcomes), NEW e \in OcrOutcomes, outcomeQueue' = Append(outcomeQueue, e)
    PROVE  /\ Reported' = IF e.kind = "fatal" THEN Reported ELSE Reported \cup {e.image}
           /\ OnceReported /\ (e.kind = "fatal" \/ e.image \notin Reported) => OnceReported'
           /\ FatalQueued' <=> FatalQueued \/ e.kind = "fatal"
<1> USE Sent DEF Reported, About, OnceReported, FatalQueued
<1>1. About(outcomeQueue') = IF e.kind = "fatal" THEN About(outcomeQueue) ELSE About(outcomeQueue) \cup {Len(outcomeQueue) + 1}
  OBVIOUS
<1>2. \A k \in About(outcomeQueue) : outcomeQueue'[k] = outcomeQueue[k]
  OBVIOUS
<1>3. Reported' = IF e.kind = "fatal" THEN Reported ELSE Reported \cup {e.image}
  BY <1>1, <1>2
<1>4. OnceReported /\ (e.kind = "fatal" \/ e.image \notin Reported) => OnceReported'
  BY <1>1, <1>2
<1>5. FatalQueued' <=> FatalQueued \/ e.kind = "fatal"
  OBVIOUS
<1> QED BY <1>3, <1>4, <1>5

\* The coordinator takes the outcome of one image, or a fatal one.
LEMMA OutcomeReceived ==
    ASSUME outcomeQueue \in Seq(OcrOutcomes), outcomeQueue # <<>>, outcomeQueue' = Tail(outcomeQueue), OnceReported
    PROVE  /\ Reported' = IF Head(outcomeQueue).kind = "fatal" THEN Reported ELSE Reported \ {Head(outcomeQueue).image}
           /\ Head(outcomeQueue).kind # "fatal" => Head(outcomeQueue).image \in Reported
           /\ OnceReported'
           /\ FatalQueued <=> FatalQueued' \/ Head(outcomeQueue).kind = "fatal"
<1> DEFINE h == Head(outcomeQueue)
<1> USE Received DEF Reported, About, OnceReported, FatalQueued
<1>1. \A k \in About(outcomeQueue') : k + 1 \in About(outcomeQueue) /\ k + 1 # 1 /\ outcomeQueue'[k] = outcomeQueue[k + 1]
  OBVIOUS
<1>2. \A k \in About(outcomeQueue) : k = 1 \/ (k - 1 \in About(outcomeQueue') /\ outcomeQueue'[k - 1] = outcomeQueue[k])
  OBVIOUS
<1>3. h.kind # "fatal" => 1 \in About(outcomeQueue) /\ h.image \in Reported
  OBVIOUS
<1>4. h.kind = "fatal" => 1 \notin About(outcomeQueue)
  OBVIOUS
<1>5. OnceReported'
  BY <1>1
<1>6. ASSUME NEW a \in Reported'
      PROVE  a \in Reported /\ (h.kind # "fatal" => a # h.image)
  BY <1>1, <1>3
<1>7. ASSUME NEW a \in Reported, h.kind # "fatal" => a # h.image
      PROVE  a \in Reported'
  <2>1. PICK k \in About(outcomeQueue) : outcomeQueue[k].image = a
    OBVIOUS
  <2>2. k # 1
    BY <2>1, <1>4, <1>7
  <2>3. k - 1 \in About(outcomeQueue') /\ outcomeQueue'[k - 1].image = a
    BY <2>1, <2>2, <1>2
  <2> QED BY <2>3
<1>8. FatalQueued <=> FatalQueued' \/ h.kind = "fatal"
  <2>1. FatalQueued' => FatalQueued
    OBVIOUS
  <2>2. h.kind = "fatal" => FatalQueued
    OBVIOUS
  <2>3. ASSUME FatalQueued, h.kind # "fatal"
        PROVE  FatalQueued'
    <3>1. PICK k \in DOMAIN outcomeQueue : outcomeQueue[k].kind = "fatal"
      BY <2>3
    <3>2. k - 1 \in DOMAIN outcomeQueue' /\ outcomeQueue'[k - 1] = outcomeQueue[k]
      BY <3>1, <2>3
    <3> QED BY <3>1, <3>2
  <2> QED BY <2>1, <2>2, <2>3
<1> QED BY <1>3, <1>5, <1>6, <1>7, <1>8

-----------------------------------------------------------------------------
(* Workers of a recognition pass.                                           *)

\* A worker that moves changes what it holds and nothing that others hold.
LEMMA HandMoves ==
    ASSUME ocrWorker \in [OcrWorkers -> OcrWorkerStates], NEW w \in OcrWorkers, NEW s,
           ocrWorker' = [ocrWorker EXCEPT ![w] = s], OnceInHand
    PROVE  \E others : /\ InHands = others \cup InHand(ocrWorker[w]) /\ others \cap InHand(ocrWorker[w]) = {}
                       /\ InHands' = others \cup InHand(s)
                       /\ InHand(s) \cap others = {} => OnceInHand'
<1> DEFINE others == UNION {InHand(ocrWorker[x]) : x \in OcrWorkers \ {w}}
<1>1. ocrWorker'[w] = s /\ \A x \in OcrWorkers \ {w} : ocrWorker'[x] = ocrWorker[x]
  OBVIOUS
<1>2. InHands = others \cup InHand(ocrWorker[w])
  BY DEF InHands
<1>3. others \cap InHand(ocrWorker[w]) = {}
  BY DEF OnceInHand
<1>4. InHands' = others \cup InHand(s)
  BY <1>1 DEF InHands
<1>5. ASSUME InHand(s) \cap others = {}
      PROVE  OnceInHand'
  <2> SUFFICES ASSUME NEW x \in OcrWorkers, NEW y \in OcrWorkers, x # y
               PROVE  InHand(ocrWorker'[x]) \cap InHand(ocrWorker'[y]) = {}
    BY DEF OnceInHand
  <2>1. \A z \in OcrWorkers \ {w} : InHand(s) \cap InHand(ocrWorker[z]) = {}
    BY <1>5
  <2>2. CASE x = w
    BY <2>1, <2>2, <1>1
  <2>3. CASE y = w
    BY <2>1, <2>3, <1>1
  <2>4. CASE x # w /\ y # w
    BY <2>4, <1>1 DEF OnceInHand
  <2> QED BY <2>2, <2>3, <2>4
<1> QED BY <1>2, <1>3, <1>4, <1>5

\* The image a worker holds is one of the pass.
LEMMA HeldImages ==
    ASSUME NEW s \in OcrWorkerStates
    PROVE  InHand(s) \subseteq OcrImages
  BY DEF InHand, OcrWorkerStates, OcrWork, OcrOutcomes

\* Rows behind a count stay behind it when more images are accounted for.
LEMMA DurableKept ==
    ASSUME IndexedIsDurable, ocrIndexed \in Nat, UNCHANGED <<texts, ocrIndexed>>, ocrPass.pc # "idle",
           ocrPass'.row = ocrPass.row, accounted \subseteq accounted', accounted' \subseteq OcrImages
    PROVE  IndexedIsDurable'
<1> DEFINE D == {a \in accounted : texts[a].fp = ocrPass.row[a]}
           E == {a \in accounted' : texts'[a].fp = ocrPass'.row[a]}
<1>1. D \subseteq E /\ E \subseteq OcrImages
  OBVIOUS
<1>2. ocrIndexed <= Cardinality(D)
  BY DEF IndexedIsDurable
<1> HIDE DEF D
<1>3. IsFiniteSet(E)
  BY <1>1, OcrAssumption, FS_Subset
<1>4. Cardinality(D) <= Cardinality(E) /\ Cardinality(E) \in Nat /\ Cardinality(D) \in Nat
  BY <1>1, <1>3, FS_Subset, FS_CardinalityType
<1>5. ocrIndexed' <= Cardinality(E)
  BY <1>2, <1>4
<1> QED BY <1>5 DEF IndexedIsDurable

\* Whatever a worker does, what it read stays true, and so does what the pass claims.
LEMMA WorkerMoves ==
    ASSUME OcrTypeOK, ReadInv, IndexedIsDurable, ocrPass.pc = "receive",
           NEW w \in OcrWorkers, NEW s \in OcrWorkerStates, WorkerRead(s),
           ocrWorker' = [ocrWorker EXCEPT ![w] = s],
           UNCHANGED <<ocrFile, ocrRow, undecoded, texts, ocrPending, ocrCancel, ocrIndexed>>,
           ocrPass' = ocrPass \/ ocrPass' = [ocrPass EXCEPT !.next = @ + 1],
           accounted \subseteq accounted', accounted' \subseteq OcrImages, panicked' \in BOOLEAN,
           decodedQueue' \in Seq(OcrWork), \A k \in DOMAIN decodedQueue' : WasRead(decodedQueue'[k]),
           outcomeQueue' \in Seq(OcrOutcomes),
           \A k \in DOMAIN outcomeQueue' : outcomeQueue'[k].kind = "success" => WasRead(outcomeQueue'[k])
    PROVE  OcrTypeOK' /\ ReadInv' /\ IndexedIsDurable' /\ DoneInv' /\ ocrPass'.pc = "receive"
<1>1. /\ ocrPass' \in OcrPasses /\ ocrPass'.pc = "receive" /\ ocrPass'.row = ocrPass.row
      /\ ocrPass'.aborted = ocrPass.aborted /\ ocrPass'.fatal = ocrPass.fatal
      /\ ocrPass'.writeError = ocrPass.writeError
  <2>1. ocrPass \in OcrPasses
    BY DEF OcrTypeOK
  <2>2. CASE ocrPass' = ocrPass
    BY <2>1, <2>2
  <2>3. CASE ocrPass' = [ocrPass EXCEPT !.next = @ + 1]
    <3>1. /\ ocrPass.pc = "receive" /\ ocrPass.passes \in Nat /\ ocrPass.sources \in Seq(OcrImages)
          /\ ocrPass.next \in Nat \ {0} /\ ocrPass.row \in [OcrImages -> Nat]
          /\ ocrPass.fatal \in BOOLEAN /\ ocrPass.writeError \in BOOLEAN /\ ocrPass.aborted \in BOOLEAN
      BY <2>1 DEF OcrPasses
    <3>2. ocrPass' = [pc |-> "receive", passes |-> ocrPass.passes, sources |-> ocrPass.sources,
                      next |-> ocrPass.next + 1, row |-> ocrPass.row, fatal |-> ocrPass.fatal,
                      writeError |-> ocrPass.writeError, aborted |-> ocrPass.aborted]
      BY <2>1, <2>3, <3>1 DEF OcrPasses
    <3>3. ocrPass.next + 1 \in Nat \ {0}
      BY <3>1
    <3> QED BY <3>1, <3>2, <3>3 DEF OcrPasses
  <2> QED BY <2>2, <2>3
<1>2. OcrTypeOK'
  BY <1>1 DEF OcrTypeOK, OcrStopping
<1>3. \A x \in OcrWorkers : WorkerRead(ocrWorker'[x])
  BY DEF OcrTypeOK, ReadInv
<1>4. ReadInv'
  BY <1>1, <1>3 DEF ReadInv, WorkerRead, WasRead, NoNewer, OcrTypeOK
<1>5. IndexedIsDurable'
  BY <1>1, DurableKept DEF OcrTypeOK
<1>6. DoneInv'
  BY <1>1 DEF DoneInv
<1> QED BY <1>1, <1>2, <1>4, <1>5, <1>6

\* What holds of a worker that is at work.
LEMMA AtWork ==
    ASSUME OcrInv, NEW w \in OcrWorkers, ocrWorker[w].pc # "ended"
    PROVE  /\ ocrPass.pc = "receive" /\ ocrPass \in OcrPasses /\ ocrWorker[w] \in OcrWorkerStates
           /\ OcrTypeOK /\ ReadInv /\ IndexedIsDurable /\ OnceInv /\ (Unbroken => NoneLostInv)
           /\ panicked => FatalAhead \/ OcrStopping
           /\ \A k \in DOMAIN decodedQueue : WasRead(decodedQueue[k])
           /\ \A k \in DOMAIN outcomeQueue : outcomeQueue[k].kind = "success" => WasRead(outcomeQueue[k])
           /\ WorkerRead(ocrWorker[w])
<1>1. ocrPass.pc = "receive"
  BY DEF OcrInv, OcrTypeOK, OcrJoined
<1> QED BY <1>1 DEF OcrInv, OcrTypeOK, OcrPasses, ReadInv

\* A worker that claims the next image keeps the invariant.
LEMMA ClaimImageOK ==
    ASSUME OcrInv, NEW w \in Decoders, ClaimImage(w)
    PROVE  OcrInv'
<1> DEFINE a == ocrPass.sources[ocrPass.next]
           s == IF ocrPass' = ocrPass THEN [pc |-> "ended"] ELSE [pc |-> "decode", image |-> a]
<1> USE DEF ClaimImage, OcrTo
<1>1. w \in OcrWorkers /\ ocrWorker[w].pc = "claim"
  BY DEF OcrWorkers
<1>2. /\ ocrPass.pc = "receive" /\ ocrPass \in OcrPasses
      /\ OcrTypeOK /\ ReadInv /\ IndexedIsDurable /\ OnceInv /\ (Unbroken => NoneLostInv)
      /\ panicked => FatalAhead \/ OcrStopping
      /\ \A k \in DOMAIN decodedQueue : WasRead(decodedQueue[k])
      /\ \A k \in DOMAIN outcomeQueue : outcomeQueue[k].kind = "success" => WasRead(outcomeQueue[k])
  BY <1>1, AtWork
<1>3. /\ ocrPass.next \in Nat \ {0} /\ ocrPass.sources \in Seq(OcrImages)
      /\ DOMAIN ocrPass.sources = 1 .. Len(ocrPass.sources) /\ Len(ocrPass.sources) \in Nat
  BY <1>2, LenProperties DEF OcrPasses
<1>4. CASE /\ ocrPass.aborted \/ ocrCancel \/ ocrPass.next > Len(ocrPass.sources)
           /\ ocrWorker' = [ocrWorker EXCEPT ![w] = [pc |-> "ended"]] /\ ocrPass' = ocrPass
  <2> DEFINE r == [pc |-> "ended"]
  <2>1. r \in OcrWorkerStates /\ WorkerRead(r) /\ InHand(r) = {} /\ InHand(ocrWorker[w]) = {}
    BY <1>1 DEF OcrWorkerStates, WorkerRead, InHand
  <2>2. OcrTypeOK' /\ ReadInv' /\ IndexedIsDurable' /\ DoneInv' /\ ocrPass'.pc = "receive"
    <3>1. ocrWorker' = [ocrWorker EXCEPT ![w] = r]
      BY <1>4
    <3> HIDE DEF r
    <3>2. accounted \subseteq OcrImages /\ panicked \in BOOLEAN /\ decodedQueue \in Seq(OcrWork) /\ outcomeQueue \in Seq(OcrOutcomes)
      BY <1>2 DEF OcrTypeOK
    <3> QED BY <3>1, <3>2, <1>1, <1>2, <1>4, <2>1, WorkerMoves
  <2>3. InHands' = InHands /\ OnceInHand'
    <3>1. ocrWorker' = [ocrWorker EXCEPT ![w] = r] /\ ocrWorker \in [OcrWorkers -> OcrWorkerStates] /\ OnceInHand
      BY <1>2, <1>4 DEF OcrTypeOK, OnceInv
    <3> HIDE DEF r
    <3>2. PICK others : /\ InHands = others \cup InHand(ocrWorker[w]) /\ others \cap InHand(ocrWorker[w]) = {}
                        /\ InHands' = others \cup InHand(r)
                        /\ InHand(r) \cap others = {} => OnceInHand'
      BY <3>1, <1>1, HandMoves
    <3> QED BY <3>2, <3>1, <1>1, <2>1
  <2>4. UNCHANGED <<ocrPass, decodedQueue, outcomeQueue, ocrPending, accounted, ocrCancel, panicked>>
    BY <1>4
  <2>10. UNCHANGED <<ToClaim, OnceToClaim, Named(decodedQueue), Reported, Named(ocrPending), Once(decodedQueue), Once(ocrPending), OnceReported>>
    BY <2>4 DEF OnceToClaim, ToClaim, Named, Once, Reported, About, OnceReported
  <2>5. OnceInv'
    BY <2>3, <2>4, <2>10, <1>2 DEF OnceInv
  <2>6. FatalAhead' <=> FatalAhead
    BY <2>4, <1>1, <1>4, <1>2 DEF FatalAhead, FatalQueued, OcrTypeOK
  <2>7. ASSUME Unbroken' PROVE NoneLostInv'
    <3>1. NoneLostInv /\ ToClaim = {}
      BY <2>4, <2>6, <2>7, <1>2, <1>3, <1>4 DEF Unbroken, ToClaim
    <3>2. ~ \E x \in Replicas : ocrWorker[x].pc = "ended"
      BY <3>1, <1>1 DEF NoneLostInv, Running
    <3>3. ~ \E x \in Replicas : ocrWorker'[x].pc = "ended"
      BY <3>2, <1>4, <1>1, <1>2, OcrAssumption DEF OcrTypeOK, OcrWorkers
    <3> QED BY <3>1, <3>3, <2>3, <2>4, <2>10 DEF NoneLostInv
  <2> QED BY <2>2, <2>5, <2>6, <2>7, <2>4, <1>2 DEF OcrInv, OcrStopping
<1>5. CASE /\ ~(ocrPass.aborted \/ ocrCancel \/ ocrPass.next > Len(ocrPass.sources))
           /\ ocrWorker' = [ocrWorker EXCEPT ![w] = [pc |-> "decode", image |-> a]]
           /\ ocrPass' = [ocrPass EXCEPT !.next = @ + 1]
  <2> DEFINE r == [pc |-> "decode", image |-> a]
  <2>1. /\ a \in OcrImages /\ r \in OcrWorkerStates /\ WorkerRead(r)
        /\ InHand(r) = {a} /\ InHand(ocrWorker[w]) = {}
    BY <1>1, <1>3, <1>5, ElementOfSeq DEF OcrWorkerStates, WorkerRead, InHand
  <2>2. OcrTypeOK' /\ ReadInv' /\ IndexedIsDurable' /\ DoneInv' /\ ocrPass'.pc = "receive"
    <3>1. ocrWorker' = [ocrWorker EXCEPT ![w] = r]
      BY <1>5
    <3> HIDE DEF r
    <3>2. accounted \subseteq OcrImages /\ panicked \in BOOLEAN /\ decodedQueue \in Seq(OcrWork) /\ outcomeQueue \in Seq(OcrOutcomes)
      BY <1>2 DEF OcrTypeOK
    <3> QED BY <3>1, <3>2, <1>1, <1>2, <1>5, <2>1, WorkerMoves
  <2>3. a \in ToClaim /\ ToClaim' = ToClaim \ {a} /\ OnceToClaim'
    <3>1. ocrPass'.next = ocrPass.next + 1 /\ ocrPass'.sources = ocrPass.sources
      BY <1>2, <1>5 DEF OcrPasses
    <3>2. ocrPass.next \in ocrPass.next .. Len(ocrPass.sources)
      BY <1>3, <1>5
    <3>3. OnceToClaim
      BY <1>2 DEF OnceInv
    <3>4. \A k : k \in ocrPass.next .. Len(ocrPass.sources) <=>
                    k = ocrPass.next \/ k \in (ocrPass.next + 1) .. Len(ocrPass.sources)
      BY <1>3, <1>5
    <3>5. ocrPass.next \notin (ocrPass.next + 1) .. Len(ocrPass.sources)
      BY <1>3
    <3> QED BY <3>1, <3>2, <3>3, <3>4, <3>5 DEF ToClaim, OnceToClaim
  <2>4. InHands' = InHands \cup {a} /\ OnceInHand'
    <3>1. a \notin InHands
      BY <2>3, <1>2 DEF OnceInv
    <3>2. ocrWorker' = [ocrWorker EXCEPT ![w] = r] /\ ocrWorker \in [OcrWorkers -> OcrWorkerStates] /\ OnceInHand
      BY <1>2, <1>5 DEF OcrTypeOK, OnceInv
    <3> HIDE DEF r
    <3>3. PICK others : /\ InHands = others \cup InHand(ocrWorker[w]) /\ others \cap InHand(ocrWorker[w]) = {}
                        /\ InHands' = others \cup InHand(r)
                        /\ InHand(r) \cap others = {} => OnceInHand'
      BY <3>1, <3>2, <1>1, HandMoves
    <3> QED BY <3>3, <3>1, <3>2, <1>1, <2>1
  <2>5. UNCHANGED <<decodedQueue, outcomeQueue, ocrPending, accounted, ocrCancel, panicked>>
    BY <1>5
  <2>6. UNCHANGED <<Named(decodedQueue), Reported, Named(ocrPending), Once(decodedQueue), Once(ocrPending), OnceReported>>
    BY <2>5 DEF Named, Once, Reported, About, OnceReported
  <2>7. OnceInv'
    BY <2>3, <2>4, <2>5, <2>6, <1>2 DEF OnceInv
  <2>8. FatalAhead' <=> FatalAhead
    BY <2>5, <1>1, <1>5, <1>2 DEF FatalAhead, FatalQueued, OcrTypeOK
  <2>9. ASSUME Unbroken' PROVE NoneLostInv'
    <3>1. NoneLostInv
      BY <2>5, <2>8, <2>9, <1>2, <1>5 DEF Unbroken
    <3>2. \A x \in OcrWorkers : ocrWorker'[x].pc = "ended" <=> ocrWorker[x].pc = "ended"
      BY <1>1, <1>2, <1>5 DEF OcrTypeOK
    <3> QED BY <3>1, <3>2, <2>3, <2>4, <2>5, <2>6 DEF NoneLostInv, Running, OcrWorkers
  <2>10. OcrStopping' <=> OcrStopping
    BY <1>2, <1>5 DEF OcrStopping, OcrPasses
  <2> QED BY <2>2, <2>7, <2>8, <2>9, <2>10, <2>5, <1>2 DEF OcrInv
<1> QED BY <1>4, <1>5

\* A worker that keeps the images where they were, or moves its own on, keeps
\* the invariant.
LEMMA WorkerStep ==
    ASSUME OcrInv, NEW w \in OcrWorkers, ocrWorker[w].pc # "ended",
           NEW s \in OcrWorkerStates, WorkerRead(s), ocrWorker' = [ocrWorker EXCEPT ![w] = s],
           UNCHANGED <<ocrFile, ocrRow, undecoded, texts, ocrPass, ocrPending, ocrCancel, ocrIndexed>>,
           accounted \subseteq accounted', accounted' \subseteq OcrImages, panicked' \in BOOLEAN,
           decodedQueue' \in Seq(OcrWork), \A k \in DOMAIN decodedQueue' : WasRead(decodedQueue'[k]),
           outcomeQueue' \in Seq(OcrOutcomes),
           \A k \in DOMAIN outcomeQueue' : outcomeQueue'[k].kind = "success" => WasRead(outcomeQueue'[k]),
           InHand(s) \cup Named(decodedQueue') \cup Reported' \cup accounted'
               \subseteq InHand(ocrWorker[w]) \cup Named(decodedQueue) \cup Reported \cup accounted,
           InHand(s) \cap (Named(decodedQueue') \cup Reported' \cup accounted') = {},
           Named(decodedQueue') \cap (Reported' \cup accounted') = {}, Reported' \cap accounted' = {},
           Once(decodedQueue'), OnceReported',
           FatalAhead \/ (panicked' /\ ~panicked) => FatalAhead' \/ ocrPass.aborted,
           Unbroken' =>
               InHand(ocrWorker[w]) \cup Named(decodedQueue) \cup Reported \cup accounted
                   \subseteq InHand(s) \cup Named(decodedQueue') \cup Reported' \cup accounted',
           Unbroken' /\ NoneLostInv =>
               /\ (\E d \in Decoders : ocrWorker'[d].pc = "ended") => ToClaim = {}
               /\ (\E r \in Replicas : ocrWorker'[r].pc = "ended") => decodedQueue' = <<>> /\ \A d \in Decoders : ocrWorker'[d].pc = "ended"
    PROVE  OcrInv'
<1>1. /\ ocrPass.pc = "receive" /\ ocrPass \in OcrPasses
      /\ OcrTypeOK /\ ReadInv /\ IndexedIsDurable /\ OnceInv /\ (Unbroken => NoneLostInv)
      /\ panicked => FatalAhead \/ OcrStopping
  BY AtWork
<1>2. OcrTypeOK' /\ ReadInv' /\ IndexedIsDurable' /\ DoneInv' /\ ocrPass'.pc = "receive"
  BY <1>1, WorkerMoves
<1>3. ocrWorker \in [OcrWorkers -> OcrWorkerStates] /\ OnceInHand /\ Once(ocrPending) /\ OnceToClaim
  BY <1>1 DEF OcrTypeOK, OnceInv
<1>4. PICK others : /\ InHands = others \cup InHand(ocrWorker[w]) /\ others \cap InHand(ocrWorker[w]) = {}
                    /\ InHands' = others \cup InHand(s)
                    /\ InHand(s) \cap others = {} => OnceInHand'
  BY <1>3, HandMoves
<1>5. UNCHANGED <<ToClaim, OnceToClaim, Named(ocrPending), Once(ocrPending)>>
  BY DEF OnceToClaim, ToClaim, Named, Once
<1>6. Named(decodedQueue)' = Named(decodedQueue') /\ Once(decodedQueue)' = Once(decodedQueue')
  BY DEF Named, Once
<1> DEFINE old == InHand(ocrWorker[w]) \cup Named(decodedQueue) \cup Reported \cup accounted
           new == InHand(s) \cup Named(decodedQueue') \cup Reported' \cup accounted'
<1>7. /\ (ToClaim \cup others \cup Named(ocrPending)) \cap old = {}
      /\ ToClaim \cap (others \cup Named(ocrPending)) = {} /\ others \cap Named(ocrPending) = {}
  BY <1>1, <1>4 DEF OnceInv
<1>8. (ToClaim \cup others \cup Named(ocrPending)) \cap new = {}
  BY <1>7
<1>9. OnceInv'
  <2>1. OnceInHand'
    BY <1>8, <1>4
  <2>2. ToClaim \cap (others \cup new \cup Named(ocrPending)) = {}
    BY <1>7, <1>8
  <2>3. others \cap (Named(decodedQueue') \cup Reported' \cup accounted' \cup Named(ocrPending)) = {}
    BY <1>7, <1>8
  <2>4. Named(ocrPending) \cap (InHand(s) \cup Named(decodedQueue') \cup Reported' \cup accounted') = {}
    BY <1>8
  <2> QED BY <2>1, <2>2, <2>3, <2>4, <1>3, <1>4, <1>5, <1>6 DEF OnceInv
<1>10. Unbroken' => Unbroken
  BY DEF Unbroken
<1>11. ASSUME Unbroken' PROVE NoneLostInv'
  <2>1. NoneLostInv
    BY <1>1, <1>10, <1>11
  <2>2. OcrImages \subseteq ToClaim \cup others \cup Named(ocrPending) \cup new
    BY <2>1, <1>4, <1>11 DEF NoneLostInv
  <2>3. OcrImages \subseteq ToClaim' \cup InHands' \cup Named(decodedQueue)' \cup Reported' \cup Named(ocrPending)' \cup accounted'
    BY <2>2, <1>4, <1>5, <1>6
  <2> QED BY <2>1, <2>3, <1>11, <1>5 DEF NoneLostInv, Running
<1>12. panicked' => FatalAhead' \/ OcrStopping'
  BY <1>1 DEF OcrStopping, OcrTypeOK
<1> QED BY <1>2, <1>9, <1>11, <1>12 DEF OcrInv

\* What a step that leaves the channels alone leaves alone.
LEMMA ChannelsKept ==
    ASSUME UNCHANGED <<decodedQueue, outcomeQueue>>
    PROVE  /\ Named(decodedQueue') = Named(decodedQueue) /\ Once(decodedQueue') = Once(decodedQueue)
           /\ Reported' = Reported /\ OnceReported' = OnceReported /\ FatalQueued' = FatalQueued
  BY DEF Named, Once, Reported, OnceReported, About, FatalQueued

\* Which worker ended, and whether one carries bad news, after a worker moved.
LEMMA OthersKept ==
    ASSUME ocrWorker \in [OcrWorkers -> OcrWorkerStates], NEW w \in OcrWorkers, NEW s,
           ocrWorker' = [ocrWorker EXCEPT ![w] = s]
    PROVE  /\ \A x \in OcrWorkers : ocrWorker'[x] = IF x = w THEN s ELSE ocrWorker[x]
           /\ \A x \in Decoders \cup Replicas : x \in OcrWorkers
  BY DEF OcrWorkers

\* A worker that panics keeps the invariant: its image is reported lost.
LEMMA WorkerPanicsOK ==
    ASSUME OcrInv, NEW w \in OcrWorkers, WorkerPanics(w)
    PROVE  OcrInv'
<1> DEFINE s == [pc |-> "report", outcome |-> [kind |-> "fatal"]]
<1>1. /\ OcrTypeOK /\ OnceInv /\ ocrWorker[w].pc # "ended" /\ ocrWorker[w] \in OcrWorkerStates
      /\ \A k \in DOMAIN decodedQueue : WasRead(decodedQueue[k])
      /\ \A k \in DOMAIN outcomeQueue : outcomeQueue[k].kind = "success" => WasRead(outcomeQueue[k])
  BY AtWork DEF WorkerPanics
<1>2. ocrWorker' = [ocrWorker EXCEPT ![w] = s] /\ panicked' = TRUE
      /\ UNCHANGED <<ocrFile, ocrRow, undecoded, texts, ocrPass, decodedQueue, outcomeQueue,
                     ocrPending, ocrCancel, ocrIndexed, accounted>>
  BY DEF WorkerPanics, OcrTo
<1>3. s \in OcrWorkerStates /\ WorkerRead(s) /\ InHand(s) = {}
  BY DEF OcrWorkerStates, OcrOutcomes, WorkerRead, InHand
<1>4. FatalAhead'
  BY <1>1, <1>2, OthersKept DEF OcrTypeOK, FatalAhead
<1>5. ~Unbroken'
  BY <1>4 DEF Unbroken
<1> HIDE DEF s
<1> QED BY <1>1, <1>2, <1>3, <1>4, <1>5, WorkerStep, ChannelsKept DEF OcrTypeOK, OnceInv

\* A decoder that reads an image, or fails to, keeps the invariant.
LEMMA DecodeOneOK ==
    ASSUME OcrInv, NEW w \in Decoders, DecodeOne(w)
    PROVE  OcrInv'
<1> DEFINE a == ocrWorker[w].image
           v == ocrFile[a]
<1>0. w \in OcrWorkers /\ ocrWorker[w].pc = "decode"
  BY DEF OcrWorkers, DecodeOne
<1>1. /\ OcrTypeOK /\ OnceInv /\ ReadInv /\ ocrWorker[w].pc # "ended" /\ ocrWorker[w] \in OcrWorkerStates
      /\ \A k \in DOMAIN decodedQueue : WasRead(decodedQueue[k])
      /\ \A k \in DOMAIN outcomeQueue : outcomeQueue[k].kind = "success" => WasRead(outcomeQueue[k])
      /\ ocrPass.pc = "receive"
  BY <1>0, AtWork
<1>2. PICK s :
          /\ ocrWorker' = [ocrWorker EXCEPT ![w] = s] /\ accounted' = (IF v = 0 THEN accounted \cup {a} ELSE accounted)
          /\ UNCHANGED <<ocrFile, ocrRow, undecoded, texts, ocrPass, decodedQueue, outcomeQueue,
                         ocrPending, ocrCancel, ocrIndexed, panicked>>
          /\ \/ v = 0 /\ s = [pc |-> "claim"]
             \/ v # 0 /\ s = [pc |-> "report", outcome |-> [kind |-> "decode", image |-> a]]
             \/ v # 0 /\ s = [pc |-> "pass", work |-> [image |-> a, seen |-> v]]
  BY DEF DecodeOne, OcrTo
<1>3. a \in OcrImages /\ InHand(ocrWorker[w]) = {a}
  BY <1>0, <1>1 DEF OcrWorkerStates, InHand
<1>4. v \in Nat /\ NoNewer(a, ocrPass.row[a])
  BY <1>1, <1>3 DEF OcrTypeOK, ReadInv
<1>5. /\ s \in OcrWorkerStates /\ WorkerRead(s) /\ s.pc # "ended"
      /\ ~(s.pc = "report" /\ s.outcome.kind = "fatal")
      /\ InHand(s) = IF v = 0 THEN {} ELSE {a}
  <2>1. CASE v = 0 /\ s = [pc |-> "claim"]
    BY <2>1 DEF OcrWorkerStates, WorkerRead, InHand
  <2>2. CASE v # 0 /\ s = [pc |-> "report", outcome |-> [kind |-> "decode", image |-> a]]
    BY <2>2, <1>3 DEF OcrWorkerStates, OcrOutcomes, WorkerRead, InHand
  <2>3. CASE v # 0 /\ s = [pc |-> "pass", work |-> [image |-> a, seen |-> v]]
    <3>1. WasRead(s.work)
      BY <2>3, <1>4 DEF WasRead, NoNewer
    <3> QED BY <3>1, <1>3, <1>4, <2>3 DEF OcrWorkerStates, OcrWork, WorkerRead, InHand
  <2> QED BY <1>2, <2>1, <2>2, <2>3
<1>6. \A x \in OcrWorkers : ocrWorker'[x] = IF x = w THEN s ELSE ocrWorker[x]
  BY <1>0, <1>1, <1>2, OthersKept DEF OcrTypeOK
<1>7. FatalAhead' <=> FatalAhead
  BY <1>0, <1>2, <1>5, <1>6, ChannelsKept DEF FatalAhead
<1>8. InHand(ocrWorker[w]) \cap (Named(decodedQueue) \cup Reported \cup accounted) = {}
      /\ Named(decodedQueue) \cap (Reported \cup accounted) = {} /\ Reported \cap accounted = {}
      /\ Once(decodedQueue) /\ OnceReported
  BY <1>0, <1>1 DEF OnceInv, InHands
<1>9. NoneLostInv =>
        /\ (\E d \in Decoders : ocrWorker'[d].pc = "ended") => ToClaim = {}
        /\ (\E r \in Replicas : ocrWorker'[r].pc = "ended") => decodedQueue' = <<>> /\ \A d \in Decoders : ocrWorker'[d].pc = "ended"
  BY <1>0, <1>2, <1>5, <1>6 DEF NoneLostInv, Running, OcrWorkers
<1>10. accounted' \subseteq OcrImages /\ panicked' \in BOOLEAN /\ decodedQueue' \in Seq(OcrWork) /\ outcomeQueue' \in Seq(OcrOutcomes)
  BY <1>1, <1>2, <1>3 DEF OcrTypeOK
<1>11. InHand(s) \cup accounted' = InHand(ocrWorker[w]) \cup accounted /\ InHand(s) \cap accounted' = {}
  BY <1>2, <1>3, <1>5, <1>8
<1> QED BY <1>0, <1>1, <1>2, <1>5, <1>7, <1>8, <1>9, <1>10, <1>11, WorkerStep, ChannelsKept

\* A decoder that hands its image to recognition keeps the invariant.
LEMMA PassDecodedOK ==
    ASSUME OcrInv, NEW w \in Decoders, PassDecoded(w)
    PROVE  OcrInv'
<1> DEFINE item == ocrWorker[w].work
<1>0. w \in OcrWorkers /\ ocrWorker[w].pc = "pass"
  BY DEF OcrWorkers, PassDecoded
<1>1. /\ OcrTypeOK /\ OnceInv /\ ReadInv /\ ocrWorker[w].pc # "ended" /\ ocrWorker[w] \in OcrWorkerStates
      /\ \A k \in DOMAIN decodedQueue : WasRead(decodedQueue[k])
      /\ \A k \in DOMAIN outcomeQueue : outcomeQueue[k].kind = "success" => WasRead(outcomeQueue[k])
      /\ ocrPass.pc = "receive" /\ WorkerRead(ocrWorker[w])
  BY <1>0, AtWork
<1>2. item \in OcrWork /\ InHand(ocrWorker[w]) = {item.image} /\ WasRead(item) /\ item.image \in OcrImages
  BY <1>0, <1>1 DEF OcrWorkerStates, InHand, WorkerRead, OcrWork
<1>3. UNCHANGED <<ocrFile, ocrRow, undecoded, texts, ocrPass, outcomeQueue, ocrPending, ocrCancel,
                  ocrIndexed, accounted, panicked>>
  BY DEF PassDecoded
<1>4. InHand(ocrWorker[w]) \cap (Named(decodedQueue) \cup Reported \cup accounted) = {}
      /\ Named(decodedQueue) \cap (Reported \cup accounted) = {} /\ Reported \cap accounted = {}
      /\ Once(decodedQueue) /\ OnceReported
  BY <1>0, <1>1 DEF OnceInv, InHands
<1>5. Reported' = Reported /\ OnceReported' = OnceReported /\ FatalQueued' = FatalQueued
  BY <1>3 DEF Reported, OnceReported, About, FatalQueued
<1>6. accounted' \subseteq OcrImages /\ panicked' \in BOOLEAN /\ decodedQueue \in Seq(OcrWork) /\ outcomeQueue' \in Seq(OcrOutcomes)
  BY <1>1, <1>3 DEF OcrTypeOK
<1>7. CASE /\ Running(Replicas) /\ decodedQueue' = Append(decodedQueue, item)
           /\ ocrWorker' = [ocrWorker EXCEPT ![w] = [pc |-> "claim"]]
  <2> DEFINE s == [pc |-> "claim"]
  <2>1. s \in OcrWorkerStates /\ WorkerRead(s) /\ InHand(s) = {} /\ s.pc = "claim"
    BY DEF OcrWorkerStates, WorkerRead, InHand
  <2>2. ocrWorker' = [ocrWorker EXCEPT ![w] = s]
    BY <1>7
  <2> HIDE DEF s
  <2>3. \A x \in OcrWorkers : ocrWorker'[x] = IF x = w THEN s ELSE ocrWorker[x]
    BY <1>0, <1>1, <2>2, OthersKept DEF OcrTypeOK
  <2>4. FatalAhead' <=> FatalAhead
    BY <1>0, <1>5, <2>1, <2>3 DEF FatalAhead
  <2>5. Named(decodedQueue') = Named(decodedQueue) \cup {item.image} /\ Once(decodedQueue')
    BY <1>2, <1>4, <1>6, <1>7, NamedSent
  <2>6. decodedQueue' \in Seq(OcrWork) /\ \A k \in DOMAIN decodedQueue' : WasRead(decodedQueue'[k])
    BY <1>1, <1>2, <1>6, <1>7, Sent
  <2>7. NoneLostInv =>
          /\ (\E d \in Decoders : ocrWorker'[d].pc = "ended") => ToClaim = {}
          /\ (\E r \in Replicas : ocrWorker'[r].pc = "ended") => decodedQueue' = <<>> /\ \A d \in Decoders : ocrWorker'[d].pc = "ended"
    <3>1. NoneLostInv => \A r \in Replicas : ocrWorker[r].pc # "ended"
      BY <1>0 DEF NoneLostInv, Running
    <3> QED BY <3>1, <1>0, <2>1, <2>3 DEF NoneLostInv, OcrWorkers
  <2>8. FatalAhead \/ (panicked' /\ ~panicked) => FatalAhead' \/ ocrPass.aborted
    BY <2>4, <1>3
  <2> QED BY <1>0, <1>1, <1>2, <1>3, <1>4, <1>5, <1>6, <2>1, <2>2, <2>5, <2>6, <2>7, <2>8, WorkerStep
<1>8. CASE /\ ocrPass.aborted \/ ~Running(Replicas)
           /\ ocrWorker' = [ocrWorker EXCEPT ![w] = [pc |-> "ended"]] /\ decodedQueue' = decodedQueue
  <2> DEFINE s == [pc |-> "ended"]
  <2>1. s \in OcrWorkerStates /\ WorkerRead(s) /\ InHand(s) = {}
    BY DEF OcrWorkerStates, WorkerRead, InHand
  <2>2. ocrWorker' = [ocrWorker EXCEPT ![w] = s]
    BY <1>8
  <2>3. \A x \in OcrWorkers : ocrWorker'[x] = IF x = w THEN s ELSE ocrWorker[x]
    BY <1>0, <1>1, <2>2, OthersKept DEF OcrTypeOK
  <2>4. FatalAhead' <=> FatalAhead
    BY <1>0, <1>5, <2>3 DEF FatalAhead
  <2> HIDE DEF s
  <2>5. Named(decodedQueue') = Named(decodedQueue) /\ Once(decodedQueue') /\ decodedQueue' \in Seq(OcrWork)
    BY <1>4, <1>6, <1>8
  <2>6. \A k \in DOMAIN decodedQueue' : WasRead(decodedQueue'[k])
    BY <1>1, <1>8
  <2>7. ~Unbroken'
    <3>1. SUFFICES ASSUME Unbroken' PROVE FALSE
      OBVIOUS
    <3>2. Unbroken
      BY <3>1, <1>3, <2>4 DEF Unbroken
    <3>3. NoneLostInv /\ \A r \in Replicas : ocrWorker[r].pc = "ended"
      BY <3>2, <1>0, <1>8, AtWork DEF Unbroken, Running
    <3>4. ~Running(Decoders)
      BY <3>3, OcrAssumption DEF NoneLostInv
    <3> QED BY <3>4, <1>0 DEF Running
  <2>8. FatalAhead \/ (panicked' /\ ~panicked) => FatalAhead' \/ ocrPass.aborted
    BY <2>4, <1>3
  <2> QED BY <1>0, <1>1, <1>2, <1>3, <1>4, <1>5, <1>6, <2>1, <2>2, <2>5, <2>6, <2>7, <2>8, WorkerStep
<1> QED BY <1>7, <1>8 DEF PassDecoded, OcrTo

\* A recognizer that takes a decoded image keeps the invariant.
LEMMA TakeDecodedOK ==
    ASSUME OcrInv, NEW w \in Replicas, TakeDecoded(w)
    PROVE  OcrInv'
<1> DEFINE item == Head(decodedQueue)
<1>0. w \in OcrWorkers /\ ocrWorker[w].pc = "take"
  BY DEF OcrWorkers, TakeDecoded
<1>1. /\ OcrTypeOK /\ OnceInv /\ ReadInv /\ ocrWorker[w].pc # "ended" /\ ocrWorker[w] \in OcrWorkerStates
      /\ \A k \in DOMAIN decodedQueue : WasRead(decodedQueue[k])
      /\ \A k \in DOMAIN outcomeQueue : outcomeQueue[k].kind = "success" => WasRead(outcomeQueue[k])
      /\ ocrPass.pc = "receive" /\ InHand(ocrWorker[w]) = {}
  BY <1>0, AtWork DEF InHand
<1>3. UNCHANGED <<ocrFile, ocrRow, undecoded, texts, ocrPass, outcomeQueue, ocrPending, ocrCancel,
                  ocrIndexed, accounted, panicked>>
  BY DEF TakeDecoded
<1>4. Named(decodedQueue) \cap (Reported \cup accounted) = {} /\ Reported \cap accounted = {}
      /\ Once(decodedQueue) /\ OnceReported
  BY <1>0, <1>1 DEF OnceInv
<1>5. Reported' = Reported /\ OnceReported' = OnceReported /\ FatalQueued' = FatalQueued
  BY <1>3 DEF Reported, OnceReported, About, FatalQueued
<1>6. accounted' \subseteq OcrImages /\ panicked' \in BOOLEAN /\ decodedQueue \in Seq(OcrWork) /\ outcomeQueue' \in Seq(OcrOutcomes)
  BY <1>1, <1>3 DEF OcrTypeOK
<1>7. CASE /\ decodedQueue # <<>> /\ decodedQueue' = Tail(decodedQueue)
           /\ ocrWorker' = [ocrWorker EXCEPT ![w] =
                  IF ocrCancel THEN [pc |-> "take"] ELSE [pc |-> "infer", work |-> item]]
  <2> DEFINE s == IF ocrCancel THEN [pc |-> "take"] ELSE [pc |-> "infer", work |-> item]
  <2>1. item \in OcrWork /\ WasRead(item) /\ decodedQueue' \in Seq(OcrWork)
        /\ \A k \in DOMAIN decodedQueue' : WasRead(decodedQueue'[k])
    BY <1>1, <1>6, <1>7, Received
  <2>2. /\ s \in OcrWorkerStates /\ WorkerRead(s) /\ s.pc \in {"take", "infer"}
        /\ InHand(s) = IF ocrCancel THEN {} ELSE {item.image}
    BY <2>1 DEF OcrWorkerStates, WorkerRead, InHand
  <2>3. ocrWorker' = [ocrWorker EXCEPT ![w] = s]
    BY <1>7
  <2> HIDE DEF s
  <2>4. \A x \in OcrWorkers : ocrWorker'[x] = IF x = w THEN s ELSE ocrWorker[x]
    BY <1>0, <1>1, <2>3, OthersKept DEF OcrTypeOK
  <2>5. FatalAhead' <=> FatalAhead
    BY <1>0, <1>5, <2>2, <2>4 DEF FatalAhead
  <2>6. item.image \in Named(decodedQueue) /\ Named(decodedQueue') = Named(decodedQueue) \ {item.image} /\ Once(decodedQueue')
    BY <1>4, <1>6, <1>7, NamedReceived
  <2>7. Unbroken' /\ NoneLostInv =>
          /\ (\E d \in Decoders : ocrWorker'[d].pc = "ended") => ToClaim = {}
          /\ (\E r \in Replicas : ocrWorker'[r].pc = "ended") => decodedQueue' = <<>> /\ \A d \in Decoders : ocrWorker'[d].pc = "ended"
    BY <1>0, <1>7, <2>2, <2>4 DEF NoneLostInv, Running, OcrWorkers
  <2>8. FatalAhead \/ (panicked' /\ ~panicked) => FatalAhead' \/ ocrPass.aborted
    BY <2>5, <1>3
  <2>9. Unbroken' => InHand(s) = {item.image}
    BY <2>2, <1>3 DEF Unbroken
  <2>10. /\ InHand(s) \cup Named(decodedQueue') \cup Reported' \cup accounted'
              \subseteq InHand(ocrWorker[w]) \cup Named(decodedQueue) \cup Reported \cup accounted
         /\ InHand(s) \cap (Named(decodedQueue') \cup Reported' \cup accounted') = {}
         /\ Named(decodedQueue') \cap (Reported' \cup accounted') = {} /\ Reported' \cap accounted' = {}
         /\ accounted \subseteq accounted' /\ Once(decodedQueue') /\ OnceReported'
    BY <1>1, <1>3, <1>4, <1>5, <2>2, <2>6
  <2>11. Unbroken' => InHand(ocrWorker[w]) \cup Named(decodedQueue) \cup Reported \cup accounted
                         \subseteq InHand(s) \cup Named(decodedQueue') \cup Reported' \cup accounted'
    BY <1>1, <1>3, <1>5, <2>6, <2>9
  <2>12. \A k \in DOMAIN outcomeQueue' : outcomeQueue'[k].kind = "success" => WasRead(outcomeQueue'[k])
    BY <1>1, <1>3 DEF WasRead, NoNewer
  <2> QED BY <1>0, <1>1, <1>3, <1>6, <2>1, <2>2, <2>3, <2>7, <2>8, <2>10, <2>11, <2>12, WorkerStep
<1>8. CASE /\ ocrPass.aborted \/ (decodedQueue = <<>> /\ ~Running(Decoders))
           /\ ocrWorker' = [ocrWorker EXCEPT ![w] = [pc |-> "ended"]] /\ decodedQueue' = decodedQueue
  <2> DEFINE s == [pc |-> "ended"]
  <2>1. s \in OcrWorkerStates /\ WorkerRead(s) /\ InHand(s) = {}
    BY DEF OcrWorkerStates, WorkerRead, InHand
  <2>2. ocrWorker' = [ocrWorker EXCEPT ![w] = s]
    BY <1>8
  <2>3. \A x \in OcrWorkers : ocrWorker'[x] = IF x = w THEN s ELSE ocrWorker[x]
    BY <1>0, <1>1, <2>2, OthersKept DEF OcrTypeOK
  <2>4. FatalAhead' <=> FatalAhead
    BY <1>0, <1>5, <2>3 DEF FatalAhead
  <2>5. Named(decodedQueue') = Named(decodedQueue) /\ Once(decodedQueue') /\ decodedQueue' \in Seq(OcrWork)
    BY <1>4, <1>6, <1>8
  <2>6. \A k \in DOMAIN decodedQueue' : WasRead(decodedQueue'[k])
    BY <1>1, <1>8
  <2>7. Unbroken' /\ NoneLostInv =>
          /\ (\E d \in Decoders : ocrWorker'[d].pc = "ended") => ToClaim = {}
          /\ (\E r \in Replicas : ocrWorker'[r].pc = "ended") => decodedQueue' = <<>> /\ \A d \in Decoders : ocrWorker'[d].pc = "ended"
    <3>1. Unbroken' => decodedQueue = <<>> /\ ~Running(Decoders)
      BY <1>3, <1>8 DEF Unbroken
    <3>2. \A d \in Decoders : d # w
      BY OcrAssumption
    <3> QED BY <3>1, <3>2, <1>8, <2>3 DEF NoneLostInv, Running, OcrWorkers
  <2>8. FatalAhead \/ (panicked' /\ ~panicked) => FatalAhead' \/ ocrPass.aborted
    BY <2>4, <1>3
  <2> HIDE DEF s
  <2> QED BY <1>0, <1>1, <1>3, <1>4, <1>5, <1>6, <2>1, <2>2, <2>5, <2>6, <2>7, <2>8, WorkerStep
<1> QED BY <1>7, <1>8 DEF TakeDecoded, OcrTo

\* A recognizer that reads the text of an image keeps the invariant.
LEMMA ScanAssetOK ==
    ASSUME OcrInv, NEW w \in Replicas, ScanAsset(w)
    PROVE  OcrInv'
<1>0. w \in OcrWorkers /\ ocrWorker[w].pc = "infer"
  BY DEF OcrWorkers, ScanAsset
<1> DEFINE item == ocrWorker[w].work
<1>1. /\ OcrTypeOK /\ OnceInv /\ ReadInv /\ ocrWorker[w].pc # "ended" /\ ocrWorker[w] \in OcrWorkerStates
      /\ \A k \in DOMAIN decodedQueue : WasRead(decodedQueue[k])
      /\ \A k \in DOMAIN outcomeQueue : outcomeQueue[k].kind = "success" => WasRead(outcomeQueue[k])
      /\ ocrPass.pc = "receive" /\ WorkerRead(ocrWorker[w])
  BY <1>0, AtWork
<1>2. PICK kind \in {"success", "item"} :
        ocrWorker' = [ocrWorker EXCEPT ![w] =
            [pc |-> "report", outcome |-> [kind |-> kind, image |-> item.image, seen |-> item.seen]]]
  BY DEF ScanAsset, OcrTo
<1> DEFINE o == [kind |-> kind, image |-> item.image, seen |-> item.seen]
           s == [pc |-> "report", outcome |-> o]
<1>3. item \in OcrWork /\ InHand(ocrWorker[w]) = {item.image} /\ WasRead(item)
  BY <1>0, <1>1 DEF OcrWorkerStates, InHand, WorkerRead
<1>4. o \in OcrOutcomes /\ WasRead(o)
  BY <1>3 DEF OcrOutcomes, OcrWork, WasRead
<1>5. /\ s \in OcrWorkerStates /\ WorkerRead(s) /\ s.pc = "report" /\ s.outcome.kind # "fatal"
      /\ InHand(s) = {item.image}
  BY <1>4 DEF OcrWorkerStates, WorkerRead, InHand
<1>6. ocrWorker' = [ocrWorker EXCEPT ![w] = s]
      /\ UNCHANGED <<ocrFile, ocrRow, undecoded, texts, ocrPass, decodedQueue, outcomeQueue, ocrPending, ocrCancel,
                     ocrIndexed, accounted, panicked>>
  BY <1>2 DEF ScanAsset
<1> HIDE DEF s
<1>7. \A x \in OcrWorkers : ocrWorker'[x] = IF x = w THEN s ELSE ocrWorker[x]
  BY <1>0, <1>1, <1>6, OthersKept DEF OcrTypeOK
<1>8. FatalAhead' <=> FatalAhead
  BY <1>0, <1>5, <1>6, <1>7, ChannelsKept DEF FatalAhead
<1>9. NoneLostInv =>
        /\ (\E d \in Decoders : ocrWorker'[d].pc = "ended") => ToClaim = {}
        /\ (\E r \in Replicas : ocrWorker'[r].pc = "ended") => decodedQueue' = <<>> /\ \A d \in Decoders : ocrWorker'[d].pc = "ended"
  BY <1>0, <1>5, <1>6, <1>7 DEF NoneLostInv, Running, OcrWorkers
<1>10. InHand(ocrWorker[w]) \cap (Named(decodedQueue) \cup Reported \cup accounted) = {}
      /\ Named(decodedQueue) \cap (Reported \cup accounted) = {} /\ Reported \cap accounted = {}
      /\ Once(decodedQueue) /\ OnceReported
  BY <1>0, <1>1 DEF OnceInv, InHands
<1>11. accounted' \subseteq OcrImages /\ panicked' \in BOOLEAN /\ decodedQueue' \in Seq(OcrWork) /\ outcomeQueue' \in Seq(OcrOutcomes)
  BY <1>1, <1>6 DEF OcrTypeOK
<1> QED BY <1>0, <1>1, <1>3, <1>5, <1>6, <1>8, <1>9, <1>10, <1>11, WorkerStep, ChannelsKept

\* A worker that reports its outcome keeps the invariant.
LEMMA ReportOutcomeOK ==
    ASSUME OcrInv, NEW w \in OcrWorkers, ReportOutcome(w)
    PROVE  OcrInv'
<1> DEFINE o == ocrWorker[w].outcome
<1>0. ocrWorker[w].pc = "report"
  BY DEF ReportOutcome
<1>1. /\ OcrTypeOK /\ OnceInv /\ ReadInv /\ ocrWorker[w].pc # "ended" /\ ocrWorker[w] \in OcrWorkerStates
      /\ \A k \in DOMAIN decodedQueue : WasRead(decodedQueue[k])
      /\ \A k \in DOMAIN outcomeQueue : outcomeQueue[k].kind = "success" => WasRead(outcomeQueue[k])
      /\ ocrPass.pc = "receive" /\ WorkerRead(ocrWorker[w])
  BY <1>0, AtWork
<1>2. /\ o \in OcrOutcomes /\ (o.kind = "success" => WasRead(o))
      /\ InHand(ocrWorker[w]) = IF o.kind = "fatal" THEN {} ELSE {o.image}
  BY <1>0, <1>1 DEF OcrWorkerStates, InHand, WorkerRead
<1>3. UNCHANGED <<ocrFile, ocrRow, undecoded, texts, ocrPass, decodedQueue, ocrPending, ocrCancel,
                  ocrIndexed, accounted, panicked>>
  BY DEF ReportOutcome
<1>4. InHand(ocrWorker[w]) \cap (Named(decodedQueue) \cup Reported \cup accounted) = {}
      /\ Named(decodedQueue) \cap (Reported \cup accounted) = {} /\ Reported \cap accounted = {}
      /\ Once(decodedQueue) /\ OnceReported
  BY <1>0, <1>1 DEF OnceInv, InHands
<1>5. Named(decodedQueue') = Named(decodedQueue) /\ Once(decodedQueue') = Once(decodedQueue)
  BY <1>3 DEF Named, Once
<1>6. accounted' \subseteq OcrImages /\ panicked' \in BOOLEAN /\ decodedQueue' \in Seq(OcrWork) /\ outcomeQueue \in Seq(OcrOutcomes)
  BY <1>1, <1>3 DEF OcrTypeOK
<1>7. CASE /\ outcomeQueue' = Append(outcomeQueue, o)
           /\ ocrWorker' = [ocrWorker EXCEPT ![w] =
                [pc |-> IF o.kind = "fatal" THEN "ended" ELSE IF w \in Decoders THEN "claim" ELSE "take"]]
  <2> DEFINE pc == IF o.kind = "fatal" THEN "ended" ELSE IF w \in Decoders THEN "claim" ELSE "take"
             s == [pc |-> pc]
  <2>1. pc \in {"claim", "take", "ended"} /\ (pc = "ended" => o.kind = "fatal")
    OBVIOUS
  <2> HIDE DEF pc
  <2>2. s \in OcrWorkerStates /\ WorkerRead(s) /\ InHand(s) = {} /\ s.pc \in {"claim", "take", "ended"} /\ s.pc = pc
    BY <2>1 DEF OcrWorkerStates, WorkerRead, InHand
  <2>3. ocrWorker' = [ocrWorker EXCEPT ![w] = s]
    BY <1>7 DEF pc
  <2> HIDE DEF s
  <2>4. \A x \in OcrWorkers : ocrWorker'[x] = IF x = w THEN s ELSE ocrWorker[x]
    BY <1>1, <2>3, OthersKept DEF OcrTypeOK
  <2>5. /\ Reported' = IF o.kind = "fatal" THEN Reported ELSE Reported \cup {o.image}
        /\ OnceReported' /\ (FatalQueued' <=> FatalQueued \/ o.kind = "fatal")
    BY <1>2, <1>4, <1>6, <1>7, OutcomeSent
  <2>6. outcomeQueue' \in Seq(OcrOutcomes)
        /\ \A k \in DOMAIN outcomeQueue' : outcomeQueue'[k].kind = "success" => WasRead(outcomeQueue'[k])
    BY <1>1, <1>2, <1>6, <1>7, Sent
  <2>7. FatalAhead => FatalAhead'
    BY <2>4, <2>5 DEF FatalAhead
  <2>8. Unbroken' => s.pc # "ended"
    BY <2>1, <2>2, <2>5 DEF Unbroken, FatalAhead
  <2>9. Unbroken' /\ NoneLostInv =>
          /\ (\E d \in Decoders : ocrWorker'[d].pc = "ended") => ToClaim = {}
          /\ (\E r \in Replicas : ocrWorker'[r].pc = "ended") => decodedQueue' = <<>> /\ \A d \in Decoders : ocrWorker'[d].pc = "ended"
    BY <1>0, <1>3, <2>4, <2>8 DEF NoneLostInv, Running, OcrWorkers
  <2>10. FatalAhead \/ (panicked' /\ ~panicked) => FatalAhead' \/ ocrPass.aborted
    BY <2>7, <1>3
  <2>11. InHand(s) \cup Named(decodedQueue') \cup Reported' \cup accounted'
           = InHand(ocrWorker[w]) \cup Named(decodedQueue) \cup Reported \cup accounted
    BY <1>2, <1>3, <1>5, <2>2, <2>5
  <2>12. Named(decodedQueue') \cap (Reported' \cup accounted') = {} /\ Reported' \cap accounted' = {}
    BY <1>2, <1>3, <1>4, <1>5, <2>5
  <2>13. \A k \in DOMAIN decodedQueue' : WasRead(decodedQueue'[k])
    BY <1>1, <1>3
  <2> QED BY <1>1, <1>3, <1>4, <1>5, <1>6, <2>2, <2>3, <2>5, <2>6, <2>9, <2>10, <2>11, <2>12, <2>13, WorkerStep
<1>8. CASE ocrPass.aborted /\ ocrWorker' = [ocrWorker EXCEPT ![w] = [pc |-> "ended"]] /\ outcomeQueue' = outcomeQueue
  <2> DEFINE s == [pc |-> "ended"]
  <2>1. s \in OcrWorkerStates /\ WorkerRead(s) /\ InHand(s) = {}
    BY DEF OcrWorkerStates, WorkerRead, InHand
  <2>2. ocrWorker' = [ocrWorker EXCEPT ![w] = s]
    BY <1>8
  <2> HIDE DEF s
  <2>3. ~Unbroken'
    BY <1>3, <1>8 DEF Unbroken
  <2>4. Reported' = Reported /\ OnceReported' = OnceReported /\ outcomeQueue' \in Seq(OcrOutcomes)
    BY <1>3, <1>6, <1>8, ChannelsKept
  <2>5. \A k \in DOMAIN decodedQueue' : WasRead(decodedQueue'[k])
    BY <1>1, <1>3
  <2>6. \A k \in DOMAIN outcomeQueue' : outcomeQueue'[k].kind = "success" => WasRead(outcomeQueue'[k])
    BY <1>1, <1>8
  <2> QED BY <1>1, <1>3, <1>4, <1>5, <1>6, <1>8, <2>1, <2>2, <2>3, <2>4, <2>5, <2>6, WorkerStep
<1> QED BY <1>7, <1>8 DEF ReportOutcome, OcrTo

-----------------------------------------------------------------------------
(* The coordinator of a recognition pass.                                   *)

\* A transaction that commits files the texts of its images and counts each once.
LEMMA ChunkFlushed ==
    ASSUME OcrTypeOK, ReadInv, IndexedIsDurable, ocrPass \in OcrPasses, ocrPass.pc # "idle",
           NEW q \in Seq([kind : {"success"}, image : OcrImages, seen : Nat]), Once(q),
           Named(q) \cap accounted = {}, \A k \in DOMAIN q : WasRead(q[k]),
           NEW saved \in BOOLEAN, FlushChunk(q, saved), ocrPass'.row = ocrPass.row
    PROVE  /\ texts' \in [OcrImages -> [fp : Nat, seen : Nat]] /\ ocrIndexed' \in Nat
           /\ accounted' = IF saved THEN accounted \cup Named(q) ELSE accounted
           /\ accounted' \subseteq OcrImages
           /\ \A a \in OcrImages : texts'[a].fp <= texts'[a].seen /\ NoNewer(a, texts'[a].seen)
           /\ IndexedIsDurable'
<1> DEFINE Result == [kind : {"success"}, image : OcrImages, seen : Nat]
<1>1. /\ texts \in [OcrImages -> [fp : Nat, seen : Nat]] /\ ocrIndexed \in Nat /\ accounted \subseteq OcrImages
      /\ ocrPass.row \in [OcrImages -> Nat]
  BY DEF OcrTypeOK, OcrPasses
<1>2. Len(q) \in Nat /\ DOMAIN q = 1 .. Len(q) /\ \A k \in DOMAIN q : q[k] \in Result
  <2>1. q \in Seq(Result)
    OBVIOUS
  <2> HIDE DEF Result
  <2> QED BY <2>1, LenProperties, ElementOfSeq
<1>3. Named(q) \subseteq OcrImages
  BY <1>2 DEF Named
<1>4. accounted' = IF saved THEN accounted \cup Named(q) ELSE accounted
  BY DEF FlushChunk, Named
<1>5. ToSet(q) = {q[k] : k \in DOMAIN q}
  BY DEF ToSet
<1>6. ASSUME saved, NEW a \in OcrImages
      PROVE  /\ a \notin Named(q) => texts'[a] = texts[a]
             /\ a \in Named(q) => \E k \in DOMAIN q : q[k].image = a /\ texts'[a] = Filed(q[k])
  <2>1. texts'[a] = IF \E k \in DOMAIN q : q[k].image = a
                    THEN Filed(CHOOSE r \in ToSet(q) : r.image = a) ELSE texts[a]
    BY <1>6 DEF FlushChunk
  <2>2. CASE \E k \in DOMAIN q : q[k].image = a
    <3> DEFINE c == CHOOSE r \in ToSet(q) : r.image = a
    <3>1. c \in ToSet(q) /\ c.image = a
      BY <2>2, <1>5
    <3>2. texts'[a] = Filed(c)
      BY <2>1, <2>2
    <3> HIDE DEF c
    <3> QED BY <3>1, <3>2, <2>2, <1>5 DEF Named
  <2>3. CASE ~ \E k \in DOMAIN q : q[k].image = a
    BY <2>1, <2>3 DEF Named
  <2> QED BY <2>2, <2>3
<1>7. ASSUME NEW k \in DOMAIN q
      PROVE  /\ Filed(q[k]) \in [fp : Nat, seen : Nat] /\ Filed(q[k]).fp <= Filed(q[k]).seen
             /\ Filed(q[k]).fp = ocrPass.row[q[k].image] /\ NoNewer(q[k].image, Filed(q[k]).seen)
  BY <1>1, <1>2 DEF Filed, WasRead
<1>8. DOMAIN texts' = OcrImages /\ texts' \in [OcrImages -> [fp : Nat, seen : Nat]]
  <2>1. CASE ~saved
    BY <2>1, <1>1 DEF FlushChunk
  <2>2. CASE saved
    <3>1. texts' = [a \in OcrImages |-> texts'[a]]
      BY <2>2 DEF FlushChunk
    <3>2. ASSUME NEW a \in OcrImages PROVE texts'[a] \in [fp : Nat, seen : Nat]
      <4>1. CASE a \in Named(q)
        <5>1. PICK k \in DOMAIN q : texts'[a] = Filed(q[k])
          BY <4>1, <2>2, <1>6
        <5> QED BY <5>1, <1>7
      <4>2. CASE a \notin Named(q)
        <5>1. texts'[a] = texts[a]
          BY <4>2, <2>2, <1>6
        <5> QED BY <5>1, <1>1
      <4> QED BY <4>1, <4>2
    <3> QED BY <3>1, <3>2
  <2> QED BY <2>1, <2>2
<1>9. ASSUME NEW a \in OcrImages PROVE texts'[a].fp <= texts'[a].seen /\ NoNewer(a, texts'[a].seen)
  <2>1. CASE ~saved \/ a \notin Named(q)
    <3>1. texts'[a] = texts[a]
      BY <2>1, <1>6 DEF FlushChunk
    <3> QED BY <3>1 DEF ReadInv
  <2>2. CASE saved /\ a \in Named(q)
    BY <2>2, <1>6, <1>7
  <2> QED BY <2>1, <2>2
<1>10. accounted' \subseteq OcrImages
  BY <1>1, <1>3, <1>4
<1>11. ocrIndexed' \in Nat /\ ocrIndexed' = ocrIndexed + (IF saved THEN Len(q) ELSE 0)
  BY <1>1, <1>2 DEF FlushChunk, Published
<1> DEFINE D == {a \in accounted : texts[a].fp = ocrPass.row[a]}
           E == {a \in accounted' : texts'[a].fp = ocrPass.row[a]}
<1>12. IsFiniteSet(D) /\ IsFiniteSet(E) /\ Cardinality(D) \in Nat /\ Cardinality(E) \in Nat
  <2>1. D \subseteq OcrImages /\ E \subseteq OcrImages
    BY <1>1, <1>10
  <2> QED BY <2>1, OcrAssumption, FS_Subset, FS_CardinalityType
<1>13. ocrIndexed <= Cardinality(D)
  BY DEF IndexedIsDurable
<1>14. ocrIndexed' <= Cardinality(E)
  <2>1. CASE ~saved
    <3>1. D = E
      BY <2>1, <1>4 DEF FlushChunk
    <3> HIDE DEF D, E
    <3> QED BY <3>1, <2>1, <1>1, <1>11, <1>13
  <2>2. CASE saved
    <3>1. Named(q) \subseteq E
      BY <2>2, <1>3, <1>4, <1>6, <1>7
    <3>2. D \subseteq E
      BY <2>2, <1>1, <1>4, <1>6
    <3>3. D \cap Named(q) = {}
      OBVIOUS
    <3>4. IsFiniteSet(Named(q)) /\ Cardinality(Named(q)) = Len(q)
      BY NamedCounted
    <3>5. Cardinality(D \cup Named(q)) = Cardinality(D) + Len(q)
      <4>1. Cardinality(D \cup Named(q)) = Cardinality(D) + Cardinality(Named(q)) - Cardinality(D \cap Named(q))
        BY <1>12, <3>4, FS_Union
      <4>2. Cardinality(D \cap Named(q)) = 0
        BY <3>3, FS_EmptySet
      <4> QED BY <4>1, <4>2, <3>4, <1>2, <1>12
    <3>6. Cardinality(D \cup Named(q)) <= Cardinality(E)
      BY <3>1, <3>2, <1>12, FS_Subset
    <3> HIDE DEF D, E
    <3> QED BY <3>5, <3>6, <2>2, <1>1, <1>2, <1>11, <1>12, <1>13
  <2> QED BY <2>1, <2>2
<1>15. IndexedIsDurable'
  BY <1>14 DEF IndexedIsDurable
<1> QED BY <1>4, <1>8, <1>9, <1>10, <1>11, <1>15

\* The images an outcome is about.
ImageOf(outcome) == IF outcome.kind = "fatal" THEN {} ELSE {outcome.image}

\* A coordinator that takes an outcome keeps its image, or the pass has failed.
LEMMA OutcomeTaken ==
    ASSUME OcrInv, ocrPass.pc = "receive", outcomeQueue # <<>>, outcomeQueue' = Tail(outcomeQueue),
           UNCHANGED <<ocrFile, ocrRow, ocrWorker, decodedQueue, ocrCancel, panicked>>,
           ocrPass' \in OcrPasses, ocrPass'.pc = "receive", ocrPass'.row = ocrPass.row,
           ocrPass'.next = ocrPass.next, ocrPass'.sources = ocrPass.sources,
           OcrStopping => OcrStopping', ocrPass'.aborted <=> OcrStopping',
           Head(outcomeQueue).kind = "fatal" => OcrStopping',
           undecoded' \in [OcrImages -> Nat], texts' \in [OcrImages -> [fp : Nat, seen : Nat]],
           \A a \in OcrImages : texts'[a].fp <= texts'[a].seen /\ NoNewer(a, texts'[a].seen),
           ocrPending' \in Seq([kind : {"success"}, image : OcrImages, seen : Nat]),
           \A k \in DOMAIN ocrPending' : WasRead(ocrPending'[k]), Once(ocrPending'),
           ocrIndexed' \in Nat, accounted' \subseteq OcrImages, IndexedIsDurable',
           Named(ocrPending') \cup accounted' \subseteq Named(ocrPending) \cup accounted \cup ImageOf(Head(outcomeQueue)),
           Named(ocrPending') \cap accounted' = {},
           ~OcrStopping' => Named(ocrPending) \cup accounted \cup ImageOf(Head(outcomeQueue)) \subseteq Named(ocrPending') \cup accounted'
    PROVE  OcrInv'
<1> DEFINE i == ImageOf(Head(outcomeQueue))
<1>1. /\ OcrTypeOK /\ ReadInv /\ OnceInv /\ (Unbroken => NoneLostInv)
      /\ panicked => FatalAhead \/ OcrStopping
  BY DEF OcrInv
<1>2. /\ outcomeQueue \in Seq(OcrOutcomes) /\ outcomeQueue' \in Seq(OcrOutcomes)
      /\ \A k \in DOMAIN outcomeQueue' : k + 1 \in DOMAIN outcomeQueue /\ outcomeQueue'[k] = outcomeQueue[k + 1]
  BY <1>1, Received DEF OcrTypeOK
<1>3. OcrTypeOK'
  BY <1>1, <1>2 DEF OcrTypeOK
<1>4. \A k \in DOMAIN outcomeQueue' : outcomeQueue'[k].kind = "success" => WasRead(outcomeQueue'[k])
  BY <1>1, <1>2 DEF ReadInv
<1>5. ReadInv'
  BY <1>1, <1>4 DEF ReadInv, WorkerRead, WasRead, NoNewer
<1>6. /\ Reported' = Reported \ i /\ i \subseteq Reported /\ OnceReported'
      /\ FatalQueued => FatalQueued' \/ Head(outcomeQueue).kind = "fatal"
      /\ FatalQueued' => FatalQueued
  BY <1>1, <1>2, OutcomeReceived DEF OnceInv, ImageOf
<1>7. UNCHANGED <<ToClaim, OnceToClaim, InHands, OnceInHand, Named(decodedQueue), Once(decodedQueue)>>
  BY DEF OnceToClaim, ToClaim, InHands, OnceInHand, Named, Once
<1>8. Named(ocrPending)' = Named(ocrPending') /\ Once(ocrPending)' = Once(ocrPending')
  BY DEF Named, Once
<1> HIDE DEF i
<1>9. OnceInv'
  <2>1. /\ (ToClaim \cup InHands \cup Named(decodedQueue)) \cap (Reported \cup Named(ocrPending) \cup accounted) = {}
        /\ Reported \cap (Named(ocrPending) \cup accounted) = {}
    BY <1>1 DEF OnceInv
  <2>2. Named(ocrPending') \cup accounted' \subseteq Named(ocrPending) \cup accounted \cup i
    BY DEF i
  <2>3. (ToClaim \cup InHands \cup Named(decodedQueue)) \cap (Reported' \cup Named(ocrPending') \cup accounted') = {}
    BY <2>1, <2>2, <1>6
  <2>4. Reported' \cap (Named(ocrPending') \cup accounted') = {}
    BY <2>1, <2>2, <1>6
  <2> QED BY <2>3, <2>4, <1>1, <1>6, <1>7, <1>8 DEF OnceInv
<1>10. ASSUME Unbroken' PROVE NoneLostInv'
  <2>1. ~OcrStopping' /\ Head(outcomeQueue).kind # "fatal" /\ ~OcrStopping
    BY <1>10 DEF Unbroken
  <2>2. Unbroken
    BY <2>1, <1>1, <1>6, <1>10 DEF Unbroken, FatalAhead, OcrTypeOK
  <2>3. NoneLostInv
    BY <2>2, <1>1
  <2>4. Reported \cup Named(ocrPending) \cup accounted \subseteq Reported' \cup Named(ocrPending') \cup accounted'
    BY <2>1, <1>6 DEF i
  <2> QED BY <2>3, <2>4, <1>7, <1>8 DEF NoneLostInv, Running
<1>11. panicked' => FatalAhead' \/ OcrStopping'
  BY <1>1, <1>6 DEF FatalAhead
<1>12. DoneInv'
  BY DEF DoneInv
<1> QED BY <1>3, <1>5, <1>9, <1>10, <1>11, <1>12 DEF OcrInv

\* The coordinator that stores an outcome, or stops at a fatal one, keeps the invariant.
LEMMA CoordinatorReceivesOK ==
    ASSUME OcrInv, CoordinatorReceives
    PROVE  OcrInv'
<1> DEFINE o == Head(outcomeQueue)
           Result == [kind : {"success"}, image : OcrImages, seen : Nat]
<1>1. /\ OcrTypeOK /\ ReadInv /\ OnceInv /\ IndexedIsDurable
      /\ ocrPass.pc = "receive" /\ ocrPass \in OcrPasses /\ outcomeQueue # <<>>
      /\ outcomeQueue \in Seq(OcrOutcomes)
      /\ undecoded \in [OcrImages -> Nat] /\ texts \in [OcrImages -> [fp : Nat, seen : Nat]]
      /\ ocrPending \in Seq(Result) /\ ocrIndexed \in Nat /\ accounted \subseteq OcrImages
      /\ ocrPass.aborted <=> OcrStopping
  BY DEF CoordinatorReceives, OcrInv, OcrTypeOK
<1>2. /\ outcomeQueue' = Tail(outcomeQueue)
      /\ UNCHANGED <<ocrFile, ocrRow, ocrWorker, decodedQueue, ocrCancel, panicked>>
  BY DEF CoordinatorReceives
<1>3. /\ o \in OcrOutcomes /\ (o.kind = "success" => o \in Result /\ WasRead(o))
      /\ o.kind # "fatal" => o.image \in OcrImages
  <2>1. o \in OcrOutcomes /\ o = outcomeQueue[1] /\ 1 \in DOMAIN outcomeQueue
    BY <1>1, Received
  <2>2. o.kind = "success" => WasRead(o)
    BY <2>1, <1>1 DEF ReadInv
  <2> QED BY <2>1, <2>2 DEF OcrOutcomes
<1>4. \A a \in OcrImages : texts[a].fp <= texts[a].seen /\ NoNewer(a, texts[a].seen)
  BY <1>1 DEF ReadInv
<1>5. (\A k \in DOMAIN ocrPending : WasRead(ocrPending[k])) /\ Once(ocrPending)
  BY <1>1 DEF ReadInv, OnceInv
<1>6. Named(ocrPending) \cap accounted = {} /\ ImageOf(o) \cap (Named(ocrPending) \cup accounted) = {}
      /\ ImageOf(o) = IF o.kind = "fatal" THEN {} ELSE {o.image}
  <2>1. ImageOf(o) \subseteq Reported
    BY <1>1, <1>2, OutcomeReceived DEF OnceInv, ImageOf
  <2> QED BY <2>1, <1>1 DEF OnceInv, ImageOf
<1> HIDE DEF o, Result
<1>7. CASE /\ o.kind = "fatal" /\ ocrPass' = [ocrPass EXCEPT !.fatal = @ \/ IsFatal(o), !.aborted = @ \/ IsFatal(o)]
           /\ UNCHANGED <<undecoded, texts, ocrPending, ocrIndexed, accounted>>
  <2>1. IsFatal(o) = TRUE
    BY <1>7 DEF IsFatal
  <2>2. ocrPass' = [ocrPass EXCEPT !.fatal = TRUE, !.aborted = TRUE]
    BY <2>1, <1>1, <1>7 DEF OcrPasses
  <2>3. /\ ocrPass' \in OcrPasses /\ ocrPass'.pc = "receive" /\ ocrPass'.row = ocrPass.row
        /\ ocrPass'.next = ocrPass.next /\ ocrPass'.sources = ocrPass.sources
        /\ ocrPass'.aborted = TRUE /\ ocrPass'.fatal = TRUE
    BY <2>2, <1>1 DEF OcrPasses
  <2>4. OcrStopping' /\ IndexedIsDurable'
    BY <2>3, <1>1, <1>7 DEF OcrStopping, IndexedIsDurable
  <2> QED BY <2>3, <2>4, <1>1, <1>2, <1>4, <1>5, <1>6, <1>7, OutcomeTaken DEF o, Result
<1>8. CASE o.kind # "fatal" /\ OcrStopping /\ UNCHANGED <<ocrPass, undecoded, texts, ocrPending, ocrIndexed, accounted>>
  <2>1. OcrStopping' /\ IndexedIsDurable'
    BY <1>1, <1>8 DEF OcrStopping, IndexedIsDurable
  <2> QED BY <2>1, <1>1, <1>2, <1>4, <1>5, <1>6, <1>8, OutcomeTaken DEF o, Result
<1>9. CASE o.kind = "success" /\ ReceiveText(o) /\ UNCHANGED undecoded /\ ~OcrStopping
  <2> DEFINE all == Append(ocrPending, o)
  <2>1. /\ all \in Seq(Result) /\ Once(all) /\ Named(all) = Named(ocrPending) \cup {o.image}
        /\ \A k \in DOMAIN all : WasRead(all[k])
    BY <1>1, <1>3, <1>5, <1>6, <1>9, Sent, NamedSent
  <2>2. Named(all) \cap accounted = {} /\ ImageOf(o) = {o.image}
    BY <2>1, <1>6, <1>9
  <2>3. CASE ocrPending' = all /\ UNCHANGED <<texts, ocrIndexed, accounted, ocrPass>>
    <3>1. ~OcrStopping' /\ IndexedIsDurable'
      BY <1>1, <1>9, <2>3 DEF OcrStopping, IndexedIsDurable
    <3> QED BY <3>1, <2>1, <2>2, <2>3, <1>1, <1>2, <1>4, <1>5, <1>6, <1>9, OutcomeTaken DEF o, Result
  <2>4. ASSUME NEW saved \in BOOLEAN, FlushChunk(all, saved), ocrPending' = <<>>,
               ocrPass' = [ocrPass EXCEPT !.writeError = ~saved, !.aborted = @ \/ ~saved]
        PROVE  OcrInv'
    <3>1. /\ ocrPass' \in OcrPasses /\ ocrPass'.pc = "receive" /\ ocrPass'.row = ocrPass.row
          /\ ocrPass'.next = ocrPass.next /\ ocrPass'.sources = ocrPass.sources
          /\ ocrPass'.fatal = ocrPass.fatal /\ ocrPass'.writeError = ~saved
          /\ ocrPass'.aborted = (ocrPass.aborted \/ ~saved)
      BY <2>4, <1>1 DEF OcrPasses
    <3>2. OcrStopping' <=> ~saved
      BY <3>1, <1>9 DEF OcrStopping
    <3> HIDE DEF all
    <3>3. /\ texts' \in [OcrImages -> [fp : Nat, seen : Nat]] /\ ocrIndexed' \in Nat
          /\ accounted' = IF saved THEN accounted \cup Named(all) ELSE accounted
          /\ accounted' \subseteq OcrImages
          /\ \A a \in OcrImages : texts'[a].fp <= texts'[a].seen /\ NoNewer(a, texts'[a].seen)
          /\ IndexedIsDurable'
      <4>1. ocrPass.pc # "idle"
        BY <1>1
      <4> QED BY <4>1, <3>1, <2>1, <2>2, <2>4, <1>1, ChunkFlushed DEF Result
    <3>4. ocrPending' \in Seq(Result) /\ DOMAIN ocrPending' = {} /\ Once(ocrPending') /\ Named(ocrPending') = {}
      BY <2>4 DEF Once, Named
    <3>5. ocrPass'.aborted <=> OcrStopping'
      BY <3>1, <3>2, <1>1, <1>9
    <3> QED BY <3>1, <3>2, <3>3, <3>4, <3>5, <2>1, <2>2, <1>1, <1>2, <1>4, <1>5, <1>6, <1>9, OutcomeTaken DEF o, Result
  <2> QED BY <2>3, <2>4, <1>9 DEF ReceiveText
<1>10. CASE /\ o.kind = "decode" /\ ReceiveDecodeFailure(o.image) /\ ~OcrStopping
            /\ UNCHANGED <<texts, ocrPending, ocrIndexed>>
  <2>1. CASE /\ undecoded' = [undecoded EXCEPT ![o.image] = ocrPass.row[o.image]]
             /\ accounted' = accounted \cup {o.image} /\ UNCHANGED ocrPass
    <3>1. o.image \in OcrImages /\ ocrPass.row[o.image] \in Nat /\ ImageOf(o) = {o.image}
      BY <1>1, <1>3, <1>6, <1>10 DEF OcrPasses
    <3>2. undecoded' \in [OcrImages -> Nat] /\ accounted' \subseteq OcrImages /\ ~OcrStopping'
      BY <3>1, <2>1, <1>1, <1>10 DEF OcrStopping
    <3>3. IndexedIsDurable'
      BY <3>2, <2>1, <1>1, <1>10, DurableKept
    <3> QED BY <3>1, <3>2, <3>3, <2>1, <1>1, <1>2, <1>4, <1>5, <1>6, <1>10, OutcomeTaken DEF o, Result
  <2>2. CASE ocrPass' = [ocrPass EXCEPT !.writeError = TRUE, !.aborted = TRUE] /\ UNCHANGED <<undecoded, accounted>>
    <3>1. /\ ocrPass' \in OcrPasses /\ ocrPass'.pc = "receive" /\ ocrPass'.row = ocrPass.row
          /\ ocrPass'.next = ocrPass.next /\ ocrPass'.sources = ocrPass.sources
          /\ ocrPass'.aborted = TRUE /\ ocrPass'.writeError = TRUE
      BY <2>2, <1>1 DEF OcrPasses
    <3>2. OcrStopping' /\ IndexedIsDurable'
      BY <3>1, <2>2, <1>1, <1>10 DEF OcrStopping, IndexedIsDurable
    <3> QED BY <3>1, <3>2, <2>2, <1>1, <1>2, <1>4, <1>5, <1>6, <1>10, OutcomeTaken DEF o, Result
  <2> QED BY <2>1, <2>2, <1>10 DEF ReceiveDecodeFailure
<1>11. CASE /\ o.kind = "item" /\ accounted' = accounted \cup {o.image} /\ ~OcrStopping
            /\ UNCHANGED <<ocrPass, undecoded, texts, ocrPending, ocrIndexed>>
  <2>1. o.image \in OcrImages /\ ImageOf(o) = {o.image} /\ accounted' \subseteq OcrImages /\ ~OcrStopping'
    BY <1>1, <1>3, <1>6, <1>11 DEF OcrStopping
  <2>2. IndexedIsDurable'
    BY <2>1, <1>1, <1>11, DurableKept
  <2> QED BY <2>1, <2>2, <1>1, <1>2, <1>4, <1>5, <1>6, <1>11, OutcomeTaken DEF o, Result
<1> QED
  <2>1. CASE o.kind = "fatal"
    BY <2>1, <1>7 DEF CoordinatorReceives, o
  <2>2. CASE o.kind # "fatal"
    BY <2>2, <1>8, <1>9, <1>10, <1>11 DEF CoordinatorReceives, o
  <2> QED BY <2>1, <2>2

\* The coordinator that has joined every worker keeps the invariant.
LEMMA CoordinatorJoinsOK ==
    ASSUME OcrInv, CoordinatorJoins
    PROVE  OcrInv'
<1> DEFINE Result == [kind : {"success"}, image : OcrImages, seen : Nat]
<1>1. /\ OcrTypeOK /\ ReadInv /\ OnceInv /\ IndexedIsDurable /\ (Unbroken => NoneLostInv)
      /\ ocrPass.pc = "receive" /\ ocrPass \in OcrPasses /\ outcomeQueue = <<>>
      /\ texts \in [OcrImages -> [fp : Nat, seen : Nat]]
      /\ ocrPending \in Seq(Result) /\ ocrIndexed \in Nat /\ accounted \subseteq OcrImages
      /\ ocrPass.aborted <=> OcrStopping
      /\ panicked => FatalAhead \/ OcrStopping
  BY DEF CoordinatorJoins, OcrInv, OcrTypeOK
<1>2. UNCHANGED <<ocrFile, ocrRow, undecoded, ocrWorker, decodedQueue, outcomeQueue, ocrPending, ocrCancel, panicked>>
  BY DEF CoordinatorJoins
<1>3. \A w \in OcrWorkers : ocrWorker[w].pc = "ended"
  BY DEF CoordinatorJoins, SendersGone, Running
<1>4. ocrWorker = OcrJoined
  <2>1. ASSUME NEW w \in OcrWorkers PROVE ocrWorker[w] = [pc |-> "ended"]
    BY <1>1, <1>3 DEF OcrTypeOK, OcrWorkerStates
  <2> QED BY <2>1, <1>1 DEF OcrJoined, OcrTypeOK
<1>5. ~FatalAhead
  BY <1>1, <1>3 DEF FatalAhead, FatalQueued
<1>6. ASSUME ~OcrStopping, ~ocrCancel PROVE OcrImages \subseteq Named(ocrPending) \cup accounted
  <2>1. NoneLostInv
    BY <1>1, <1>5, <1>6 DEF Unbroken
  <2>2. ToClaim = {} /\ decodedQueue = <<>>
    BY <2>1, <1>3, OcrAssumption DEF NoneLostInv, OcrWorkers
  <2>3. InHands = {}
    BY <1>3 DEF InHands, InHand
  <2>4. Named(decodedQueue) = {} /\ Reported = {}
    BY <2>2, <1>1 DEF Named, Reported, About
  <2> QED BY <2>1, <2>2, <2>3, <2>4 DEF NoneLostInv
<1>7. CASE OcrStopping \/ ocrPending = <<>>
  <2>1. ocrPass' = [ocrPass EXCEPT !.pc = "done"] /\ UNCHANGED <<texts, ocrIndexed, accounted>>
    BY <1>7 DEF CoordinatorJoins, LastChunk
  <2>2. /\ ocrPass' \in OcrPasses /\ ocrPass'.pc = "done" /\ ocrPass'.row = ocrPass.row
        /\ ocrPass'.fatal = ocrPass.fatal /\ ocrPass'.writeError = ocrPass.writeError
    BY <2>1, <1>1 DEF OcrPasses
  <2>3. OcrTypeOK'
    BY <2>1, <2>2, <1>1, <1>2, <1>4 DEF OcrTypeOK, OcrJoined
  <2>4. ReadInv' /\ IndexedIsDurable'
    BY <2>1, <2>2, <1>1, <1>2 DEF ReadInv, IndexedIsDurable, WorkerRead, WasRead, NoNewer
  <2>5. OcrStopping' <=> OcrStopping
    BY <2>2 DEF OcrStopping
  <2>6. DoneInv'
    <3>1. SUFFICES ASSUME ~OcrStopping PROVE (Named(ocrPending) \subseteq accounted /\ (ocrCancel \/ accounted = OcrImages))'
      BY <2>5 DEF DoneInv
    <3>2. Named(ocrPending) = {} /\ Named(ocrPending') = {}
      BY <3>1, <1>2, <1>7 DEF Named
    <3> QED BY <3>1, <3>2, <1>1, <1>2, <1>6, <2>1 DEF Named
  <2> QED BY <2>2, <2>3, <2>4, <2>5, <2>6, <1>1, <1>2, <1>5 DEF OcrInv
<1>8. ASSUME ~OcrStopping, NEW saved \in BOOLEAN, FlushChunk(ocrPending, saved),
             ocrPass' = [ocrPass EXCEPT !.pc = "done", !.writeError = ~saved]
      PROVE  OcrInv'
  <2>1. /\ ocrPass' \in OcrPasses /\ ocrPass'.pc = "done" /\ ocrPass'.row = ocrPass.row
        /\ ocrPass'.fatal = ocrPass.fatal /\ ocrPass'.writeError = ~saved
    BY <1>1, <1>8 DEF OcrPasses
  <2>2. OcrStopping' <=> ~saved
    BY <2>1, <1>8 DEF OcrStopping
  <2>3. /\ Once(ocrPending) /\ Named(ocrPending) \cap accounted = {} /\ ocrPass.pc # "idle"
        /\ \A k \in DOMAIN ocrPending : WasRead(ocrPending[k])
    BY <1>1 DEF OnceInv, ReadInv
  <2>4. /\ texts' \in [OcrImages -> [fp : Nat, seen : Nat]] /\ ocrIndexed' \in Nat
        /\ accounted' = IF saved THEN accounted \cup Named(ocrPending) ELSE accounted
        /\ accounted' \subseteq OcrImages
        /\ \A a \in OcrImages : texts'[a].fp <= texts'[a].seen /\ NoNewer(a, texts'[a].seen)
        /\ IndexedIsDurable'
    BY <2>1, <2>3, <1>1, <1>8, ChunkFlushed DEF Result
  <2>5. OcrTypeOK'
    BY <2>1, <2>4, <1>1, <1>2, <1>4 DEF OcrTypeOK, OcrJoined
  <2>6. ReadInv'
    BY <2>1, <2>4, <1>1, <1>2 DEF ReadInv, WorkerRead, WasRead, NoNewer
  <2>7. DoneInv'
    <3>1. SUFFICES ASSUME saved PROVE (Named(ocrPending) \subseteq accounted /\ (ocrCancel \/ accounted = OcrImages))'
      BY <2>2 DEF DoneInv
    <3>2. Named(ocrPending)' = Named(ocrPending)
      BY <1>2 DEF Named
    <3> QED BY <3>1, <3>2, <1>2, <1>6, <1>8, <2>4
  <2>8. panicked' => OcrStopping'
    BY <1>1, <1>2, <1>5, <1>8
  <2> QED BY <2>1, <2>4, <2>5, <2>6, <2>7, <2>8 DEF OcrInv
<1> QED BY <1>7, <1>8 DEF CoordinatorJoins, LastChunk

-----------------------------------------------------------------------------
(* The start and the end of a pass, and what happens around it.             *)

\* A pass that returns keeps the invariant.
LEMMA OcrReturnsOK ==
    ASSUME OcrInv, OcrReturns
    PROVE  OcrInv'
<1>1. OcrTypeOK /\ ReadInv /\ ocrPass.pc = "done" /\ ocrPass \in OcrPasses
  BY DEF OcrReturns, OcrInv, OcrTypeOK
<1>2. /\ ocrPass' = [pc |-> "idle", passes |-> ocrPass.passes] /\ decodedQueue' = <<>> /\ ocrPending' = <<>>
      /\ UNCHANGED <<ocrFile, ocrRow, undecoded, texts, ocrWorker, outcomeQueue, ocrCancel, ocrIndexed, accounted, panicked>>
  BY DEF OcrReturns
<1>3. ocrPass' \in [pc : {"idle"}, passes : Nat] /\ ocrPass'.pc = "idle"
  BY <1>1, <1>2 DEF OcrPasses
<1>4. OcrTypeOK'
  <2>1. decodedQueue' \in Seq(OcrWork) /\ ocrPending' \in Seq([kind : {"success"}, image : OcrImages, seen : Nat])
    BY <1>2
  <2> QED BY <2>1, <1>1, <1>2, <1>3 DEF OcrTypeOK, OcrJoined
<1>5. ReadInv'
  BY <1>1, <1>2, <1>3 DEF ReadInv, NoNewer
<1> QED BY <1>3, <1>4, <1>5 DEF OcrInv, IndexedIsDurable, DoneInv

\* A pass that selects its images keeps the invariant.
LEMMA StartOcrOK ==
    ASSUME OcrInv, NEW rescan, NEW retry, StartOcr(rescan, retry)
    PROVE  OcrInv'
<1> DEFINE S == OcrSources(rescan, retry)
           pc == IF S = {} THEN "done" ELSE "receive"
           q == SetToSeq(S)
<1>1. /\ OcrTypeOK /\ ReadInv /\ ocrPass.pc = "idle" /\ ocrPass.passes \in Nat
      /\ decodedQueue = <<>> /\ ocrPending = <<>> /\ outcomeQueue = <<>> /\ ocrWorker = OcrJoined
  BY DEF StartOcr, OcrInv, OcrTypeOK, OcrPasses
<1>2. /\ ocrPass' = [pc |-> pc, passes |-> ocrPass.passes + 1, sources |-> q, next |-> 1, row |-> ocrRow,
                     fatal |-> FALSE, writeError |-> FALSE, aborted |-> FALSE]
      /\ ocrWorker' = IF S = {} THEN OcrJoined
                      ELSE [w \in OcrWorkers |-> [pc |-> IF w \in Decoders THEN "claim" ELSE "take"]]
      /\ accounted' = OcrImages \ S
      /\ ocrCancel' = FALSE /\ ocrIndexed' = 0 /\ panicked' = FALSE
      /\ UNCHANGED <<ocrFile, ocrRow, undecoded, texts, decodedQueue, outcomeQueue, ocrPending>>
  BY DEF StartOcr
<1>3. S \subseteq OcrImages /\ IsFiniteSet(S)
  <2>1. S \subseteq OcrImages
    BY DEF OcrSources
  <2> QED BY <2>1, OcrAssumption, FS_Subset
<1> HIDE DEF S
<1>4. /\ q \in Seq(S) /\ DOMAIN q = 1 .. Len(q)
      /\ \A i, j \in DOMAIN q : i # j => q[i] # q[j]
      /\ \A a \in S : \E i \in DOMAIN q : q[i] = a
  BY <1>3, SetListed
<1> HIDE DEF q
<1>5. q \in Seq(OcrImages) /\ {q[k] : k \in DOMAIN q} = S
  <2>1. \A k \in DOMAIN q : q[k] \in S
    BY <1>4, ElementOfSeq
  <2> QED BY <2>1, <1>3, <1>4, SeqDef
<1>6. /\ ocrPass' \in OcrPasses /\ ocrPass'.pc = pc /\ ocrPass'.row = ocrRow /\ ocrPass'.sources = q /\ ocrPass'.next = 1
      /\ ocrPass'.aborted = FALSE /\ ocrPass'.fatal = FALSE /\ ocrPass'.writeError = FALSE
      /\ pc \in {"receive", "done"} /\ (pc = "done" <=> S = {})
  <2>1. pc \in {"receive", "done"} /\ (pc = "done" <=> S = {})
    OBVIOUS
  <2> HIDE DEF pc
  <2>2. ocrRow \in [OcrImages -> Nat] /\ ocrPass.passes + 1 \in Nat /\ 1 \in Nat \ {0}
    BY <1>1 DEF OcrTypeOK
  <2> QED BY <2>1, <2>2, <1>2, <1>5 DEF OcrPasses
<1> HIDE DEF pc
<1>7. /\ \A w \in OcrWorkers : ocrWorker'[w].pc \in {"claim", "take", "ended"}
      /\ ocrWorker' \in [OcrWorkers -> OcrWorkerStates]
      /\ S # {} => \A w \in OcrWorkers : ocrWorker'[w].pc # "ended"
      /\ S = {} => ocrWorker' = OcrJoined
  <2>1. \A p \in {"claim", "take", "ended"} : [pc |-> p] \in OcrWorkerStates
    BY DEF OcrWorkerStates
  <2> QED BY <2>1, <1>2 DEF OcrJoined
<1>8. OcrTypeOK'
  BY <1>1, <1>2, <1>6, <1>7 DEF OcrTypeOK, OcrStopping
<1>9. ReadInv'
  BY <1>1, <1>2, <1>6, <1>7 DEF ReadInv, WorkerRead, NoNewer
<1>10. IndexedIsDurable'
  <2>1. accounted' \subseteq OcrImages
    BY <1>2
  <2>2. IsFiniteSet({a \in accounted' : texts'[a].fp = ocrPass'.row[a]})
    BY <2>1, OcrAssumption, FS_Subset
  <2>3. Cardinality({a \in accounted' : texts'[a].fp = ocrPass'.row[a]}) \in Nat
    BY <2>2, FS_CardinalityType
  <2>4. 0 <= Cardinality({a \in accounted' : texts'[a].fp = ocrPass'.row[a]})
    BY <2>3
  <2> QED BY <2>4, <1>2 DEF IndexedIsDurable
<1>11. /\ ToClaim' = S /\ InHands' = {} /\ Named(decodedQueue)' = {} /\ Reported' = {} /\ Named(ocrPending)' = {}
       /\ OnceToClaim' /\ OnceInHand' /\ Once(decodedQueue)' /\ OnceReported' /\ Once(ocrPending)'
  <2>1. ToClaim' = S
    BY <1>4, <1>5, <1>6 DEF ToClaim
  <2>2. OnceToClaim'
    BY <1>4, <1>6 DEF OnceToClaim
  <2>3. \A w \in OcrWorkers : InHand(ocrWorker'[w]) = {}
    BY <1>7 DEF InHand
  <2>4. InHands' = {} /\ OnceInHand'
    BY <2>3 DEF InHands, OnceInHand
  <2> QED BY <2>1, <2>2, <2>4, <1>1, <1>2 DEF Named, Once, Reported, OnceReported, About
<1>12. OnceInv'
  BY <1>2, <1>11 DEF OnceInv
<1>13. ASSUME S # {} PROVE NoneLostInv'
  BY <1>13, <1>1, <1>2, <1>3, <1>7, <1>11 DEF NoneLostInv, OcrWorkers
<1>14. DoneInv'
  <2>1. Named(ocrPending)' \subseteq accounted'
    BY <1>11
  <2> QED BY <2>1, <1>2, <1>6 DEF DoneInv
<1> QED BY <1>2, <1>6, <1>8, <1>9, <1>10, <1>12, <1>13, <1>14 DEF OcrInv

\* A file that changes under a pass keeps the invariant.
LEMMA OcrFileChangesOK ==
    ASSUME OcrInv, NEW a \in OcrImages, OcrFileChanges(a)
    PROVE  OcrInv'
<1>1. PICK v \in {0, ocrFile[a] + 1} : ocrFile' = [ocrFile EXCEPT ![a] = v]
  BY DEF OcrFileChanges
<1>2. UNCHANGED <<ocrRow, undecoded, texts, ocrPass, ocrWorker, decodedQueue, outcomeQueue,
                  ocrPending, ocrCancel, ocrIndexed, accounted, panicked>>
  BY DEF OcrFileChanges
<1>3. OcrTypeOK /\ ReadInv
  BY DEF OcrInv
<1>4. ocrFile' \in [OcrImages -> Nat]
  <2>1. ocrFile \in [OcrImages -> Nat]
    BY <1>3 DEF OcrTypeOK
  <2>2. v \in Nat
    BY <2>1, <1>1
  <2> QED BY <2>1, <2>2, <1>1
<1>5. ASSUME NEW b \in OcrImages, NEW n \in Nat, NoNewer(b, n)
      PROVE  ocrFile'[b] = 0 \/ n <= ocrFile'[b]
  <2>1. CASE b = a
    <3>1. ocrFile[a] \in Nat /\ ocrFile[a] # 0
      BY <1>3 DEF OcrTypeOK, OcrFileChanges
    <3> QED BY <2>1, <3>1, <1>1, <1>3, <1>5 DEF OcrTypeOK, NoNewer
  <2>2. CASE b # a
    BY <2>2, <1>1, <1>3, <1>5 DEF OcrTypeOK, NoNewer
  <2> QED BY <2>1, <2>2
<1>6. ASSUME NEW item, item.image \in OcrImages, item.seen \in Nat, WasRead(item)
      PROVE  ocrPass'.row[item.image] <= item.seen /\ (ocrFile'[item.image] = 0 \/ item.seen <= ocrFile'[item.image])
  BY <1>2, <1>5, <1>6 DEF WasRead
<1>7. OcrTypeOK'
  BY <1>2, <1>3, <1>4 DEF OcrTypeOK, OcrStopping, OcrJoined
<1>8. \A b \in OcrImages : ocrRow[b] \in Nat /\ texts[b].fp \in Nat /\ texts[b].seen \in Nat
  BY <1>3 DEF OcrTypeOK
<1>9. \A b \in OcrImages : NoNewer(b, ocrRow[b])' /\ (texts[b].fp <= texts[b].seen)' /\ NoNewer(b, texts[b].seen)'
  BY <1>2, <1>3, <1>5, <1>8 DEF ReadInv, NoNewer
<1>10. ASSUME ocrPass.pc # "idle"
       PROVE  /\ \A b \in OcrImages : NoNewer(b, ocrPass.row[b])'
              /\ \A w \in OcrWorkers : WorkerRead(ocrWorker[w])'
              /\ \A k \in DOMAIN decodedQueue : WasRead(decodedQueue[k])'
              /\ \A k \in DOMAIN outcomeQueue : outcomeQueue[k].kind = "success" => WasRead(outcomeQueue[k])'
              /\ \A k \in DOMAIN ocrPending : WasRead(ocrPending[k])'
  <2>1. ocrPass \in OcrPasses
    BY <1>3, <1>10 DEF OcrTypeOK
  <2>2. ASSUME NEW b \in OcrImages PROVE NoNewer(b, ocrPass.row[b])'
    <3>1. ocrPass.row[b] \in Nat /\ NoNewer(b, ocrPass.row[b])
      BY <2>1, <1>3, <1>10 DEF OcrPasses, ReadInv
    <3> QED BY <3>1, <1>2, <1>5 DEF NoNewer
  <2>3. ASSUME NEW w \in OcrWorkers PROVE WorkerRead(ocrWorker[w])'
    <3>1. ocrWorker[w] \in OcrWorkerStates /\ WorkerRead(ocrWorker[w]) /\ ocrWorker'[w] = ocrWorker[w]
      BY <1>2, <1>3, <1>10 DEF OcrTypeOK, ReadInv
    <3>2. CASE ocrWorker[w].pc \in {"pass", "infer"}
      <4>1. ocrWorker[w].work.image \in OcrImages /\ ocrWorker[w].work.seen \in Nat /\ WasRead(ocrWorker[w].work)
        BY <3>1, <3>2 DEF OcrWorkerStates, OcrWork, WorkerRead
      <4> QED BY <4>1, <3>1, <3>2, <1>6 DEF WorkerRead, WasRead, NoNewer
    <3>3. CASE ocrWorker[w].pc = "report" /\ ocrWorker[w].outcome.kind = "success"
      <4>1. ocrWorker[w].outcome.image \in OcrImages /\ ocrWorker[w].outcome.seen \in Nat /\ WasRead(ocrWorker[w].outcome)
        BY <3>1, <3>3 DEF OcrWorkerStates, OcrOutcomes, WorkerRead
      <4> QED BY <4>1, <3>1, <3>3, <1>6 DEF WorkerRead, WasRead, NoNewer
    <3> QED BY <3>1, <3>2, <3>3 DEF WorkerRead
  <2>4. ASSUME NEW k \in DOMAIN decodedQueue PROVE WasRead(decodedQueue[k])'
    <3>1. decodedQueue[k] \in OcrWork /\ WasRead(decodedQueue[k])
      BY <1>3, <1>10, LenProperties, ElementOfSeq DEF OcrTypeOK, ReadInv
    <3> QED BY <3>1, <1>2, <1>6 DEF WasRead, NoNewer, OcrWork
  <2>5. ASSUME NEW k \in DOMAIN outcomeQueue, outcomeQueue[k].kind = "success" PROVE WasRead(outcomeQueue[k])'
    <3>1. outcomeQueue[k] \in OcrOutcomes /\ WasRead(outcomeQueue[k])
      BY <2>5, <1>3, <1>10, LenProperties, ElementOfSeq DEF OcrTypeOK, ReadInv
    <3>2. outcomeQueue[k].image \in OcrImages /\ outcomeQueue[k].seen \in Nat
      BY <3>1, <2>5 DEF OcrOutcomes
    <3> QED BY <3>1, <3>2, <1>2, <1>6 DEF WasRead, NoNewer
  <2>6. ASSUME NEW k \in DOMAIN ocrPending PROVE WasRead(ocrPending[k])'
    <3> DEFINE Result == [kind : {"success"}, image : OcrImages, seen : Nat]
    <3>0. ocrPending \in Seq(Result)
      BY <1>3 DEF OcrTypeOK
    <3> HIDE DEF Result
    <3>1. ocrPending[k] \in Result /\ WasRead(ocrPending[k])
      BY <3>0, <1>3, <1>10, LenProperties, ElementOfSeq DEF ReadInv
    <3> QED BY <3>1, <1>2, <1>6 DEF WasRead, NoNewer, Result
  <2> QED BY <2>2, <2>3, <2>4, <2>5, <2>6
<1>11. ReadInv'
  BY <1>2, <1>9, <1>10 DEF ReadInv
<1>12. /\ UNCHANGED <<ToClaim, OnceToClaim, InHands, OnceInHand>>
       /\ UNCHANGED <<Named(decodedQueue), Once(decodedQueue), Named(ocrPending), Once(ocrPending)>>
       /\ UNCHANGED <<Reported, OnceReported, FatalAhead, OcrStopping>>
  BY <1>2 DEF ToClaim, OnceToClaim, InHands, OnceInHand, Named, Once, Reported, OnceReported, About, FatalAhead, FatalQueued, OcrStopping
<1>13. OnceInv <=> OnceInv'
  BY <1>2, <1>12 DEF OnceInv
<1>14. (Unbroken <=> Unbroken') /\ (NoneLostInv <=> NoneLostInv')
  BY <1>2, <1>12 DEF Unbroken, NoneLostInv, Running
<1>15. IndexedIsDurable' /\ DoneInv'
  BY <1>2, <1>12 DEF OcrInv, IndexedIsDurable, DoneInv
<1> QED BY <1>2, <1>7, <1>11, <1>12, <1>13, <1>14, <1>15 DEF OcrInv

\* A catalog row that a scan writes keeps the invariant.
LEMMA OcrCatalogedOK ==
    ASSUME OcrInv, NEW a \in OcrImages, OcrCataloged(a)
    PROVE  OcrInv'
<1>1. /\ OcrTypeOK /\ ReadInv /\ ocrPass.pc = "idle" /\ ocrRow' = [ocrRow EXCEPT ![a] = ocrFile[a]]
      /\ UNCHANGED <<ocrFile, undecoded, texts, ocrPass, ocrWorker, decodedQueue, outcomeQueue,
                     ocrPending, ocrCancel, ocrIndexed, accounted, panicked>>
  BY DEF OcrCataloged, OcrInv
<1>2. OcrTypeOK'
  BY <1>1 DEF OcrTypeOK, OcrJoined
<1>3. ReadInv'
  BY <1>1 DEF ReadInv, NoNewer, OcrTypeOK
<1> QED BY <1>1, <1>2, <1>3 DEF OcrInv, IndexedIsDurable, DoneInv

\* A cancellation keeps the invariant.
LEMMA CancelOcrOK ==
    ASSUME OcrInv, CancelOcr
    PROVE  OcrInv'
<1>1. /\ ocrCancel' = TRUE
      /\ UNCHANGED <<ocrFile, ocrRow, undecoded, texts, ocrPass, ocrWorker, decodedQueue,
                     outcomeQueue, ocrPending, ocrIndexed, accounted, panicked>>
  BY DEF CancelOcr
<1>2. OcrTypeOK' /\ ReadInv'
  BY <1>1 DEF OcrInv, OcrTypeOK, OcrStopping, OcrJoined, ReadInv, WorkerRead, WasRead, NoNewer
<1>3. /\ UNCHANGED <<ToClaim, OnceToClaim, InHands, OnceInHand>>
      /\ UNCHANGED <<Named(decodedQueue), Once(decodedQueue), Named(ocrPending), Once(ocrPending)>>
      /\ UNCHANGED <<Reported, OnceReported, FatalAhead, OcrStopping>>
  BY <1>1 DEF ToClaim, OnceToClaim, InHands, OnceInHand, Named, Once, Reported, OnceReported, About, FatalAhead, FatalQueued, OcrStopping
<1>4. OnceInv <=> OnceInv'
  BY <1>1, <1>3 DEF OnceInv
<1>5. ~Unbroken'
  BY <1>1 DEF Unbroken
<1>6. IndexedIsDurable' /\ DoneInv'
  BY <1>1, <1>3 DEF OcrInv, IndexedIsDurable, DoneInv
<1> QED BY <1>1, <1>2, <1>3, <1>4, <1>5, <1>6 DEF OcrInv

\* A step that changes nothing.
LEMMA OcrStutters ==
    ASSUME OcrInv, UNCHANGED ocrVars
    PROVE  OcrInv'
<1>1. UNCHANGED <<ocrFile, ocrRow, undecoded, texts, ocrPass, ocrWorker, decodedQueue,
                  outcomeQueue, ocrPending, ocrCancel, ocrIndexed, accounted, panicked>>
  BY DEF ocrVars
<1>2. OcrTypeOK' /\ ReadInv'
  BY <1>1 DEF OcrInv, OcrTypeOK, OcrStopping, OcrJoined, ReadInv, WorkerRead, WasRead, NoNewer
<1>3. /\ UNCHANGED <<ToClaim, OnceToClaim, InHands, OnceInHand>>
      /\ UNCHANGED <<Named(decodedQueue), Once(decodedQueue), Named(ocrPending), Once(ocrPending)>>
      /\ UNCHANGED <<Reported, OnceReported, FatalAhead, OcrStopping>>
  BY <1>1 DEF ToClaim, OnceToClaim, InHands, OnceInHand, Named, Once, Reported, OnceReported, About, FatalAhead, FatalQueued, OcrStopping
<1>4. OnceInv <=> OnceInv'
  BY <1>1, <1>3 DEF OnceInv
<1>5. (Unbroken <=> Unbroken') /\ (NoneLostInv <=> NoneLostInv')
  BY <1>1, <1>3 DEF Unbroken, NoneLostInv, Running
<1>6. IndexedIsDurable' /\ DoneInv'
  BY <1>1, <1>3 DEF OcrInv, IndexedIsDurable, DoneInv
<1> QED BY <1>1, <1>2, <1>3, <1>4, <1>5, <1>6 DEF OcrInv

\* The invariant holds at the start of the process.
LEMMA OcrStart == OcrInit => OcrInv
<1> SUFFICES ASSUME OcrInit PROVE OcrInv
  OBVIOUS
<1>1. ocrWorker \in [OcrWorkers -> OcrWorkerStates]
  BY DEF OcrInit, OcrJoined, OcrWorkerStates
<1>2. OcrTypeOK
  <2>1. /\ ocrFile \in [OcrImages -> Nat] /\ ocrRow \in [OcrImages -> Nat]
        /\ undecoded \in [OcrImages -> Nat] /\ texts \in [OcrImages -> [fp : Nat, seen : Nat]]
    BY DEF OcrInit, Unread
  <2>2. ocrPass \in [pc : {"idle"}, passes : Nat] /\ ocrPass.pc = "idle"
    BY DEF OcrInit, OcrIdle
  <2>3. /\ ocrWorker = OcrJoined /\ outcomeQueue = <<>> /\ decodedQueue = <<>> /\ ocrPending = <<>>
        /\ ocrCancel = FALSE /\ ocrIndexed = 0 /\ accounted = {} /\ panicked = FALSE
    BY DEF OcrInit
  <2>4. \A S : <<>> \in Seq(S)
    OBVIOUS
  <2> QED BY <1>1, <2>1, <2>2, <2>3, <2>4 DEF OcrTypeOK
<1>3. ReadInv
  BY DEF OcrInit, ReadInv, OcrIdle, Unread, NoNewer
<1> QED BY <1>2, <1>3 DEF OcrInv, OcrInit, OcrIdle, IndexedIsDurable, DoneInv

\* Every step of the OCR stage keeps its invariant.
LEMMA OcrStep ==
    ASSUME OcrInv, [OcrNext]_ocrVars
    PROVE  OcrInv'
<1>1. CASE OcrSteps
  BY <1>1, CoordinatorReceivesOK, CoordinatorJoinsOK, OcrReturnsOK, ClaimImageOK, DecodeOneOK,
     PassDecodedOK, TakeDecodedOK, ScanAssetOK, ReportOutcomeOK DEF OcrSteps
<1>2. CASE CancelOcr
  BY <1>2, CancelOcrOK
<1>3. CASE \E w \in OcrWorkers : WorkerPanics(w)
  BY <1>3, WorkerPanicsOK
<1>4. CASE \E rescan, retry \in BOOLEAN : StartOcr(rescan, retry)
  BY <1>4, StartOcrOK
<1>5. CASE \E a \in OcrEdited : OcrFileChanges(a) \/ OcrCataloged(a)
  BY <1>5, OcrAssumption, OcrFileChangesOK, OcrCatalogedOK
<1>6. CASE UNCHANGED ocrVars
  BY <1>6, OcrStutters
<1> QED BY <1>1, <1>2, <1>3, <1>4, <1>5, <1>6 DEF OcrNext

\* The images of a recognition pass are each in one place - not yet claimed, in a
\* worker's hands, in one of the two channels, waiting for a chunk, or accounted
\* for - whatever order threads, cancellation, panics and failures come in.
THEOREM OcrInvariant == OcrSpec => []OcrInv
<1>1. OcrInit => OcrInv
  BY OcrStart
<1>2. OcrInv /\ [OcrNext]_ocrVars => OcrInv'
  BY OcrStep
<1> QED BY <1>1, <1>2, PTL DEF OcrSpec

\* The OCR stage (ocr/mod.rs, ocr/pipeline.rs) never files a text under a fingerprint it
\* was not read at, counts only committed rows, covers every image unless it
\* failed or was cancelled, and reports every panic.
THEOREM TextsAlwaysRecognized == OcrSpec => []TextsRecognized
<1>1. OcrInv => TextsRecognized
  <2> SUFFICES ASSUME OcrInv PROVE TextsRecognized
    OBVIOUS
  <2>1. TextCurrent
    <3> SUFFICES ASSUME NEW a \in OcrImages, texts[a].fp # 0, texts[a].fp = ocrFile[a]
                 PROVE  texts[a].seen = ocrFile[a]
      BY DEF TextCurrent
    <3>1. texts[a].fp \in Nat /\ texts[a].seen \in Nat /\ ocrFile[a] \in Nat
      BY DEF OcrInv, OcrTypeOK
    <3>2. texts[a].fp <= texts[a].seen /\ NoNewer(a, texts[a].seen)
      BY DEF OcrInv, ReadInv
    <3> QED BY <3>1, <3>2 DEF NoNewer
  <2>2. OcrPassCovers
    BY DEF OcrInv, DoneInv, OcrPassCovers, Named
  <2>3. PanicReported
    <3> SUFFICES ASSUME ocrPass.pc = "done", panicked PROVE OcrStopping
      BY DEF PanicReported
    <3>1. ocrWorker = OcrJoined /\ outcomeQueue = <<>>
      BY DEF OcrInv, OcrTypeOK
    <3>2. ~FatalAhead
      BY <3>1 DEF FatalAhead, FatalQueued, OcrJoined
    <3> QED BY <3>2 DEF OcrInv
  <2> QED BY <2>1, <2>2, <2>3 DEF TextsRecognized, OcrInv
<1> QED BY <1>1, OcrInvariant, PTL

-----------------------------------------------------------------------------
(* The image index.                                                         *)

\* What a channel holds after a send and a receive.
LEMMA SendingSent ==
    ASSUME imageOutcomes \in Seq(ImageOutcomeSet), NEW e \in ImageOutcomeSet,
           imageOutcomes' = Append(imageOutcomes, e)
    PROVE  /\ Sending' = Sending \cup OfOutcome(e)
           /\ \A k \in DOMAIN imageOutcomes' : imageOutcomes'[k] = e \/ \E j \in DOMAIN imageOutcomes : imageOutcomes'[k] = imageOutcomes[j]
           /\ \A k \in DOMAIN imageOutcomes : k \in DOMAIN imageOutcomes' /\ imageOutcomes'[k] = imageOutcomes[k]
           /\ \E k \in DOMAIN imageOutcomes' : imageOutcomes'[k] = e
<1>1. /\ DOMAIN imageOutcomes' = DOMAIN imageOutcomes \cup {Len(imageOutcomes) + 1}
      /\ imageOutcomes'[Len(imageOutcomes) + 1] = e
      /\ \A k \in DOMAIN imageOutcomes : imageOutcomes'[k] = imageOutcomes[k]
  BY Sent
<1>2. Sending' = Sending \cup OfOutcome(e)
  BY <1>1 DEF Sending
<1> QED BY <1>1, <1>2

\* What the coordinator takes from the channel is no longer on its way.
LEMMA SendingReceived ==
    ASSUME imageOutcomes \in Seq(ImageOutcomeSet), imageOutcomes # <<>>, imageOutcomes' = Tail(imageOutcomes)
    PROVE  /\ Sending \subseteq Sending' \cup OfOutcome(Head(imageOutcomes))
           /\ \A k \in DOMAIN imageOutcomes' : \E j \in DOMAIN imageOutcomes : imageOutcomes'[k] = imageOutcomes[j]
           /\ \A j \in DOMAIN imageOutcomes : imageOutcomes[j] = Head(imageOutcomes)
                  \/ \E k \in DOMAIN imageOutcomes' : imageOutcomes'[k] = imageOutcomes[j]
           /\ \E j \in DOMAIN imageOutcomes : imageOutcomes[j] = Head(imageOutcomes)
<1>1. \A k \in DOMAIN imageOutcomes' : \E j \in DOMAIN imageOutcomes : imageOutcomes'[k] = imageOutcomes[j]
  BY Received
<1>2. \A j \in DOMAIN imageOutcomes : imageOutcomes[j] = Head(imageOutcomes)
          \/ \E k \in DOMAIN imageOutcomes' : imageOutcomes'[k] = imageOutcomes[j]
  BY Received
<1>3. \E j \in DOMAIN imageOutcomes : imageOutcomes[j] = Head(imageOutcomes)
  BY Received
<1>4. ASSUME NEW a \in Sending, a \notin OfOutcome(Head(imageOutcomes)) PROVE a \in Sending'
  <2>1. PICK j \in DOMAIN imageOutcomes : a \in OfOutcome(imageOutcomes[j])
    BY DEF Sending
  <2>2. PICK k \in DOMAIN imageOutcomes' : imageOutcomes'[k] = imageOutcomes[j]
    BY <2>1, <1>2, <1>4
  <2> QED BY <2>1, <2>2 DEF Sending
<1> QED BY <1>1, <1>2, <1>3, <1>4

\* What a worker that moves holds, and what the others go on holding.
LEMMA HeldMoves ==
    ASSUME imageWorker \in [ImageWorkers -> ImageWorkerStates], NEW w \in ImageWorkers, NEW s,
           imageWorker' = [imageWorker EXCEPT ![w] = s]
    PROVE  /\ Held \subseteq Held' \cup HeldBy(imageWorker[w]) /\ HeldBy(s) \subseteq Held'
           /\ \A x \in ImageWorkers : imageWorker'[x] = IF x = w THEN s ELSE imageWorker[x]
<1>1. \A x \in ImageWorkers : imageWorker'[x] = IF x = w THEN s ELSE imageWorker[x]
  OBVIOUS
<1>2. HeldBy(s) \subseteq Held'
  BY <1>1 DEF Held
<1>3. ASSUME NEW a \in Held, a \notin HeldBy(imageWorker[w]) PROVE a \in Held'
  <2>1. PICK x \in ImageWorkers : a \in HeldBy(imageWorker[x])
    BY DEF Held
  <2> QED BY <2>1, <1>1, <1>3 DEF Held
<1> QED BY <1>1, <1>2, <1>3

\* What holds of a worker that is at work.
LEMMA ImageAtWork ==
    ASSUME ImageInv, NEW w \in ImageWorkers, imageWorker[w].pc # "ended"
    PROVE  /\ imagePass \in ImageRunning /\ imagePass.pc \notin {"idle", "done"}
           /\ ~(imagePass.pc \in Flushing /\ imagePass.final)
           /\ imageWorker[w] \in ImageWorkerStates /\ imageOutcomes \in Seq(ImageOutcomeSet)
           /\ ImageTypeOK /\ StoppingInv /\ StoredInv /\ SeenInv /\ (Undisturbed => NothingLost)
           /\ imageWorker \in [ImageWorkers -> ImageWorkerStates]
           /\ \A k \in DOMAIN imageOutcomes : OutcomeTrue(imageOutcomes[k])
           /\ imageWorker[w].pc = "send" => OutcomeTrue(imageWorker[w].outcome)
           /\ \A a \in ImageAssets : NotAhead(a, imagePass.row[a])
<1>1. imagePass.pc \notin {"idle", "done"} /\ ~(imagePass.pc \in Flushing /\ imagePass.final)
  BY DEF ImageInv, ImageTypeOK, IdleWorkers
<1>2. imagePass \in ImageRunning
  BY <1>1 DEF ImageInv, ImageTypeOK, NoPass
<1> QED BY <1>1, <1>2 DEF ImageInv, ImageTypeOK, SeenInv

\* A worker that hands an asset on, and neither drops one nor ends too early,
\* keeps the invariant.
LEMMA ImageWorkerStep ==
    ASSUME ImageInv, NEW w \in ImageWorkers, imageWorker[w].pc # "ended",
           NEW s \in ImageWorkerStates, imageWorker' = [imageWorker EXCEPT ![w] = s],
           s.pc = "send" => OutcomeTrue(s.outcome),
           UNCHANGED <<imageFile, imageRow, failedRow, vectors, frames, imagePending, imageCancel>>,
           imagePass' = imagePass \/ imagePass' = [imagePass EXCEPT !.next = @ + 1],
           excused \subseteq excused', excused' \subseteq ImageAssets,
           imageOutcomes' \in Seq(ImageOutcomeSet), \A k \in DOMAIN imageOutcomes' : OutcomeTrue(imageOutcomes'[k]),
           LeftToClaim' \subseteq LeftToClaim,
           Undisturbed' => /\ Undisturbed
                           /\ s.pc = "ended" => LeftToClaim = {}
                           /\ LeftToClaim \cup HeldBy(imageWorker[w]) \cup Sending
                                  \subseteq LeftToClaim' \cup HeldBy(s) \cup Sending' \cup excused'
    PROVE  ImageInv'
<1>1. /\ imagePass \in ImageRunning /\ imagePass.pc \notin {"idle", "done"}
      /\ ~(imagePass.pc \in Flushing /\ imagePass.final)
      /\ ImageTypeOK /\ StoppingInv /\ StoredInv /\ SeenInv /\ (Undisturbed => NothingLost)
      /\ imageWorker \in [ImageWorkers -> ImageWorkerStates]
  BY ImageAtWork
<1>2. /\ imagePass' \in ImageRunning /\ imagePass'.pc = imagePass.pc /\ imagePass'.row = imagePass.row
      /\ imagePass'.options = imagePass.options /\ imagePass'.sources = imagePass.sources
      /\ imagePass'.cancelled = imagePass.cancelled /\ imagePass'.writeError = imagePass.writeError
      /\ imagePass'.fatal = imagePass.fatal /\ imagePass'.flag = imagePass.flag
      /\ imagePass'.aborted = imagePass.aborted /\ imagePass'.batch = imagePass.batch
      /\ imagePass'.ready = imagePass.ready /\ imagePass'.final = imagePass.final
  <2>1. CASE imagePass' = imagePass
    BY <2>1, <1>1
  <2>2. CASE imagePass' = [imagePass EXCEPT !.next = @ + 1]
    <3>1. imagePass.next + 1 \in Nat \ {0}
      BY <1>1 DEF ImageRunning
    <3>2. imagePass' \in ImageRunning
      BY <2>2, <3>1, <1>1 DEF ImageRunning
    <3> QED BY <2>2, <3>2, <1>1 DEF ImageRunning
  <2> QED BY <2>1, <2>2
<1>3. /\ \A x \in ImageWorkers : imageWorker'[x] = IF x = w THEN s ELSE imageWorker[x]
      /\ Held \subseteq Held' \cup HeldBy(imageWorker[w]) /\ HeldBy(s) \subseteq Held'
  BY <1>1, HeldMoves
<1>4. ImageTypeOK'
  BY <1>1, <1>2 DEF ImageTypeOK
<1>5. StoppingInv'
  BY <1>1, <1>2 DEF StoppingInv, Stopping
<1>6. StoredInv'
  BY <1>1 DEF StoredInv, NotAhead
<1>7. SeenInv'
  <2>3. \A a \in ImageAssets : NotAhead(a, imagePass.row[a])'
    BY <1>1, <1>2 DEF SeenInv, NotAhead
  <2>4. \A x \in ImageWorkers : imageWorker'[x].pc = "send" => OutcomeTrue(imageWorker'[x].outcome)
    BY <1>1, <1>3 DEF SeenInv
  <2>5. \A x \in ImageWorkers : (imageWorker[x].pc = "send" => OutcomeTrue(imageWorker[x].outcome))'
    BY <1>2, <2>4 DEF OutcomeTrue, SeenSince, FailureReal, NotAhead, Stopping
  <2>6. \A k \in DOMAIN imageOutcomes' : OutcomeTrue(imageOutcomes[k])'
    BY <1>2 DEF OutcomeTrue, SeenSince, FailureReal, NotAhead, Stopping
  <2>7. \A k \in DOMAIN imagePending' : SeenSince(imagePending[k])'
    BY <1>1, <1>2 DEF SeenInv, SeenSince, NotAhead
  <2>8. \A k \in DOMAIN imagePass'.batch : SeenSince(imagePass.batch[k])'
    BY <1>1, <1>2 DEF SeenInv, SeenSince, NotAhead
  <2>9. \A item \in imagePass'.ready : item.asset \in Stills /\ item.seen = imagePass'.row[item.asset]
    BY <1>1, <1>2 DEF SeenInv
  <2>10. imagePass'.pc = "video" =>
               /\ imagePass'.batch # <<>> /\ Head(imagePass'.batch).seen = imagePass'.row[Head(imagePass'.batch).asset]
               /\ frames'[Head(imagePass'.batch).asset].fp = imagePass'.row[Head(imagePass'.batch).asset]
                  \/ Head(imagePass'.batch).asset \in excused'
    BY <1>1, <1>2 DEF SeenInv
  <2> QED BY <2>3, <2>5, <2>6, <2>7, <2>8, <2>9, <2>10 DEF SeenInv
<1>8. ASSUME Undisturbed' PROVE NothingLost'
  <2>1. NothingLost /\ Undisturbed
    BY <1>1, <1>8
  <2>2. ASSUME imagePass.options.limit = 0, NEW a \in Candidates(imagePass.options.videos)
        PROVE  Covered(a)' \/ a \in UnderWay'
    <3>1. Covered(a) => Covered(a)'
      BY <1>2 DEF Covered
    <3>2. AssetsOf(imagePending)' = AssetsOf(imagePending) /\ AssetsOf(imagePass.batch)' = AssetsOf(imagePass.batch)
      BY <1>2 DEF AssetsOf
    <3>3. a \in UnderWay => a \in excused' \/ a \in UnderWay'
      <4>1. LeftToClaim \cup Held \cup Sending \subseteq LeftToClaim' \cup Held' \cup Sending' \cup excused'
        BY <1>3, <1>8
      <4> QED BY <4>1, <3>2, <1>2 DEF UnderWay
    <3>4. a \in excused' => Covered(a)'
      BY DEF Covered
    <3> QED BY <3>1, <3>3, <3>4, <2>1, <2>2 DEF NothingLost
  <2>3. ASSUME NEW x \in ImageWorkers, imageWorker'[x].pc = "ended" PROVE LeftToClaim' = {}
    BY <2>1, <2>3, <1>3, <1>8 DEF NothingLost
  <2> QED BY <2>2, <2>3, <1>2 DEF NothingLost
<1>9. CompletePassCovers'
  BY <1>1, <1>2 DEF CompletePassCovers
<1> QED BY <1>4, <1>5, <1>6, <1>7, <1>8, <1>9 DEF ImageInv

\* A worker's news is good news, or the coordinator hears of it.
LEMMA PanicKept ==
    ASSUME imageWorker \in [ImageWorkers -> ImageWorkerStates], NEW w \in ImageWorkers, NEW s,
           imageWorker' = [imageWorker EXCEPT ![w] = s],
           imageWorker[w].pc = "send" /\ imageWorker[w].outcome.kind = "fatal"
               => \E k \in DOMAIN imageOutcomes' : imageOutcomes'[k].kind = "fatal",
           \A k \in DOMAIN imageOutcomes : \E j \in DOMAIN imageOutcomes' : imageOutcomes'[j] = imageOutcomes[k]
    PROVE  PanicAhead => PanicAhead'
<1>1. \A x \in ImageWorkers : x # w => imageWorker'[x] = imageWorker[x]
  OBVIOUS
<1>2. CASE \E x \in ImageWorkers : imageWorker[x].pc = "send" /\ imageWorker[x].outcome.kind = "fatal"
  BY <1>1, <1>2 DEF PanicAhead
<1>3. CASE \E k \in DOMAIN imageOutcomes : imageOutcomes[k].kind = "fatal"
  BY <1>3 DEF PanicAhead
<1> QED BY <1>2, <1>3 DEF PanicAhead

\* A worker that claims the next source keeps the invariant.
LEMMA ClaimSourceOK ==
    ASSUME ImageInv, NEW w \in ImageWorkers, ClaimSource(w)
    PROVE  ImageInv'
<1> DEFINE a == imagePass.sources[imagePass.next]
<1>1. /\ imagePass \in ImageRunning /\ imagePass.pc \notin {"idle", "done"} /\ imageWorker[w].pc = "claim"
      /\ ImageTypeOK /\ StoppingInv /\ imageWorker \in [ImageWorkers -> ImageWorkerStates]
      /\ imageOutcomes \in Seq(ImageOutcomeSet) /\ excused \subseteq ImageAssets
      /\ \A k \in DOMAIN imageOutcomes : OutcomeTrue(imageOutcomes[k])
  BY ImageAtWork DEF ClaimSource, ImageTypeOK
<1>2. UNCHANGED <<imageFile, imageRow, failedRow, vectors, frames, imageOutcomes, imagePending, imageCancel, excused, passes>>
  BY DEF ClaimSource
<1>3. /\ imagePass.next \in Nat \ {0} /\ imagePass.sources \in Seq(ImageAssets)
      /\ DOMAIN imagePass.sources = 1 .. Len(imagePass.sources) /\ Len(imagePass.sources) \in Nat
  <2>1. imagePass.next \in Nat \ {0} /\ imagePass.sources \in Seq(ImageAssets)
    BY <1>1 DEF ImageRunning
  <2> QED BY <2>1, LenProperties
<1>4. Sending' = Sending /\ HeldBy(imageWorker[w]) = {}
  BY <1>1, <1>2 DEF Sending, HeldBy
<1>5. CASE /\ StopsWorker \/ imagePass.next > Len(imagePass.sources)
           /\ imageWorker' = [imageWorker EXCEPT ![w] = [pc |-> "ended"]] /\ imagePass' = imagePass
  <2> DEFINE s == [pc |-> "ended"]
  <2>1. s \in ImageWorkerStates /\ s.pc = "ended" /\ HeldBy(s) = {}
    BY DEF ImageWorkerStates, HeldBy
  <2>2. imageWorker' = [imageWorker EXCEPT ![w] = s]
    BY <1>5
  <2> HIDE DEF s
  <2>3. PanicAhead => PanicAhead'
    BY <1>1, <1>2, <2>2, PanicKept
  <2>4. LeftToClaim' = LeftToClaim
    BY <1>5 DEF LeftToClaim
  <2>5. Undisturbed' => Undisturbed /\ LeftToClaim = {}
    <3>1. Undisturbed' => Undisturbed
      BY <2>3, <1>2, <1>5 DEF Undisturbed
    <3>2. Undisturbed => ~StopsWorker
      BY <1>1 DEF Undisturbed, StopsWorker, StoppingInv
    <3>3. imagePass.next > Len(imagePass.sources) => LeftToClaim = {}
      BY <1>3 DEF LeftToClaim
    <3> QED BY <3>1, <3>2, <3>3, <1>5
  <2> QED BY <1>1, <1>2, <1>4, <1>5, <2>1, <2>2, <2>4, <2>5, ImageWorkerStep
<1>6. CASE /\ ~(StopsWorker \/ imagePass.next > Len(imagePass.sources))
           /\ imageWorker' = [imageWorker EXCEPT ![w] = [pc |-> "decode", asset |-> a]]
           /\ imagePass' = [imagePass EXCEPT !.next = @ + 1]
  <2> DEFINE s == [pc |-> "decode", asset |-> a]
  <2>0. a \in ImageAssets
    BY <1>3, <1>6, ElementOfSeq
  <2>1. s \in ImageWorkerStates /\ s.pc = "decode" /\ HeldBy(s) = {a}
    BY <2>0 DEF ImageWorkerStates, HeldBy
  <2>2. imageWorker' = [imageWorker EXCEPT ![w] = s]
    BY <1>6
  <2> HIDE DEF s
  <2>3. PanicAhead => PanicAhead'
    BY <1>1, <1>2, <2>2, PanicKept
  <2>4. LeftToClaim = LeftToClaim' \cup {a}
    <3>1. imagePass'.next = imagePass.next + 1 /\ imagePass'.sources = imagePass.sources
      BY <1>1, <1>6 DEF ImageRunning
    <3>2. \A k : k \in imagePass.next .. Len(imagePass.sources) <=>
                    k = imagePass.next \/ k \in (imagePass.next + 1) .. Len(imagePass.sources)
      BY <1>3, <1>6
    <3> QED BY <3>1, <3>2 DEF LeftToClaim
  <2>5. Undisturbed' => Undisturbed
    <3>1. Stopping(imagePass') <=> Stopping(imagePass)
      BY <1>1, <1>6 DEF Stopping, ImageRunning
    <3> QED BY <3>1, <2>3, <1>2 DEF Undisturbed
  <2> QED BY <1>1, <1>2, <1>4, <1>6, <2>1, <2>2, <2>4, <2>5, ImageWorkerStep
<1> QED BY <1>5, <1>6 DEF ClaimSource, WorkerEnds

\* What a decode can come to: it saw the file as it is, or it failed for a reason.
LEMMA PreparedIsTrue ==
    ASSUME ImageTypeOK, StoppingInv, imagePass \in ImageRunning, imagePass.pc # "idle",
           NEW a \in ImageAssets, NotAhead(a, imagePass.row[a]), NEW o \in Preparations(a)
    PROVE  \/ o = [kind |-> "missing"]
           \/ o \in ImageOutcomeSet /\ OutcomeTrue(o) /\ (o.kind = "fatal" => o = Panicked) /\ OfOutcome(o) = IF o = Panicked THEN {} ELSE {a}
<1> DEFINE v == imageFile[a]
<1>1. v \in Nat /\ imagePass.row[a] \in Nat /\ (v # 0 => imagePass.row[a] <= v)
  BY DEF ImageTypeOK, ImageRunning, NotAhead
<1>2. CASE o = Panicked
  BY <1>2 DEF Panicked, ImageOutcomeSet, OutcomeTrue, OfOutcome
<1>3. CASE o = [kind |-> "missing"]
  BY <1>3
<1>4. CASE o = [kind |-> "failure", asset |-> a, cache |-> TRUE] /\ v # 0 /\ <<a, v>> \in Failing
  <2>1. FailureReal(a)
    <3>1. <<a, v>>[1] = a /\ <<a, v>>[2] = v
      OBVIOUS
    <3> QED BY <3>1, <1>1, <1>4 DEF FailureReal, NotAhead
  <2> QED BY <1>4, <2>1 DEF ImageOutcomeSet, OutcomeTrue, OfOutcome, Panicked
<1>5. CASE o = [kind |-> "failure", asset |-> a, cache |-> TRUE] /\ (imageCancel \/ imagePass.flag \/ imagePass.aborted)
  BY <1>5 DEF ImageOutcomeSet, OutcomeTrue, OfOutcome, Panicked, FailureReal, StoppingInv
<1>6. CASE o = [kind |-> "failure", asset |-> a, cache |-> FALSE]
  BY <1>6 DEF ImageOutcomeSet, OutcomeTrue, OfOutcome, Panicked
<1>7. CASE o = [kind |-> "success", asset |-> a, seen |-> v] /\ v # 0
  BY <1>1, <1>7 DEF ImageOutcomeSet, ImageItem, OutcomeTrue, OfOutcome, Panicked, SeenSince, NotAhead
<1>8. o \in VideoPrepared(a) => \/ o \in StillPrepared(a)
                                \/ /\ o = [kind |-> "failure", asset |-> a, cache |-> TRUE]
                                   /\ imageCancel \/ imagePass.flag \/ imagePass.aborted
  BY DEF VideoPrepared
<1>9. o \in StillPrepared(a) => \/ o = [kind |-> "missing"]
                                \/ o = [kind |-> "failure", asset |-> a, cache |-> TRUE] /\ v # 0 /\ <<a, v>> \in Failing
                                \/ o = [kind |-> "success", asset |-> a, seen |-> v] /\ v # 0
                                \/ o = [kind |-> "failure", asset |-> a, cache |-> FALSE]
  BY DEF StillPrepared
<1>10. o = Panicked \/ o \in StillPrepared(a) \/ o \in VideoPrepared(a)
  BY DEF Preparations
<1> QED BY <1>2, <1>3, <1>4, <1>5, <1>6, <1>7, <1>8, <1>9, <1>10

\* A worker that decodes a source, or fails to, keeps the invariant.
LEMMA PrepareOK ==
    ASSUME ImageInv, NEW w \in ImageWorkers, Prepare(w)
    PROVE  ImageInv'
<1> DEFINE a == imageWorker[w].asset
<1>1. /\ imagePass \in ImageRunning /\ imagePass.pc \notin {"idle", "done"} /\ imageWorker[w].pc = "decode"
      /\ ImageTypeOK /\ StoppingInv /\ imageWorker \in [ImageWorkers -> ImageWorkerStates]
      /\ imageOutcomes \in Seq(ImageOutcomeSet) /\ excused \subseteq ImageAssets
      /\ \A k \in DOMAIN imageOutcomes : OutcomeTrue(imageOutcomes[k])
      /\ imageWorker[w] \in ImageWorkerStates
      /\ \A b \in ImageAssets : NotAhead(b, imagePass.row[b])
  BY ImageAtWork DEF Prepare, ImageTypeOK
<1>2. UNCHANGED <<imageFile, imageRow, failedRow, vectors, frames, imagePass, imageOutcomes, imagePending, imageCancel, passes>>
  BY DEF Prepare
<1>3. a \in ImageAssets /\ HeldBy(imageWorker[w]) = {a}
  BY <1>1 DEF ImageWorkerStates, HeldBy
<1>4. PICK o \in Preparations(a) :
        /\ imageWorker' = [imageWorker EXCEPT ![w] =
               IF Discards /\ o # Panicked THEN [pc |-> "ended"]
               ELSE IF o.kind = "missing" THEN [pc |-> "claim"]
               ELSE [pc |-> "send", outcome |-> o]]
        /\ excused' = IF o.kind = "missing" /\ ~Discards THEN excused \cup {a} ELSE excused
  BY DEF Prepare
<1>5. \/ o = [kind |-> "missing"]
      \/ o \in ImageOutcomeSet /\ OutcomeTrue(o) /\ (o.kind = "fatal" => o = Panicked) /\ OfOutcome(o) = IF o = Panicked THEN {} ELSE {a}
  BY <1>1, <1>3, PreparedIsTrue
<1> DEFINE s == IF Discards /\ o # Panicked THEN [pc |-> "ended"]
                ELSE IF o.kind = "missing" THEN [pc |-> "claim"]
                ELSE [pc |-> "send", outcome |-> o]
<1>6. /\ s \in ImageWorkerStates /\ (s.pc = "send" => OutcomeTrue(s.outcome))
      /\ s.pc = "ended" => Discards
      /\ ~Discards /\ o # Panicked => HeldBy(s) = IF o.kind = "missing" THEN {} ELSE {a}
      /\ o = Panicked => s.pc = "send" /\ s.outcome.kind = "fatal"
  <2>1. CASE Discards /\ o # Panicked
    BY <2>1 DEF ImageWorkerStates
  <2>2. CASE ~(Discards /\ o # Panicked) /\ o = [kind |-> "missing"]
    BY <2>2 DEF ImageWorkerStates, HeldBy, Panicked
  <2>3. CASE ~(Discards /\ o # Panicked) /\ o # [kind |-> "missing"]
    <3>1. o \in ImageOutcomeSet /\ OutcomeTrue(o) /\ OfOutcome(o) = (IF o = Panicked THEN {} ELSE {a})
      BY <1>5, <2>3
    <3>2. o.kind # "missing"
      BY <3>1 DEF ImageOutcomeSet, ImageItem
    <3>3. s = [pc |-> "send", outcome |-> o]
      BY <2>3, <3>2
    <3> QED BY <3>1, <3>2, <3>3 DEF ImageWorkerStates, HeldBy, Panicked
  <2> QED BY <2>1, <2>2, <2>3
<1>7. imageWorker' = [imageWorker EXCEPT ![w] = s]
  BY <1>4
<1> HIDE DEF s
<1>8. PanicAhead => PanicAhead'
  BY <1>1, <1>2, <1>7, PanicKept
<1>9. Sending' = Sending /\ LeftToClaim' = LeftToClaim
  BY <1>2 DEF Sending, LeftToClaim
<1>10. ASSUME Undisturbed'
       PROVE  /\ Undisturbed /\ s.pc # "ended"
              /\ HeldBy(imageWorker[w]) \subseteq HeldBy(s) \cup excused'
  <2>1. Undisturbed
    BY <1>2, <1>8, <1>10 DEF Undisturbed
  <2>2. ~Discards
    BY <2>1, <1>1 DEF Undisturbed, Discards, StopsWorker, StoppingInv
  <2>3. o # Panicked
    BY <1>1, <1>6, <1>7, <1>10, HeldMoves DEF Undisturbed, PanicAhead
  <2> QED BY <2>1, <2>2, <2>3, <1>3, <1>4, <1>6
<1>11. excused \subseteq excused' /\ excused' \subseteq ImageAssets
  BY <1>1, <1>3, <1>4
<1> QED BY <1>1, <1>2, <1>6, <1>7, <1>9, <1>10, <1>11, ImageWorkerStep

\* A worker that sends its outcome keeps the invariant.
LEMMA SendOutcomeOK ==
    ASSUME ImageInv, NEW w \in ImageWorkers, SendOutcome(w)
    PROVE  ImageInv'
<1> DEFINE o == imageWorker[w].outcome
<1>1. /\ imagePass \in ImageRunning /\ imagePass.pc \notin {"idle", "done"} /\ imageWorker[w].pc = "send"
      /\ ImageTypeOK /\ StoppingInv /\ imageWorker \in [ImageWorkers -> ImageWorkerStates]
      /\ imageOutcomes \in Seq(ImageOutcomeSet) /\ excused \subseteq ImageAssets
      /\ \A k \in DOMAIN imageOutcomes : OutcomeTrue(imageOutcomes[k])
      /\ imageWorker[w] \in ImageWorkerStates /\ OutcomeTrue(o)
  BY ImageAtWork DEF SendOutcome, ImageTypeOK
<1>2. UNCHANGED <<imageFile, imageRow, failedRow, vectors, frames, imagePass, imagePending, imageCancel, excused, passes>>
  BY DEF SendOutcome
<1>3. o \in ImageOutcomeSet /\ HeldBy(imageWorker[w]) = OfOutcome(o)
  BY <1>1 DEF ImageWorkerStates, HeldBy
<1>4. LeftToClaim' = LeftToClaim
  BY <1>2 DEF LeftToClaim
<1>5. CASE /\ imageOutcomes' = Append(imageOutcomes, o)
           /\ imageWorker' = [imageWorker EXCEPT ![w] = [pc |-> IF o = Panicked THEN "ended" ELSE "claim"]]
  <2> DEFINE s == [pc |-> IF o = Panicked THEN "ended" ELSE "claim"]
  <2>1. s \in ImageWorkerStates /\ s.pc # "send" /\ (s.pc = "ended" => o.kind = "fatal")
    BY DEF ImageWorkerStates, Panicked
  <2>2. imageWorker' = [imageWorker EXCEPT ![w] = s]
    BY <1>5
  <2> HIDE DEF s
  <2>3. imageOutcomes' \in Seq(ImageOutcomeSet)
    BY <1>1, <1>3, <1>5, Sent
  <2>4. /\ Sending' = Sending \cup OfOutcome(o)
        /\ \A k \in DOMAIN imageOutcomes' : imageOutcomes'[k] = o \/ \E j \in DOMAIN imageOutcomes : imageOutcomes'[k] = imageOutcomes[j]
        /\ \A k \in DOMAIN imageOutcomes : k \in DOMAIN imageOutcomes' /\ imageOutcomes'[k] = imageOutcomes[k]
        /\ \E k \in DOMAIN imageOutcomes' : imageOutcomes'[k] = o
    BY <1>1, <1>3, <1>5, SendingSent
  <2>5. \A k \in DOMAIN imageOutcomes' : OutcomeTrue(imageOutcomes'[k])
    BY <2>4, <1>1
  <2>6. PanicAhead => PanicAhead'
    BY <1>1, <2>2, <2>4, PanicKept
  <2>7. Undisturbed' => Undisturbed /\ s.pc # "ended"
    <3>1. o.kind = "fatal" => PanicAhead'
      BY <2>4 DEF PanicAhead
    <3> QED BY <3>1, <2>1, <2>6, <1>2 DEF Undisturbed
  <2> QED BY <1>1, <1>2, <1>3, <1>4, <2>1, <2>2, <2>3, <2>4, <2>5, <2>7, ImageWorkerStep
<1>6. CASE imagePass.aborted /\ imageWorker' = [imageWorker EXCEPT ![w] = [pc |-> "ended"]] /\ imageOutcomes' = imageOutcomes
  <2> DEFINE s == [pc |-> "ended"]
  <2>1. s \in ImageWorkerStates /\ s.pc # "send"
    BY DEF ImageWorkerStates
  <2>2. imageWorker' = [imageWorker EXCEPT ![w] = s]
    BY <1>6
  <2> HIDE DEF s
  <2>3. ~Undisturbed'
    BY <1>1, <1>2, <1>6 DEF Undisturbed, StoppingInv
  <2>4. imageOutcomes' \in Seq(ImageOutcomeSet) /\ \A k \in DOMAIN imageOutcomes' : OutcomeTrue(imageOutcomes'[k])
    BY <1>1, <1>6
  <2> QED BY <1>1, <1>2, <1>4, <2>1, <2>2, <2>3, <2>4, ImageWorkerStep
<1> QED BY <1>5, <1>6 DEF SendOutcome, WorkerEnds

\* What holds of a pass that is under way.
LEMMA ImageUnderWay ==
    ASSUME ImageInv, imagePass.pc \notin {"idle", "done"}
    PROVE  /\ imagePass \in ImageRunning /\ ImageTypeOK /\ StoppingInv /\ StoredInv /\ SeenInv /\ (Undisturbed => NothingLost)
           /\ \A k \in DOMAIN imageOutcomes : OutcomeTrue(imageOutcomes[k])
           /\ \A k \in DOMAIN imagePending : SeenSince(imagePending[k])
           /\ \A k \in DOMAIN imagePass.batch : SeenSince(imagePass.batch[k])
           /\ \A item \in imagePass.ready : item.asset \in Stills /\ item.seen = imagePass.row[item.asset]
           /\ imageOutcomes \in Seq(ImageOutcomeSet) /\ imagePending \in Seq(ImageItem)
           /\ imagePass.batch \in Seq(ImageItem) /\ imagePass.ready \subseteq ImageItem
           /\ imagePass.row \in [ImageAssets -> Nat \ {0}] /\ excused \subseteq ImageAssets
           /\ imageFile \in [ImageAssets -> Nat] /\ failedRow \in [ImageAssets -> Nat]
           /\ vectors \in [ImageAssets -> VersionPairs] /\ frames \in [ImageAssets -> VersionPairs]
<1>1. imagePass \in ImageRunning
  BY DEF ImageInv, ImageTypeOK, NoPass
<1> QED BY <1>1 DEF ImageInv, ImageTypeOK, SeenInv, ImageRunning

\* A coordinator that stores what it may, and forgets an asset only when it is
\* covered or the pass stops, keeps the invariant.
LEMMA CoordinatorMoves ==
    ASSUME ImageInv, imagePass.pc \notin {"idle", "done"}, imagePass' \in ImageRunning,
           UNCHANGED <<imageFile, imageRow, imageWorker, imageCancel>>,
           imagePass'.row = imagePass.row, imagePass'.options = imagePass.options,
           imagePass'.sources = imagePass.sources, imagePass'.next = imagePass.next,
           Stopping(imagePass) => Stopping(imagePass'),
           imagePass'.flag \/ imagePass'.aborted \/ imagePass'.pc = "stop" => Stopping(imagePass'),
           imagePass'.pc \in Flushing => ~Stopping(imagePass'),
           imagePass'.pc \in {"receive", "stop"} => ~imagePass'.final /\ imagePass'.batch = <<>> /\ imagePass'.ready = {},
           (imagePass'.pc = "done" \/ (imagePass'.pc \in Flushing /\ imagePass'.final)) =>
               imageWorker = IdleWorkers /\ imageOutcomes' = <<>> /\ imagePending' = <<>>,
           imageOutcomes' \in Seq(ImageOutcomeSet), \A k \in DOMAIN imageOutcomes' : OutcomeTrue(imageOutcomes'[k]),
           imagePending' \in Seq(ImageItem), \A k \in DOMAIN imagePending' : SeenSince(imagePending'[k]),
           \A k \in DOMAIN imagePass'.batch : SeenSince(imagePass'.batch[k]),
           \A item \in imagePass'.ready : item.asset \in Stills /\ item.seen = imagePass.row[item.asset],
           imagePass'.pc = "video" =>
               /\ imagePass'.batch # <<>> /\ Head(imagePass'.batch).seen = imagePass.row[Head(imagePass'.batch).asset]
               /\ frames'[Head(imagePass'.batch).asset].fp = imagePass.row[Head(imagePass'.batch).asset]
                  \/ Head(imagePass'.batch).asset \in excused',
           excused \subseteq excused', excused' \subseteq ImageAssets,
           failedRow' \in [ImageAssets -> Nat],
           \A a \in ImageAssets : failedRow'[a] = failedRow[a] \/
               (failedRow'[a] = imagePass.row[a] /\ (imagePass.row[a] = imageFile[a] => <<a, imageFile[a]>> \in Failing)),
           vectors' \in [ImageAssets -> VersionPairs], frames' \in [ImageAssets -> VersionPairs],
           \A a \in ImageAssets : vectors'[a] = vectors[a] \/ vectors'[a] = [fp |-> imagePass.row[a], seen |-> imagePass.row[a]],
           \A a \in ImageAssets : frames'[a] = frames[a] \/ frames'[a] = [fp |-> imagePass.row[a], seen |-> imagePass.row[a]],
           PanicAhead /\ ~Stopping(imagePass') => PanicAhead',
           Undisturbed' =>
               \A a \in Sending \cup AssetsOf(imagePending) \cup AssetsOf(imagePass.batch) \cup {item.asset : item \in imagePass.ready} :
                   \/ a \in Sending' \cup AssetsOf(imagePending') \cup AssetsOf(imagePass'.batch)
                            \cup {item.asset : item \in imagePass'.ready}
                   \/ Covered(a)',
           imagePass'.pc = "done" /\ Undisturbed' =>
               imagePass'.batch = <<>> /\ \A item \in imagePass'.ready : Covered(item.asset)'
    PROVE  ImageInv'
<1>1. /\ imagePass \in ImageRunning /\ ImageTypeOK /\ StoppingInv /\ StoredInv /\ SeenInv /\ (Undisturbed => NothingLost)
      /\ imagePass.row \in [ImageAssets -> Nat \ {0}]
  BY ImageUnderWay
<1>2. imagePass'.pc # "idle"
  BY DEF ImageRunning
<1>3. ImageTypeOK'
  BY <1>1, <1>2 DEF ImageTypeOK
<1>4. StoppingInv'
  BY DEF StoppingInv
<1>5. StoredInv'
  <2> SUFFICES ASSUME NEW a \in ImageAssets
               PROVE  /\ vectors'[a].seen = vectors'[a].fp /\ frames'[a].seen = frames'[a].fp
                      /\ NotAhead(a, imageRow[a]) /\ NotAhead(a, failedRow'[a])
                      /\ failedRow'[a] # 0 /\ failedRow'[a] = imageFile[a] => <<a, imageFile[a]>> \in Failing
    BY DEF StoredInv, NotAhead
  <2>1. vectors'[a].seen = vectors'[a].fp /\ frames'[a].seen = frames'[a].fp
    <3>1. vectors[a].seen = vectors[a].fp /\ frames[a].seen = frames[a].fp
      BY <1>1 DEF StoredInv
    <3>2. vectors'[a] = vectors[a] \/ vectors'[a] = [fp |-> imagePass.row[a], seen |-> imagePass.row[a]]
      OBVIOUS
    <3>3. frames'[a] = frames[a] \/ frames'[a] = [fp |-> imagePass.row[a], seen |-> imagePass.row[a]]
      OBVIOUS
    <3>4. vectors'[a].seen = vectors'[a].fp
      BY <3>1, <3>2
    <3>5. frames'[a].seen = frames'[a].fp
      BY <3>1, <3>3
    <3> QED BY <3>4, <3>5
  <2>2. NotAhead(a, imageRow[a]) /\ NotAhead(a, imagePass.row[a])
    BY <1>1 DEF StoredInv, SeenInv
  <2>3. NotAhead(a, failedRow'[a]) /\ (failedRow'[a] # 0 /\ failedRow'[a] = imageFile[a] => <<a, imageFile[a]>> \in Failing)
    BY <1>1, <2>2 DEF StoredInv
  <2> QED BY <2>1, <2>2, <2>3
<1>6. SeenInv'
  <2>1. \A a \in ImageAssets : NotAhead(a, imagePass.row[a])'
    BY <1>1 DEF SeenInv, NotAhead
  <2>2. \A x \in ImageWorkers : (imageWorker[x].pc = "send" => OutcomeTrue(imageWorker[x].outcome))'
    BY <1>1 DEF SeenInv, OutcomeTrue, SeenSince, FailureReal, NotAhead
  <2>3. \A k \in DOMAIN imageOutcomes' : OutcomeTrue(imageOutcomes[k])'
    BY DEF OutcomeTrue, SeenSince, FailureReal, NotAhead
  <2>4. \A k \in DOMAIN imagePending' : SeenSince(imagePending[k])'
    BY DEF SeenSince, NotAhead
  <2>5. \A k \in DOMAIN imagePass'.batch : SeenSince(imagePass.batch[k])'
    BY DEF SeenSince, NotAhead
  <2> QED BY <2>1, <2>2, <2>3, <2>4, <2>5 DEF SeenInv
<1>7. ASSUME NEW a \in ImageAssets, Covered(a) PROVE Covered(a)'
  <2>1. vectors'[a] = vectors[a] \/ vectors'[a] = [fp |-> imagePass.row[a], seen |-> imagePass.row[a]]
    OBVIOUS
  <2>2. frames'[a] = frames[a] \/ frames'[a] = [fp |-> imagePass.row[a], seen |-> imagePass.row[a]]
    OBVIOUS
  <2>3. vectors[a].fp = imagePass.row[a] => vectors'[a].fp = imagePass.row[a]
    BY <2>1
  <2>4. frames[a].fp = imagePass.row[a] => frames'[a].fp = imagePass.row[a]
    BY <2>2
  <2>5. failedRow[a] = imagePass.row[a] => failedRow'[a] = imagePass.row[a]
    OBVIOUS
  <2>6. imagePass'.row[a] = imagePass.row[a] /\ (a \in excused => a \in excused')
    OBVIOUS
  <2> QED BY <2>3, <2>4, <2>5, <2>6, <1>7 DEF Covered
<1>8. Undisturbed' => Undisturbed
  BY DEF Undisturbed
<1>9. UNCHANGED <<LeftToClaim, Held>>
  BY DEF LeftToClaim, Held
<1>10. AssetsOf(imagePending)' = AssetsOf(imagePending') /\ AssetsOf(imagePass.batch)' = AssetsOf(imagePass'.batch)
  BY DEF AssetsOf
<1>11. ASSUME Undisturbed' PROVE NothingLost'
  <2>1. NothingLost
    BY <1>1, <1>8, <1>11
  <2>2. ASSUME NEW a \in ImageAssets, Covered(a) \/ a \in UnderWay PROVE Covered(a)' \/ a \in UnderWay'
    BY <2>2, <1>7, <1>9, <1>10, <1>11 DEF UnderWay
  <2>3. imagePass.options.limit = 0 =>
          \A a \in Candidates(imagePass.options.videos) : Covered(a)' \/ a \in UnderWay'
    BY <2>1, <2>2 DEF NothingLost, Candidates, ImageAssets
  <2> QED BY <2>1, <2>3, <1>9 DEF NothingLost
<1>12. CompletePassCovers'
  <2> SUFFICES ASSUME imagePass'.pc = "done", ~Stopping(Noticed)', imagePass'.options.limit = 0,
                      NEW a \in Candidates(imagePass'.options.videos)
               PROVE  Covered(a)'
    BY DEF CompletePassCovers, Covered
  <2>1. ~Stopping(imagePass') /\ ~imageCancel
    BY DEF Noticed, Stopping, ImageRunning
  <2>2. imageWorker = IdleWorkers /\ imageOutcomes' = <<>>
    OBVIOUS
  <2>3. Undisturbed'
    BY <2>1, <2>2 DEF Undisturbed, PanicAhead, IdleWorkers
  <2>4. LeftToClaim = {}
    BY <2>2, <2>3, <1>1, <1>8, ImageAssumption DEF NothingLost, IdleWorkers
  <2>5. Held' = {} /\ Sending' = {} /\ AssetsOf(imagePending') = {} /\ AssetsOf(imagePass'.batch) = {}
    BY <2>2, <2>3 DEF Held, HeldBy, Sending, AssetsOf, IdleWorkers
  <2>6. a \in UnderWay' => Covered(a)'
    BY <2>3, <2>4, <2>5, <1>9, <1>10 DEF UnderWay
  <2>7. NothingLost'
    BY <2>3, <1>11
  <2> QED BY <2>6, <2>7 DEF NothingLost
<1> QED BY <1>3, <1>4, <1>5, <1>6, <1>11, <1>12 DEF ImageInv

\* An empty sequence has no positions.
LEMMA NothingListed == DOMAIN <<>> = {}
<1>1. <<>> \in Seq({}) /\ Len(<<>>) = 0
  OBVIOUS
<1>2. DOMAIN <<>> = 1 .. Len(<<>>)
  BY <1>1, LenProperties
<1>3. 1 .. 0 = {}
  OBVIOUS
<1> QED BY <1>1, <1>2, <1>3

\* What a flush returns with.
LEMMA FlushReturns ==
    ASSUME ImageInv, imagePass.pc \in Flushing, NEW failed \in BOOLEAN, imagePass' = Flushed(failed)
    PROVE  /\ imagePass' \in ImageRunning /\ imagePass'.row = imagePass.row
           /\ imagePass'.options = imagePass.options /\ imagePass'.sources = imagePass.sources
           /\ imagePass'.next = imagePass.next
           /\ ~Stopping(imagePass) /\ (Stopping(imagePass') <=> failed)
           /\ imagePass'.flag \/ imagePass'.aborted => failed
           /\ imagePass'.pc \in {"receive", "stop", "done"} /\ (imagePass'.pc = "stop" => failed)
           /\ imagePass'.batch = <<>> /\ imagePass'.ready \subseteq imagePass.ready
           /\ imagePass'.pc = "done" => imageWorker = IdleWorkers /\ imageOutcomes = <<>> /\ imagePending = <<>>
           /\ imagePass'.pc # "done" => ~imagePass'.final /\ imagePass'.ready = {}
<1>1. imagePass \in ImageRunning /\ ImageTypeOK /\ StoppingInv
  BY ImageUnderWay DEF Flushing
<1>2. ~Stopping(imagePass) /\ ~imagePass.flag /\ ~imagePass.aborted
  BY <1>1 DEF StoppingInv, Flushing
<1>3. ~imagePass.cancelled /\ ~imagePass.writeError /\ ~imagePass.fatal
  BY <1>2 DEF Stopping
<1>4. <<>> \in Seq(ImageItem) /\ {} \in SUBSET ImageItem
  OBVIOUS
<1>5. CASE imagePass.final
  <2>1. imagePass' = [imagePass EXCEPT !.pc = "done", !.writeError = failed, !.batch = <<>>]
    BY <1>5 DEF Flushed
  <2>2. imagePass' \in ImageRunning
    BY <2>1, <1>1, <1>4 DEF ImageRunning
  <2>3. /\ imagePass'.pc = "done" /\ imagePass'.writeError = failed /\ imagePass'.batch = <<>>
        /\ imagePass'.row = imagePass.row /\ imagePass'.options = imagePass.options
        /\ imagePass'.sources = imagePass.sources /\ imagePass'.next = imagePass.next
        /\ imagePass'.flag = imagePass.flag /\ imagePass'.aborted = imagePass.aborted
        /\ imagePass'.ready = imagePass.ready /\ imagePass'.cancelled = imagePass.cancelled
        /\ imagePass'.fatal = imagePass.fatal
    BY <2>1, <1>1 DEF ImageRunning
  <2>4. imageWorker = IdleWorkers /\ imageOutcomes = <<>> /\ imagePending = <<>>
    BY <1>1, <1>5 DEF ImageTypeOK
  <2> QED BY <2>2, <2>3, <2>4, <1>2, <1>3 DEF Stopping
<1>6. CASE ~imagePass.final
  <2>1. imagePass' = [imagePass EXCEPT !.pc = IF failed THEN "stop" ELSE "receive", !.writeError = @ \/ failed,
                           !.flag = @ \/ failed, !.batch = <<>>, !.ready = {}]
    BY <1>6 DEF Flushed
  <2>2. (imagePass.writeError \/ failed) = failed /\ (imagePass.flag \/ failed) = failed
    BY <1>2, <1>3, <1>1 DEF ImageRunning
  <2>3. imagePass' = [imagePass EXCEPT !.pc = IF failed THEN "stop" ELSE "receive", !.writeError = failed,
                           !.flag = failed, !.batch = <<>>, !.ready = {}]
    BY <2>1, <2>2
  <2> DEFINE p == IF failed THEN "stop" ELSE "receive"
  <2>4. p \in {"receive", "stop"} /\ (p = "stop" => failed)
    OBVIOUS
  <2>5. imagePass' = [imagePass EXCEPT !.pc = p, !.writeError = failed, !.flag = failed, !.batch = <<>>, !.ready = {}]
    BY <2>3
  <2> HIDE DEF p
  <2>6. imagePass' \in ImageRunning
    BY <2>4, <2>5, <1>1, <1>4 DEF ImageRunning
  <2>7. /\ imagePass'.pc = p /\ imagePass'.writeError = failed /\ imagePass'.flag = failed
        /\ imagePass'.batch = <<>> /\ imagePass'.ready = {}
        /\ imagePass'.row = imagePass.row /\ imagePass'.options = imagePass.options
        /\ imagePass'.sources = imagePass.sources /\ imagePass'.next = imagePass.next
        /\ imagePass'.aborted = imagePass.aborted /\ imagePass'.final = imagePass.final
        /\ imagePass'.cancelled = imagePass.cancelled /\ imagePass'.fatal = imagePass.fatal
    BY <2>5, <1>1 DEF ImageRunning
  <2> QED BY <2>4, <2>6, <2>7, <1>2, <1>3, <1>6 DEF Stopping
<1> QED BY <1>5, <1>6

\* A flush that fails keeps the invariant, whatever it has reported.
LEMMA FlushFailsOK ==
    ASSUME ImageInv, imagePass.pc \in Flushing, imagePass' = Flushed(TRUE),
           UNCHANGED <<imageFile, imageRow, failedRow, vectors, frames, imageWorker, imageOutcomes,
                       imagePending, imageCancel>>,
           excused \subseteq excused', excused' \subseteq ImageAssets
    PROVE  ImageInv'
<1>1. imagePass.pc \notin {"idle", "done"}
  BY DEF Flushing
<1>2. /\ imagePass \in ImageRunning /\ ImageTypeOK
      /\ \A k \in DOMAIN imageOutcomes : OutcomeTrue(imageOutcomes[k])
      /\ \A k \in DOMAIN imagePending : SeenSince(imagePending[k])
      /\ \A item \in imagePass.ready : item.asset \in Stills /\ item.seen = imagePass.row[item.asset]
      /\ imageOutcomes \in Seq(ImageOutcomeSet) /\ imagePending \in Seq(ImageItem)
      /\ failedRow \in [ImageAssets -> Nat]
      /\ vectors \in [ImageAssets -> VersionPairs] /\ frames \in [ImageAssets -> VersionPairs]
  BY <1>1, ImageUnderWay
<1>3. /\ imagePass' \in ImageRunning /\ imagePass'.row = imagePass.row
      /\ imagePass'.options = imagePass.options /\ imagePass'.sources = imagePass.sources
      /\ imagePass'.next = imagePass.next
      /\ Stopping(imagePass') /\ imagePass'.pc \in {"receive", "stop", "done"}
      /\ imagePass'.batch = <<>> /\ imagePass'.ready \subseteq imagePass.ready
      /\ imagePass'.pc = "done" => imageWorker = IdleWorkers /\ imageOutcomes = <<>> /\ imagePending = <<>>
      /\ imagePass'.pc # "done" => ~imagePass'.final /\ imagePass'.ready = {}
  BY FlushReturns
<1>4. ~Undisturbed'
  BY <1>3 DEF Undisturbed
<1>5. /\ \A k \in DOMAIN imagePass'.batch : SeenSince(imagePass'.batch[k])
      /\ \A item \in imagePass'.ready : item.asset \in Stills /\ item.seen = imagePass.row[item.asset]
      /\ imagePass'.pc \notin Flushing /\ imagePass'.pc # "video"
  <2>1. DOMAIN imagePass'.batch = {}
    BY <1>3, NothingListed
  <2>2. \A item \in imagePass'.ready : item.asset \in Stills /\ item.seen = imagePass.row[item.asset]
    BY <1>2, <1>3
  <2> QED BY <2>1, <2>2, <1>3 DEF Flushing
<1>6. UNCHANGED <<Sending, PanicAhead>>
  BY DEF Sending, PanicAhead
<1> QED BY <1>1, <1>2, <1>3, <1>4, <1>5, <1>6, CoordinatorMoves

\* The coordinator that drops its abort guard keeps the invariant.
LEMMA DropAbortOK ==
    ASSUME ImageInv, DropAbort
    PROVE  ImageInv'
<1>1. /\ imagePass.pc = "stop" /\ imagePass' = [imagePass EXCEPT !.pc = "receive", !.aborted = TRUE]
      /\ UNCHANGED <<imageFile, imageRow, failedRow, vectors, frames, imageWorker, imageOutcomes,
                     imagePending, imageCancel, excused, passes>>
  BY DEF DropAbort
<1>2. /\ imagePass \in ImageRunning /\ ImageTypeOK /\ StoppingInv /\ StoredInv /\ SeenInv
      /\ \A k \in DOMAIN imageOutcomes : OutcomeTrue(imageOutcomes[k])
      /\ \A k \in DOMAIN imagePending : SeenSince(imagePending[k])
      /\ \A k \in DOMAIN imagePass.batch : SeenSince(imagePass.batch[k])
      /\ \A item \in imagePass.ready : item.asset \in Stills /\ item.seen = imagePass.row[item.asset]
      /\ imageOutcomes \in Seq(ImageOutcomeSet) /\ imagePending \in Seq(ImageItem)
      /\ failedRow \in [ImageAssets -> Nat] /\ excused \subseteq ImageAssets
      /\ vectors \in [ImageAssets -> VersionPairs] /\ frames \in [ImageAssets -> VersionPairs]
  BY <1>1, ImageUnderWay
<1>3. imagePass' \in ImageRunning
  BY <1>1, <1>2 DEF ImageRunning
<1>4. /\ imagePass'.pc = "receive" /\ imagePass'.row = imagePass.row /\ imagePass'.options = imagePass.options
      /\ imagePass'.sources = imagePass.sources /\ imagePass'.next = imagePass.next
      /\ imagePass'.batch = imagePass.batch /\ imagePass'.ready = imagePass.ready
      /\ imagePass'.cancelled = imagePass.cancelled /\ imagePass'.writeError = imagePass.writeError
      /\ imagePass'.fatal = imagePass.fatal /\ imagePass'.final = imagePass.final
  BY <1>1, <1>2 DEF ImageRunning
<1>5. /\ Stopping(imagePass) /\ Stopping(imagePass')
      /\ ~imagePass.final /\ imagePass.batch = <<>> /\ imagePass.ready = {}
  BY <1>1, <1>2, <1>4 DEF StoppingInv, Stopping
<1>6. ~Undisturbed'
  BY <1>5 DEF Undisturbed
<1> QED BY <1>1, <1>2, <1>3, <1>4, <1>5, <1>6, CoordinatorMoves DEF Flushing

\* A batch that goes through the model keeps the invariant.
LEMMA InferOK ==
    ASSUME ImageInv, Infer
    PROVE  ImageInv'
<1>1. /\ imagePass.pc = "infer" /\ imagePass.pc \in Flushing /\ imagePass.pc \notin {"idle", "done"}
      /\ UNCHANGED <<imageFile, imageRow, failedRow, vectors, frames, imageWorker, imageOutcomes,
                     imagePending, imageCancel, passes>>
  BY DEF Infer, Flushing
<1>2. /\ imagePass \in ImageRunning /\ ImageTypeOK /\ StoppingInv /\ StoredInv /\ SeenInv
      /\ \A k \in DOMAIN imageOutcomes : OutcomeTrue(imageOutcomes[k])
      /\ \A k \in DOMAIN imagePending : SeenSince(imagePending[k])
      /\ \A k \in DOMAIN imagePass.batch : SeenSince(imagePass.batch[k])
      /\ \A item \in imagePass.ready : item.asset \in Stills /\ item.seen = imagePass.row[item.asset]
      /\ imageOutcomes \in Seq(ImageOutcomeSet) /\ imagePending \in Seq(ImageItem) /\ imagePass.batch \in Seq(ImageItem)
      /\ failedRow \in [ImageAssets -> Nat] /\ excused \subseteq ImageAssets
      /\ vectors \in [ImageAssets -> VersionPairs] /\ frames \in [ImageAssets -> VersionPairs]
  BY <1>1, ImageUnderWay
<1>3. UNCHANGED Sending /\ (PanicAhead => PanicAhead')
  BY <1>1 DEF Sending, PanicAhead
<1>4. CASE imagePass' = [imagePass EXCEPT !.pc = "store"] /\ excused' = excused
  <2>1. imagePass' \in ImageRunning
    BY <1>2, <1>4 DEF ImageRunning
  <2>2. /\ imagePass'.pc = "store" /\ imagePass'.row = imagePass.row /\ imagePass'.options = imagePass.options
        /\ imagePass'.sources = imagePass.sources /\ imagePass'.next = imagePass.next
        /\ imagePass'.batch = imagePass.batch /\ imagePass'.ready = imagePass.ready
        /\ imagePass'.flag = imagePass.flag /\ imagePass'.aborted = imagePass.aborted /\ imagePass'.final = imagePass.final
        /\ imagePass'.cancelled = imagePass.cancelled /\ imagePass'.writeError = imagePass.writeError
        /\ imagePass'.fatal = imagePass.fatal
    BY <1>2, <1>4 DEF ImageRunning
  <2>3. ~Stopping(imagePass) /\ ~Stopping(imagePass') /\ ~imagePass'.flag /\ ~imagePass'.aborted
    BY <1>1, <1>2, <2>2 DEF StoppingInv, Stopping
  <2>4. imagePass'.final => imageWorker = IdleWorkers /\ imageOutcomes = <<>> /\ imagePending = <<>>
    BY <1>1, <1>2, <2>2 DEF ImageTypeOK
  <2> QED BY <1>1, <1>2, <1>3, <1>4, <2>1, <2>2, <2>3, <2>4, CoordinatorMoves
<1>5. CASE imagePass' = Flushed(TRUE) /\ excused' = excused \cup {imagePass.batch[k].asset : k \in DOMAIN imagePass.batch}
  <2>1. excused \subseteq excused' /\ excused' \subseteq ImageAssets
    <3>1. \A k \in DOMAIN imagePass.batch : imagePass.batch[k] \in ImageItem
      BY <1>2, LenProperties, ElementOfSeq
    <3> QED BY <3>1, <1>2, <1>5 DEF ImageItem
  <2> QED BY <1>1, <1>5, <2>1, FlushFailsOK
<1> QED BY <1>4, <1>5 DEF Infer

\* What is left of a batch when its first item is taken.
LEMMA RestOfBatch ==
    ASSUME NEW q \in Seq(ImageItem), q # <<>>
    PROVE  /\ Head(q) \in ImageItem /\ Tail(q) \in Seq(ImageItem)
           /\ \E k \in DOMAIN q : q[k] = Head(q)
           /\ \A k \in DOMAIN Tail(q) : \E j \in DOMAIN q : Tail(q)[k] = q[j]
           /\ AssetsOf(q) \subseteq AssetsOf(Tail(q)) \cup {Head(q).asset}
<1>1. Head(q) \in ImageItem /\ Tail(q) \in Seq(ImageItem)
  BY Received
<1>2. \E k \in DOMAIN q : q[k] = Head(q)
  BY Received
<1>3. \A k \in DOMAIN Tail(q) : \E j \in DOMAIN q : Tail(q)[k] = q[j]
  BY Received
<1>4. ASSUME NEW a \in AssetsOf(q), a # Head(q).asset PROVE a \in AssetsOf(Tail(q))
  <2>1. PICK k \in DOMAIN q : q[k].asset = a
    BY DEF AssetsOf
  <2>2. k - 1 \in DOMAIN Tail(q) /\ Tail(q)[k - 1] = q[k]
    BY <2>1, <1>4, Received
  <2> QED BY <2>1, <2>2 DEF AssetsOf
<1> QED BY <1>1, <1>2, <1>3, <1>4

\* What holds while a batch is flushed.
LEMMA InFlush ==
    ASSUME ImageInv, imagePass.pc \in Flushing
    PROVE  /\ imagePass.pc \notin {"idle", "done"}
           /\ imagePass \in ImageRunning /\ ImageTypeOK /\ StoppingInv /\ StoredInv /\ SeenInv
           /\ \A k \in DOMAIN imageOutcomes : OutcomeTrue(imageOutcomes[k])
           /\ \A k \in DOMAIN imagePending : SeenSince(imagePending[k])
           /\ \A k \in DOMAIN imagePass.batch : SeenSince(imagePass.batch[k])
           /\ \A item \in imagePass.ready : item.asset \in Stills /\ item.seen = imagePass.row[item.asset]
           /\ imageOutcomes \in Seq(ImageOutcomeSet) /\ imagePending \in Seq(ImageItem)
           /\ imagePass.batch \in Seq(ImageItem) /\ imagePass.ready \subseteq ImageItem
           /\ imagePass.row \in [ImageAssets -> Nat \ {0}] /\ imageFile \in [ImageAssets -> Nat]
           /\ failedRow \in [ImageAssets -> Nat] /\ excused \subseteq ImageAssets
           /\ vectors \in [ImageAssets -> VersionPairs] /\ frames \in [ImageAssets -> VersionPairs]
           /\ ~Stopping(imagePass) /\ ~imagePass.flag /\ ~imagePass.aborted
           /\ imagePass.final => imageWorker = IdleWorkers /\ imageOutcomes = <<>> /\ imagePending = <<>>
<1>1. imagePass.pc \notin {"idle", "done"}
  BY DEF Flushing
<1>2. /\ imagePass \in ImageRunning /\ ImageTypeOK /\ StoppingInv /\ StoredInv /\ SeenInv
      /\ \A k \in DOMAIN imageOutcomes : OutcomeTrue(imageOutcomes[k])
      /\ \A k \in DOMAIN imagePending : SeenSince(imagePending[k])
      /\ \A k \in DOMAIN imagePass.batch : SeenSince(imagePass.batch[k])
      /\ \A item \in imagePass.ready : item.asset \in Stills /\ item.seen = imagePass.row[item.asset]
      /\ imageOutcomes \in Seq(ImageOutcomeSet) /\ imagePending \in Seq(ImageItem)
      /\ imagePass.batch \in Seq(ImageItem) /\ imagePass.ready \subseteq ImageItem
      /\ imagePass.row \in [ImageAssets -> Nat \ {0}] /\ imageFile \in [ImageAssets -> Nat]
      /\ failedRow \in [ImageAssets -> Nat] /\ excused \subseteq ImageAssets
      /\ vectors \in [ImageAssets -> VersionPairs] /\ frames \in [ImageAssets -> VersionPairs]
  BY <1>1, ImageUnderWay
<1>3. ~Stopping(imagePass) /\ ~imagePass.flag /\ ~imagePass.aborted
  BY <1>1, <1>2 DEF StoppingInv
<1>4. imagePass.final => imageWorker = IdleWorkers /\ imageOutcomes = <<>> /\ imagePending = <<>>
  BY <1>2 DEF ImageTypeOK
<1> QED BY <1>1, <1>2, <1>3, <1>4

\* A still of the batch that is stored, or found changed, keeps the invariant.
LEMMA StoreItemOK ==
    ASSUME ImageInv, StoreItem
    PROVE  ImageInv'
<1> DEFINE item == Head(imagePass.batch)
           rest == Tail(imagePass.batch)
           a == item.asset
<1>1. /\ imagePass.pc = "store" /\ imagePass.pc \in Flushing /\ imagePass.batch # <<>>
      /\ UNCHANGED <<imageFile, imageRow, failedRow, imageWorker, imageOutcomes, imagePending, imageCancel, passes>>
  BY DEF StoreItem, Flushing
<1>2. /\ imagePass.pc \notin {"idle", "done"}
      /\ imagePass \in ImageRunning /\ ImageTypeOK /\ StoppingInv /\ StoredInv /\ SeenInv
      /\ \A k \in DOMAIN imageOutcomes : OutcomeTrue(imageOutcomes[k])
      /\ \A k \in DOMAIN imagePending : SeenSince(imagePending[k])
      /\ \A k \in DOMAIN imagePass.batch : SeenSince(imagePass.batch[k])
      /\ \A i \in imagePass.ready : i.asset \in Stills /\ i.seen = imagePass.row[i.asset]
      /\ imageOutcomes \in Seq(ImageOutcomeSet) /\ imagePending \in Seq(ImageItem)
      /\ imagePass.batch \in Seq(ImageItem) /\ imagePass.ready \subseteq ImageItem
      /\ imagePass.row \in [ImageAssets -> Nat \ {0}] /\ imageFile \in [ImageAssets -> Nat]
      /\ failedRow \in [ImageAssets -> Nat] /\ excused \subseteq ImageAssets
      /\ vectors \in [ImageAssets -> VersionPairs] /\ frames \in [ImageAssets -> VersionPairs]
      /\ ~Stopping(imagePass) /\ ~imagePass.flag /\ ~imagePass.aborted
      /\ imagePass.final => imageWorker = IdleWorkers /\ imageOutcomes = <<>> /\ imagePending = <<>>
  BY <1>1, InFlush
<1>3. /\ item \in ImageItem /\ rest \in Seq(ImageItem) /\ SeenSince(item)
      /\ \A k \in DOMAIN rest : SeenSince(rest[k])
      /\ AssetsOf(imagePass.batch) \subseteq AssetsOf(rest) \cup {a}
  BY <1>1, <1>2, RestOfBatch
<1>4. a \in ImageAssets /\ item.seen \in Nat
  BY <1>3 DEF ImageItem
<1>5. UNCHANGED Sending /\ (PanicAhead => PanicAhead')
  BY <1>1 DEF Sending, PanicAhead
<1>6. ~SourceMoved(a) => item.seen = imagePass.row[a]
  BY <1>2, <1>3, <1>4 DEF SourceMoved, SeenSince, NotAhead
<1> HIDE DEF item, rest
<1>7. CASE /\ SourceMoved(a) /\ imagePass' = [imagePass EXCEPT !.batch = rest] /\ excused' = excused \cup {a}
           /\ UNCHANGED <<vectors, frames>>
  <2>1. imagePass' \in ImageRunning
    BY <1>2, <1>3, <1>7 DEF ImageRunning
  <2>2. /\ imagePass'.pc = "store" /\ imagePass'.row = imagePass.row /\ imagePass'.options = imagePass.options
        /\ imagePass'.sources = imagePass.sources /\ imagePass'.next = imagePass.next
        /\ imagePass'.batch = rest /\ imagePass'.ready = imagePass.ready
        /\ imagePass'.flag = imagePass.flag /\ imagePass'.aborted = imagePass.aborted /\ imagePass'.final = imagePass.final
        /\ imagePass'.cancelled = imagePass.cancelled /\ imagePass'.writeError = imagePass.writeError
        /\ imagePass'.fatal = imagePass.fatal
    BY <1>1, <1>2, <1>7 DEF ImageRunning
  <2>3. ~Stopping(imagePass')
    BY <1>2, <2>2 DEF Stopping
  <2>4. ASSUME NEW b, b = a PROVE Covered(b)'
    BY <1>7, <2>4 DEF Covered
  <2>5. excused' \subseteq ImageAssets
    BY <1>2, <1>4, <1>7
  <2> HIDE DEF a
  <2> QED BY <1>1, <1>2, <1>3, <1>5, <1>7, <2>1, <2>2, <2>3, <2>4, <2>5, CoordinatorMoves
<1>8. CASE /\ ~SourceMoved(a) /\ a \in Stills /\ excused' = excused /\ UNCHANGED <<vectors, frames>>
           /\ imagePass' = [imagePass EXCEPT !.batch = rest, !.ready = @ \cup {item}]
  <2>1. imagePass' \in ImageRunning
    BY <1>2, <1>3, <1>8 DEF ImageRunning
  <2>2. /\ imagePass'.pc = "store" /\ imagePass'.row = imagePass.row /\ imagePass'.options = imagePass.options
        /\ imagePass'.sources = imagePass.sources /\ imagePass'.next = imagePass.next
        /\ imagePass'.batch = rest /\ imagePass'.ready = imagePass.ready \cup {item}
        /\ imagePass'.flag = imagePass.flag /\ imagePass'.aborted = imagePass.aborted /\ imagePass'.final = imagePass.final
        /\ imagePass'.cancelled = imagePass.cancelled /\ imagePass'.writeError = imagePass.writeError
        /\ imagePass'.fatal = imagePass.fatal
    BY <1>1, <1>2, <1>8 DEF ImageRunning
  <2>3. ~Stopping(imagePass')
    BY <1>2, <2>2 DEF Stopping
  <2>4. \A i \in imagePass'.ready : i.asset \in Stills /\ i.seen = imagePass.row[i.asset]
    BY <1>2, <1>6, <1>8, <2>2
  <2>5. \A b \in AssetsOf(imagePass.batch) \cup {i.asset : i \in imagePass.ready} :
            b \in AssetsOf(imagePass'.batch) \cup {i.asset : i \in imagePass'.ready}
    BY <1>3, <2>2
  <2> HIDE DEF a
  <2> QED BY <1>1, <1>2, <1>3, <1>5, <1>8, <2>1, <2>2, <2>3, <2>4, <2>5, CoordinatorMoves
<1>9. CASE /\ ~SourceMoved(a) /\ excused' = excused /\ imagePass' = [imagePass EXCEPT !.pc = "video"]
           /\ frames' = [frames EXCEPT ![a] = Saved(item)] /\ UNCHANGED vectors
  <2>1. imagePass' \in ImageRunning
    BY <1>2, <1>9 DEF ImageRunning
  <2>2. /\ imagePass'.pc = "video" /\ imagePass'.row = imagePass.row /\ imagePass'.options = imagePass.options
        /\ imagePass'.sources = imagePass.sources /\ imagePass'.next = imagePass.next
        /\ imagePass'.batch = imagePass.batch /\ imagePass'.ready = imagePass.ready
        /\ imagePass'.flag = imagePass.flag /\ imagePass'.aborted = imagePass.aborted /\ imagePass'.final = imagePass.final
        /\ imagePass'.cancelled = imagePass.cancelled /\ imagePass'.writeError = imagePass.writeError
        /\ imagePass'.fatal = imagePass.fatal
    BY <1>1, <1>2, <1>9 DEF ImageRunning
  <2>3. ~Stopping(imagePass')
    BY <1>2, <2>2 DEF Stopping
  <2>4. Saved(item) = [fp |-> imagePass.row[a], seen |-> imagePass.row[a]] /\ Saved(item) \in VersionPairs
    <3>1. imagePass.row[a] \in Nat
      BY <1>2, <1>4
    <3> QED BY <3>1, <1>6, <1>9 DEF Saved, VersionPairs
  <2>5. /\ frames' \in [ImageAssets -> VersionPairs]
        /\ \A b \in ImageAssets : frames'[b] = frames[b] \/ frames'[b] = [fp |-> imagePass.row[b], seen |-> imagePass.row[b]]
        /\ frames'[a].fp = imagePass.row[a]
    BY <2>4, <1>2, <1>4, <1>9
  <2>6. imagePass'.batch # <<>> /\ Head(imagePass'.batch).seen = imagePass.row[a] /\ Head(imagePass'.batch).asset = a
    BY <1>1, <1>6, <1>9, <2>2 DEF item
  <2> HIDE DEF a
  <2> QED BY <1>1, <1>2, <1>3, <1>5, <1>9, <2>1, <2>2, <2>3, <2>5, <2>6, CoordinatorMoves
<1>10. CASE excused' = excused /\ imagePass' = Flushed(TRUE) /\ UNCHANGED <<vectors, frames>>
  BY <1>1, <1>2, <1>10, FlushFailsOK
<1> QED BY <1>7, <1>8, <1>9, <1>10 DEF StoreItem, item, rest

\* A video that is finished and saved keeps the invariant.
LEMMA SaveVideoOK ==
    ASSUME ImageInv, SaveVideo
    PROVE  ImageInv'
<1> DEFINE item == Head(imagePass.batch)
           rest == Tail(imagePass.batch)
           a == item.asset
<1>1. /\ imagePass.pc = "video" /\ imagePass.pc \in Flushing
      /\ UNCHANGED <<imageFile, imageRow, failedRow, frames, imageWorker, imageOutcomes, imagePending, imageCancel, excused, passes>>
  BY DEF SaveVideo, Flushing
<1>2. /\ imagePass.pc \notin {"idle", "done"}
      /\ imagePass \in ImageRunning /\ ImageTypeOK /\ StoppingInv /\ StoredInv /\ SeenInv
      /\ \A k \in DOMAIN imageOutcomes : OutcomeTrue(imageOutcomes[k])
      /\ \A k \in DOMAIN imagePending : SeenSince(imagePending[k])
      /\ \A k \in DOMAIN imagePass.batch : SeenSince(imagePass.batch[k])
      /\ \A i \in imagePass.ready : i.asset \in Stills /\ i.seen = imagePass.row[i.asset]
      /\ imageOutcomes \in Seq(ImageOutcomeSet) /\ imagePending \in Seq(ImageItem)
      /\ imagePass.batch \in Seq(ImageItem) /\ imagePass.ready \subseteq ImageItem
      /\ imagePass.row \in [ImageAssets -> Nat \ {0}] /\ imageFile \in [ImageAssets -> Nat]
      /\ failedRow \in [ImageAssets -> Nat] /\ excused \subseteq ImageAssets
      /\ vectors \in [ImageAssets -> VersionPairs] /\ frames \in [ImageAssets -> VersionPairs]
      /\ ~Stopping(imagePass) /\ ~imagePass.flag /\ ~imagePass.aborted
      /\ imagePass.final => imageWorker = IdleWorkers /\ imageOutcomes = <<>> /\ imagePending = <<>>
  BY <1>1, InFlush
<1>3. /\ imagePass.batch # <<>> /\ item.seen = imagePass.row[a]
      /\ frames[a].fp = imagePass.row[a] \/ a \in excused
  BY <1>1, <1>2 DEF SeenInv
<1>4. /\ item \in ImageItem /\ rest \in Seq(ImageItem)
      /\ \A k \in DOMAIN rest : SeenSince(rest[k])
      /\ AssetsOf(imagePass.batch) \subseteq AssetsOf(rest) \cup {a}
  BY <1>2, <1>3, RestOfBatch
<1>5. a \in ImageAssets
  BY <1>4 DEF ImageItem
<1>6. UNCHANGED Sending /\ (PanicAhead => PanicAhead')
  BY <1>1 DEF Sending, PanicAhead
<1> HIDE DEF item, rest
<1>7. CASE /\ vectors' = [vectors EXCEPT ![a] = Saved(item)]
           /\ imagePass' = [imagePass EXCEPT !.pc = "store", !.batch = rest]
  <2>1. imagePass' \in ImageRunning
    BY <1>2, <1>4, <1>7 DEF ImageRunning
  <2>2. /\ imagePass'.pc = "store" /\ imagePass'.row = imagePass.row /\ imagePass'.options = imagePass.options
        /\ imagePass'.sources = imagePass.sources /\ imagePass'.next = imagePass.next
        /\ imagePass'.batch = rest /\ imagePass'.ready = imagePass.ready
        /\ imagePass'.flag = imagePass.flag /\ imagePass'.aborted = imagePass.aborted /\ imagePass'.final = imagePass.final
        /\ imagePass'.cancelled = imagePass.cancelled /\ imagePass'.writeError = imagePass.writeError
        /\ imagePass'.fatal = imagePass.fatal
    BY <1>1, <1>2, <1>7 DEF ImageRunning
  <2>3. ~Stopping(imagePass')
    BY <1>2, <2>2 DEF Stopping
  <2>4. Saved(item) = [fp |-> imagePass.row[a], seen |-> imagePass.row[a]] /\ Saved(item) \in VersionPairs
    <3>1. imagePass.row[a] \in Nat
      BY <1>2, <1>5
    <3> QED BY <3>1, <1>3 DEF Saved, VersionPairs
  <2>5. /\ vectors' \in [ImageAssets -> VersionPairs]
        /\ \A b \in ImageAssets : vectors'[b] = vectors[b] \/ vectors'[b] = [fp |-> imagePass.row[b], seen |-> imagePass.row[b]]
        /\ vectors'[a].fp = imagePass.row[a]
    BY <2>4, <1>2, <1>5, <1>7
  <2>6. ASSUME NEW b, b = a PROVE Covered(b)'
    BY <2>2, <2>5, <2>6, <1>1, <1>3 DEF Covered
  <2> HIDE DEF a
  <2> QED BY <1>1, <1>2, <1>4, <1>6, <2>1, <2>2, <2>3, <2>5, <2>6, CoordinatorMoves
<1>8. CASE imagePass' = Flushed(TRUE) /\ UNCHANGED vectors
  BY <1>1, <1>2, <1>8, FlushFailsOK
<1> QED BY <1>7, <1>8 DEF SaveVideo, item, rest

\* A flush of the finished stills keeps the invariant.
LEMMA SaveStillsOK ==
    ASSUME ImageInv, SaveStills
    PROVE  ImageInv'
<1>1. /\ imagePass.pc = "store" /\ imagePass.pc \in Flushing
      /\ imagePass.batch = <<>> \/ imageCancel
      /\ UNCHANGED <<imageFile, imageRow, failedRow, frames, imageWorker, imageOutcomes, imagePending, imageCancel, excused, passes>>
  BY DEF SaveStills, Flushing
<1>2. /\ imagePass.pc \notin {"idle", "done"}
      /\ imagePass \in ImageRunning /\ ImageTypeOK /\ StoppingInv /\ StoredInv /\ SeenInv
      /\ \A k \in DOMAIN imageOutcomes : OutcomeTrue(imageOutcomes[k])
      /\ \A k \in DOMAIN imagePending : SeenSince(imagePending[k])
      /\ \A k \in DOMAIN imagePass.batch : SeenSince(imagePass.batch[k])
      /\ \A i \in imagePass.ready : i.asset \in Stills /\ i.seen = imagePass.row[i.asset]
      /\ imageOutcomes \in Seq(ImageOutcomeSet) /\ imagePending \in Seq(ImageItem)
      /\ imagePass.batch \in Seq(ImageItem) /\ imagePass.ready \subseteq ImageItem
      /\ imagePass.row \in [ImageAssets -> Nat \ {0}] /\ imageFile \in [ImageAssets -> Nat]
      /\ failedRow \in [ImageAssets -> Nat] /\ excused \subseteq ImageAssets
      /\ vectors \in [ImageAssets -> VersionPairs] /\ frames \in [ImageAssets -> VersionPairs]
  BY <1>1, InFlush
<1>3. UNCHANGED Sending /\ (PanicAhead => PanicAhead')
  BY <1>1 DEF Sending, PanicAhead
<1>4. CASE imagePass' = Flushed(TRUE) /\ UNCHANGED vectors
  BY <1>1, <1>2, <1>4, FlushFailsOK
<1>5. CASE /\ imagePass' = Flushed(FALSE)
           /\ vectors' = IF imageCancel THEN vectors
                         ELSE [a \in ImageAssets |->
                                 IF \E item \in imagePass.ready : item.asset = a
                                 THEN Saved(CHOOSE item \in imagePass.ready : item.asset = a)
                                 ELSE vectors[a]]
  <2>1. /\ imagePass' \in ImageRunning /\ imagePass'.row = imagePass.row
        /\ imagePass'.options = imagePass.options /\ imagePass'.sources = imagePass.sources
        /\ imagePass'.next = imagePass.next
        /\ ~Stopping(imagePass) /\ ~Stopping(imagePass') /\ imagePass'.pc \in {"receive", "done"}
        /\ ~imagePass'.flag /\ ~imagePass'.aborted
        /\ imagePass'.pc # "done" => ~imagePass'.final /\ imagePass'.ready = {}
        /\ imagePass'.batch = <<>> /\ imagePass'.ready \subseteq imagePass.ready
        /\ imagePass'.pc = "done" => imageWorker = IdleWorkers /\ imageOutcomes = <<>> /\ imagePending = <<>>
    BY <1>1, <1>5, FlushReturns
  <2>2. ASSUME NEW a \in ImageAssets
        PROVE  /\ vectors'[a] = vectors[a] \/ vectors'[a] = [fp |-> imagePass.row[a], seen |-> imagePass.row[a]]
               /\ ~imageCancel /\ (\E item \in imagePass.ready : item.asset = a)
                    => vectors'[a] = [fp |-> imagePass.row[a], seen |-> imagePass.row[a]]
    <3>1. CASE imageCancel
      BY <3>1, <1>5
    <3>2. CASE ~imageCancel /\ ~ \E item \in imagePass.ready : item.asset = a
      BY <3>2, <1>5
    <3>3. CASE ~imageCancel /\ \E item \in imagePass.ready : item.asset = a
      <4> DEFINE c == CHOOSE item \in imagePass.ready : item.asset = a
      <4>1. c \in imagePass.ready /\ c.asset = a
        BY <3>3
      <4>2. vectors'[a] = Saved(c)
        BY <3>3, <1>5
      <4> HIDE DEF c
      <4>3. c.seen = imagePass.row[a]
        BY <4>1, <1>2
      <4> QED BY <4>1, <4>2, <4>3 DEF Saved
    <3> QED BY <3>1, <3>2, <3>3
  <2>3. vectors' \in [ImageAssets -> VersionPairs]
    <3>1. CASE imageCancel
      BY <3>1, <1>2, <1>5
    <3>2. CASE ~imageCancel
      <4>1. vectors' = [a \in ImageAssets |-> vectors'[a]]
        BY <3>2, <1>5
      <4>2. ASSUME NEW a \in ImageAssets PROVE vectors'[a] \in VersionPairs
        <5>1. vectors[a] \in VersionPairs /\ imagePass.row[a] \in Nat
          BY <1>2
        <5>2. [fp |-> imagePass.row[a], seen |-> imagePass.row[a]] \in VersionPairs
          BY <5>1 DEF VersionPairs
        <5> QED BY <5>1, <5>2, <2>2
      <4> QED BY <4>1, <4>2
    <3> QED BY <3>1, <3>2
  <2>4. ASSUME Undisturbed', NEW b, b \in {item.asset : item \in imagePass.ready} PROVE Covered(b)'
    <3>1. PICK item \in imagePass.ready : item.asset = b
      BY <2>4
    <3>2. ~imageCancel /\ b \in ImageAssets /\ b \in Stills
      BY <1>1, <1>2, <2>4, <3>1 DEF Undisturbed, ImageAssets
    <3>3. vectors'[b] = [fp |-> imagePass.row[b], seen |-> imagePass.row[b]]
      BY <3>1, <3>2, <2>2
    <3>4. vectors'[b].fp = imagePass'.row[b] /\ b \notin Videos
      BY <3>2, <3>3, <2>1, ImageAssumption
    <3> QED BY <3>4 DEF Covered
  <2>5. Undisturbed' => AssetsOf(imagePass.batch) = {}
    BY <1>1 DEF Undisturbed, AssetsOf
  <2> QED BY <1>1, <1>2, <1>3, <2>1, <2>2, <2>3, <2>4, <2>5, CoordinatorMoves DEF Flushing
<1> QED BY <1>4, <1>5 DEF SaveStills

\* A failure that is recorded is the file's, as long as it is the file that failed.
LEMMA RecordedIsReal ==
    ASSUME ImageTypeOK, imagePass \in ImageRunning, NEW a \in ImageAssets, FailureReal(a),
           ~imageCancel, ~Stopping(imagePass), imagePass.row[a] = imageFile[a]
    PROVE  <<a, imageFile[a]>> \in Failing
<1>1. PICK c \in Failing : c[1] = a /\ imagePass.row[a] <= c[2] /\ NotAhead(a, c[2])
  BY DEF FailureReal
<1>2. c \in ImageAssets \X Nat
  BY ImageAssumption DEF Failing
<1>3. c = <<c[1], c[2]>> /\ c[2] \in Nat
  BY <1>2
<1>4. imageFile[a] \in Nat /\ imageFile[a] # 0
  <2>1. imagePass.row[a] \in Nat \ {0}
    BY DEF ImageRunning
  <2> QED BY <2>1
<1>5. c[2] = imageFile[a]
  BY <1>1, <1>3, <1>4 DEF NotAhead
<1> QED BY <1>1, <1>3, <1>5

\* An item more: what the list holds, and whose.
LEMMA ItemAppended ==
    ASSUME NEW q \in Seq(ImageItem), NEW e \in ImageItem
    PROVE  /\ Append(q, e) \in Seq(ImageItem)
           /\ \A k \in DOMAIN Append(q, e) : Append(q, e)[k] = e \/ \E j \in DOMAIN q : Append(q, e)[k] = q[j]
           /\ AssetsOf(q) \cup {e.asset} \subseteq AssetsOf(Append(q, e))
<1>1. /\ Append(q, e) \in Seq(ImageItem) /\ DOMAIN Append(q, e) = DOMAIN q \cup {Len(q) + 1}
      /\ Append(q, e)[Len(q) + 1] = e /\ \A k \in DOMAIN q : Append(q, e)[k] = q[k]
  BY Sent
<1>2. AssetsOf(q) \cup {e.asset} \subseteq AssetsOf(Append(q, e))
  BY <1>1 DEF AssetsOf
<1> QED BY <1>1, <1>2

\* What the coordinator knows after a look at the token.
LEMMA Notices ==
    ASSUME imagePass \in ImageRunning, imageCancel \in BOOLEAN
    PROVE  /\ Noticed \in ImageRunning /\ Noticed.pc = imagePass.pc /\ Noticed.row = imagePass.row
           /\ Noticed.options = imagePass.options /\ Noticed.sources = imagePass.sources
           /\ Noticed.next = imagePass.next /\ Noticed.batch = imagePass.batch
           /\ Noticed.ready = imagePass.ready /\ Noticed.final = imagePass.final
           /\ Noticed.flag = imagePass.flag /\ Noticed.aborted = imagePass.aborted
           /\ Noticed.writeError = imagePass.writeError /\ Noticed.fatal = imagePass.fatal
           /\ Noticed.cancelled = (imagePass.cancelled \/ imageCancel)
           /\ Stopping(Noticed) <=> Stopping(imagePass) \/ imageCancel
<1> DEFINE c == imagePass.cancelled \/ imageCancel
<1>1. c \in BOOLEAN /\ Noticed = [imagePass EXCEPT !.cancelled = c]
  BY DEF Noticed
<1> HIDE DEF c
<1>2. Noticed \in ImageRunning
  BY <1>1 DEF ImageRunning
<1>3. /\ Noticed.pc = imagePass.pc /\ Noticed.row = imagePass.row
      /\ Noticed.options = imagePass.options /\ Noticed.sources = imagePass.sources
      /\ Noticed.next = imagePass.next /\ Noticed.batch = imagePass.batch
      /\ Noticed.ready = imagePass.ready /\ Noticed.final = imagePass.final
      /\ Noticed.flag = imagePass.flag /\ Noticed.aborted = imagePass.aborted
      /\ Noticed.writeError = imagePass.writeError /\ Noticed.fatal = imagePass.fatal
      /\ Noticed.cancelled = c
  BY <1>1 DEF ImageRunning
<1>4. Stopping(Noticed) <=> Stopping(imagePass) \/ imageCancel
  BY <1>3 DEF Stopping, c
<1> QED BY <1>2, <1>3, <1>4 DEF c

\* An outcome that the coordinator receives keeps the invariant.
LEMMA ReceiveOutcomeOK ==
    ASSUME ImageInv, ReceiveOutcome
    PROVE  ImageInv'
<1> DEFINE outcome == Head(imageOutcomes)
           p == Noticed
           kept == IF p.cancelled /\ ~imagePass.cancelled THEN <<>> ELSE imagePending
           all == Append(kept, outcome)
           Weight(recordFails) == [p EXCEPT !.fatal = @ \/ outcome = Panicked,
                                            !.writeError = @ \/ (recordFails /\ Recorded(p, outcome))]
           Goes == outcome.kind = "success" /\ ~Stopping(p) /\ Pixels(all) >= BatchSize
<1>1. /\ imagePass.pc = "receive" /\ imagePass.pc \notin {"idle", "done"} /\ imageOutcomes # <<>>
      /\ imageOutcomes' = Tail(imageOutcomes)
      /\ UNCHANGED <<imageFile, imageRow, vectors, frames, imageWorker, imageCancel, passes>>
  BY DEF ReceiveOutcome
<1>2. PICK recordFails \in {FALSE, TRUE} :
        LET q == Weight(recordFails)
        IN /\ recordFails => Recorded(p, outcome)
           /\ failedRow' = IF Recorded(p, outcome) /\ ~recordFails
                           THEN [failedRow EXCEPT ![outcome.asset] = imagePass.row[outcome.asset]]
                           ELSE failedRow
           /\ excused' = IF outcome.kind = "failure" /\ ~Stopping(q)
                              THEN excused \cup {outcome.asset} ELSE excused
           /\ IF Goes
              THEN imagePass' = [q EXCEPT !.pc = "infer", !.batch = all] /\ imagePending' = <<>>
              ELSE /\ imagePass' = [q EXCEPT !.pc = IF Stopping(q) /\ ~p.aborted THEN "stop" ELSE "receive",
                                             !.flag = Stopping(q)]
                   /\ imagePending' = IF outcome.kind = "success" /\ ~Stopping(p) THEN all ELSE kept
  BY DEF ReceiveOutcome
<1> DEFINE q == Weight(recordFails)
<1>3. /\ imagePass \in ImageRunning /\ ImageTypeOK /\ StoppingInv
      /\ \A k \in DOMAIN imageOutcomes : OutcomeTrue(imageOutcomes[k])
      /\ \A k \in DOMAIN imagePending : SeenSince(imagePending[k])
      /\ imageOutcomes \in Seq(ImageOutcomeSet) /\ imagePending \in Seq(ImageItem)
      /\ imagePass.row \in [ImageAssets -> Nat \ {0}]
      /\ failedRow \in [ImageAssets -> Nat] /\ excused \subseteq ImageAssets /\ imageCancel \in BOOLEAN
      /\ vectors \in [ImageAssets -> VersionPairs] /\ frames \in [ImageAssets -> VersionPairs]
  BY <1>1, ImageUnderWay DEF ImageTypeOK
<1>4. /\ ~imagePass.final /\ imagePass.batch = <<>> /\ imagePass.ready = {}
      /\ imagePass.flag \/ imagePass.aborted => Stopping(imagePass)
  BY <1>1, <1>3 DEF StoppingInv
<1>5. /\ outcome \in ImageOutcomeSet /\ OutcomeTrue(outcome)
      /\ imageOutcomes' \in Seq(ImageOutcomeSet) /\ \A k \in DOMAIN imageOutcomes' : OutcomeTrue(imageOutcomes'[k])
      /\ Sending \subseteq Sending' \cup OfOutcome(outcome)
  <2>1. outcome \in ImageOutcomeSet /\ imageOutcomes' \in Seq(ImageOutcomeSet)
    BY <1>1, <1>3, Received
  <2> QED BY <2>1, <1>1, <1>3, SendingReceived
<1>6. outcome.kind = "fatal" => outcome = Panicked
  BY <1>5 DEF ImageOutcomeSet, ImageItem, Panicked
<1>7. PanicAhead => PanicAhead' \/ outcome.kind = "fatal"
  <2>1. \A j \in DOMAIN imageOutcomes : imageOutcomes[j] = outcome
            \/ \E k \in DOMAIN imageOutcomes' : imageOutcomes'[k] = imageOutcomes[j]
    BY <1>1, <1>3, SendingReceived
  <2> QED BY <2>1, <1>1 DEF PanicAhead
<1>8. /\ outcome.kind = "success" => outcome \in ImageItem /\ SeenSince(outcome) /\ OfOutcome(outcome) = {outcome.asset}
      /\ outcome.kind = "failure" => outcome.asset \in ImageAssets /\ OfOutcome(outcome) = {outcome.asset}
      /\ outcome.kind = "failure" /\ outcome.cache => FailureReal(outcome.asset)
      /\ outcome.kind \notin {"success", "failure"} => OfOutcome(outcome) = {}
  BY <1>5 DEF ImageOutcomeSet, ImageItem, OutcomeTrue, OfOutcome
<1> HIDE DEF outcome
<1>9. /\ p \in ImageRunning /\ p.pc = imagePass.pc /\ p.row = imagePass.row
      /\ p.options = imagePass.options /\ p.sources = imagePass.sources
      /\ p.next = imagePass.next /\ p.batch = imagePass.batch
      /\ p.ready = imagePass.ready /\ p.final = imagePass.final
      /\ p.flag = imagePass.flag /\ p.aborted = imagePass.aborted
      /\ p.cancelled = (imagePass.cancelled \/ imageCancel)
      /\ Stopping(p) <=> Stopping(imagePass) \/ imageCancel
  BY <1>3, Notices
<1> HIDE DEF p
<1> DEFINE fatal == outcome = Panicked
           failed == recordFails /\ Recorded(p, outcome)
           f == p.fatal \/ fatal
           e == p.writeError \/ failed
<1>10. f \in BOOLEAN /\ e \in BOOLEAN /\ q = [p EXCEPT !.fatal = f, !.writeError = e]
  OBVIOUS
<1>11. fatal <=> outcome = Panicked
  OBVIOUS
<1>12. failed => outcome.kind = "failure"
  BY DEF Recorded
<1>13. /\ failedRow' = IF Recorded(p, outcome) /\ ~recordFails
                           THEN [failedRow EXCEPT ![outcome.asset] = imagePass.row[outcome.asset]]
                           ELSE failedRow
       /\ excused' = IF outcome.kind = "failure" /\ ~Stopping(q)
                              THEN excused \cup {outcome.asset} ELSE excused
       /\ IF Goes
          THEN imagePass' = [q EXCEPT !.pc = "infer", !.batch = all] /\ imagePending' = <<>>
          ELSE /\ imagePass' = [q EXCEPT !.pc = IF Stopping(q) /\ ~p.aborted THEN "stop" ELSE "receive",
                                         !.flag = Stopping(q)]
               /\ imagePending' = IF outcome.kind = "success" /\ ~Stopping(p) THEN all ELSE kept
  BY <1>2
<1> HIDE DEF fatal, failed, q, f, e
<1>14. /\ q \in ImageRunning /\ q.pc = p.pc /\ q.row = p.row
       /\ q.options = p.options /\ q.sources = p.sources
       /\ q.next = p.next /\ q.batch = p.batch /\ q.ready = p.ready /\ q.final = p.final
       /\ q.flag = p.flag /\ q.aborted = p.aborted
       /\ Stopping(q) <=> Stopping(p) \/ fatal \/ failed
  <2>1. p \in ImageRunning
    BY <1>9
  <2>2. q \in ImageRunning
    BY <2>1, <1>10 DEF ImageRunning
  <2>3. /\ q.pc = p.pc /\ q.row = p.row
        /\ q.options = p.options /\ q.sources = p.sources
        /\ q.next = p.next /\ q.batch = p.batch /\ q.ready = p.ready /\ q.final = p.final
        /\ q.flag = p.flag /\ q.aborted = p.aborted
        /\ q.cancelled = p.cancelled /\ q.fatal = f /\ q.writeError = e
    BY <2>1, <1>10 DEF ImageRunning
  <2>4. Stopping(q) <=> p.cancelled \/ f \/ e
    BY <2>3 DEF Stopping
  <2>5. Stopping(p) \/ fatal \/ failed <=> p.cancelled \/ f \/ e
    BY DEF Stopping, f, e
  <2> QED BY <2>2, <2>3, <2>4, <2>5
<1>15. /\ kept \in Seq(ImageItem) /\ \A k \in DOMAIN kept : SeenSince(kept[k])
       /\ ~imageCancel => kept = imagePending
  <2>1. CASE p.cancelled /\ ~imagePass.cancelled
    <3>1. imageCancel
      BY <2>1, <1>9
    <3>2. kept = <<>>
      BY <2>1
    <3>3. <<>> \in Seq(ImageItem)
      OBVIOUS
    <3> HIDE DEF kept
    <3> QED BY <3>1, <3>2, <3>3, NothingListed
  <2>2. CASE ~(p.cancelled /\ ~imagePass.cancelled)
    <3>1. kept = imagePending
      BY <2>2
    <3> HIDE DEF kept
    <3> QED BY <3>1, <1>3
  <2> QED BY <2>1, <2>2
<1> HIDE DEF kept
<1>16. outcome.kind = "success" =>
         /\ all \in Seq(ImageItem) /\ \A k \in DOMAIN all : SeenSince(all[k])
         /\ AssetsOf(kept) \cup {outcome.asset} \subseteq AssetsOf(all)
  BY <1>8, <1>15, ItemAppended
<1> HIDE DEF all
<1>17. /\ failedRow' \in [ImageAssets -> Nat]
       /\ \A a \in ImageAssets : failedRow'[a] = failedRow[a] \/
               (failedRow'[a] = imagePass.row[a] /\ (imagePass.row[a] = imageFile[a] => <<a, imageFile[a]>> \in Failing))
  <2>1. CASE Recorded(p, outcome) /\ ~recordFails
    <3>1. failedRow' = [failedRow EXCEPT ![outcome.asset] = imagePass.row[outcome.asset]]
      BY <2>1, <1>13
    <3>2. outcome.asset \in ImageAssets /\ FailureReal(outcome.asset) /\ ~imageCancel /\ ~Stopping(imagePass)
      BY <2>1, <1>8, <1>9 DEF Recorded
    <3>3. imagePass.row[outcome.asset] = imageFile[outcome.asset] => <<outcome.asset, imageFile[outcome.asset]>> \in Failing
      BY <1>3, <3>2, RecordedIsReal
    <3> QED BY <3>1, <3>2, <3>3, <1>3
  <2>2. CASE ~(Recorded(p, outcome) /\ ~recordFails)
    BY <2>2, <1>3, <1>13
  <2> QED BY <2>1, <2>2
<1>18. excused \subseteq excused' /\ excused' \subseteq ImageAssets
  BY <1>3, <1>8, <1>13
<1>19. ~Stopping(q) => /\ ~Stopping(imagePass) /\ ~imageCancel /\ kept = imagePending
                       /\ outcome # Panicked /\ outcome.kind # "fatal"
                       /\ outcome.kind = "failure" => outcome.asset \in excused'
  BY <1>6, <1>9, <1>11, <1>13, <1>14, <1>15

<1>20. CASE Goes
  <2>1. outcome.kind = "success" /\ ~Stopping(p)
    BY <1>20
  <2>2. imagePass' = [q EXCEPT !.pc = "infer", !.batch = all] /\ imagePending' = <<>>
    BY <1>13, <1>20
  <2>3. ~Stopping(q)
    BY <2>1, <1>11, <1>12, <1>14 DEF Panicked
  <2>4. all \in Seq(ImageItem) /\ \A k \in DOMAIN all : SeenSince(all[k])
    BY <2>1, <1>16
  <2>5. imagePass' \in ImageRunning
    BY <2>2, <2>4, <1>14 DEF ImageRunning
  <2>6. /\ imagePass'.pc = "infer" /\ imagePass'.row = q.row /\ imagePass'.options = q.options
        /\ imagePass'.sources = q.sources /\ imagePass'.next = q.next
        /\ imagePass'.batch = all /\ imagePass'.ready = q.ready
        /\ imagePass'.flag = q.flag /\ imagePass'.aborted = q.aborted /\ imagePass'.final = q.final
        /\ imagePass'.cancelled = q.cancelled /\ imagePass'.writeError = q.writeError
        /\ imagePass'.fatal = q.fatal
    BY <2>2, <1>14 DEF ImageRunning
  <2>7. ~Stopping(imagePass')
    BY <2>3, <2>6 DEF Stopping
  <2>8. imagePending' \in Seq(ImageItem) /\ \A k \in DOMAIN imagePending' : SeenSince(imagePending'[k])
    BY <2>2, NothingListed
  <2>9. \A k \in DOMAIN imagePass'.batch : SeenSince(imagePass'.batch[k])
    BY <2>4, <2>6
  <2>10. /\ imagePass'.row = imagePass.row /\ imagePass'.options = imagePass.options
         /\ imagePass'.sources = imagePass.sources /\ imagePass'.next = imagePass.next
         /\ imagePass'.ready = {} /\ ~imagePass'.final
         /\ ~imagePass'.flag /\ ~imagePass'.aborted /\ ~Stopping(imagePass)
    BY <2>3, <2>6, <1>4, <1>9, <1>14, <1>19
  <2>11. PanicAhead => PanicAhead'
    BY <2>3, <1>7, <1>19
  <2>12. \A a \in Sending \cup AssetsOf(imagePending) \cup AssetsOf(imagePass.batch) \cup {item.asset : item \in imagePass.ready} :
           a \in Sending' \cup AssetsOf(imagePass'.batch)
    <3>1. AssetsOf(imagePass.batch) = {} /\ imagePass.ready = {}
      BY <1>4, NothingListed DEF AssetsOf
    <3>2. AssetsOf(imagePending) \cup {outcome.asset} \subseteq AssetsOf(imagePass'.batch)
      BY <2>1, <2>3, <2>6, <1>16, <1>19
    <3>3. Sending \subseteq Sending' \cup {outcome.asset}
      BY <2>1, <1>5, <1>8
    <3> QED BY <3>1, <3>2, <3>3
  <2> QED BY <1>1, <1>3, <1>5, <1>17, <1>18, <2>5, <2>6, <2>7, <2>8, <2>9, <2>10, <2>11, <2>12, CoordinatorMoves
<1>21. CASE ~Goes
  <2> DEFINE c == IF Stopping(q) /\ ~p.aborted THEN "stop" ELSE "receive"
             g == Stopping(q)
  <2>1. /\ imagePass' = [q EXCEPT !.pc = c, !.flag = g]
        /\ imagePending' = IF outcome.kind = "success" /\ ~Stopping(p) THEN all ELSE kept
    BY <1>13, <1>21
  <2>2. g \in BOOLEAN /\ c \in {"stop", "receive"} /\ (c = "stop" => Stopping(q)) /\ (g <=> Stopping(q))
    BY DEF Stopping
  <2> HIDE DEF c, g
  <2>3. imagePass' \in ImageRunning
    BY <2>1, <2>2, <1>14 DEF ImageRunning
  <2>4. /\ imagePass'.pc = c /\ imagePass'.row = q.row /\ imagePass'.options = q.options
        /\ imagePass'.sources = q.sources /\ imagePass'.next = q.next
        /\ imagePass'.batch = q.batch /\ imagePass'.ready = q.ready
        /\ imagePass'.flag = g /\ imagePass'.aborted = q.aborted /\ imagePass'.final = q.final
        /\ imagePass'.cancelled = q.cancelled /\ imagePass'.writeError = q.writeError
        /\ imagePass'.fatal = q.fatal
    BY <2>1, <1>14 DEF ImageRunning
  <2>5. Stopping(imagePass') <=> Stopping(q)
    BY <2>4 DEF Stopping
  <2>6. imagePending' \in Seq(ImageItem) /\ \A k \in DOMAIN imagePending' : SeenSince(imagePending'[k])
    BY <2>1, <1>15, <1>16
  <2>7. /\ imagePass'.row = imagePass.row /\ imagePass'.options = imagePass.options
        /\ imagePass'.sources = imagePass.sources /\ imagePass'.next = imagePass.next
        /\ imagePass'.batch = <<>> /\ imagePass'.ready = {} /\ ~imagePass'.final
        /\ imagePass'.pc \notin Flushing /\ imagePass'.pc # "done" /\ imagePass'.pc # "video"
    BY <2>2, <2>4, <1>4, <1>9, <1>14 DEF Flushing
  <2>8. /\ Stopping(imagePass) => Stopping(imagePass')
        /\ imagePass'.flag \/ imagePass'.aborted \/ imagePass'.pc = "stop" => Stopping(imagePass')
    BY <2>2, <2>4, <2>5, <1>4, <1>9, <1>14
  <2>9. PanicAhead /\ ~Stopping(imagePass') => PanicAhead'
    BY <2>5, <1>7, <1>19
  <2>10. \A k \in DOMAIN imagePass'.batch : SeenSince(imagePass'.batch[k])
    BY <2>7, NothingListed
  <2>11. ASSUME Undisturbed', NEW a \in Sending \cup AssetsOf(imagePending) \cup AssetsOf(imagePass.batch) \cup {item.asset : item \in imagePass.ready}
         PROVE  a \in Sending' \cup AssetsOf(imagePending') \/ Covered(a)'
    <3>1. AssetsOf(imagePass.batch) = {} /\ imagePass.ready = {}
      BY <1>4, NothingListed DEF AssetsOf
    <3>2. ~Stopping(q)
      BY <2>5, <2>11 DEF Undisturbed
    <3>3. ~Stopping(p) /\ kept = imagePending
      BY <3>2, <1>14, <1>19
    <3>4. CASE outcome.kind = "success"
      <4>1. AssetsOf(imagePending) \cup OfOutcome(outcome) \subseteq AssetsOf(imagePending')
        BY <2>1, <3>3, <3>4, <1>8, <1>16
      <4> QED BY <4>1, <3>1, <1>5
    <3>5. CASE outcome.kind # "success"
      <4>1. imagePending' = imagePending
        BY <2>1, <3>3, <3>5
      <4>2. OfOutcome(outcome) \subseteq excused'
        BY <3>2, <3>5, <1>8, <1>19
      <4>3. a \in excused' => Covered(a)'
        BY DEF Covered
      <4> QED BY <4>1, <4>2, <4>3, <3>1, <1>5
    <3> QED BY <3>4, <3>5
  <2> QED BY <1>1, <1>3, <1>5, <1>17, <1>18, <2>3, <2>6, <2>7, <2>8, <2>9, <2>10, <2>11, CoordinatorMoves
<1> QED BY <1>20, <1>21

\* The coordinator that has joined its workers keeps the invariant.
LEMMA JoinWorkersOK ==
    ASSUME ImageInv, JoinWorkers
    PROVE  ImageInv'
<1> DEFINE p == Noticed
<1>1. /\ imagePass.pc = "receive" /\ imagePass.pc \notin {"idle", "done"} /\ imageOutcomes = <<>> /\ imagePending' = <<>>
      /\ imagePass' = IF Stopping(p) \/ imagePending = <<>> THEN [p EXCEPT !.pc = "done"]
                      ELSE [p EXCEPT !.pc = "infer", !.batch = imagePending, !.ready = {}, !.final = TRUE]
      /\ UNCHANGED <<imageFile, imageRow, failedRow, vectors, frames, imageWorker, imageOutcomes,
                     imageCancel, excused, passes>>
      /\ \A w \in ImageWorkers : imageWorker[w].pc = "ended"
  BY DEF JoinWorkers, LastBatch, OutcomesEnd
<1>2. /\ imagePass \in ImageRunning /\ ImageTypeOK /\ StoppingInv
      /\ \A k \in DOMAIN imagePending : SeenSince(imagePending[k])
      /\ imageOutcomes \in Seq(ImageOutcomeSet) /\ imagePending \in Seq(ImageItem)
      /\ failedRow \in [ImageAssets -> Nat] /\ excused \subseteq ImageAssets /\ imageCancel \in BOOLEAN
      /\ vectors \in [ImageAssets -> VersionPairs] /\ frames \in [ImageAssets -> VersionPairs]
      /\ imageWorker \in [ImageWorkers -> ImageWorkerStates]
  BY <1>1, ImageUnderWay DEF ImageTypeOK
<1>3. /\ ~imagePass.final /\ imagePass.batch = <<>> /\ imagePass.ready = {}
      /\ imagePass.flag \/ imagePass.aborted => Stopping(imagePass)
  BY <1>1, <1>2 DEF StoppingInv
<1>4. imageWorker = IdleWorkers
  <2>1. ASSUME NEW w \in ImageWorkers PROVE imageWorker[w] = [pc |-> "ended"]
    <3>1. imageWorker[w] \in ImageWorkerStates /\ imageWorker[w].pc = "ended"
      BY <1>1, <1>2
    <3> QED BY <3>1 DEF ImageWorkerStates
  <2> QED BY <2>1, <1>2 DEF IdleWorkers
<1>5. /\ p \in ImageRunning /\ p.row = imagePass.row
      /\ p.options = imagePass.options /\ p.sources = imagePass.sources
      /\ p.next = imagePass.next /\ p.batch = imagePass.batch
      /\ p.ready = imagePass.ready /\ p.final = imagePass.final
      /\ p.flag = imagePass.flag /\ p.aborted = imagePass.aborted
      /\ Stopping(p) <=> Stopping(imagePass) \/ imageCancel
  BY <1>2, Notices
<1> HIDE DEF p
<1>6. /\ UNCHANGED <<Sending, PanicAhead>> /\ Sending = {}
      /\ imagePending' \in Seq(ImageItem) /\ \A k \in DOMAIN imagePending' : SeenSince(imagePending'[k])
      /\ \A k \in DOMAIN imageOutcomes' : OutcomeTrue(imageOutcomes'[k])
  BY <1>1, NothingListed DEF Sending, PanicAhead
<1>7. AssetsOf(imagePass.batch) = {} /\ AssetsOf(<<>>) = {}
  BY <1>3, NothingListed DEF AssetsOf
<1>8. CASE Stopping(p) \/ imagePending = <<>>
  <2>1. imagePass' = [p EXCEPT !.pc = "done"]
    BY <1>1, <1>8
  <2>2. imagePass' \in ImageRunning
    BY <2>1, <1>5 DEF ImageRunning
  <2>3. /\ imagePass'.pc = "done" /\ imagePass'.row = p.row /\ imagePass'.options = p.options
        /\ imagePass'.sources = p.sources /\ imagePass'.next = p.next
        /\ imagePass'.batch = p.batch /\ imagePass'.ready = p.ready
        /\ imagePass'.flag = p.flag /\ imagePass'.aborted = p.aborted
        /\ imagePass'.cancelled = p.cancelled /\ imagePass'.writeError = p.writeError
        /\ imagePass'.fatal = p.fatal
    BY <2>1, <1>5 DEF ImageRunning
  <2>4. Stopping(imagePass') <=> Stopping(p)
    BY <2>3 DEF Stopping
  <2>5. /\ imagePass'.row = imagePass.row /\ imagePass'.options = imagePass.options
        /\ imagePass'.sources = imagePass.sources /\ imagePass'.next = imagePass.next
        /\ imagePass'.batch = <<>> /\ imagePass'.ready = {} /\ imagePass'.pc \notin Flushing
        /\ imagePass'.pc \notin {"receive", "stop", "video"}
    BY <2>3, <1>3, <1>5 DEF Flushing
  <2>6. /\ Stopping(imagePass) => Stopping(imagePass')
        /\ imagePass'.flag \/ imagePass'.aborted => Stopping(imagePass')
    BY <2>3, <2>4, <1>3, <1>5
  <2>7. Undisturbed' => AssetsOf(imagePending) = {}
    BY <2>4, <1>7, <1>8 DEF Undisturbed
  <2>8. \A k \in DOMAIN imagePass'.batch : SeenSince(imagePass'.batch[k])
    BY <2>5, NothingListed
  <2> QED BY <1>1, <1>2, <1>3, <1>4, <1>6, <1>7, <2>2, <2>3, <2>5, <2>6, <2>7, <2>8, CoordinatorMoves
<1>9. CASE ~(Stopping(p) \/ imagePending = <<>>)
  <2>1. imagePass' = [p EXCEPT !.pc = "infer", !.batch = imagePending, !.ready = {}, !.final = TRUE]
    BY <1>1, <1>9
  <2>2. imagePass' \in ImageRunning
    <3>1. {} \in SUBSET ImageItem
      OBVIOUS
    <3> QED BY <2>1, <3>1, <1>2, <1>5 DEF ImageRunning
  <2>3. /\ imagePass'.pc = "infer" /\ imagePass'.row = p.row /\ imagePass'.options = p.options
        /\ imagePass'.sources = p.sources /\ imagePass'.next = p.next
        /\ imagePass'.batch = imagePending /\ imagePass'.ready = {}
        /\ imagePass'.flag = p.flag /\ imagePass'.aborted = p.aborted
        /\ imagePass'.cancelled = p.cancelled /\ imagePass'.writeError = p.writeError
        /\ imagePass'.fatal = p.fatal
    BY <2>1, <1>5 DEF ImageRunning
  <2>4. ~Stopping(imagePass') /\ ~Stopping(imagePass) /\ ~imagePass'.flag /\ ~imagePass'.aborted
    BY <2>3, <1>3, <1>5, <1>9 DEF Stopping
  <2>5. AssetsOf(imagePending) = AssetsOf(imagePass'.batch)
    BY <2>3
  <2> QED BY <1>1, <1>2, <1>3, <1>4, <1>5, <1>6, <1>7, <2>2, <2>3, <2>4, <2>5, CoordinatorMoves
<1> QED BY <1>8, <1>9

\* Nothing is left of a pass but what it stored.
LEMMA PassIsOver ==
    ASSUME ImageInv, imagePass' = NoPass, imageWorker' = IdleWorkers, imageOutcomes' = <<>>, imagePending' = <<>>,
           UNCHANGED <<imageFile, imageRow, failedRow, vectors, frames, imageCancel, excused>>
    PROVE  ImageInv'
<1>1. imagePass'.pc = "idle"
  BY DEF NoPass
<1>2. ImageTypeOK'
  <2>1. imageWorker' \in [ImageWorkers -> ImageWorkerStates]
    BY DEF IdleWorkers, ImageWorkerStates
  <2>2. imageOutcomes' \in Seq(ImageOutcomeSet) /\ imagePending' \in Seq(ImageItem)
    OBVIOUS
  <2> QED BY <2>1, <2>2 DEF ImageInv, ImageTypeOK, IdleWorkers
<1>3. StoredInv'
  BY DEF ImageInv, StoredInv, NotAhead
<1> QED BY <1>1, <1>2, <1>3 DEF ImageInv, StoppingInv, SeenInv, CompletePassCovers

\* A pass that returns keeps the invariant.
LEMMA PassReturnsOK ==
    ASSUME ImageInv, PassReturns
    PROVE  ImageInv'
<1>1. imageWorker = IdleWorkers /\ imageOutcomes = <<>> /\ imagePending = <<>>
  BY DEF PassReturns, ImageInv, ImageTypeOK
<1> QED BY <1>1, PassIsOver DEF PassReturns

\* A process that dies in a pass keeps the invariant: rows are committed or not.
LEMMA ProcessDiesOK ==
    ASSUME ImageInv, ProcessDies
    PROVE  ImageInv'
BY PassIsOver DEF ProcessDies

\* A cancellation keeps the invariant.
LEMMA CancelPassOK ==
    ASSUME ImageInv, CancelPass
    PROVE  ImageInv'
<1>1. /\ imagePass # NoPass /\ imageCancel' = TRUE
      /\ UNCHANGED <<imageFile, imageRow, failedRow, vectors, frames, imagePass, imageWorker,
                     imageOutcomes, imagePending, excused, passes>>
  BY DEF CancelPass
<1>2. imagePass \in ImageRunning
  BY <1>1 DEF ImageInv, ImageTypeOK
<1>3. ImageTypeOK' /\ StoppingInv'
  BY <1>1 DEF ImageInv, ImageTypeOK, IdleWorkers, StoppingInv
<1>4. StoredInv'
  BY <1>1 DEF ImageInv, StoredInv, NotAhead
<1>5. SeenInv'
  BY <1>1 DEF ImageInv, SeenInv, SeenSince, NotAhead, OutcomeTrue, FailureReal
<1>6. ~Undisturbed'
  BY <1>1 DEF Undisturbed
<1>7. Stopping(Noticed)'
  <2>1. Noticed' = [imagePass EXCEPT !.cancelled = TRUE]
    BY <1>1, <1>2 DEF Noticed, ImageRunning
  <2>2. Noticed'.cancelled
    BY <2>1, <1>2 DEF ImageRunning
  <2> QED BY <2>2 DEF Stopping
<1> QED BY <1>3, <1>4, <1>5, <1>6, <1>7 DEF ImageInv, CompletePassCovers

\* Files that change keep the invariant: what was seen is not of the future.
LEMMA SourceChangesOK ==
    ASSUME ImageInv, NEW a \in ImageAssets, SourceChanges(a)
    PROVE  ImageInv'
<1>1. /\ imageFile[a] > 0
      /\ UNCHANGED <<imageRow, failedRow, vectors, frames, imagePass, imageWorker, imageOutcomes,
                     imagePending, imageCancel, excused, passes>>
  BY DEF SourceChanges
<1>2. PICK v \in {0, imageFile[a] + 1} : imageFile' = [imageFile EXCEPT ![a] = v]
  BY DEF SourceChanges
<1>3. ImageTypeOK /\ StoppingInv /\ StoredInv /\ SeenInv
  BY DEF ImageInv
<1>4. imageFile \in [ImageAssets -> Nat] /\ v \in Nat
  <2>1. imageFile \in [ImageAssets -> Nat]
    BY <1>3 DEF ImageTypeOK
  <2> QED BY <2>1, <1>2
<1>5. imageFile' \in [ImageAssets -> Nat]
  BY <1>2, <1>4
<1>6. ASSUME NEW b \in ImageAssets, NEW n \in Nat, NotAhead(b, n)
      PROVE  imageFile'[b] = 0 \/ n <= imageFile'[b]
  <2>1. CASE b = a
    BY <2>1, <1>1, <1>2, <1>4, <1>6 DEF NotAhead
  <2>2. CASE b # a
    BY <2>2, <1>2, <1>4, <1>6 DEF NotAhead
  <2> QED BY <2>1, <2>2
<1>7. ASSUME NEW n, n \in Nat, n # 0, NotAhead(a, n) PROVE n # imageFile'[a]
  BY <1>1, <1>2, <1>4, <1>7 DEF NotAhead
<1>8. ImageTypeOK'
  BY <1>1, <1>3, <1>5 DEF ImageTypeOK, IdleWorkers
<1>9. StoppingInv'
  BY <1>1, <1>3 DEF StoppingInv
<1>10. StoredInv'
  <2> SUFFICES ASSUME NEW b \in ImageAssets
               PROVE  /\ vectors[b].seen = vectors[b].fp /\ frames[b].seen = frames[b].fp
                      /\ imageFile'[b] = 0 \/ imageRow[b] <= imageFile'[b]
                      /\ imageFile'[b] = 0 \/ failedRow[b] <= imageFile'[b]
                      /\ failedRow[b] # 0 /\ failedRow[b] = imageFile'[b] => <<b, imageFile'[b]>> \in Failing
    BY <1>1 DEF StoredInv, NotAhead
  <2>1. imageRow[b] \in Nat /\ failedRow[b] \in Nat
    BY <1>3 DEF ImageTypeOK
  <2>2. /\ vectors[b].seen = vectors[b].fp /\ frames[b].seen = frames[b].fp
        /\ NotAhead(b, imageRow[b]) /\ NotAhead(b, failedRow[b])
        /\ failedRow[b] # 0 /\ failedRow[b] = imageFile[b] => <<b, imageFile[b]>> \in Failing
    BY <1>3 DEF StoredInv
  <2>3. (imageFile'[b] = 0 \/ imageRow[b] <= imageFile'[b]) /\ (imageFile'[b] = 0 \/ failedRow[b] <= imageFile'[b])
    BY <2>1, <2>2, <1>6
  <2>4. failedRow[b] # 0 /\ failedRow[b] = imageFile'[b] => <<b, imageFile'[b]>> \in Failing
    <3>1. CASE b = a
      BY <3>1, <2>1, <2>2, <1>7
    <3>2. CASE b # a
      <4>1. imageFile'[b] = imageFile[b]
        BY <3>2, <1>2, <1>4
      <4> QED BY <4>1, <2>2
    <3> QED BY <3>1, <3>2
  <2> QED BY <2>2, <2>3, <2>4
<1>11. SeenInv'
  <2> SUFFICES ASSUME imagePass.pc # "idle"
               PROVE  /\ \A b \in ImageAssets : NotAhead(b, imagePass.row[b])'
                      /\ \A w \in ImageWorkers : (imageWorker[w].pc = "send" => OutcomeTrue(imageWorker[w].outcome))'
                      /\ \A k \in DOMAIN imageOutcomes : OutcomeTrue(imageOutcomes[k])'
                      /\ \A k \in DOMAIN imagePending : SeenSince(imagePending[k])'
                      /\ \A k \in DOMAIN imagePass.batch : SeenSince(imagePass.batch[k])'
    BY <1>1, <1>3 DEF SeenInv
  <2>1. imagePass \in ImageRunning
    BY <1>3 DEF ImageTypeOK, NoPass
  <2>2. /\ imagePass.row \in [ImageAssets -> Nat \ {0}] /\ imagePass.batch \in Seq(ImageItem)
        /\ imageOutcomes \in Seq(ImageOutcomeSet) /\ imagePending \in Seq(ImageItem)
        /\ imageWorker \in [ImageWorkers -> ImageWorkerStates]
    BY <2>1, <1>3 DEF ImageRunning, ImageTypeOK
  <2>3. ASSUME NEW item \in ImageItem, SeenSince(item)
        PROVE  imagePass'.row[item.asset] <= item.seen /\ (imageFile'[item.asset] = 0 \/ item.seen <= imageFile'[item.asset])
    <3>1. item.asset \in ImageAssets /\ item.seen \in Nat
      BY DEF ImageItem
    <3> QED BY <3>1, <2>3, <1>1, <1>6 DEF SeenSince
  <2>4. ASSUME NEW b \in ImageAssets, FailureReal(b) PROVE FailureReal(b)'
    <3>1. CASE imageCancel \/ Stopping(imagePass)
      BY <3>1, <1>1 DEF FailureReal
    <3>2. CASE \E c \in Failing : c[1] = b /\ imagePass.row[b] <= c[2] /\ NotAhead(b, c[2])
      <4>1. PICK c \in Failing : c[1] = b /\ imagePass.row[b] <= c[2] /\ NotAhead(b, c[2])
        BY <3>2
      <4>2. c[2] \in Nat
        BY ImageAssumption DEF Failing
      <4> QED BY <4>1, <4>2, <1>1, <1>6 DEF FailureReal, NotAhead
    <3> QED BY <3>1, <3>2, <2>4 DEF FailureReal
  <2>5. ASSUME NEW o \in ImageOutcomeSet, OutcomeTrue(o) PROVE OutcomeTrue(o)'
    <3>1. ASSUME o.kind = "success" PROVE SeenSince(o)'
      <4>1. o \in ImageItem
        BY <3>1 DEF ImageOutcomeSet, ImageItem
      <4> QED BY <4>1, <3>1, <2>3, <2>5 DEF OutcomeTrue, SeenSince, NotAhead
    <3>2. ASSUME o.kind = "failure" /\ o.cache PROVE FailureReal(o.asset)'
      <4>1. PICK b \in ImageAssets : b = o.asset
        BY <3>2 DEF ImageOutcomeSet, ImageItem
      <4>2. FailureReal(b)'
        BY <4>1, <3>2, <2>4, <2>5 DEF OutcomeTrue
      <4> QED BY <4>1, <4>2
    <3> QED BY <3>1, <3>2 DEF OutcomeTrue
  <2>6. \A b \in ImageAssets : NotAhead(b, imagePass.row[b])'
    <3> SUFFICES ASSUME NEW b \in ImageAssets PROVE NotAhead(b, imagePass.row[b])'
      OBVIOUS
    <3>1. imagePass.row[b] \in Nat /\ NotAhead(b, imagePass.row[b])
      BY <2>2, <1>3 DEF SeenInv
    <3> QED BY <3>1, <1>1, <1>6 DEF NotAhead
  <2>7. \A w \in ImageWorkers : (imageWorker[w].pc = "send" => OutcomeTrue(imageWorker[w].outcome))'
    <3> SUFFICES ASSUME NEW w \in ImageWorkers, imageWorker[w].pc = "send" PROVE OutcomeTrue(imageWorker[w].outcome)'
      BY <1>1
    <3>1. imageWorker[w] \in ImageWorkerStates /\ OutcomeTrue(imageWorker[w].outcome)
      BY <2>2, <1>3 DEF SeenInv
    <3>2. PICK o \in ImageOutcomeSet : o = imageWorker[w].outcome
      BY <3>1 DEF ImageWorkerStates
    <3>3. OutcomeTrue(o)'
      BY <3>1, <3>2, <2>5
    <3> QED BY <3>2, <3>3, <1>1
  <2>8. \A k \in DOMAIN imageOutcomes : OutcomeTrue(imageOutcomes[k])'
    <3> SUFFICES ASSUME NEW k \in DOMAIN imageOutcomes PROVE OutcomeTrue(imageOutcomes[k])'
      OBVIOUS
    <3>1. imageOutcomes[k] \in ImageOutcomeSet /\ OutcomeTrue(imageOutcomes[k])
      BY <2>2, <1>3, LenProperties, ElementOfSeq DEF SeenInv
    <3>2. PICK o \in ImageOutcomeSet : o = imageOutcomes[k]
      BY <3>1
    <3>3. OutcomeTrue(o)'
      BY <3>1, <3>2, <2>5
    <3> QED BY <3>2, <3>3, <1>1
  <2>9. \A k \in DOMAIN imagePending : SeenSince(imagePending[k])'
    <3> SUFFICES ASSUME NEW k \in DOMAIN imagePending PROVE SeenSince(imagePending[k])'
      OBVIOUS
    <3>1. imagePending[k] \in ImageItem /\ SeenSince(imagePending[k])
      BY <2>2, <1>3, LenProperties, ElementOfSeq DEF SeenInv
    <3> QED BY <3>1, <2>3, <1>1 DEF SeenSince, NotAhead
  <2>10. \A k \in DOMAIN imagePass.batch : SeenSince(imagePass.batch[k])'
    <3> SUFFICES ASSUME NEW k \in DOMAIN imagePass.batch PROVE SeenSince(imagePass.batch[k])'
      OBVIOUS
    <3>1. imagePass.batch[k] \in ImageItem /\ SeenSince(imagePass.batch[k])
      BY <2>2, <1>3, LenProperties, ElementOfSeq DEF SeenInv
    <3> QED BY <3>1, <2>3, <1>1 DEF SeenSince, NotAhead
  <2> QED BY <2>6, <2>7, <2>8, <2>9, <2>10
<1>12. UNCHANGED <<UnderWay, LeftToClaim, Undisturbed>>
  BY <1>1 DEF UnderWay, LeftToClaim, Held, Sending, AssetsOf, Undisturbed, PanicAhead
<1>13. NothingLost => NothingLost'
  BY <1>1, <1>12 DEF NothingLost, Covered
<1>14. CompletePassCovers'
  BY <1>1 DEF ImageInv, CompletePassCovers, Noticed
<1> QED BY <1>1, <1>8, <1>9, <1>10, <1>11, <1>12, <1>13, <1>14 DEF ImageInv

\* A catalog row that a scan writes keeps the invariant.
LEMMA ScanRowOK ==
    ASSUME ImageInv, NEW a \in ImageAssets, ScanRow(a)
    PROVE  ImageInv'
<1>1. /\ imagePass = NoPass /\ imageFile[a] > 0 /\ imageRow' = [imageRow EXCEPT ![a] = imageFile[a]]
      /\ UNCHANGED <<imageFile, failedRow, vectors, frames, imagePass, imageWorker, imageOutcomes,
                     imagePending, imageCancel, excused, passes>>
  BY DEF ScanRow
<1>2. imagePass.pc = "idle" /\ imagePass'.pc = "idle"
  BY <1>1 DEF NoPass
<1>3. ImageTypeOK'
  <2>1. imageFile[a] \in Nat \ {0} /\ imageRow \in [ImageAssets -> Nat \ {0}]
    BY <1>1 DEF ImageInv, ImageTypeOK
  <2>2. imageRow' \in [ImageAssets -> Nat \ {0}]
    BY <2>1, <1>1
  <2> QED BY <2>2, <1>1 DEF ImageInv, ImageTypeOK, IdleWorkers
<1>4. StoredInv'
  <2>1. \A b \in ImageAssets : imageRow'[b] = imageRow[b] \/ imageRow'[b] = imageFile[b]
    BY <1>1 DEF ImageInv, ImageTypeOK
  <2>2. \A b \in ImageAssets : imageFile[b] \in Nat
    BY DEF ImageInv, ImageTypeOK
  <2> QED BY <2>1, <2>2, <1>1 DEF ImageInv, StoredInv, NotAhead
<1> QED BY <1>2, <1>3, <1>4 DEF ImageInv, StoppingInv, SeenInv, CompletePassCovers

\* Frames that a deletion removes keep the invariant.
LEMMA FramesDeletedOK ==
    ASSUME ImageInv, NEW a \in Videos, FramesDeleted(a)
    PROVE  ImageInv'
<1>1. /\ frames' = [frames EXCEPT ![a] = Unsaved] /\ excused' = excused \cup {a}
      /\ UNCHANGED <<imageFile, imageRow, failedRow, vectors, imagePass, imageWorker, imageOutcomes,
                     imagePending, imageCancel, passes>>
  BY DEF FramesDeleted
<1>2. a \in ImageAssets /\ frames \in [ImageAssets -> VersionPairs] /\ ImageTypeOK /\ StoppingInv /\ StoredInv /\ SeenInv
  BY DEF ImageAssets, ImageInv, ImageTypeOK
<1>3. Unsaved \in VersionPairs /\ Unsaved.seen = Unsaved.fp
  BY DEF Unsaved, VersionPairs
<1>4. /\ frames' \in [ImageAssets -> VersionPairs] /\ frames'[a] = Unsaved
      /\ \A b \in ImageAssets : b # a => frames'[b] = frames[b]
  BY <1>1, <1>2, <1>3
<1>5. ImageTypeOK'
  BY <1>1, <1>2, <1>4 DEF ImageTypeOK, IdleWorkers
<1>6. StoppingInv'
  BY <1>1, <1>2 DEF StoppingInv
<1>7. StoredInv'
  BY <1>1, <1>2, <1>3, <1>4 DEF StoredInv, NotAhead
<1>8. SeenInv'
  <2>1. ASSUME imagePass.pc = "video"
        PROVE  LET item == Head(imagePass.batch) IN frames'[item.asset].fp = imagePass.row[item.asset] \/ item.asset \in excused'
    <3> DEFINE item == Head(imagePass.batch)
    <3>1. imagePass \in ImageRunning
      BY <2>1, <1>2 DEF ImageTypeOK, NoPass
    <3>2. imagePass.batch \in Seq(ImageItem)
      BY <3>1 DEF ImageRunning
    <3>3. imagePass.batch # <<>> /\ (frames[item.asset].fp = imagePass.row[item.asset] \/ item.asset \in excused)
      BY <2>1, <1>2 DEF SeenInv
    <3>4. item.asset \in ImageAssets
      <4>1. item \in ImageItem
        BY <3>2, <3>3, RestOfBatch
      <4> QED BY <4>1 DEF ImageItem
    <3> HIDE DEF item
    <3>5. frames'[item.asset].fp = imagePass.row[item.asset] \/ item.asset \in excused'
      BY <3>3, <3>4, <1>1, <1>4
    <3> QED BY <3>5 DEF item
  <2> QED BY <2>1, <1>1, <1>2 DEF SeenInv, OutcomeTrue, SeenSince, FailureReal, NotAhead
<1>9. ASSUME NEW b, b \in ImageAssets, Covered(b) PROVE Covered(b)'
  BY <1>1, <1>4, <1>9 DEF Covered
<1>10. UNCHANGED <<UnderWay, LeftToClaim, Undisturbed>>
  BY <1>1 DEF UnderWay, LeftToClaim, Held, Sending, AssetsOf, Undisturbed, PanicAhead
<1>11. NothingLost => NothingLost'
  BY <1>1, <1>9, <1>10 DEF NothingLost, Candidates, ImageAssets
<1>12. CompletePassCovers'
  <2> SUFFICES ASSUME imagePass'.pc = "done", ~Stopping(Noticed)', imagePass'.options.limit = 0,
                      NEW b \in Candidates(imagePass'.options.videos)
               PROVE  Covered(b)'
    BY DEF CompletePassCovers, Covered
  <2>1. Covered(b)
    BY <1>1 DEF ImageInv, CompletePassCovers, Covered, Noticed
  <2> QED BY <2>1, <1>9 DEF Candidates, ImageAssets
<1> QED BY <1>1, <1>5, <1>6, <1>7, <1>8, <1>10, <1>11, <1>12 DEF ImageInv

\* What a pass leaves out has been dealt with, unless it has a limit.
LEMMA SelectedOrCovered ==
    ASSUME ImageTypeOK, NEW options \in PassOptions
    PROVE  /\ SelectedImages(options) \in Seq(ImageAssets)
           /\ options.limit = 0 => \A a \in Candidates(options.videos) :
                \/ \E k \in DOMAIN SelectedImages(options) : SelectedImages(options)[k] = a
                \/ vectors[a].fp = imageRow[a] /\ (a \in Videos => frames[a].fp = imageRow[a])
                \/ failedRow[a] = imageRow[a]
<1> DEFINE current == IF options.force THEN {} ELSE CurrentStills \cup CurrentVideos
           failed == IF options.force \/ options.retry THEN {} ELSE DecodeFailed
           left == Candidates(options.videos) \ (current \cup failed)
           all == SetToSeq(left)
<1>1. left \subseteq ImageAssets /\ IsFiniteSet(left)
  <2>1. left \subseteq ImageAssets
    BY DEF Candidates, ImageAssets
  <2> QED BY <2>1, ImageAssumption, FS_Subset
<1>2. ASSUME NEW a \in Candidates(options.videos), a \notin left
      PROVE  \/ vectors[a].fp = imageRow[a] /\ (a \in Videos => frames[a].fp = imageRow[a])
             \/ failedRow[a] = imageRow[a]
  <2>1. a \in current \cup failed
    BY <1>2
  <2> QED BY <2>1, ImageAssumption DEF CurrentStills, CurrentVideos, CompleteFrames, DecodeFailed
<1>3. options.limit \in Nat
  BY ImageAssumption
<1>4. SelectedImages(options) = IF options.limit > 0 /\ options.limit < Len(all) THEN SubSeq(all, 1, options.limit) ELSE all
  BY DEF SelectedImages
<1> HIDE DEF left
<1>5. /\ all \in Seq(left) /\ DOMAIN all = 1 .. Len(all) /\ Len(all) \in Nat
      /\ \A a \in left : \E i \in DOMAIN all : all[i] = a
  <2>1. all \in Seq(left) /\ DOMAIN all = 1 .. Len(all) /\ \A a \in left : \E i \in DOMAIN all : all[i] = a
    BY <1>1, SetListed
  <2> QED BY <2>1, LenProperties
<1> HIDE DEF all
<1>6. all \in Seq(ImageAssets)
  BY <1>1, <1>5, SeqMonotonic
<1>7. CASE options.limit > 0 /\ options.limit < Len(all)
  <2>1. SubSeq(all, 1, options.limit) \in Seq(ImageAssets)
    BY <1>3, <1>5, <1>6, <1>7, SubSeqProperties
  <2> QED BY <2>1, <1>3, <1>4, <1>7
<1>8. CASE ~(options.limit > 0 /\ options.limit < Len(all))
  BY <1>2, <1>4, <1>5, <1>6, <1>8
<1> QED BY <1>7, <1>8

\* A pass that selects its assets keeps the invariant.
LEMMA StartPassOK ==
    ASSUME ImageInv, NEW options \in PassOptions, StartPass(options)
    PROVE  ImageInv'
<1> DEFINE sources == SelectedImages(options)
           pass == [pc |-> IF sources = <<>> THEN "done" ELSE "receive", options |-> options,
                    sources |-> sources, next |-> 1, row |-> imageRow,
                    cancelled |-> FALSE, writeError |-> FALSE, fatal |-> FALSE,
                    flag |-> FALSE, aborted |-> FALSE,
                    batch |-> <<>>, ready |-> {}, final |-> FALSE]
<1>1. /\ imagePass = NoPass /\ imageCancel' = FALSE /\ excused' = {} /\ imagePass' = pass
      /\ imageWorker' = IF sources = <<>> THEN IdleWorkers ELSE [w \in ImageWorkers |-> [pc |-> "claim"]]
      /\ UNCHANGED <<imageFile, imageRow, failedRow, vectors, frames, imageOutcomes, imagePending>>
  BY DEF StartPass
<1>2. /\ imagePass.pc = "idle" /\ ImageTypeOK /\ StoredInv /\ imageOutcomes = <<>> /\ imagePending = <<>>
      /\ imageRow \in [ImageAssets -> Nat \ {0}]
  BY <1>1 DEF NoPass, ImageInv, ImageTypeOK
<1>3. /\ sources \in Seq(ImageAssets) /\ DOMAIN sources = 1 .. Len(sources)
      /\ options.limit = 0 => \A a \in Candidates(options.videos) :
            \/ \E k \in DOMAIN sources : sources[k] = a
            \/ vectors[a].fp = imageRow[a] /\ (a \in Videos => frames[a].fp = imageRow[a])
            \/ failedRow[a] = imageRow[a]
  <2>1. sources \in Seq(ImageAssets)
    BY <1>2, SelectedOrCovered
  <2>2. options.limit = 0 => \A a \in Candidates(options.videos) :
            \/ \E k \in DOMAIN sources : sources[k] = a
            \/ vectors[a].fp = imageRow[a] /\ (a \in Videos => frames[a].fp = imageRow[a])
            \/ failedRow[a] = imageRow[a]
    BY <1>2, SelectedOrCovered
  <2> HIDE DEF sources
  <2> QED BY <2>1, <2>2, LenProperties
<1> HIDE DEF sources
<1>4. imagePass' \in ImageRunning
  <2> DEFINE c == IF sources = <<>> THEN "done" ELSE "receive"
  <2>1. c \in {"receive", "stop", "infer", "store", "video", "done"}
    OBVIOUS
  <2>2. <<>> \in Seq(ImageItem) /\ {} \in SUBSET ImageItem /\ 1 \in Nat \ {0}
    OBVIOUS
  <2>3. pass = [pc |-> c, options |-> options,
                sources |-> sources, next |-> 1, row |-> imageRow,
                cancelled |-> FALSE, writeError |-> FALSE, fatal |-> FALSE,
                flag |-> FALSE, aborted |-> FALSE,
                batch |-> <<>>, ready |-> {}, final |-> FALSE]
    OBVIOUS
  <2> HIDE DEF c, pass
  <2>4. pass \in ImageRunning
    BY <2>1, <2>2, <2>3, <1>2, <1>3 DEF ImageRunning
  <2> QED BY <2>4, <1>1
<1>5. /\ imagePass'.options = options /\ imagePass'.sources = sources /\ imagePass'.next = 1
      /\ imagePass'.row = imageRow /\ imagePass'.batch = <<>> /\ imagePass'.ready = {}
      /\ ~imagePass'.final /\ ~imagePass'.flag /\ ~imagePass'.aborted
      /\ sources = <<>> => imagePass'.pc = "done"
      /\ sources # <<>> => imagePass'.pc = "receive"
  BY <1>1
<1>6. imagePass'.pc \in {"done", "receive"} /\ (imagePass'.pc = "done" <=> sources = <<>>)
  BY <1>5
<1> HIDE DEF pass
<1>7. ImageTypeOK'
  <2>1. imageWorker' \in [ImageWorkers -> ImageWorkerStates]
    BY <1>1 DEF IdleWorkers, ImageWorkerStates
  <2>2. imagePass'.pc = "done" => imageWorker' = IdleWorkers
    BY <1>1, <1>6
  <2> QED BY <2>1, <2>2, <1>1, <1>2, <1>4, <1>6 DEF ImageTypeOK, IdleWorkers, Flushing
<1>8. StoppingInv'
  BY <1>5, <1>6 DEF StoppingInv, Flushing
<1>9. StoredInv'
  BY <1>1, <1>2 DEF StoredInv, NotAhead
<1>10. \A w \in ImageWorkers : imageWorker'[w].pc # "send" /\ (sources # <<>> => imageWorker'[w].pc = "claim")
  BY <1>1 DEF IdleWorkers
<1>11. SeenInv'
  <2>1. \A a \in ImageAssets : NotAhead(a, imagePass.row[a])'
    BY <1>1, <1>2, <1>5 DEF StoredInv, NotAhead
  <2>2. DOMAIN imageOutcomes' = {} /\ DOMAIN imagePending' = {} /\ DOMAIN imagePass'.batch = {}
    BY <1>1, <1>2, <1>5, NothingListed
  <2> QED BY <2>1, <2>2, <1>5, <1>6, <1>10 DEF SeenInv
<1>12. ASSUME options.limit = 0, NEW a, a \in Candidates(options.videos) PROVE Covered(a)' \/ a \in LeftToClaim'
  <2>1. CASE \E k \in DOMAIN sources : sources[k] = a
    BY <2>1, <1>3, <1>5 DEF LeftToClaim
  <2>2. CASE ~ \E k \in DOMAIN sources : sources[k] = a
    <3>1. \/ vectors[a].fp = imageRow[a] /\ (a \in Videos => frames[a].fp = imageRow[a])
          \/ failedRow[a] = imageRow[a]
      BY <2>2, <1>3, <1>12
    <3> QED BY <3>1, <1>1, <1>5 DEF Covered
  <2> QED BY <2>1, <2>2
<1>13. ASSUME imagePass'.pc # "done" PROVE NothingLost'
  BY <1>5, <1>6, <1>10, <1>12, <1>13 DEF NothingLost, UnderWay
<1>14. CompletePassCovers'
  <2> SUFFICES ASSUME imagePass'.pc = "done", options.limit = 0, NEW a \in Candidates(options.videos)
               PROVE  Covered(a)'
    BY <1>5 DEF CompletePassCovers, Covered
  <2>1. LeftToClaim' = {}
    <3>1. DOMAIN sources = {}
      BY <1>6, NothingListed
    <3>2. 1 .. Len(sources) = {}
      BY <3>1, <1>3
    <3> QED BY <3>2, <1>5 DEF LeftToClaim
  <2> QED BY <2>1, <1>12
<1> QED BY <1>7, <1>8, <1>9, <1>11, <1>13, <1>14 DEF ImageInv

\* The invariant holds at the start of the process.
LEMMA ImageStart == ImageInit => ImageInv
<1> SUFFICES ASSUME ImageInit PROVE ImageInv
  OBVIOUS
<1>1. imagePass.pc = "idle"
  BY DEF ImageInit, NoPass
<1>2. ImageTypeOK
  <2>1. imageWorker \in [ImageWorkers -> ImageWorkerStates]
    BY DEF ImageInit, IdleWorkers, ImageWorkerStates
  <2>2. imageOutcomes \in Seq(ImageOutcomeSet) /\ imagePending \in Seq(ImageItem)
    BY DEF ImageInit
  <2>3. Unsaved \in VersionPairs
    BY DEF Unsaved, VersionPairs
  <2>4. /\ imageFile \in [ImageAssets -> Nat] /\ imageRow \in [ImageAssets -> Nat \ {0}]
        /\ failedRow \in [ImageAssets -> Nat]
        /\ vectors \in [ImageAssets -> VersionPairs] /\ frames \in [ImageAssets -> VersionPairs]
    <3> HIDE DEF Unsaved
    <3> QED BY <2>3 DEF ImageInit
  <2>5. /\ imagePass = NoPass /\ imageCancel \in BOOLEAN /\ excused \subseteq ImageAssets
        /\ imageWorker = IdleWorkers /\ imageOutcomes = <<>> /\ imagePending = <<>>
    BY DEF ImageInit
  <2> QED BY <2>1, <2>2, <2>4, <2>5 DEF ImageTypeOK
<1>3. StoredInv
  BY DEF ImageInit, StoredInv, NotAhead, Unsaved
<1> QED BY <1>1, <1>2, <1>3 DEF ImageInv, StoppingInv, SeenInv, CompletePassCovers

\* Every step of the pass, and everything around it, keeps the invariant.
LEMMA ImageStep ==
    ASSUME ImageInv, [ImageNext]_imageVars
    PROVE  ImageInv'
<1>1. CASE ImageSteps
  BY <1>1, ReceiveOutcomeOK, DropAbortOK, InferOK, StoreItemOK, SaveVideoOK, SaveStillsOK, JoinWorkersOK,
     PassReturnsOK, ClaimSourceOK, PrepareOK, SendOutcomeOK DEF ImageSteps
<1>2. CASE CancelPass \/ ProcessDies
  BY <1>2, CancelPassOK, ProcessDiesOK
<1>3. CASE \E options \in PassOptions : StartPass(options)
  BY <1>3, StartPassOK
<1>4. CASE \E a \in ImageAssets : ScanRow(a) \/ SourceChanges(a)
  BY <1>4, ScanRowOK, SourceChangesOK
<1>5. CASE \E a \in Videos : FramesDeleted(a)
  BY <1>5, FramesDeletedOK
<1>6. CASE UNCHANGED imageVars
  <2>1. UNCHANGED <<imageFile, imageRow, failedRow, vectors, frames, imagePass, imageWorker, imageOutcomes,
                    imagePending, imageCancel, excused, passes>>
    BY <1>6 DEF imageVars
  <2>2. ImageTypeOK' /\ StoppingInv' /\ StoredInv'
    BY <2>1 DEF ImageInv, ImageTypeOK, IdleWorkers, StoppingInv, StoredInv, NotAhead
  <2>3. SeenInv'
    BY <2>1 DEF ImageInv, SeenInv, OutcomeTrue, SeenSince, FailureReal, NotAhead
  <2>4. UNCHANGED <<UnderWay, LeftToClaim, Undisturbed>>
    BY <2>1 DEF UnderWay, LeftToClaim, Held, Sending, AssetsOf, Undisturbed, PanicAhead
  <2>5. NothingLost => NothingLost'
    BY <2>1, <2>4 DEF NothingLost, Covered
  <2>6. CompletePassCovers'
    BY <2>1 DEF ImageInv, CompletePassCovers, Noticed
  <2> QED BY <2>1, <2>2, <2>3, <2>4, <2>5, <2>6 DEF ImageInv
<1> QED BY <1>1, <1>2, <1>3, <1>4, <1>5, <1>6 DEF ImageNext

\* The inductive invariant of the image index holds in every behaviour.
THEOREM ImageInvariant == ImageSpec => []ImageInv
<1>1. ImageInit => ImageInv
  BY ImageStart
<1>2. ImageInv /\ [ImageNext]_imageVars => ImageInv'
  BY ImageStep
<1> QED BY <1>1, <1>2, PTL DEF ImageSpec

\* Vectors and frames are of the revision they are filed under, a failure row
\* is of a file that cannot be decoded, and a complete pass covers its selection.
THEOREM ImagesAlwaysIndexed == ImageSpec => []ImagesIndexed
<1>1. ImageInv => ImagesIndexed
  BY DEF ImageInv, StoredInv, ImagesIndexed, VectorsMatchSource, FailuresAreReal
<1> QED BY <1>1, ImageInvariant, PTL

-----------------------------------------------------------------------------
(* The asset catalog.                                                        *)

\* Every change of a file is to a new edition, or hides the one there is.
MediaGrows ==
    \A f \in MediaFiles :
        /\ media[f].edition \in Nat /\ media'[f].edition \in Nat /\ media[f].edition <= media'[f].edition
        /\ media'[f].edition = media[f].edition /\ media'[f].seen = "there" => media[f].seen = "there"

\* Results are of files.
LEMMA ResultsOfFiles ==
    ASSUME NEW results \in ProbeResults
    PROVE  /\ DOMAIN results = 1 .. Len(results) /\ Len(results) \in Nat
           /\ \A i \in DOMAIN results : results[i][1] \in MediaFiles /\ results[i][2] \in Nat
<1>1. results \in Seq(MediaFiles \X Nat)
  BY DEF ProbeResults
<1>2. DOMAIN results = 1 .. Len(results) /\ Len(results) \in Nat
  BY <1>1
<1>3. \A i \in 1 .. Len(results) : results[i] \in MediaFiles \X Nat
  BY <1>1, ElementOfSeq
<1> QED BY <1>2, <1>3

\* What the invariant says of a file.
LEMMA FileHas ==
    ASSUME CatalogInv, NEW f \in MediaFiles
    PROVE  /\ media[f].edition \in Nat /\ media[f].edition # 0 /\ mediaRow[f] \in MediaRows /\ RowTrue(f, mediaRow[f])
           /\ cataloger.stamps[f] \in Nat /\ cataloger.stamps[f] <= media[f].edition
           /\ cataloger.got[f] \in Nat \cup {-1}
           /\ cataloger.got[f] # -1 => ResultTrue(f, cataloger.got[f])
BY DEF CatalogInv, CatalogTypeOK, RowsTrue, ResultsTrue, ProbesFollow

\* What a probe reads of the edition it meets.
LEMMA ProbedTrue ==
    ASSUME CatalogInv, NEW f \in MediaFiles
    PROVE  /\ Probed(f) \in Nat /\ (Probed(f) = 0 \/ Probed(f) = media[f].edition)
           /\ \A stamp : Readable(f, stamp) => Probed(f) = stamp
BY FileHas DEF Probed, Readable

\* What is true of a row stays true however its file changes.
LEMMA RowStaysTrue ==
    ASSUME MediaGrows, NEW f \in MediaFiles, NEW row, RowTrue(f, row)
    PROVE  RowTrue(f, row)'
<1>1. row.stamp \in Nat /\ media[f].edition \in Nat /\ media'[f].edition \in Nat
  BY DEF MediaRows, MediaGrows, RowTrue
<1>2. row.stamp <= media[f].edition /\ media[f].edition <= media'[f].edition
  BY DEF MediaGrows, RowTrue
<1>3. row.stamp <= media'[f].edition
  BY <1>1, <1>2
<1>4. media'[f].edition = row.stamp => media[f].edition = row.stamp
  BY <1>1, <1>2
<1>5. Readable(f, row.stamp)' => Readable(f, row.stamp)
  BY <1>4 DEF MediaGrows, Readable
<1> QED BY <1>3, <1>5 DEF RowTrue

\* A file that changes.
LEMMA MediaChangesKeeps ==
    ASSUME CatalogInv, NEW g \in MediaFiles, MediaChanges(g)
    PROVE  CatalogInv'
<1>1. UNCHANGED <<mediaRow, cataloger, prober, inspector>>
  BY DEF MediaChanges
<1>2. media \in [MediaFiles -> [edition : Nat \ {0}, seen : {"there", "undated", "gone", "denied"}]]
  BY DEF CatalogInv, CatalogTypeOK
<1>3. media' \in [MediaFiles -> [edition : Nat \ {0}, seen : {"there", "undated", "gone", "denied"}]] /\ MediaGrows
  <2>1. CASE media' = [media EXCEPT ![g] = [edition |-> @.edition + 1, seen |-> "there"]]
    <3>1. media[g].edition \in Nat \ {0} /\ media[g].edition + 1 \in Nat \ {0}
      BY <1>2
    <3>2. \A f \in MediaFiles : media[f].edition \in Nat
      BY <1>2
    <3> QED BY <1>2, <2>1, <3>1, <3>2 DEF MediaGrows
  <2>2. ASSUME NEW s \in {"gone", "denied", "undated"}, media' = [media EXCEPT ![g].seen = s]
        PROVE  /\ media' \in [MediaFiles -> [edition : Nat \ {0}, seen : {"there", "undated", "gone", "denied"}]]
               /\ MediaGrows
    BY <1>2, <2>2 DEF MediaGrows
  <2> QED BY <2>1, <2>2 DEF MediaChanges
<1>4. CatalogTypeOK'
  BY <1>1, <1>3 DEF CatalogInv, CatalogTypeOK
<1>5. RowsTrue'
  BY <1>1, <1>3, RowStaysTrue DEF CatalogInv, RowsTrue
<1>6. \A f \in MediaFiles : cataloger.stamps[f] <= media'[f].edition
  <2> SUFFICES ASSUME NEW f \in MediaFiles PROVE cataloger.stamps[f] <= media'[f].edition
    OBVIOUS
  <2>1. cataloger.stamps[f] <= media[f].edition /\ media[f].edition <= media'[f].edition
    BY <1>3, FileHas DEF MediaGrows
  <2>2. cataloger.stamps[f] \in Nat /\ media[f].edition \in Nat /\ media'[f].edition \in Nat
    BY <1>3, FileHas DEF MediaGrows
  <2> QED BY <2>1, <2>2
<1>7. ASSUME NEW f \in MediaFiles PROVE Readable(f, cataloger.stamps[f])' => Readable(f, cataloger.stamps[f])
  <2>1. /\ cataloger.stamps[f] \in Nat /\ media[f].edition \in Nat /\ media'[f].edition \in Nat
        /\ cataloger.stamps[f] <= media[f].edition /\ media[f].edition <= media'[f].edition
    BY <1>3, FileHas DEF MediaGrows
  <2>2. media'[f].edition = cataloger.stamps[f] => media[f].edition = cataloger.stamps[f]
    BY <2>1
  <2> QED BY <1>1, <1>3, <2>2 DEF Readable, MediaGrows
<1>8. ResultsTrue'
  <2>1. \A f \in MediaFiles : \A probed : ResultTrue(f, probed) => ResultTrue(f, probed)'
    BY <1>1, <1>7 DEF ResultTrue
  <2>2. /\ \A i \in DOMAIN prober.inner : prober.inner[i][1] \in MediaFiles
        /\ \A i \in DOMAIN prober.outer : prober.outer[i][1] \in MediaFiles
    BY ResultsOfFiles DEF CatalogInv, CatalogTypeOK
  <2> QED BY <1>1, <2>1, <2>2 DEF CatalogInv, ResultsTrue
<1>9. ProbesFollow'
  <2>1. Current' = Current
    BY <1>1 DEF Current
  <2>2. cataloger.at = "probing" /\ Current \in MediaFiles =>
            cataloger.reading \in Nat /\ cataloger.reading <= media'[Current].edition
    <3> SUFFICES ASSUME cataloger.at = "probing", Current \in MediaFiles
                 PROVE  cataloger.reading \in Nat /\ cataloger.reading <= media'[Current].edition
      OBVIOUS
    <3>1. /\ cataloger.reading \in Nat /\ cataloger.reading <= media[Current].edition
          /\ media[Current].edition \in Nat /\ media'[Current].edition \in Nat
          /\ media[Current].edition <= media'[Current].edition
      BY <1>3 DEF CatalogInv, ProbesFollow, MediaGrows
    <3> QED BY <3>1
  <2> QED BY <1>1, <1>6, <2>1, <2>2 DEF CatalogInv, ProbesFollow
<1>10. InspectionFits'
  <2>1. CASE inspector = NotInspecting
    BY <1>1, <2>1 DEF InspectionFits, NotInspecting
  <2>2. CASE inspector # NotInspecting
    <3> DEFINE f == inspector.file
    <3>1. /\ inspector \in [at : {"stat", "read", "recheck", "shown"}, file : MediaFiles, asked : Nat, shown : Nat]
          /\ f \in MediaFiles /\ inspector.asked \in Nat /\ inspector.shown \in Nat
          /\ inspector.asked <= media[f].edition
          /\ inspector.at = "recheck" /\ inspector.shown # 0 =>
                 inspector.asked <= inspector.shown /\ inspector.shown <= media[f].edition
      BY <2>2 DEF CatalogInv, InspectionFits
    <3>2. media[f].edition \in Nat /\ media'[f].edition \in Nat /\ media[f].edition <= media'[f].edition
      BY <1>3, <3>1 DEF MediaGrows
    <3>3. inspector.asked <= media'[f].edition
      BY <3>1, <3>2
    <3>4. inspector.at = "recheck" /\ inspector.shown # 0 => inspector.shown <= media'[f].edition
      BY <3>1, <3>2
    <3> QED BY <1>1, <2>2, <3>3, <3>4 DEF CatalogInv, InspectionFits
  <2> QED BY <2>1, <2>2
<1> QED BY <1>4, <1>5, <1>8, <1>9, <1>10 DEF CatalogInv

\* The probes hand their results on and the catalog thread keeps what it has.
LEMMA ProbesMove ==
    ASSUME CatalogInv, UNCHANGED <<media, mediaRow, cataloger, inspector>>, cataloger.at # "candidates",
           DOMAIN prober' = DOMAIN prober, prober'.inner \in ProbeResults, prober'.outer \in ProbeResults,
           \A i \in DOMAIN prober'.inner : ResultTrue(prober'.inner[i][1], prober'.inner[i][2]),
           \A i \in DOMAIN prober'.outer : ResultTrue(prober'.outer[i][1], prober'.outer[i][2])
    PROVE  CatalogInv'
<1>1. CatalogTypeOK'
  BY DEF CatalogInv, CatalogTypeOK
<1>2. \A f \in MediaFiles : \A probed : ResultTrue(f, probed)' <=> ResultTrue(f, probed)
  BY DEF ResultTrue, Readable
<1>3. /\ \A i \in DOMAIN prober'.inner : prober'.inner[i][1] \in MediaFiles
      /\ \A i \in DOMAIN prober'.outer : prober'.outer[i][1] \in MediaFiles
  BY ResultsOfFiles
<1>4. ResultsTrue'
  BY <1>2, <1>3 DEF CatalogInv, ResultsTrue
<1>5. RowsTrue' /\ InspectionFits'
  BY DEF CatalogInv, RowsTrue, RowTrue, Readable, InspectionFits, NotInspecting
<1>6. ProbesFollow'
  BY DEF CatalogInv, ProbesFollow, Current
<1> QED BY <1>1, <1>4, <1>5, <1>6 DEF CatalogInv

\* The catalog thread goes on with the same candidates and what their probes brought.
LEMMA ThreadMoves ==
    ASSUME CatalogInv, UNCHANGED <<media, inspector>>, mediaRow' \in [MediaFiles -> MediaRows],
           DOMAIN cataloger' = DOMAIN cataloger, DOMAIN prober' = DOMAIN prober,
           prober'.inner = prober.inner, prober'.outer = prober.outer,
           cataloger'.at \in {"idle", "candidates", "files", "probing", "storing", "joining"},
           cataloger'.stamps = cataloger.stamps, cataloger'.got = cataloger.got,
           cataloger'.prepared \in Seq(Range(cataloger'.prepared)),
           cataloger.cancelled => cataloger'.cancelled, cataloger.failed => cataloger'.failed,
           \A f \in MediaFiles : RowTrue(f, mediaRow'[f]),
           \A i \in DOMAIN cataloger'.prepared :
               cataloger'.prepared[i].file \in MediaFiles => RowTrue(cataloger'.prepared[i].file, cataloger'.prepared[i].row),
           cataloger'.at = "candidates" => cataloger.at = "candidates" /\ prober' = prober,
           cataloger'.failed => cataloger'.at \in {"joining", "idle"},
           cataloger'.at = "probing" /\ Current' \in MediaFiles =>
               cataloger'.reading \in Nat /\ cataloger'.reading <= media[Current'].edition
    PROVE  CatalogInv'
<1>1. CatalogTypeOK'
  BY DEF CatalogInv, CatalogTypeOK
<1>2. \A f, probed : ResultTrue(f, probed) => ResultTrue(f, probed)'
  BY DEF ResultTrue, Readable
<1>3. ResultsTrue'
  BY <1>2 DEF CatalogInv, ResultsTrue
<1>4. \A f, row : RowTrue(f, row) => RowTrue(f, row)'
  BY DEF RowTrue, Readable
<1>5. RowsTrue'
  BY <1>4 DEF RowsTrue
<1>6. ProbesFollow'
  BY DEF CatalogInv, ProbesFollow
<1>7. InspectionFits'
  BY DEF CatalogInv, InspectionFits, NotInspecting
<1> QED BY <1>1, <1>3, <1>5, <1>6, <1>7 DEF CatalogInv

\* A function on the first numbers is a sequence.
LEMMA SeqOfFunction ==
    ASSUME NEW T, NEW n \in Nat, NEW s \in [1 .. n -> T]
    PROVE  s \in Seq(T)
BY SeqDef

\* A sequence is one of its own elements.
LEMMA SeqOverRange ==
    ASSUME NEW S, NEW s \in Seq(S)
    PROVE  s \in Seq(Range(s)) /\ DOMAIN s = 1 .. Len(s) /\ Len(s) \in Nat
<1>1. DOMAIN s = 1 .. Len(s) /\ Len(s) \in Nat /\ s \in [1 .. Len(s) -> S]
  BY LenProperties
<1>2. \A i \in 1 .. Len(s) : s[i] \in Range(s)
  BY <1>1 DEF Range
<1>3. s \in [1 .. Len(s) -> Range(s)]
  BY <1>1, <1>2
<1>4. s \in Seq(Range(s))
  BY <1>1, <1>3, SeqOfFunction
<1> QED BY <1>1, <1>4

\* One more element.
LEMMA AppendedRange ==
    ASSUME NEW s, s \in Seq(Range(s)), NEW e
    PROVE  /\ Append(s, e) \in Seq(Range(Append(s, e))) /\ DOMAIN Append(s, e) = 1 .. Len(s) + 1
           /\ Append(s, e)[Len(s) + 1] = e /\ Len(s) \in Nat
           /\ \A i \in 1 .. Len(s) + 1 : i # Len(s) + 1 => i \in DOMAIN s /\ Append(s, e)[i] = s[i]
<1> DEFINE S == Range(s) \cup {e}
<1>1. s \in Seq(S) /\ e \in S
  <2>1. DOMAIN s = 1 .. Len(s) /\ Len(s) \in Nat /\ s = [i \in 1 .. Len(s) |-> s[i]]
    OBVIOUS
  <2>2. \A i \in 1 .. Len(s) : s[i] \in S
    BY <2>1 DEF Range
  <2>3. s \in [1 .. Len(s) -> S]
    BY <2>1, <2>2
  <2> HIDE DEF S
  <2>4. s \in Seq(S)
    BY <2>1, <2>3, SeqDef
  <2> QED BY <2>4 DEF S
<1> HIDE DEF S
<1>2. /\ Append(s, e) \in Seq(S) /\ Len(Append(s, e)) = Len(s) + 1 /\ Append(s, e)[Len(s) + 1] = e
      /\ \A i \in 1 .. Len(s) : Append(s, e)[i] = s[i]
  BY <1>1, AppendProperties
<1>3. /\ Append(s, e) \in Seq(Range(Append(s, e))) /\ DOMAIN Append(s, e) = 1 .. Len(Append(s, e))
      /\ DOMAIN s = 1 .. Len(s) /\ Len(s) \in Nat
  <2> DEFINE t == Append(s, e)
  <2>0. t \in Seq(S)
    BY <1>2
  <2> HIDE DEF t
  <2>1. t \in Seq(Range(t)) /\ DOMAIN t = 1 .. Len(t)
    BY <2>0, SeqOverRange
  <2>2. DOMAIN s = 1 .. Len(s) /\ Len(s) \in Nat
    BY <1>1, SeqOverRange
  <2> QED BY <2>1, <2>2 DEF t
<1>4. \A n \in Nat : \A i \in 1 .. n + 1 : i # n + 1 => i \in 1 .. n
  OBVIOUS
<1> QED BY <1>2, <1>3, <1>4

\* The inspector moves alone.
LEMMA InspectorMoves ==
    ASSUME CatalogInv, UNCHANGED <<media, mediaRow, cataloger, prober>>, InspectionFits'
    PROVE  CatalogInv'
<1>1. CatalogTypeOK' /\ RowsTrue' /\ ResultsTrue'
  BY DEF CatalogInv, CatalogTypeOK, RowsTrue, RowTrue, Readable, ResultsTrue, ResultTrue
<1>2. ProbesFollow'
  BY DEF CatalogInv, ProbesFollow, Current
<1> QED BY <1>1, <1>2 DEF CatalogInv

LEMMA InspectRowKeeps ==
    ASSUME CatalogInv, NEW f \in MediaFiles, InspectRow(f)
    PROVE  CatalogInv'
<1>1. /\ inspector' = [at |-> "stat", file |-> f, asked |-> mediaRow[f].stamp, shown |-> 0]
      /\ UNCHANGED <<media, mediaRow, cataloger, prober>>
  BY DEF InspectRow
<1>2. mediaRow[f].stamp \in Nat /\ mediaRow[f].stamp <= media[f].edition
  BY FileHas DEF RowTrue, MediaRows
<1>3. InspectionFits'
  BY <1>1, <1>2 DEF InspectionFits
<1> QED BY <1>1, <1>3, InspectorMoves

LEMMA InspectStepsKeep ==
    ASSUME CatalogInv, InspectStat \/ InspectRead \/ InspectAgain \/ InspectorAnswers
    PROVE  CatalogInv'
<1> DEFINE f == inspector.file
<1>1. UNCHANGED <<media, mediaRow, cataloger, prober>>
  BY DEF InspectStat, InspectRead, InspectAgain, InspectorAnswers
<1>2. ASSUME inspector # NotInspecting
      PROVE  /\ inspector \in [at : {"stat", "read", "recheck", "shown"}, file : MediaFiles, asked : Nat, shown : Nat]
             /\ f \in MediaFiles /\ inspector.asked \in Nat /\ inspector.shown \in Nat /\ media[f].edition \in Nat
             /\ inspector.asked <= media[f].edition
             /\ inspector.at \in {"stat", "read"} => inspector.shown = 0
             /\ inspector.at = "recheck" /\ inspector.shown # 0 =>
                    inspector.asked <= inspector.shown /\ inspector.shown <= media[f].edition
  BY <1>2, FileHas DEF CatalogInv, InspectionFits
<1>3. CASE InspectStat
  <2>1. inspector # NotInspecting
    BY <1>3 DEF InspectStat, NotInspecting
  <2>2. inspector' = [inspector EXCEPT !.at = IF SourceIs(f, inspector.asked) THEN "read" ELSE "shown"] /\ inspector.at = "stat"
    BY <1>3 DEF InspectStat
  <2>3. InspectionFits'
    BY <1>1, <1>2, <2>1, <2>2 DEF InspectionFits
  <2> QED BY <1>1, <2>3, InspectorMoves
<1>4. CASE InspectRead
  <2>1. inspector # NotInspecting
    BY <1>4 DEF InspectRead, NotInspecting
  <2>2. inspector' = [inspector EXCEPT !.at = "recheck", !.shown = Probed(f)] /\ inspector.at = "read"
    BY <1>4 DEF InspectRead
  <2>3. Probed(f) \in Nat /\ (Probed(f) = 0 \/ Probed(f) = media[f].edition)
    BY <1>2, <2>1, ProbedTrue
  <2>4. inspector' \in [at : {"stat", "read", "recheck", "shown"}, file : MediaFiles, asked : Nat, shown : Nat]
    BY <1>2, <2>1, <2>2, <2>3
  <2>5. inspector'.at = "recheck" /\ inspector'.file = f /\ inspector'.asked = inspector.asked /\ inspector'.shown = Probed(f)
    BY <1>2, <2>1, <2>2
  <2>6. InspectionFits'
    BY <1>1, <1>2, <2>1, <2>3, <2>4, <2>5 DEF InspectionFits
  <2> QED BY <1>1, <2>6, InspectorMoves
<1>5. CASE InspectAgain
  <2>1. inspector # NotInspecting
    BY <1>5 DEF InspectAgain, NotInspecting
  <2>2. inspector' = [inspector EXCEPT !.at = "shown", !.shown = Rechecked] /\ inspector.at = "recheck"
    BY <1>5 DEF InspectAgain
  <2>3. Rechecked \in Nat /\ (Rechecked # 0 => Rechecked = inspector.asked)
    <3>1. CASE SourceIs(f, inspector.asked)
      <4>1. Rechecked = inspector.shown /\ media[f].edition = inspector.asked
        BY <3>1 DEF Rechecked, SourceIs
      <4> QED BY <1>2, <2>1, <2>2, <4>1
    <3>2. CASE ~SourceIs(f, inspector.asked)
      BY <3>2 DEF Rechecked
    <3> QED BY <3>1, <3>2
  <2>4. inspector' \in [at : {"stat", "read", "recheck", "shown"}, file : MediaFiles, asked : Nat, shown : Nat]
    BY <1>2, <2>1, <2>2, <2>3
  <2>5. inspector'.at = "shown" /\ inspector'.file = f /\ inspector'.asked = inspector.asked /\ inspector'.shown = Rechecked
    BY <1>2, <2>1, <2>2
  <2>6. InspectionFits'
    BY <1>1, <1>2, <2>1, <2>3, <2>4, <2>5 DEF InspectionFits
  <2> QED BY <1>1, <2>6, InspectorMoves
<1>6. CASE InspectorAnswers
  <2>1. InspectionFits'
    BY <1>6 DEF InspectionFits, InspectorAnswers, NotInspecting
  <2> QED BY <1>1, <2>1, InspectorMoves
<1> QED BY <1>3, <1>4, <1>5, <1>6

LEMMA StartCatalogKeeps ==
    ASSUME CatalogInv, StartCatalog
    PROVE  CatalogInv'
<1> DEFINE next == PassAt("candidates", cataloger.passes + 1)
<1>1. UNCHANGED <<media, mediaRow, inspector>> /\ prober' = NoProber /\ cataloger' = next
  BY DEF StartCatalog
<1>2. /\ DOMAIN next = CatalogerFields /\ next.at = "candidates" /\ next.stamps = [f \in MediaFiles |-> 0]
      /\ next.got = [f \in MediaFiles |-> -1] /\ next.prepared = <<>> /\ next.failed = FALSE
  BY DEF PassAt, CatalogerFields
<1> HIDE DEF next
<1>3. DOMAIN NoProber = ProberFields /\ NoProber.inner = <<>> /\ NoProber.outer = <<>>
  BY DEF NoProber, ProberFields
<1>4. <<>> \in ProbeResults /\ <<>> \in Seq(Range(<<>>)) /\ DOMAIN <<>> = {}
  BY EmptySeq DEF ProbeResults
<1>5. CatalogTypeOK'
  BY <1>1, <1>2, <1>3, <1>4 DEF CatalogInv, CatalogTypeOK
<1>6. RowsTrue' /\ InspectionFits'
  BY <1>1, <1>2, <1>4 DEF CatalogInv, RowsTrue, RowTrue, Readable, InspectionFits, NotInspecting
<1>7. ResultsTrue'
  BY <1>1, <1>2, <1>3, <1>4 DEF ResultsTrue
<1>8. ProbesFollow'
  <2>1. \A f \in MediaFiles : 0 <= media[f].edition
    BY FileHas
  <2> QED BY <1>1, <1>2, <2>1 DEF ProbesFollow
<1> QED BY <1>5, <1>6, <1>7, <1>8 DEF CatalogInv

LEMMA TakeCandidateKeeps ==
    ASSUME CatalogInv, TakeCandidate
    PROVE  CatalogInv'
<1>1. UNCHANGED <<media, mediaRow, inspector>> /\ cataloger.at = "candidates"
  BY DEF TakeCandidate
<1>2. /\ prober = NoProber /\ \A f \in MediaFiles : cataloger.got[f] = -1
      /\ DOMAIN cataloger = CatalogerFields /\ DOMAIN prober = ProberFields
  BY <1>1 DEF CatalogInv, ProbesFollow, CatalogTypeOK
<1>3. prober.inner = <<>> /\ prober.outer = <<>> /\ ~cataloger.failed
  BY <1>1, <1>2 DEF NoProber, CatalogInv, ProbesFollow
<1>4. <<>> \in ProbeResults /\ DOMAIN <<>> = {}
  BY EmptySeq DEF ProbeResults
<1>5. CASE cataloger.cancelled \/ cataloger.n > Len(VideoFiles)
  <2>1. /\ cataloger' = [cataloger EXCEPT !.at = "files", !.n = 1]
        /\ prober' = [prober EXCEPT !.at = "started", !.todo = SelectSeq(VideoFiles, LAMBDA f : cataloger.stamps[f] # 0)]
    BY <1>5 DEF TakeCandidate
  <2>2. DOMAIN prober' = ProberFields /\ prober'.inner = <<>> /\ prober'.outer = <<>>
    BY <1>2, <1>3, <2>1 DEF ProberFields
  <2>3. /\ DOMAIN cataloger' = CatalogerFields /\ cataloger'.at = "files" /\ cataloger'.stamps = cataloger.stamps
        /\ cataloger'.got = cataloger.got /\ cataloger'.prepared = cataloger.prepared
        /\ cataloger'.cancelled = cataloger.cancelled /\ cataloger'.failed = cataloger.failed
    BY <1>2, <2>1 DEF CatalogerFields
  <2> QED BY <1>1, <1>2, <1>3, <2>2, <2>3, ThreadMoves DEF CatalogInv, CatalogTypeOK, RowsTrue
<1>6. CASE cataloger' = GivenUp("undated") \/ cataloger' = [GivenUp("failed") EXCEPT !.fault = TRUE]
  <2>1. prober' = prober
    BY <1>6, <1>2 DEF TakeCandidate, GivenUp, CatalogerFields
  <2>2. /\ DOMAIN cataloger' = CatalogerFields /\ cataloger'.at = "idle" /\ cataloger'.stamps = cataloger.stamps
        /\ cataloger'.got = cataloger.got /\ cataloger'.prepared = cataloger.prepared
        /\ cataloger'.cancelled = cataloger.cancelled /\ cataloger'.failed = cataloger.failed
    BY <1>2, <1>6 DEF CatalogerFields, GivenUp
  <2> QED BY <1>1, <1>2, <1>3, <2>1, <2>2, ThreadMoves DEF CatalogInv, CatalogTypeOK, RowsTrue
<1>7. CASE /\ ~(cataloger.cancelled \/ cataloger.n > Len(VideoFiles))
           /\ cataloger' # GivenUp("undated") /\ cataloger' # [GivenUp("failed") EXCEPT !.fault = TRUE]
  <2> DEFINE f == VideoFiles[cataloger.n]
             stamp == IF media[f].seen = "there" /\ ~RowCurrent(f) THEN media[f].edition ELSE 0
  <2>1. cataloger' = [cataloger EXCEPT !.n = cataloger.n + 1, !.stamps = [cataloger.stamps EXCEPT ![f] = stamp]] /\ prober' = prober
    BY <1>7 DEF TakeCandidate
  <2>2. f \in MediaFiles => stamp \in Nat /\ stamp <= media[f].edition
    BY FileHas
  <2> HIDE DEF stamp, f
  <2>3. /\ DOMAIN cataloger' = CatalogerFields /\ cataloger'.at = "candidates" /\ cataloger'.got = cataloger.got
        /\ cataloger'.stamps = [cataloger.stamps EXCEPT ![f] = stamp]
        /\ cataloger'.prepared = cataloger.prepared /\ cataloger'.failed = cataloger.failed
    BY <1>1, <1>2, <2>1 DEF CatalogerFields
  <2>4. /\ cataloger'.stamps \in [MediaFiles -> Nat]
        /\ \A g \in MediaFiles : cataloger'.stamps[g] <= media[g].edition
    <3>1. cataloger.stamps \in [MediaFiles -> Nat] /\ \A g \in MediaFiles : cataloger.stamps[g] <= media[g].edition
      BY DEF CatalogInv, CatalogTypeOK, ProbesFollow
    <3>2. CASE f \in MediaFiles
      BY <2>2, <2>3, <3>1, <3>2
    <3>3. CASE f \notin MediaFiles
      <4>1. cataloger'.stamps = cataloger.stamps
        BY <2>3, <3>1, <3>3
      <4> QED BY <3>1, <4>1
    <3> QED BY <3>2, <3>3
  <2>5. CatalogTypeOK'
    BY <1>1, <1>2, <2>1, <2>3, <2>4 DEF CatalogInv, CatalogTypeOK
  <2>6. RowsTrue' /\ InspectionFits'
    BY <1>1, <2>3 DEF CatalogInv, RowsTrue, RowTrue, Readable, InspectionFits, NotInspecting
  <2>7. ResultsTrue'
    BY <1>2, <1>3, <1>4, <2>1, <2>3 DEF ResultsTrue
  <2>8. ProbesFollow'
    BY <1>1, <1>2, <1>3, <2>1, <2>3, <2>4 DEF ProbesFollow
  <2> QED BY <2>5, <2>6, <2>7, <2>8 DEF CatalogInv
<1> QED BY <1>5, <1>6, <1>7

LEMMA CatalogStarts ==
    ASSUME CatalogInit
    PROVE  CatalogInv
<1> DEFINE first == PassAt("idle", 0)
<1>1. /\ media = [f \in MediaFiles |-> [edition |-> 1, seen |-> "there"]] /\ mediaRow \in [MediaFiles -> Inherited]
      /\ cataloger = first /\ prober = NoProber /\ inspector = NotInspecting
  BY DEF CatalogInit
<1>2. /\ DOMAIN first = CatalogerFields /\ first.at = "idle" /\ first.stamps = [f \in MediaFiles |-> 0]
      /\ first.got = [f \in MediaFiles |-> -1] /\ first.prepared = <<>> /\ first.failed = FALSE
  BY DEF PassAt, CatalogerFields
<1> HIDE DEF first
<1>3. DOMAIN NoProber = ProberFields /\ NoProber.inner = <<>> /\ NoProber.outer = <<>>
  BY DEF NoProber, ProberFields
<1>4. <<>> \in ProbeResults /\ <<>> \in Seq(Range(<<>>)) /\ DOMAIN <<>> = {}
  BY EmptySeq DEF ProbeResults
<1>5. \A row \in Inherited : row \in MediaRows /\ row.stamp <= 1 /\ (row.latest => row.probed = row.stamp)
  <2> DEFINE good(row) == row \in MediaRows /\ row.stamp <= 1 /\ (row.latest => row.probed = row.stamp)
             older == [Fresh(1, 1) EXCEPT !.created = FALSE]
             oldest == [Fresh(1, 0) EXCEPT !.latest = FALSE]
  <2>1. good(NoMedia)
    BY DEF NoMedia, MediaRows
  <2>2. ASSUME NEW r \in MediaRows, r.stamp = 1
        PROVE  (r.probed = 1 => good([r EXCEPT !.created = FALSE])) /\ good([r EXCEPT !.latest = FALSE])
    <3> DEFINE undated == [r EXCEPT !.created = FALSE]
               outdated == [r EXCEPT !.latest = FALSE]
    <3>1. undated \in MediaRows /\ undated.stamp = r.stamp /\ undated.probed = r.probed
      BY DEF MediaRows
    <3>2. outdated \in MediaRows /\ outdated.stamp = r.stamp /\ ~outdated.latest
      BY DEF MediaRows
    <3> HIDE DEF undated, outdated
    <3>3. (r.probed = 1 => good(undated)) /\ good(outdated)
      BY <2>2, <3>1, <3>2
    <3> QED BY <3>3 DEF undated, outdated
  <2>3. /\ Fresh(1, 1) \in MediaRows /\ Fresh(1, 1).stamp = 1 /\ Fresh(1, 1).probed = 1
        /\ Fresh(1, 0) \in MediaRows /\ Fresh(1, 0).stamp = 1
    BY DEF Fresh, MediaRows
  <2> HIDE DEF good
  <2>4. good(older)
    BY <2>2, <2>3
  <2>5. good(oldest)
    BY <2>2, <2>3
  <2>6. Inherited = {NoMedia, older, oldest}
    BY DEF Inherited
  <2> HIDE DEF older, oldest
  <2>7. \A row \in Inherited : good(row)
    BY <2>1, <2>4, <2>5, <2>6
  <2> QED BY <2>7 DEF good
<1>6. mediaRow \in [MediaFiles -> MediaRows] /\ \A f \in MediaFiles : RowTrue(f, mediaRow[f])
  BY <1>1, <1>5 DEF RowTrue
<1>7. CatalogTypeOK
  BY <1>1, <1>2, <1>3, <1>4, <1>6 DEF CatalogTypeOK
<1>8. RowsTrue /\ ResultsTrue
  BY <1>1, <1>2, <1>3, <1>4, <1>6 DEF RowsTrue, ResultsTrue
<1>9. ProbesFollow
  <2>1. \A f \in MediaFiles : media[f].edition = 1
    BY <1>1
  <2> QED BY <1>1, <1>2, <2>1 DEF ProbesFollow
<1> QED BY <1>1, <1>7, <1>8, <1>9 DEF CatalogInv, InspectionFits

\* A result is handed over.
LEMMA ResultArrives ==
    ASSUME NEW results \in ProbeResults, \A i \in DOMAIN results : ResultTrue(results[i][1], results[i][2]),
           NEW f \in MediaFiles, NEW probed \in Nat, ResultTrue(f, probed)
    PROVE  /\ Append(results, <<f, probed>>) \in ProbeResults
           /\ \A i \in DOMAIN Append(results, <<f, probed>>) :
                  ResultTrue(Append(results, <<f, probed>>)[i][1], Append(results, <<f, probed>>)[i][2])
<1> DEFINE more == Append(results, <<f, probed>>)
<1>1. results \in Seq(MediaFiles \X Nat) /\ <<f, probed>> \in MediaFiles \X Nat
  BY DEF ProbeResults
<1>2. /\ more \in Seq(MediaFiles \X Nat) /\ Len(more) = Len(results) + 1 /\ more[Len(results) + 1] = <<f, probed>>
      /\ \A i \in 1 .. Len(results) : more[i] = results[i]
  BY <1>1, AppendProperties
<1> HIDE DEF more
<1>3. more \in ProbeResults /\ DOMAIN more = 1 .. Len(results) + 1
  BY <1>2, ResultsOfFiles DEF ProbeResults
<1>4. DOMAIN results = 1 .. Len(results) /\ Len(results) \in Nat
  BY ResultsOfFiles
<1>5. ASSUME NEW i \in DOMAIN more PROVE ResultTrue(more[i][1], more[i][2])
  <2>1. CASE i = Len(results) + 1
    <3>1. more[i][1] = f /\ more[i][2] = probed
      BY <1>2, <2>1
    <3> QED BY <3>1
  <2>2. CASE i # Len(results) + 1
    <3>1. i \in DOMAIN results /\ more[i] = results[i]
      BY <1>2, <1>3, <1>4, <1>5, <2>2
    <3> QED BY <3>1
  <2> QED BY <2>1, <2>2
<1> QED BY <1>3, <1>5 DEF more

\* A result is taken.
LEMMA ResultLeaves ==
    ASSUME NEW results \in ProbeResults, results # <<>>,
           \A i \in DOMAIN results : ResultTrue(results[i][1], results[i][2])
    PROVE  /\ Tail(results) \in ProbeResults
           /\ \A i \in DOMAIN Tail(results) : ResultTrue(Tail(results)[i][1], Tail(results)[i][2])
           /\ Head(results)[1] \in MediaFiles /\ Head(results)[2] \in Nat
           /\ Head(results) = <<Head(results)[1], Head(results)[2]>>
           /\ ResultTrue(Head(results)[1], Head(results)[2])
<1> DEFINE rest == Tail(results)
<1>1. results \in Seq(MediaFiles \X Nat)
  BY DEF ProbeResults
<1>2. /\ Head(results) \in MediaFiles \X Nat /\ rest \in Seq(MediaFiles \X Nat) /\ Len(rest) = Len(results) - 1
      /\ \A i \in 1 .. Len(rest) : rest[i] = results[i + 1]
  BY <1>1, HeadTailProperties
<1>3. Head(results) = results[1]
  BY <1>1
<1> HIDE DEF rest
<1>4. rest \in ProbeResults /\ DOMAIN rest = 1 .. Len(rest) /\ Len(rest) \in Nat
  BY <1>2, ResultsOfFiles DEF ProbeResults
<1>5. DOMAIN results = 1 .. Len(rest) + 1
  BY <1>2, <1>4, ResultsOfFiles
<1>6. ASSUME NEW i \in DOMAIN rest PROVE ResultTrue(rest[i][1], rest[i][2])
  <2>1. i + 1 \in DOMAIN results /\ rest[i] = results[i + 1]
    BY <1>2, <1>4, <1>5, <1>6
  <2> QED BY <2>1
<1>7. 1 \in DOMAIN results
  BY <1>4, <1>5
<1>8. ResultTrue(Head(results)[1], Head(results)[2])
  BY <1>3, <1>7
<1> QED BY <1>2, <1>4, <1>6, <1>8 DEF rest

\* fill_catalog_video_probes touches neither channel.
LEMMA FilledKeeps ==
    ASSUME NEW p, DOMAIN p = ProberFields
    PROVE  DOMAIN Filled(p) = ProberFields /\ Filled(p).inner = p.inner /\ Filled(p).outer = p.outer
BY DEF Filled, ProberFields

LEMMA ProberStartsKeeps ==
    ASSUME CatalogInv, ProberStarts
    PROVE  CatalogInv'
<1>1. DOMAIN prober = ProberFields /\ DOMAIN cataloger = CatalogerFields /\ prober.at = "started"
  BY DEF CatalogInv, CatalogTypeOK, ProberStarts
<1>2. cataloger.at # "candidates"
  BY <1>1 DEF CatalogInv, ProbesFollow, NoProber
<1>3. UNCHANGED <<media, mediaRow, inspector>>
  BY DEF ProberStarts
<1>4. CASE /\ prober' = [Filled(prober) EXCEPT !.at = IF prober.todo = <<>> THEN "gone" ELSE "running"]
           /\ UNCHANGED cataloger
  <2> DEFINE p == Filled(prober)
  <2>1. DOMAIN p = ProberFields /\ p.inner = prober.inner /\ p.outer = prober.outer
    BY <1>1, FilledKeeps
  <2>2. prober' = [p EXCEPT !.at = IF prober.todo = <<>> THEN "gone" ELSE "running"]
    BY <1>4
  <2> HIDE DEF p
  <2>3. DOMAIN prober' = DOMAIN prober /\ prober'.inner = prober.inner /\ prober'.outer = prober.outer
    BY <1>1, <2>1, <2>2 DEF ProberFields
  <2>4. /\ prober.inner \in ProbeResults /\ prober.outer \in ProbeResults
        /\ \A i \in DOMAIN prober.inner : ResultTrue(prober.inner[i][1], prober.inner[i][2])
        /\ \A i \in DOMAIN prober.outer : ResultTrue(prober.outer[i][1], prober.outer[i][2])
    BY DEF CatalogInv, CatalogTypeOK, ResultsTrue
  <2> QED BY <1>2, <1>3, <1>4, <2>3, <2>4, ProbesMove
<1>5. CASE prober' = [prober EXCEPT !.at = "gone", !.broke = TRUE] /\ cataloger' = [cataloger EXCEPT !.fault = TRUE]
  <2>1. DOMAIN prober' = DOMAIN prober /\ prober'.inner = prober.inner /\ prober'.outer = prober.outer
    BY <1>1, <1>5 DEF ProberFields
  <2>2. /\ DOMAIN cataloger' = DOMAIN cataloger /\ cataloger'.at = cataloger.at /\ cataloger'.stamps = cataloger.stamps
        /\ cataloger'.got = cataloger.got /\ cataloger'.prepared = cataloger.prepared /\ cataloger'.n = cataloger.n
        /\ cataloger'.cancelled = cataloger.cancelled /\ cataloger'.failed = cataloger.failed
        /\ cataloger'.reading = cataloger.reading
    BY <1>1, <1>5 DEF CatalogerFields
  <2>3. Current' = Current
    BY <2>2 DEF Current
  <2> QED BY <1>2, <1>3, <2>1, <2>2, <2>3, ThreadMoves DEF CatalogInv, CatalogTypeOK, RowsTrue, ProbesFollow
<1> QED BY <1>4, <1>5 DEF ProberStarts

\* Nobody probes before the candidates are known.
LEMMA NoProbesYet ==
    ASSUME CatalogInv, prober.spawned # {} \/ prober.active # {} \/ prober.inner # <<>> \/ prober.outer # <<>>
    PROVE  cataloger.at # "candidates"
BY DEF CatalogInv, ProbesFollow, NoProber

LEMMA ProbesKeep ==
    ASSUME CatalogInv, NEW f \in CatalogVideos, ProbeTakes(f) \/ ProbeReads(f)
    PROVE  CatalogInv'
<1>1. DOMAIN prober = ProberFields /\ f \in MediaFiles
  BY CatalogAssumption DEF CatalogInv, CatalogTypeOK
<1>2. cataloger.at # "candidates"
  <2>1. f \in prober.spawned \/ f \in prober.active
    BY DEF ProbeTakes, ProbeReads
  <2> QED BY <2>1, NoProbesYet
<1>3. UNCHANGED <<media, mediaRow, cataloger, inspector>>
  BY DEF ProbeTakes, ProbeReads
<1>4. /\ prober.inner \in ProbeResults /\ prober.outer \in ProbeResults
      /\ \A i \in DOMAIN prober.inner : ResultTrue(prober.inner[i][1], prober.inner[i][2])
      /\ \A i \in DOMAIN prober.outer : ResultTrue(prober.outer[i][1], prober.outer[i][2])
  BY DEF CatalogInv, CatalogTypeOK, ResultsTrue
<1>5. CASE ProbeTakes(f)
  <2>1. CASE AbortProbes
    <3>1. ResultTrue(f, 0)
      BY <2>1 DEF ResultTrue, AbortProbes
    <3> DEFINE more == Append(prober.inner, <<f, 0>>)
    <3>2. more \in ProbeResults /\ \A i \in DOMAIN more : ResultTrue(more[i][1], more[i][2])
      BY <1>1, <1>4, <3>1, ResultArrives
    <3>3. prober' = [prober EXCEPT !.spawned = @ \ {f}, !.inner = more]
      BY <1>5, <2>1 DEF ProbeTakes
    <3> HIDE DEF more
    <3>4. DOMAIN prober' = DOMAIN prober /\ prober'.inner = more /\ prober'.outer = prober.outer
      BY <1>1, <3>3 DEF ProberFields
    <3> QED BY <1>2, <1>3, <1>4, <3>2, <3>4, ProbesMove
  <2>2. CASE ~AbortProbes
    <3>1. prober' = [prober EXCEPT !.spawned = @ \ {f}, !.active = @ \cup {f}]
      BY <1>5, <2>2 DEF ProbeTakes
    <3>2. DOMAIN prober' = DOMAIN prober /\ prober'.inner = prober.inner /\ prober'.outer = prober.outer
      BY <1>1, <3>1 DEF ProberFields
    <3> QED BY <1>2, <1>3, <1>4, <3>2, ProbesMove
  <2> QED BY <2>1, <2>2
<1>6. CASE ProbeReads(f)
  <2>1. Probed(f) \in Nat /\ ResultTrue(f, Probed(f))
    BY <1>1, ProbedTrue DEF ResultTrue
  <2> DEFINE more == Append(prober.inner, <<f, Probed(f)>>)
  <2>2. more \in ProbeResults /\ \A i \in DOMAIN more : ResultTrue(more[i][1], more[i][2])
    BY <1>1, <1>4, <2>1, ResultArrives
  <2>3. prober' = [prober EXCEPT !.active = @ \ {f}, !.inner = more]
    BY <1>6 DEF ProbeReads
  <2> HIDE DEF more
  <2>4. DOMAIN prober' = DOMAIN prober /\ prober'.inner = more /\ prober'.outer = prober.outer
    BY <1>1, <2>3 DEF ProberFields
  <2> QED BY <1>2, <1>3, <1>4, <2>2, <2>4, ProbesMove
<1> QED BY <1>5, <1>6

LEMMA CoordinatorPassesKeeps ==
    ASSUME CatalogInv, CoordinatorPasses
    PROVE  CatalogInv'
<1>1. /\ DOMAIN prober = ProberFields /\ prober.inner \in ProbeResults /\ prober.outer \in ProbeResults
      /\ prober.inner # <<>> /\ UNCHANGED <<media, mediaRow, cataloger, inspector>>
      /\ \A i \in DOMAIN prober.inner : ResultTrue(prober.inner[i][1], prober.inner[i][2])
      /\ \A i \in DOMAIN prober.outer : ResultTrue(prober.outer[i][1], prober.outer[i][2])
  BY DEF CatalogInv, CatalogTypeOK, ResultsTrue, CoordinatorPasses
<1>2. cataloger.at # "candidates"
  BY <1>1, NoProbesYet
<1> DEFINE head == Head(prober.inner)
           rest == Tail(prober.inner)
           more == Append(prober.outer, head)
           moved == [prober EXCEPT !.flying = @ - 1, !.inner = rest, !.taken = @ + 1, !.outer = more]
           p == Filled(moved)
<1>3. /\ rest \in ProbeResults /\ \A i \in DOMAIN rest : ResultTrue(rest[i][1], rest[i][2])
      /\ head[1] \in MediaFiles /\ head[2] \in Nat /\ head = <<head[1], head[2]>> /\ ResultTrue(head[1], head[2])
  BY <1>1, ResultLeaves
<1>4. more \in ProbeResults /\ \A i \in DOMAIN more : ResultTrue(more[i][1], more[i][2])
  <2> HIDE DEF head
  <2>1. more = Append(prober.outer, <<head[1], head[2]>>)
    BY <1>3
  <2>2. /\ Append(prober.outer, <<head[1], head[2]>>) \in ProbeResults
        /\ \A i \in DOMAIN Append(prober.outer, <<head[1], head[2]>>) :
               ResultTrue(Append(prober.outer, <<head[1], head[2]>>)[i][1], Append(prober.outer, <<head[1], head[2]>>)[i][2])
    BY <1>1, <1>3, ResultArrives
  <2> HIDE DEF more
  <2> QED BY <2>1, <2>2
<1>5. prober' = [p EXCEPT !.at = IF AllTaken(p) THEN "gone" ELSE @]
  BY DEF CoordinatorPasses
<1> HIDE DEF rest, more
<1>6. DOMAIN moved = ProberFields /\ moved.inner = rest /\ moved.outer = more
  BY <1>1 DEF ProberFields
<1> HIDE DEF moved
<1>7. DOMAIN p = ProberFields /\ p.inner = rest /\ p.outer = more
  BY <1>6, FilledKeeps
<1> HIDE DEF p
<1>8. DOMAIN prober' = DOMAIN prober /\ prober'.inner = rest /\ prober'.outer = more
  BY <1>1, <1>5, <1>7 DEF ProberFields
<1> QED BY <1>1, <1>2, <1>3, <1>4, <1>8, ProbesMove

LEMMA ReceiveProbeKeeps ==
    ASSUME CatalogInv, ReceiveProbe
    PROVE  CatalogInv'
<1>1. /\ DOMAIN cataloger = CatalogerFields /\ DOMAIN prober = ProberFields /\ cataloger.at = "files" /\ ~cataloger.failed
      /\ UNCHANGED <<media, mediaRow, inspector>> /\ prober.outer \in ProbeResults /\ prober.inner \in ProbeResults
      /\ cataloger.got \in [MediaFiles -> Nat \cup {-1}]
  BY DEF CatalogInv, CatalogTypeOK, ProbesFollow, ReceiveProbe
<1>2. CASE /\ prober.outer # <<>>
           /\ cataloger' = [cataloger EXCEPT !.got[Head(prober.outer)[1]] = Head(prober.outer)[2]]
           /\ prober' = [prober EXCEPT !.outer = Tail(@)]
  <2> DEFINE f == Head(prober.outer)[1]
             probed == Head(prober.outer)[2]
             rest == Tail(prober.outer)
  <2>1. \A i \in DOMAIN prober.outer : ResultTrue(prober.outer[i][1], prober.outer[i][2])
    BY DEF CatalogInv, ResultsTrue
  <2>2. /\ rest \in ProbeResults /\ \A i \in DOMAIN rest : ResultTrue(rest[i][1], rest[i][2])
        /\ f \in MediaFiles /\ probed \in Nat /\ ResultTrue(f, probed)
    BY <1>1, <1>2, <2>1, ResultLeaves
  <2>3. /\ cataloger' = [cataloger EXCEPT !.got = [cataloger.got EXCEPT ![f] = probed]]
        /\ prober' = [prober EXCEPT !.outer = rest]
    BY <1>2
  <2> HIDE DEF f, probed, rest
  <2>4. /\ DOMAIN cataloger' = CatalogerFields /\ cataloger'.got = [cataloger.got EXCEPT ![f] = probed]
        /\ cataloger'.at = "files" /\ cataloger'.stamps = cataloger.stamps /\ cataloger'.prepared = cataloger.prepared
        /\ cataloger'.cancelled = cataloger.cancelled /\ cataloger'.failed = cataloger.failed
        /\ DOMAIN prober' = ProberFields /\ prober'.inner = prober.inner /\ prober'.outer = rest
    BY <1>1, <2>3 DEF CatalogerFields, ProberFields
  <2>5. cataloger'.got \in [MediaFiles -> Nat \cup {-1}]
    BY <1>1, <2>2, <2>4
  <2>6. \A g, result : ResultTrue(g, result)' <=> ResultTrue(g, result)
    BY <1>1, <2>4 DEF ResultTrue, Readable
  <2>7. \A g \in MediaFiles : cataloger'.got[g] # -1 => ResultTrue(g, cataloger'.got[g])
    BY <1>1, <2>2, <2>4 DEF CatalogInv, ResultsTrue
  <2>8. ResultsTrue'
    BY <2>2, <2>4, <2>6, <2>7 DEF CatalogInv, ResultsTrue
  <2>9. CatalogTypeOK'
    BY <1>1, <2>2, <2>4, <2>5 DEF CatalogInv, CatalogTypeOK
  <2>10. RowsTrue' /\ InspectionFits'
    BY <1>1, <2>4 DEF CatalogInv, RowsTrue, RowTrue, Readable, InspectionFits, NotInspecting
  <2>11. ProbesFollow'
    BY <1>1, <2>4 DEF CatalogInv, ProbesFollow
  <2> QED BY <2>8, <2>9, <2>10, <2>11 DEF CatalogInv
<1>3. CASE cataloger' = [cataloger EXCEPT !.failed = TRUE, !.at = "joining"] /\ UNCHANGED prober
  <2>1. /\ DOMAIN cataloger' = CatalogerFields /\ cataloger'.got = cataloger.got
        /\ cataloger'.at = "joining" /\ cataloger'.stamps = cataloger.stamps /\ cataloger'.prepared = cataloger.prepared
        /\ cataloger'.cancelled = cataloger.cancelled /\ cataloger'.failed
    BY <1>1, <1>3 DEF CatalogerFields
  <2> QED BY <1>1, <1>3, <2>1, ThreadMoves DEF CatalogInv, CatalogTypeOK, RowsTrue
<1> QED BY <1>2, <1>3 DEF ReceiveProbe

\* What a step between two files leaves alone.
SameCandidates(c, d) ==
    /\ DOMAIN c = CatalogerFields /\ DOMAIN d = CatalogerFields /\ c.stamps = d.stamps /\ c.got = d.got
    /\ c.cancelled = d.cancelled /\ c.failed = d.failed

LEMMA OnwardGoes ==
    ASSUME NEW c, DOMAIN c = CatalogerFields
    PROVE  SameCandidates(Onward(c), c) /\ Onward(c).at \in {"storing", "files"} /\ Onward(c).prepared = c.prepared
BY DEF Onward, CatalogerFields, SameCandidates

LEMMA NextChunkGoes ==
    ASSUME NEW c, DOMAIN c = CatalogerFields
    PROVE  SameCandidates(NextChunk(c), c) /\ NextChunk(c).at \in {"joining", "files"} /\ NextChunk(c).prepared = c.prepared
BY DEF NextChunk, CatalogerFields, SameCandidates

\* The catalog thread leaves a file without a row.
LEMMA FilePasses ==
    ASSUME CatalogInv, UNCHANGED <<media, mediaRow, prober, inspector>>, SameCandidates(cataloger', cataloger),
           cataloger'.prepared = cataloger.prepared, cataloger'.at \in {"storing", "files", "joining"}, ~cataloger.failed
    PROVE  CatalogInv'
BY ThreadMoves DEF SameCandidates, CatalogInv, CatalogTypeOK, RowsTrue

\* The row of a file joins its batch.
LEMMA RowJoins ==
    ASSUME CatalogInv, UNCHANGED <<media, mediaRow, prober, inspector>>, ~cataloger.failed,
           NEW kind, NEW row, cataloger' = Readied(cataloger, kind, row),
           Current \in MediaFiles => RowTrue(Current, row)
    PROVE  CatalogInv'
<1> DEFINE e == [file |-> Current, kind |-> kind, row |-> row]
           old == cataloger.prepared
           more == Append(old, e)
           c == [cataloger EXCEPT !.prepared = more]
<1>1. /\ DOMAIN cataloger = CatalogerFields /\ old \in Seq(Range(old)) /\ mediaRow \in [MediaFiles -> MediaRows]
      /\ \A i \in DOMAIN old : old[i].file \in MediaFiles => RowTrue(old[i].file, old[i].row)
      /\ \A f \in MediaFiles : RowTrue(f, mediaRow[f])
  BY DEF CatalogInv, CatalogTypeOK, RowsTrue
<1>2. cataloger' = Onward(c)
  BY DEF Readied
<1>3. e.file = Current /\ e.row = row
  OBVIOUS
<1> HIDE DEF e, old
<1>4. /\ more \in Seq(Range(more)) /\ DOMAIN more = 1 .. Len(old) + 1 /\ more[Len(old) + 1] = e /\ Len(old) \in Nat
      /\ \A i \in 1 .. Len(old) + 1 : i # Len(old) + 1 => i \in DOMAIN old /\ more[i] = old[i]
  BY <1>1, AppendedRange
<1> HIDE DEF more
<1>5. ASSUME NEW i \in DOMAIN more, more[i].file \in MediaFiles
      PROVE  RowTrue(more[i].file, more[i].row)
  <2>1. CASE i = Len(old) + 1
    <3>1. more[i].file = Current /\ more[i].row = row
      BY <1>3, <1>4, <2>1
    <3> QED BY <1>5, <3>1
  <2>2. CASE i # Len(old) + 1
    <3>1. i \in DOMAIN old /\ more[i] = old[i]
      BY <1>4, <1>5, <2>2
    <3> QED BY <1>1, <1>5, <3>1
  <2> QED BY <2>1, <2>2
<1>6. SameCandidates(c, cataloger) /\ DOMAIN c = CatalogerFields /\ c.prepared = more
  BY <1>1 DEF CatalogerFields, SameCandidates
<1> HIDE DEF c
<1>7. SameCandidates(cataloger', c) /\ cataloger'.at \in {"storing", "files"} /\ cataloger'.prepared = more
  BY <1>2, <1>6, OnwardGoes
<1>8. SameCandidates(cataloger', cataloger)
  BY <1>6, <1>7 DEF SameCandidates
<1> QED BY <1>1, <1>4, <1>5, <1>7, <1>8, ThreadMoves DEF SameCandidates

LEMMA CatalogFileKeeps ==
    ASSUME CatalogInv, CatalogFile
    PROVE  CatalogInv'
<1> DEFINE f == Current
           current == media[f].seen = "there" /\ RowCurrent(f)
           usable == media[f].seen = "there" /\ ~RowCurrent(f) /\ Usable(f)
           kind == IF mediaRow[f].created THEN "unchanged" ELSE "created"
           kept == [mediaRow[f] EXCEPT !.created = TRUE]
           probed == Fresh(media[f].edition, cataloger.got[f])
<1>1. /\ UNCHANGED <<media, mediaRow, prober, inspector>> /\ cataloger.at = "files" /\ ~cataloger.failed
      /\ DOMAIN cataloger = CatalogerFields
  BY DEF CatalogFile, CatalogInv, CatalogTypeOK, ProbesFollow
<1> DEFINE reported == Onward([cataloger EXCEPT !.complete = FALSE])
<1>2. cataloger' = reported \/ cataloger' =
          CASE Leaves -> [cataloger EXCEPT !.at = "storing"]
            [] ~Leaves /\ media[f].seen = "gone" -> Onward(cataloger)
            [] ~Leaves /\ media[f].seen \in {"denied", "undated"} -> reported
            [] ~Leaves /\ media[f].seen = "there" /\ RowCurrent(f) -> Readied(cataloger, kind, kept)
            [] ~Leaves /\ media[f].seen = "there" /\ ~RowCurrent(f) /\ Usable(f) -> Readied(cataloger, "changed", probed)
            [] OTHER -> [cataloger EXCEPT !.at = "probing", !.reading = media[f].edition]
  BY DEF CatalogFile
<1>9. CASE cataloger' = reported
  <2> DEFINE c == [cataloger EXCEPT !.complete = FALSE]
  <2>1. cataloger' = Onward(c)
    BY <1>9
  <2>2. SameCandidates(c, cataloger) /\ c.prepared = cataloger.prepared /\ DOMAIN c = CatalogerFields
    BY <1>1 DEF SameCandidates, CatalogerFields
  <2> HIDE DEF c
  <2>3. SameCandidates(cataloger', c) /\ cataloger'.prepared = c.prepared /\ cataloger'.at \in {"storing", "files"}
    BY <2>1, <2>2, OnwardGoes
  <2>4. SameCandidates(cataloger', cataloger) /\ cataloger'.prepared = cataloger.prepared
    BY <2>2, <2>3 DEF SameCandidates
  <2> QED BY <1>1, <2>3, <2>4, FilePasses
<1> HIDE DEF reported
<1>3. CASE cataloger' # reported /\ Leaves
  <2>1. cataloger' = [cataloger EXCEPT !.at = "storing"]
    BY <1>2, <1>3
  <2>2. SameCandidates(cataloger', cataloger) /\ cataloger'.prepared = cataloger.prepared /\ cataloger'.at = "storing"
    BY <1>1, <2>1 DEF SameCandidates, CatalogerFields
  <2> QED BY <1>1, <2>2, FilePasses
<1>4. CASE cataloger' # reported /\ ~Leaves /\ media[f].seen = "gone"
  <2>1. cataloger' = Onward(cataloger)
    BY <1>2, <1>4
  <2>2. /\ SameCandidates(cataloger', cataloger) /\ cataloger'.prepared = cataloger.prepared
        /\ cataloger'.at \in {"storing", "files"}
    BY <1>1, <2>1, OnwardGoes
  <2> QED BY <1>1, <2>2, FilePasses
<1>5. CASE ~Leaves /\ media[f].seen \in {"denied", "undated"}
  <2>1. cataloger' = reported
    BY <1>2, <1>5
  <2> QED BY <2>1, <1>9
<1>6. CASE cataloger' # reported /\ ~Leaves /\ current
  <2>1. cataloger' = Readied(cataloger, kind, kept)
    BY <1>2, <1>6
  <2>2. ASSUME f \in MediaFiles PROVE RowTrue(f, kept)
    <3>1. mediaRow[f] \in MediaRows /\ RowTrue(f, mediaRow[f])
      BY <2>2, FileHas
    <3>2. /\ kept \in MediaRows /\ kept.stamp = mediaRow[f].stamp /\ kept.probed = mediaRow[f].probed
          /\ kept.latest = mediaRow[f].latest
      BY <3>1 DEF MediaRows
    <3> QED BY <3>1, <3>2 DEF RowTrue
  <2> HIDE DEF kind, kept
  <2> QED BY <1>1, <2>1, <2>2, RowJoins
<1>7. CASE cataloger' # reported /\ ~Leaves /\ usable
  <2>1. cataloger' = Readied(cataloger, "changed", probed)
    BY <1>2, <1>7
  <2>2. ASSUME f \in MediaFiles PROVE RowTrue(f, probed)
    <3>1. media[f].edition \in Nat /\ cataloger.got[f] \in Nat /\ cataloger.stamps[f] = media[f].edition
      BY <1>7, <2>2, FileHas DEF Usable
    <3>2. ResultTrue(f, cataloger.got[f]) /\ ~cataloger.cancelled /\ ~cataloger.failed
      BY <1>1, <1>7, <2>2, <3>1, FileHas DEF Leaves
    <3>3. Readable(f, media[f].edition) => cataloger.got[f] = media[f].edition
      BY <3>1, <3>2 DEF ResultTrue
    <3>4. /\ probed \in MediaRows /\ probed.stamp = media[f].edition /\ probed.probed = cataloger.got[f]
      BY <3>1 DEF MediaRows, Fresh
    <3> QED BY <3>1, <3>3, <3>4 DEF RowTrue
  <2> HIDE DEF probed
  <2> QED BY <1>1, <2>1, <2>2, RowJoins
<1>8. CASE cataloger' # reported /\ ~(Leaves \/ media[f].seen = "gone" \/ media[f].seen \in {"denied", "undated"} \/ current \/ usable)
  <2> DEFINE edition == media[f].edition
  <2>1. cataloger' = [cataloger EXCEPT !.at = "probing", !.reading = edition]
    <3>1. /\ cataloger' # reported /\ ~Leaves /\ ~(~Leaves /\ media[f].seen = "gone") /\ ~(~Leaves /\ media[f].seen \in {"denied", "undated"})
          /\ ~(~Leaves /\ media[f].seen = "there" /\ RowCurrent(f))
          /\ ~(~Leaves /\ media[f].seen = "there" /\ ~RowCurrent(f) /\ Usable(f))
      BY <1>8
    <3> HIDE DEF f
    <3> QED BY <1>2, <3>1
  <2>2. f \in MediaFiles => edition \in Nat /\ edition <= media[f].edition
    BY FileHas
  <2> HIDE DEF edition
  <2>3. /\ SameCandidates(cataloger', cataloger) /\ cataloger'.prepared = cataloger.prepared /\ cataloger'.at = "probing"
        /\ cataloger'.reading = edition /\ cataloger'.n = cataloger.n
    BY <1>1, <2>1 DEF SameCandidates, CatalogerFields
  <2>4. Current' = f
    BY <2>3 DEF Current
  <2> QED BY <1>1, <2>2, <2>3, <2>4, ThreadMoves DEF SameCandidates, CatalogInv, CatalogTypeOK, RowsTrue
<1> QED BY <1>3, <1>4, <1>5, <1>6, <1>7, <1>8, <1>9

LEMMA ProbeInlineKeeps ==
    ASSUME CatalogInv, ProbeInline
    PROVE  CatalogInv'
<1> DEFINE f == Current
           row == Fresh(cataloger.reading, Probed(f))
<1>1. /\ UNCHANGED <<media, mediaRow, prober, inspector>> /\ cataloger.at = "probing" /\ ~cataloger.failed
      /\ cataloger' = Readied(cataloger, "changed", row)
  BY DEF ProbeInline, CatalogInv, ProbesFollow
<1>2. ASSUME f \in MediaFiles PROVE RowTrue(f, row)
  <2>1. cataloger.reading \in Nat /\ cataloger.reading <= media[f].edition
    BY <1>1, <1>2 DEF CatalogInv, ProbesFollow
  <2>2. Probed(f) \in Nat /\ (Readable(f, cataloger.reading) => Probed(f) = cataloger.reading)
    BY <1>2, ProbedTrue
  <2>3. row \in MediaRows /\ row.stamp = cataloger.reading /\ row.probed = Probed(f)
    BY <2>1, <2>2 DEF MediaRows, Fresh
  <2> HIDE DEF row
  <2> QED BY <2>1, <2>2, <2>3 DEF RowTrue
<1> HIDE DEF row
<1> QED BY <1>1, <1>2, RowJoins

\* The rows of a batch are stored.
LEMMA BatchStored ==
    ASSUME CatalogInv, NEW batch, batch = cataloger.prepared, NEW f \in MediaFiles,
           NEW row, row = IF \E i \in DOMAIN batch : batch[i].file = f
                          THEN (CHOOSE b \in Range(batch) : b.file = f).row ELSE mediaRow[f]
    PROVE  RowTrue(f, row)
<1>1. CASE \E i \in DOMAIN batch : batch[i].file = f
  <2> DEFINE b == CHOOSE b \in Range(batch) : b.file = f
  <2>1. \E x \in Range(batch) : x.file = f
    BY <1>1 DEF Range
  <2>2. b \in Range(batch) /\ b.file = f
    BY <2>1
  <2>3. row = b.row
    BY <1>1
  <2> HIDE DEF b
  <2>4. PICK i \in DOMAIN batch : batch[i] = b
    BY <2>2 DEF Range
  <2>5. RowTrue(batch[i].file, batch[i].row)
    BY <2>2, <2>4 DEF CatalogInv, RowsTrue
  <2> QED BY <2>2, <2>3, <2>4, <2>5
<1>2. CASE ~\E i \in DOMAIN batch : batch[i].file = f
  BY <1>2, FileHas
<1> QED BY <1>1, <1>2

LEMMA StoreBatchKeeps ==
    ASSUME CatalogInv, StoreBatch
    PROVE  CatalogInv'
<1> DEFINE batch == cataloger.prepared
           stored == [f \in MediaFiles |-> IF \E i \in DOMAIN batch : batch[i].file = f
                                           THEN (CHOOSE b \in Range(batch) : b.file = f).row ELSE mediaRow[f]]
           c == [cataloger EXCEPT !.prepared = <<>>, !.out = @ \o batch]
<1>1. /\ UNCHANGED <<media, prober, inspector>> /\ cataloger.at = "storing" /\ ~cataloger.failed
      /\ DOMAIN cataloger = CatalogerFields
  BY DEF StoreBatch, CatalogInv, CatalogTypeOK, ProbesFollow
<1>2. CASE cataloger' = NextChunk(cataloger) /\ UNCHANGED mediaRow
  <2>1. /\ SameCandidates(cataloger', cataloger) /\ cataloger'.prepared = cataloger.prepared
        /\ cataloger'.at \in {"joining", "files"}
    BY <1>1, <1>2, NextChunkGoes
  <2> QED BY <1>1, <1>2, <2>1, FilePasses
<1>3. CASE mediaRow' = stored /\ cataloger' = NextChunk(c)
  <2>1. \A f \in MediaFiles : RowTrue(f, stored[f])
    <3> SUFFICES ASSUME NEW f \in MediaFiles PROVE RowTrue(f, stored[f])
      OBVIOUS
    <3>1. stored[f] = IF \E i \in DOMAIN batch : batch[i].file = f
                      THEN (CHOOSE b \in Range(batch) : b.file = f).row ELSE mediaRow[f]
      OBVIOUS
    <3> HIDE DEF stored
    <3> QED BY <3>1, BatchStored
  <2>2. stored \in [MediaFiles -> MediaRows]
    <3>1. \A f \in MediaFiles : stored[f] \in MediaRows
      BY <2>1 DEF RowTrue
    <3>2. stored = [f \in MediaFiles |-> stored[f]]
      OBVIOUS
    <3> HIDE DEF stored
    <3> QED BY <3>1, <3>2
  <2>3. SameCandidates(c, cataloger) /\ DOMAIN c = CatalogerFields /\ c.prepared = <<>>
    BY <1>1 DEF SameCandidates, CatalogerFields
  <2> HIDE DEF c, stored
  <2>4. SameCandidates(cataloger', c) /\ cataloger'.prepared = <<>> /\ cataloger'.at \in {"joining", "files"}
    BY <1>3, <2>3, NextChunkGoes
  <2>5. SameCandidates(cataloger', cataloger)
    BY <2>3, <2>4 DEF SameCandidates
  <2>6. <<>> \in Seq(Range(<<>>)) /\ DOMAIN <<>> = {}
    BY EmptySeq
  <2> QED BY <1>1, <1>3, <2>1, <2>2, <2>4, <2>5, <2>6, ThreadMoves DEF SameCandidates
<1>4. ASSUME NEW fault, cataloger' = [cataloger EXCEPT !.at = "joining", !.failed = TRUE, !.fault = fault], UNCHANGED mediaRow
      PROVE  CatalogInv'
  <2>1. /\ DOMAIN cataloger' = CatalogerFields /\ cataloger'.got = cataloger.got
        /\ cataloger'.at = "joining" /\ cataloger'.stamps = cataloger.stamps /\ cataloger'.prepared = cataloger.prepared
        /\ cataloger'.cancelled = cataloger.cancelled /\ cataloger'.failed
    BY <1>1, <1>4 DEF CatalogerFields
  <2> QED BY <1>1, <1>4, <2>1, ThreadMoves DEF CatalogInv, CatalogTypeOK, RowsTrue
<1>5. CASE cataloger' = [cataloger EXCEPT !.at = "joining", !.failed = TRUE] /\ UNCHANGED mediaRow
  <2>1. cataloger' = [cataloger EXCEPT !.at = "joining", !.failed = TRUE, !.fault = cataloger.fault]
    BY <1>1, <1>5 DEF CatalogerFields
  <2> QED BY <1>4, <1>5, <2>1
<1> QED BY <1>2, <1>3, <1>4, <1>5 DEF StoreBatch

LEMMA EndCatalogKeeps ==
    ASSUME CatalogInv, EndCatalog
    PROVE  CatalogInv'
<1> DEFINE out == SortSeq(cataloger.out, LAMBDA a, b : Position(a.file) < Position(b.file))
           complete == CountsComplete(cataloger)
           ended == IF cataloger.failed \/ prober.broke THEN "failed" ELSE "ok"
<1>1. /\ UNCHANGED <<media, mediaRow, prober, inspector>> /\ DOMAIN cataloger = CatalogerFields
      /\ cataloger' = [cataloger EXCEPT !.at = "idle", !.out = out, !.complete = complete, !.ended = ended]
  BY DEF EndCatalog, CatalogInv, CatalogTypeOK
<1> HIDE DEF out, complete, ended
<1>2. SameCandidates(cataloger', cataloger) /\ cataloger'.prepared = cataloger.prepared /\ cataloger'.at = "idle"
  BY <1>1 DEF SameCandidates, CatalogerFields
<1> QED BY <1>1, <1>2, ThreadMoves DEF SameCandidates, CatalogInv, CatalogTypeOK, RowsTrue

LEMMA CancelCatalogKeeps ==
    ASSUME CatalogInv, CancelCatalog
    PROVE  CatalogInv'
<1>1. /\ UNCHANGED <<media, mediaRow, prober, inspector>> /\ DOMAIN cataloger = CatalogerFields
      /\ cataloger' = [cataloger EXCEPT !.cancelled = TRUE]
  BY DEF CancelCatalog, CatalogInv, CatalogTypeOK
<1>2. /\ DOMAIN cataloger' = CatalogerFields /\ cataloger'.got = cataloger.got
      /\ cataloger'.at = cataloger.at /\ cataloger'.stamps = cataloger.stamps /\ cataloger'.prepared = cataloger.prepared
      /\ cataloger'.cancelled /\ cataloger'.failed = cataloger.failed /\ cataloger'.n = cataloger.n
      /\ cataloger'.reading = cataloger.reading
  BY <1>1 DEF CatalogerFields
<1>3. Current' = Current
  BY <1>2 DEF Current
<1> QED BY <1>1, <1>2, <1>3, ThreadMoves DEF CatalogInv, CatalogTypeOK, RowsTrue, ProbesFollow

LEMMA CatalogStepKeeps ==
    ASSUME CatalogInv, [CatalogNext]_catalogVars
    PROVE  CatalogInv'
<1>1. CASE UNCHANGED catalogVars
  <2>1. UNCHANGED <<media, mediaRow, cataloger, prober>> /\ inspector' = inspector
    BY <1>1 DEF catalogVars
  <2>2. InspectionFits'
    BY <2>1 DEF CatalogInv, InspectionFits, NotInspecting
  <2> QED BY <2>1, <2>2, InspectorMoves
<1>2. CASE CatalogSteps
  BY <1>2, TakeCandidateKeeps, ProberStartsKeeps, CoordinatorPassesKeeps, ReceiveProbeKeeps, CatalogFileKeeps,
     ProbeInlineKeeps, StoreBatchKeeps, EndCatalogKeeps, ProbesKeep DEF CatalogSteps
<1>3. ASSUME NEW f \in MediaFiles, InspectRow(f) \/ MediaChanges(f) PROVE CatalogInv'
  BY <1>3, InspectRowKeeps, MediaChangesKeeps
<1> QED BY <1>1, <1>2, <1>3, StartCatalogKeeps, CancelCatalogKeeps, InspectStepsKeep DEF CatalogNext

\* Rows and results of probes are of the editions they are filed under.
THEOREM CatalogInvariant == CatalogSpec => []CatalogInv
<1>1. CatalogInit => CatalogInv
  BY CatalogStarts
<1>2. CatalogInv /\ [CatalogNext]_catalogVars => CatalogInv'
  BY CatalogStepKeeps
<1> QED BY <1>1, <1>2, PTL DEF CatalogSpec

\* The catalog never holds, under the fingerprint of a readable file, other
\* metadata than a probe of that file reads: however the pool and the catalog
\* thread interleave, whatever is cancelled, fails or changes meanwhile; and the
\* inspector never shows metadata of an edition other than that of its row.
THEOREM RowsAlwaysProbed == CatalogSpec => [](RowsAreProbed /\ ShownIsOfRow)
<1>1. CatalogInv => RowsAreProbed
  <2> SUFFICES ASSUME CatalogInv, NEW f \in MediaFiles, RowCurrent(f), media[f].seen = "there",
                      <<f, media[f].edition>> \notin Unprobed
               PROVE  mediaRow[f].probed = media[f].edition
    BY DEF RowsAreProbed
  <2>1. RowTrue(f, mediaRow[f]) /\ mediaRow[f].stamp = media[f].edition /\ mediaRow[f].latest
    BY FileHas DEF RowCurrent
  <2>2. Readable(f, mediaRow[f].stamp)
    BY <2>1 DEF Readable
  <2> QED BY <2>1, <2>2 DEF RowTrue
<1>2. CatalogInv => ShownIsOfRow
  BY DEF CatalogInv, InspectionFits, ShownIsOfRow, NotInspecting
<1> QED BY <1>1, <1>2, CatalogInvariant, PTL

================================================================================
