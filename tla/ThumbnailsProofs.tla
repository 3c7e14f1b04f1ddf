-------------------------- MODULE ThumbnailsProofs --------------------------
(***************************************************************************)
(* TLAPS proofs about thumbnails, for any number of requests at a time,    *)
(* any settings, any length of the encoder and any width of the counters.  *)
(***************************************************************************)
EXTENDS Thumbnails, LifecycleStateProofs, SequenceTheorems

\* The labels of a request that may be the first.
Busy == SinkLabels \union {"add", "await", "take", "giveback"}

\* A request keeps its settings while it works, has a picture only once one was made for
\* it, and is first only while the manager's lock is in its hands.
Working ==
    \A r \in Requests :
        /\ at[r] \notin {"idle", "done"} => want[r] \in Settings
        /\ at[r] # "made" => got[r] = NoJpeg
        /\ first[r] => at[r] \in Busy
        /\ at[r] \in {"add", "giveback"} => first[r]

\* The requests whose consumer the stream counts.
Counted == {r \in Requests : first[r] /\ at[r] # "add"}

\* The stream counts those and the cooldown threads.
StreamCounts ==
    /\ CountFits(life) /\ life.mode = "Lazy"
    /\ life.consumers = Cardinality(Counted) + sleepers

\* encode_mutex has one holder, who has set the encoder up before it pushes.
EncoderHeld ==
    \A r \in Requests :
        /\ at[r] \in {"configure", "push", "encoding"} => encLock = r
        /\ at[r] \in {"push", "encoding"} => held # "none" /\ config = want[r]

\* While frames are pushed one at a time, the one in the encoder and the JPEG in the
\* receiver are the holder's.
EncodesAsAsked ==
    ~tangled =>
        \A r \in Requests : at[r] = "encoding" =>
            /\ encoder = <<>> \/ (Len(encoder) = 1 /\ inbox = NoJpeg)
            /\ encoder # <<>> => Head(encoder).as \in {None, want[r]}
            /\ inbox = NoJpeg \/ inbox.as = want[r]

\* They show the last frame, unless one was captured meanwhile.
EncodesLastFrame ==
    ~tangled /\ ~overlapped =>
        \A r \in Requests :
            /\ at[r] = "push" => held = "last"
            /\ at[r] = "encoding" =>
                /\ encoder # <<>> => Head(encoder).shot = "last"
                /\ inbox.shot # "older"

IInv ==
    /\ TypeOK /\ Working /\ CooldownOwned /\ StreamCounts
    /\ EncoderHeld /\ EncodesAsAsked /\ EncodesLastFrame
    /\ JpegAsAsked /\ CacheShowsLastFrame
-----------------------------------------------------------------------------
(* Frames and JPEGs *)

\* A picture that grows older is made as it was.
LEMMA AgeIs ==
    /\ \A jpeg \in Jpegs : Age(jpeg) \in Jpegs /\ Age(jpeg).as = jpeg.as
    /\ \A frame \in Pushed : Age(frame) \in Pushed /\ Age(frame).as = frame.as
    /\ Age(NoJpeg) = NoJpeg /\ Age(Lagged) = Lagged
    /\ NoJpeg \notin Jpegs /\ Lagged \notin Jpegs /\ NoJpeg # Lagged /\ NoJpeg.shot = "none"
    /\ \A frame \in Pushed : frame.as # None => frame \in Jpegs
BY DEF Age, Jpegs, Pushed, Frames, NoJpeg, Lagged, None

\* The holder of a lock is somebody.
LEMMA NobodyIsNone == \A r \in Requests : r # None
<1>1. Cardinality(Requests) \in Nat
    BY ImageSinkAssumption, FS_CardinalityType
<1>2. Requests = 1..Cardinality(Requests)
    BY ImageSinkAssumption
<1>3. QED
    BY <1>1, <1>2 DEF None

\* A sequence that is not empty.
LEMMA HeadAndTail ==
    ASSUME NEW S, NEW s \in Seq(S), s # <<>>
    PROVE  /\ Head(s) \in S /\ Tail(s) \in Seq(S) /\ Len(Tail(s)) = Len(s) - 1
           /\ 1 \in 1..Len(s) /\ Head(s) = s[1] /\ Len(s) \in Nat
           /\ Len(s) = 1 => Tail(s) = <<>>
<1>1. Head(s) \in S /\ Tail(s) \in Seq(S) /\ Len(Tail(s)) = Len(s) - 1
    BY HeadTailProperties
<1>2. Len(s) \in Nat \ {0} /\ Head(s) = s[1]
    OBVIOUS
<1>3. Len(s) = 1 => Tail(s) = <<>>
    <2>1. Tail(s) # <<>> => Len(Tail(s)) \in Nat \ {0}
        BY <1>1, EmptySeq
    <2>2. QED
        BY <1>1, <2>1
<1>4. QED
    BY <1>1, <1>2, <1>3

\* A frame of the encoder, encoded with the settings c.
EncodedAt(s, i, c) == [s EXCEPT ![i].as = c]

\* Encoding gives one frame its settings and leaves the others and its shot alone.
LEMMA Encoded ==
    ASSUME NEW s \in Seq(Pushed), NEW i \in DOMAIN s, NEW c \in Settings \union {None}
    PROVE  /\ EncodedAt(s, i, c) \in Seq(Pushed) /\ Len(EncodedAt(s, i, c)) = Len(s)
           /\ EncodedAt(s, i, c)[i].as = c /\ EncodedAt(s, i, c)[i].shot = s[i].shot
<1> DEFINE e == [s[i] EXCEPT !.as = c]
<1>1. i \in 1..Len(s) /\ s[i] \in Pushed
    BY ElementOfSeq, LenProperties
<1>2. e \in Pushed /\ e.as = c /\ e.shot = s[i].shot
    BY <1>1 DEF Pushed
<1>3. EncodedAt(s, i, c) = [s EXCEPT ![i] = e]
    BY DEF EncodedAt
<1> HIDE DEF e
<1>4. /\ [s EXCEPT ![i] = e] \in Seq(Pushed) /\ Len([s EXCEPT ![i] = e]) = Len(s)
      /\ [s EXCEPT ![i] = e][i] = e
    BY <1>1, <1>2, ExceptSeq
<1>5. QED
    BY <1>2, <1>3, <1>4

\* A sequence of one is not empty.
LEMMA OneIsSome ==
    ASSUME NEW S, NEW s \in Seq(S), Len(s) = 1
    PROVE  s # <<>>
<1>1. SUFFICES ASSUME s = <<>> PROVE FALSE
    OBVIOUS
<1>2. Len(<<>>) = 0
    OBVIOUS
<1>3. Len(s) = Len(<<>>)
    BY <1>1, Zenon
<1>4. QED
    BY <1>2, <1>3

-----------------------------------------------------------------------------
(* What a step changes *)

Labels == SinkLabels \union {"idle", "lock", "cool", "add", "await", "take", "giveback", "done"}

\* A step in the image sink.
LEMMA SinkEffects ==
    ASSUME TypeOK, NEW r \in Requests, SinkStep(r)
    PROVE  /\ at[r] \in SinkLabels \ {"made"} /\ at'[r] \in SinkLabels
           /\ \A q \in Requests \ {r} : at'[q] = at[q]
           /\ at' \in [Requests -> Labels] /\ want' = want
           /\ \A q \in Requests \ {r} : got'[q] \in {got[q], Age(got[q])}
           /\ at'[r] # "made" => got'[r] \in {got[r], Age(got[r])}
<1> USE DEF SinkLabels, Labels, Goto, Make, sinkState
<1>0. at \in [Requests -> Labels] /\ got \in [Requests -> Jpegs \union {NoJpeg}]
    BY DEF TypeOK, SinkTypeOK
<1>1. CASE QuickCheck(r)
    BY <1>0, <1>1 DEF QuickCheck
<1>2. CASE CheckFreshness(r)
    BY <1>0, <1>2 DEF CheckFreshness
<1>3. CASE LockCapture(r)
    BY <1>0, <1>3 DEF LockCapture
<1>4. CASE FrameArrives(r)
    BY <1>0, <1>4 DEF FrameArrives
<1>5. CASE FinishCapture(r)
    BY <1>0, <1>5 DEF FinishCapture
<1>6. CASE CaptureFails(r)
    BY <1>0, <1>6 DEF CaptureFails
<1>7. CASE LockEncoder(r)
    BY <1>0, <1>7 DEF LockEncoder
<1>8. CASE Configure(r)
    BY <1>0, <1>8 DEF Configure
<1>9. CASE Push(r)
    BY <1>0, <1>9 DEF Push
<1>10. CASE TakeJpeg(r)
    BY <1>0, <1>10 DEF TakeJpeg
<1>11. CASE EncodeFails(r)
    BY <1>0, <1>11 DEF EncodeFails
<1>12. QED
    BY <1>1, <1>2, <1>3, <1>4, <1>5, <1>6, <1>7, <1>8, <1>9, <1>10, <1>11 DEF SinkStep

\* A step of a request before and after it.
Outside(r) ==
    \/ Ask(r) \/ Enter(r) \/ NotFound(r) \/ CheckCooldown(r) \/ AddFirst(r) \/ SeePipeline(r)
    \/ GiveUp(r) \/ GiveBack(r) \/ TakeState(r) \/ Answer(r)

LEMMA OutsideEffects ==
    ASSUME TypeOK, Working, NEW r \in Requests, Outside(r)
    PROVE  /\ UNCHANGED sinkState
           /\ at[r] \notin SinkLabels \ {"made"} /\ at'[r] \notin SinkLabels \ {"quick", "made"}
           /\ \A q \in Requests \ {r} : at'[q] = at[q] /\ want'[q] = want[q] /\ got'[q] = got[q]
           /\ got'[r] = NoJpeg
           /\ at'[r] \notin {"idle", "done"} => want'[r] \in Settings
           /\ at' \in [Requests -> Labels] /\ got' \in [Requests -> Jpegs \union {NoJpeg}]
           /\ want' \in [Requests -> Settings \union {None}]
<1> USE DEF SinkLabels, Labels, Goto, Make, Ends, Working
<1>0. /\ at \in [Requests -> Labels] /\ got \in [Requests -> Jpegs \union {NoJpeg}]
      /\ want \in [Requests -> Settings \union {None}]
    BY DEF TypeOK, SinkTypeOK
<1>1. CASE Ask(r)
    BY <1>0, <1>1 DEF Ask
<1>2. CASE Enter(r)
    BY <1>0, <1>2 DEF Enter
<1>3. CASE NotFound(r)
    BY <1>0, <1>3 DEF NotFound
<1>4. CASE CheckCooldown(r)
    BY <1>0, <1>4 DEF CheckCooldown
<1>5. CASE AddFirst(r)
    BY <1>0, <1>5 DEF AddFirst
<1>6. CASE SeePipeline(r)
    BY <1>0, <1>6 DEF SeePipeline
<1>7. CASE GiveUp(r)
    BY <1>0, <1>7 DEF GiveUp
<1>8. CASE GiveBack(r)
    BY <1>0, <1>8 DEF GiveBack
<1>9. CASE TakeState(r)
    BY <1>0, <1>9 DEF TakeState
<1>10. CASE Answer(r)
    BY <1>0, <1>10 DEF Answer
<1>11. QED
    BY <1>1, <1>2, <1>3, <1>4, <1>5, <1>6, <1>7, <1>8, <1>9, <1>10 DEF Outside

\* The steps of nobody's request that leave the image sink alone.
Elsewhere ==
    \/ CooldownAges \/ CooldownOver \/ PipelineDies \/ WatcherWakes \/ WatcherNotices
    \/ WatcherParks \/ WriterAsks \/ WriterEnters \/ WriterLeaves \/ UNCHANGED vars

LEMMA ElsewhereEffects ==
    ASSUME Elsewhere
    PROVE  UNCHANGED <<at, want, got, sinkState>>
BY DEF Elsewhere, CooldownAges, CooldownOver, PipelineDies, WatcherWakes, WatcherNotices,
       WatcherParks, WriterAsks, WriterEnters, WriterLeaves, vars, sinkVars

\* Every step is one of these.
LEMMA NextIs ==
    ASSUME [Next]_vars
    PROVE  \/ \E r \in Requests : SinkStep(r) /\ Rest
           \/ \E r \in Requests : Outside(r)
           \/ Encode /\ Rest
           \/ Deliver /\ Rest
           \/ RawFrameAges /\ Rest
           \/ \E s \in Settings : JpegAges(s) /\ Rest
           \/ WatcherDrops
           \/ Elsewhere
BY DEF Next, RequestStep, Outside, EncoderStep, WatcherStep, Elsewhere

-----------------------------------------------------------------------------
(* Types *)

LEMMA InitIInv == Init => IInv
<1> SUFFICES ASSUME Init PROVE IInv
    OBVIOUS
<1> USE DEF Init, SinkInit
<1>1. TypeOK
    <2>1. SinkTypeOK
        <3>1. <<>> \in Seq(Pushed) /\ Len(<<>>) <= MaxPending
            BY ImageSinkAssumption
        <3>2. QED
            BY <3>1 DEF SinkTypeOK
    <2>2. life \in LifecycleStates
        BY InitialStateTyped DEF Modes
    <2>3. /\ queue \in Seq(Requests \union {Writer}) /\ sleepers \in Nat /\ errors \in 0..MaxErrors
        BY ThumbnailsAssumption
    <2>4. first \in [Requests -> BOOLEAN] /\ parking \in BOOLEAN
        OBVIOUS
    <2>5. QED
        BY <2>1, <2>2, <2>3, <2>4 DEF TypeOK
<1>2. Working
    BY DEF Working, SinkLabels
<1>3. CooldownOwned /\ StreamCounts
    <2>1. Owners = {} /\ Counted = {} /\ Cardinality({}) = 0
        BY FS_EmptySet DEF Owners, Counted
    <2>2. life.consumers = 0 /\ life.mode = "Lazy" /\ CountFits(life)
        BY InitialStateTyped DEF Modes, Phantom, CountFits
    <2>3. QED
        BY <2>1, <2>2 DEF CooldownOwned, StreamCounts
<1>4. EncoderHeld /\ EncodesAsAsked /\ EncodesLastFrame
    BY DEF EncoderHeld, EncodesAsAsked, EncodesLastFrame
<1>5. JpegAsAsked /\ CacheShowsLastFrame
    BY AgeIs DEF JpegAsAsked, CacheShowsLastFrame
<1>6. QED
    BY <1>1, <1>2, <1>3, <1>4, <1>5 DEF IInv

\* The image sink keeps its types, ...
LEMMA SinkTyped ==
    ASSUME TypeOK, Working, EncoderHeld, NEW r \in Requests, SinkStep(r)
    PROVE  SinkTypeOK'
<1>0. /\ want \in [Requests -> Settings \union {None}] /\ got \in [Requests -> Jpegs \union {NoJpeg}]
      /\ rawLock \in Requests \union {None} /\ encLock \in Requests \union {None}
      /\ rawFresh \in BOOLEAN /\ tangled \in BOOLEAN /\ overlapped \in BOOLEAN
      /\ config \in Settings \union {None} /\ held \in Frames \union {"none"}
      /\ encoder \in Seq(Pushed) /\ Len(encoder) <= MaxPending
      /\ inbox \in Jpegs \union {NoJpeg, Lagged}
      /\ cache \in [Settings -> Jpegs \union {NoJpeg}] /\ MaxPending \in Nat
    BY ImageSinkAssumption DEF TypeOK, SinkTypeOK
<1>1. want' = want /\ at[r] \in SinkLabels
    BY SinkEffects
<1>2. want[r] \in Settings
    BY <1>1 DEF Working, SinkLabels
<1>3. CASE FrameArrives(r)
    <2>1. /\ got' = [q \in Requests |-> Age(got[q])] /\ inbox' = Age(inbox)
          /\ cache' = [s \in Settings |-> Age(cache[s])]
          /\ encoder' = [i \in DOMAIN encoder |-> Age(encoder[i])]
          /\ held' = IF held = "last" THEN "older" ELSE held
          /\ UNCHANGED <<rawLock, rawFresh, encLock, config, tangled>>
        BY <1>3 DEF FrameArrives
    <2>2. /\ got' \in [Requests -> Jpegs \union {NoJpeg}] /\ inbox' \in Jpegs \union {NoJpeg, Lagged}
          /\ cache' \in [Settings -> Jpegs \union {NoJpeg}]
        BY <1>0, <2>1, AgeIs
    <2>3. held' \in Frames \union {"none"}
        BY <1>0, <2>1 DEF Frames
    <2>4. encoder' \in Seq(Pushed) /\ Len(encoder') = Len(encoder)
        <3>1. encoder \in [1..Len(encoder) -> Pushed] /\ Len(encoder) \in Nat
            BY <1>0, LenProperties
        <3>2. encoder' \in [1..Len(encoder) -> Pushed]
            BY <2>1, <3>1, AgeIs
        <3>3. QED
            BY <3>1, <3>2
    <2>5. overlapped' \in BOOLEAN
        BY <1>3, Zenon DEF FrameArrives
    <2>6. QED
        BY <1>0, <1>1, <2>1, <2>2, <2>3, <2>4, <2>5 DEF SinkTypeOK
<1>4. CASE Push(r)
    <2>1. /\ encoder' = Append(encoder, [shot |-> held, as |-> None]) /\ inbox' = NoJpeg
          /\ Len(encoder) < MaxPending
          /\ UNCHANGED <<got, rawLock, rawFresh, encLock, config, held, cache, overlapped>>
        BY <1>4 DEF Push
    <2>2. [shot |-> held, as |-> None] \in Pushed
        BY <1>0, <1>4 DEF Push, EncoderHeld, Pushed
    <2>3. encoder' \in Seq(Pushed) /\ Len(encoder') <= MaxPending
        BY <1>0, <2>1, <2>2
    <2>4. tangled' \in BOOLEAN
        BY <1>4, Zenon DEF Push
    <2>5. QED
        BY <1>0, <1>1, <2>1, <2>3, <2>4 DEF SinkTypeOK
<1>5. CASE QuickCheck(r) \/ CheckFreshness(r)
    <2>1. UNCHANGED sinkState
        BY <1>5 DEF QuickCheck, CheckFreshness
    <2>2. got' \in [Requests -> Jpegs \union {NoJpeg}]
        BY <1>0, <1>2, <1>5 DEF QuickCheck, CheckFreshness, Make
    <2>3. QED
        BY <1>0, <1>1, <2>1, <2>2 DEF SinkTypeOK, sinkState
<1>6. CASE LockCapture(r) \/ FinishCapture(r) \/ CaptureFails(r)
    <2>1. UNCHANGED <<encLock, config, held, encoder, inbox, tangled, overlapped>>
        BY <1>6 DEF LockCapture, FinishCapture, CaptureFails
    <2>2. rawLock' \in Requests \union {None} /\ cache' \in [Settings -> Jpegs \union {NoJpeg}]
        BY <1>0, <1>6 DEF LockCapture, FinishCapture, CaptureFails
    <2>3. got' \in [Requests -> Jpegs \union {NoJpeg}]
        BY <1>0, <1>6 DEF LockCapture, FinishCapture, CaptureFails, Make
    <2>4. rawFresh' \in BOOLEAN
        BY <1>0, <1>6 DEF LockCapture, FinishCapture, CaptureFails
    <2>5. QED
        BY <1>0, <1>1, <2>1, <2>2, <2>3, <2>4 DEF SinkTypeOK
<1>7. CASE LockEncoder(r) \/ Configure(r)
    <2>1. UNCHANGED <<rawLock, rawFresh, encoder, inbox, cache, tangled, overlapped>>
        BY <1>7 DEF LockEncoder, Configure
    <2>2. /\ encLock' \in Requests \union {None} /\ config' \in Settings \union {None}
          /\ held' \in Frames \union {"none"}
        BY <1>0, <1>2, <1>7 DEF LockEncoder, Configure, Frames
    <2>3. got' \in [Requests -> Jpegs \union {NoJpeg}]
        BY <1>0, <1>2, <1>7 DEF LockEncoder, Configure, Make
    <2>4. QED
        BY <1>0, <1>1, <2>1, <2>2, <2>3 DEF SinkTypeOK
<1>8. CASE TakeJpeg(r) \/ EncodeFails(r)
    <2>1. UNCHANGED <<rawLock, rawFresh, config, encoder, tangled, overlapped>>
        BY <1>8 DEF TakeJpeg, EncodeFails
    <2>2. encLock' = None /\ held' = "none" /\ inbox' = NoJpeg
        BY <1>8 DEF TakeJpeg, EncodeFails, ReleaseEncoder
    <2>3. /\ got' \in [Requests -> Jpegs \union {NoJpeg}]
          /\ cache' \in [Settings -> Jpegs \union {NoJpeg}]
        BY <1>0, <1>8 DEF TakeJpeg, EncodeFails, Make
    <2>4. QED
        BY <1>0, <1>1, <2>1, <2>2, <2>3 DEF SinkTypeOK
<1>9. QED
    BY <1>3, <1>4, <1>5, <1>6, <1>7, <1>8 DEF SinkStep

\* ... also when the encoder, the clock or the watcher take a step.
LEMMA EncoderTyped ==
    ASSUME TypeOK,
           Encode \/ Deliver \/ RawFrameAges \/ (\E s \in Settings : JpegAges(s)) \/ WatcherDrops
    PROVE  SinkTypeOK' /\ at' = at
<1>0. /\ want \in [Requests -> Settings \union {None}] /\ got \in [Requests -> Jpegs \union {NoJpeg}]
      /\ rawLock \in Requests \union {None} /\ encLock \in Requests \union {None}
      /\ rawFresh \in BOOLEAN /\ tangled \in BOOLEAN /\ overlapped \in BOOLEAN
      /\ config \in Settings \union {None} /\ held \in Frames \union {"none"}
      /\ encoder \in Seq(Pushed) /\ Len(encoder) <= MaxPending
      /\ inbox \in Jpegs \union {NoJpeg, Lagged}
      /\ cache \in [Settings -> Jpegs \union {NoJpeg}] /\ MaxPending \in Nat
    BY ImageSinkAssumption DEF TypeOK, SinkTypeOK
<1>1. CASE Encode
    <2>1. PICK i \in DOMAIN encoder : encoder' = [encoder EXCEPT ![i].as = config]
        BY <1>1 DEF Encode
    <2>2. encoder' = EncodedAt(encoder, i, config)
        BY <2>1 DEF EncodedAt
    <2>3. encoder' \in Seq(Pushed) /\ Len(encoder') = Len(encoder)
        <3> DEFINE e == EncodedAt(encoder, i, config)
        <3>1. e \in Seq(Pushed) /\ Len(e) = Len(encoder)
            BY <1>0, <2>1, Encoded
        <3> HIDE DEF e
        <3>2. encoder' = e
            BY <2>2 DEF e
        <3>3. QED
            BY <3>1, <3>2
    <2>4. UNCHANGED <<at, want, got, rawLock, rawFresh, encLock, config, held, inbox, cache,
                      tangled, overlapped>>
        BY <1>1 DEF Encode
    <2>5. QED
        BY <1>0, <2>3, <2>4 DEF SinkTypeOK
<1>2. CASE Deliver
    <2>1. /\ encoder # <<>> /\ Head(encoder).as # None /\ encoder' = Tail(encoder)
          /\ inbox' \in {inbox, Head(encoder), Lagged}
          /\ UNCHANGED <<at, want, got, rawLock, rawFresh, encLock, config, held, cache, tangled,
                         overlapped>>
        BY <1>2 DEF Deliver
    <2>2. /\ encoder' \in Seq(Pushed) /\ Len(encoder') <= MaxPending /\ Head(encoder) \in Pushed
        <3>1. Head(encoder) \in Pushed /\ Tail(encoder) \in Seq(Pushed)
            BY <1>0, <2>1, HeadAndTail
        <3>2. Len(Tail(encoder)) = Len(encoder) - 1 /\ Len(encoder) \in Nat
            BY <1>0, <2>1, HeadAndTail
        <3>3. QED
            BY <1>0, <2>1, <3>1, <3>2
    <2>3. inbox' \in Jpegs \union {NoJpeg, Lagged}
        BY <1>0, <2>1, <2>2, AgeIs
    <2>4. QED
        BY <1>0, <2>1, <2>2, <2>3 DEF SinkTypeOK
<1>3. CASE RawFrameAges
    BY <1>0, <1>3 DEF RawFrameAges, SinkTypeOK
<1>4. CASE \E s \in Settings : JpegAges(s)
    <2>1. cache' \in [Settings -> Jpegs \union {NoJpeg}]
        BY <1>0, <1>4 DEF JpegAges
    <2>2. UNCHANGED <<at, want, got, rawLock, rawFresh, encLock, config, held, encoder, inbox,
                      tangled, overlapped>>
        BY <1>4 DEF JpegAges
    <2>3. QED
        BY <1>0, <2>1, <2>2 DEF SinkTypeOK
<1>5. CASE WatcherDrops
    <2>1. /\ cache' \in [Settings -> Jpegs \union {NoJpeg}] /\ inbox' = NoJpeg /\ encoder' = <<>>
          /\ rawLock' = None /\ encLock' = None /\ config' = None /\ held' = "none"
          /\ UNCHANGED <<at, want, got>>
        BY <1>5 DEF WatcherDrops
    <2>2. rawFresh' \in BOOLEAN /\ tangled' \in BOOLEAN /\ overlapped' \in BOOLEAN
        BY <1>5 DEF WatcherDrops
    <2>3. <<>> \in Seq(Pushed) /\ Len(<<>>) <= MaxPending
        BY <1>0
    <2>4. QED
        BY <1>0, <2>1, <2>2, <2>3 DEF SinkTypeOK
<1>6. QED
    BY <1>1, <1>2, <1>3, <1>4, <1>5

LEMMA OutsideTyped ==
    ASSUME TypeOK, Working, NEW r \in Requests, Outside(r)
    PROVE  TypeOK'
<1> DEFINE Q == Requests \union {Writer}
<1>0. /\ life \in LifecycleStates /\ pipeline \in {"none", "live", "dead"}
      /\ writer \in {"out", "waiting", "in"} /\ parking \in BOOLEAN /\ queue \in Seq(Q)
      /\ cooldown \in {"none", "recent", "old"} /\ first \in [Requests -> BOOLEAN]
      /\ sleepers \in Nat /\ errors \in 0..MaxErrors
    BY DEF TypeOK
<1>1. SinkTypeOK' /\ at' \in [Requests -> Labels]
    BY OutsideEffects DEF TypeOK, SinkTypeOK, sinkState
<1>2. queue' \in Seq(Q)
    <2>1. CASE Ask(r)
        BY <1>0, <2>1 DEF Ask
    <2>2. CASE Enter(r)
        <3>1. queue # <<>> /\ queue' = Tail(queue)
            BY <2>2 DEF Enter
        <3>2. QED
            BY <1>0, <3>1, HeadAndTail
    <2>3. CASE ~Ask(r) /\ ~Enter(r)
        BY <1>0, <2>3
        DEF Outside, lockState, NotFound, CheckCooldown, AddFirst, SeePipeline, GiveUp, GiveBack,
            TakeState, Answer
    <2>4. QED
        BY <2>1, <2>2, <2>3
<1>3. life' \in LifecycleStates
    BY <1>0, OperationsTyped
    DEF Outside, streamState, Ask, Enter, NotFound, CheckCooldown, AddFirst, SeePipeline, GiveUp,
        GiveBack, TakeState, Answer
<1>4. cooldown' \in {"none", "recent", "old"} /\ sleepers' \in Nat
    BY <1>0
    DEF Outside, coolState, Ask, Enter, NotFound, CheckCooldown, AddFirst, SeePipeline, GiveUp,
        GiveBack, TakeState, Answer
<1>5. first' \in [Requests -> BOOLEAN]
    BY <1>0
    DEF Outside, coolState, Ask, Enter, NotFound, CheckCooldown, AddFirst, SeePipeline, GiveUp,
        GiveBack, TakeState, Answer
<1>6. UNCHANGED <<pipeline, writer, parking, errors>>
    BY DEF Outside, streamState, lockState, Ask, Enter, NotFound, CheckCooldown, AddFirst,
           SeePipeline, GiveUp, GiveBack, TakeState, Answer
<1>7. QED
    BY <1>0, <1>1, <1>2, <1>3, <1>4, <1>5, <1>6 DEF TypeOK, Labels

LEMMA ElsewhereTyped ==
    ASSUME TypeOK, Elsewhere
    PROVE  TypeOK'
<1> DEFINE Q == Requests \union {Writer}
<1>0. /\ life \in LifecycleStates /\ pipeline \in {"none", "live", "dead"}
      /\ writer \in {"out", "waiting", "in"} /\ parking \in BOOLEAN /\ queue \in Seq(Q)
      /\ cooldown \in {"none", "recent", "old"} /\ first \in [Requests -> BOOLEAN]
      /\ sleepers \in Nat /\ errors \in 0..MaxErrors
    BY DEF TypeOK
<1> USE DEF streamState, coolState, lockState, vars
<1>1. SinkTypeOK' /\ UNCHANGED at
    BY ElsewhereEffects DEF TypeOK, SinkTypeOK, sinkState
<1>2. queue' \in Seq(Q)
    <2>1. CASE WriterAsks
        BY <1>0, <2>1 DEF WriterAsks
    <2>2. CASE WriterEnters
        <3>1. queue # <<>> /\ queue' = Tail(queue)
            BY <2>2 DEF WriterEnters
        <3>2. QED
            BY <1>0, <3>1, HeadAndTail
    <2>3. CASE ~WriterAsks /\ ~WriterEnters
        BY <1>0, <2>3
        DEF Elsewhere, CooldownAges, CooldownOver, PipelineDies, WatcherWakes, WatcherNotices,
            WatcherParks, WriterLeaves
    <2>4. QED
        BY <2>1, <2>2, <2>3
<1>3. life' \in LifecycleStates
    <2>1. ResetErrorBackoff(PipelineReady(life)) \in LifecycleStates
        BY <1>0, OperationsTyped
    <2>2. QED
        BY <1>0, <2>1, OperationsTyped
        DEF Elsewhere, CooldownAges, CooldownOver, PipelineDies, WatcherWakes, WatcherNotices,
            WatcherParks, WriterAsks, WriterEnters, WriterLeaves
<1>4. /\ cooldown' \in {"none", "recent", "old"} /\ sleepers' \in Nat /\ errors' \in 0..MaxErrors
    BY <1>0, ThumbnailsAssumption
    DEF Elsewhere, CooldownAges, CooldownOver, PipelineDies, WatcherWakes, WatcherNotices,
        WatcherParks, WriterAsks, WriterEnters, WriterLeaves
<1>5. pipeline' \in {"none", "live", "dead"} /\ writer' \in {"out", "waiting", "in"}
    BY <1>0
    DEF Elsewhere, CooldownAges, CooldownOver, PipelineDies, WatcherWakes, WatcherNotices,
        WatcherParks, WriterAsks, WriterEnters, WriterLeaves
<1>6. first' \in [Requests -> BOOLEAN] /\ parking' \in BOOLEAN
    BY <1>0
    DEF Elsewhere, CooldownAges, CooldownOver, PipelineDies, WatcherWakes, WatcherNotices,
        WatcherParks, WriterAsks, WriterEnters, WriterLeaves
<1>7. QED
    BY <1>0, <1>1, <1>2, <1>3, <1>4, <1>5, <1>6 DEF TypeOK, Labels

LEMMA StepTyped == TypeOK /\ Working /\ EncoderHeld /\ [Next]_vars => TypeOK'
<1> SUFFICES ASSUME TypeOK, Working, EncoderHeld, [Next]_vars PROVE TypeOK'
    OBVIOUS
<1>1. ASSUME Rest, SinkTypeOK', at' \in [Requests -> Labels] PROVE TypeOK'
    BY <1>1 DEF TypeOK, Labels, Rest, streamState, coolState, lockState
<1>2. at \in [Requests -> Labels]
    BY DEF TypeOK, Labels
<1>3. ASSUME NEW r \in Requests, SinkStep(r), Rest PROVE TypeOK'
    BY <1>1, <1>3, SinkTyped, SinkEffects
<1>4. CASE (Encode \/ Deliver \/ RawFrameAges \/ \E s \in Settings : JpegAges(s)) /\ Rest
    BY <1>1, <1>2, <1>4, EncoderTyped
<1>5. CASE WatcherDrops
    <2>1. SinkTypeOK' /\ UNCHANGED <<at, life, errors, coolState, lockState>>
        BY <1>5, EncoderTyped DEF WatcherDrops
    <2>2. pipeline' = "none" /\ parking' \in BOOLEAN
        BY <1>5 DEF WatcherDrops
    <2>3. QED
        BY <2>1, <2>2 DEF TypeOK, coolState, lockState
<1>6. QED
    BY <1>3, <1>4, <1>5, OutsideTyped, ElsewhereTyped, NextIs

-----------------------------------------------------------------------------
(* The consumers of the stream *)

LEMMA StepWorking == TypeOK /\ Working /\ [Next]_vars => Working'
<1> SUFFICES ASSUME TypeOK, Working, [Next]_vars PROVE Working'
    OBVIOUS
<1>0. /\ first \in [Requests -> BOOLEAN] /\ at \in [Requests -> Labels]
    BY DEF TypeOK, Labels
<1>1. ASSUME NEW r \in Requests, SinkStep(r), Rest PROVE Working'
    <2>1. first' = first
        BY <1>1 DEF Rest, coolState
    <2>2. \A q \in Requests \ {r} : at'[q] = at[q] /\ (got[q] = NoJpeg => got'[q] = NoJpeg)
        BY <1>1, SinkEffects, AgeIs
    <2>3. /\ at[r] \in SinkLabels \ {"made"} /\ at'[r] \in SinkLabels /\ want' = want
          /\ at'[r] # "made" => got'[r] \in {got[r], Age(got[r])}
        BY <1>1, SinkEffects
    <2>4. want[r] \in Settings /\ got[r] = NoJpeg
        BY <2>3 DEF Working, SinkLabels
    <2>5. at'[r] # "made" => got'[r] = NoJpeg
        BY <2>3, <2>4, AgeIs
    <2>6. QED
        BY <2>1, <2>2, <2>3, <2>4, <2>5 DEF Working, Busy, SinkLabels
<1>2. ASSUME NEW r \in Requests, Outside(r) PROVE Working'
    <2>1. /\ \A q \in Requests \ {r} : at'[q] = at[q] /\ want'[q] = want[q] /\ got'[q] = got[q]
          /\ got'[r] = NoJpeg
          /\ at'[r] \notin {"idle", "done"} => want'[r] \in Settings
        BY <1>2, OutsideEffects
    <2>2. /\ \A q \in Requests \ {r} : first'[q] = first[q]
          /\ first'[r] => at'[r] \in Busy
          /\ at'[r] \in {"add", "giveback"} => first'[r]
        <3> USE DEF Working, Goto, Ends, Make, coolState, Busy, SinkLabels
        <3>1. CASE Ask(r) \/ Enter(r) \/ NotFound(r)
            BY <1>0, <3>1 DEF Ask, Enter, NotFound
        <3>2. CASE CheckCooldown(r)
            BY <1>0, <3>2 DEF CheckCooldown
        <3>3. CASE AddFirst(r) \/ SeePipeline(r)
            BY <1>0, <3>3 DEF AddFirst, SeePipeline
        <3>4. CASE GiveUp(r)
            BY <1>0, <3>4 DEF GiveUp
        <3>5. CASE GiveBack(r) \/ Answer(r)
            BY <1>0, <3>5 DEF GiveBack, Answer
        <3>6. CASE TakeState(r)
            BY <1>0, <3>6 DEF TakeState
        <3>7. QED
            BY <1>2, <3>1, <3>2, <3>3, <3>4, <3>5, <3>6 DEF Outside
    <2>3. QED
        BY <2>1, <2>2 DEF Working
<1>3. CASE UNCHANGED <<at, want, got, first>>
    BY <1>3 DEF Working
<1>4. Elsewhere => first' = first
    BY DEF Elsewhere, CooldownAges, CooldownOver, PipelineDies, WatcherWakes, WatcherNotices,
           WatcherParks, WriterAsks, WriterEnters, WriterLeaves, vars, coolState
<1>5. Elsewhere => Working'
    BY <1>3, <1>4, ElsewhereEffects
<1>6. CASE (Encode \/ Deliver \/ RawFrameAges) /\ Rest
    BY <1>3, <1>6 DEF Encode, Deliver, RawFrameAges, Rest, coolState
<1>7. CASE (\E s \in Settings : JpegAges(s) /\ Rest) \/ WatcherDrops
    BY <1>3, <1>7 DEF JpegAges, Rest, WatcherDrops, coolState
<1>8. QED
    BY <1>1, <1>2, <1>5, <1>6, <1>7, NextIs

\* Sets of requests can be counted.
LEMMA Countable ==
    /\ IsFiniteSet(Owners) /\ IsFiniteSet(Counted)
    /\ Cardinality(Owners) \in Nat /\ Cardinality(Counted) \in Nat
<1>1. Owners \in SUBSET Requests /\ Counted \in SUBSET Requests
    BY DEF Owners, Counted
<1>2. QED
    BY <1>1, ImageSinkAssumption, FS_Subset, FS_CardinalityType

\* A step that moves nobody into or out of the counts.
LEMMA CountsKept ==
    ASSUME CooldownOwned, StreamCounts, UNCHANGED <<life, cooldown, sleepers>>,
           Owners' = Owners, Counted' = Counted
    PROVE  CooldownOwned' /\ StreamCounts'
BY DEF CooldownOwned, StreamCounts

\* A request takes the cooldown and adds its consumer, and whoever ends clears what it
\* took or leaves it to a thread.
LEMMA OutsideCounts ==
    ASSUME TypeOK, Working, CooldownOwned, StreamCounts, NEW r \in Requests, Outside(r)
    PROVE  CooldownOwned' /\ StreamCounts'
<1>0. /\ first \in [Requests -> BOOLEAN] /\ at \in [Requests -> Labels] /\ sleepers \in Nat
      /\ cooldown \in {"none", "recent", "old"} /\ life \in LifecycleStates
    BY DEF TypeOK, Labels
<1>1. \A q \in Requests \ {r} : at'[q] = at[q]
    BY OutsideEffects
<1>2. ASSUME UNCHANGED <<life, cooldown, sleepers, first>>, ~first[r]
      PROVE  CooldownOwned' /\ StreamCounts'
    <2>1. Owners' = Owners /\ Counted' = Counted
        BY <1>1, <1>2 DEF Owners, Counted
    <2>2. QED
        BY <1>2, <2>1, CountsKept
<1> USE DEF Goto, Ends, Make, coolState, streamState
<1>3. CASE Ask(r) \/ Enter(r) \/ NotFound(r)
    <2>1. ~first[r]
        BY <1>3 DEF Ask, Enter, NotFound, Working, Busy, SinkLabels
    <2>2. QED
        BY <1>2, <1>3, <2>1 DEF Ask, Enter, NotFound
<1>4. CASE CheckCooldown(r)
    <2>1. /\ first' = [first EXCEPT ![r] = (cooldown = "none")] /\ cooldown' = "recent"
          /\ at'[r] = IF cooldown = "none" THEN "add" ELSE "await"
          /\ UNCHANGED <<life, sleepers>>
        BY <1>0, <1>4 DEF CheckCooldown
    <2>2. ~first[r]
        BY <1>4 DEF CheckCooldown, Working, Busy, SinkLabels
    <2>3. Counted' = Counted
        BY <1>0, <1>1, <2>1, <2>2 DEF Counted
    <2>4. CASE cooldown = "none"
        <3>1. Owners' = Owners \union {r} /\ r \notin Owners
            BY <1>0, <1>1, <2>1, <2>2, <2>4 DEF Owners
        <3>2. Cardinality(Owners') = Cardinality(Owners) + 1
            BY <3>1, Countable, FS_AddElement
        <3>3. QED
            BY <1>0, <2>1, <2>3, <2>4, <3>2, Countable DEF CooldownOwned, StreamCounts
    <2>5. CASE cooldown # "none"
        <3>1. Owners' = Owners
            BY <1>0, <1>1, <2>1, <2>2, <2>5 DEF Owners
        <3>2. QED
            BY <2>1, <2>3, <2>5, <3>1 DEF CooldownOwned, StreamCounts
    <2>6. QED
        BY <2>4, <2>5
<1>5. CASE AddFirst(r)
    <2>1. /\ life' = AddConsumer(life) /\ at[r] = "add" /\ at'[r] = "await"
          /\ UNCHANGED <<cooldown, first, sleepers>>
        BY <1>0, <1>5 DEF AddFirst
    <2>2. first[r]
        BY <2>1 DEF Working
    <2>3. Owners' = Owners /\ r \in Owners
        BY <1>1, <2>1, <2>2 DEF Owners
    <2>4. Counted' = Counted \union {r} /\ r \notin Counted /\ Counted \subseteq Requests
        BY <1>1, <2>1, <2>2 DEF Counted
    <2>5. Cardinality(Counted') = Cardinality(Counted) + 1
        BY <2>4, Countable, FS_AddElement
    <2>6. sleepers = 0
        <3>1. Cardinality(Owners) # 0
            BY <2>3, Countable, FS_EmptySet
        <3>2. QED
            BY <1>0, <3>1, Countable DEF CooldownOwned
    <2>7. Cardinality(Counted) < Cardinality(Requests) /\ Cardinality(Requests) \in Nat
        <3>1. Counted \in SUBSET Requests /\ Counted # Requests
            BY <2>4
        <3>2. Cardinality(Counted) <= Cardinality(Requests) /\ Cardinality(Counted) # Cardinality(Requests)
            BY <3>1, ImageSinkAssumption, FS_Subset
        <3>3. QED
            BY <3>2, Countable, ImageSinkAssumption, FS_CardinalityType
    <2>8. life.consumers # MaxU32
        <3>1. life.consumers = Cardinality(Counted)
            BY <2>6, Countable DEF StreamCounts
        <3>2. QED
            BY <2>7, <3>1, Countable, ThumbnailsAssumption, LifecycleStateAssumption
    <2>9. /\ CountFits(life') /\ life'.mode = "Lazy" /\ life'.consumers = life.consumers + 1
        BY <1>0, <2>1, <2>8, ConsumerAdded DEF StreamCounts
    <2>10. QED
        BY <1>0, <2>1, <2>3, <2>5, <2>6, <2>9, Countable DEF CooldownOwned, StreamCounts
<1>6. CASE SeePipeline(r) \/ TakeState(r)
    <2>1. UNCHANGED <<life, cooldown, sleepers, first>>
        BY <1>6 DEF SeePipeline, TakeState
    <2>2. at[r] \notin {"add", "giveback"} /\ at'[r] \notin {"add", "giveback"}
        BY <1>0, <1>6 DEF SeePipeline, TakeState
    <2>3. Owners' = Owners /\ Counted' = Counted
        BY <1>1, <2>1, <2>2 DEF Owners, Counted
    <2>4. QED
        BY <2>1, <2>3, CountsKept
<1>7. CASE GiveUp(r) /\ first[r]
    <2>1. /\ cooldown' = "none" /\ at[r] = "await" /\ at'[r] = "giveback"
          /\ UNCHANGED <<life, first, sleepers>>
        BY <1>0, <1>7 DEF GiveUp
    <2>2. Owners' = Owners \ {r} /\ r \in Owners /\ Counted' = Counted
        BY <1>1, <1>7, <2>1 DEF Owners, Counted
    <2>3. Cardinality(Owners') = Cardinality(Owners) - 1
        BY <2>2, Countable, FS_RemoveElement
    <2>4. Cardinality(Owners) # 0
        BY <2>2, Countable, FS_EmptySet
    <2>5. QED
        BY <1>0, <2>1, <2>2, <2>3, <2>4, Countable DEF CooldownOwned, StreamCounts
<1>8. CASE GiveUp(r) /\ ~first[r]
    BY <1>2, <1>8 DEF GiveUp
<1>9. CASE GiveBack(r)
    <2>1. /\ life' = RemoveConsumer(life) /\ first' = [first EXCEPT ![r] = FALSE]
          /\ at[r] = "giveback" /\ at'[r] = "done" /\ UNCHANGED <<cooldown, sleepers>>
        BY <1>0, <1>9 DEF GiveBack
    <2>2. first[r] /\ ~first'[r]
        BY <1>0, <2>1 DEF Working
    <2>3. Owners' = Owners
        BY <1>0, <1>1, <2>1, <2>2 DEF Owners
    <2>4. Counted' = Counted \ {r} /\ r \in Counted
        BY <1>0, <1>1, <2>1, <2>2 DEF Counted
    <2>5. Cardinality(Counted') = Cardinality(Counted) - 1 /\ Cardinality(Counted) # 0
        BY <2>4, Countable, FS_RemoveElement, FS_EmptySet
    <2>6. life.consumers > Phantom(life.mode)
        BY <1>0, <2>5, Countable DEF StreamCounts, Phantom
    <2>7. CountFits(life') /\ life'.mode = "Lazy" /\ life'.consumers = life.consumers - 1
        BY <1>0, <2>1, <2>6, ConsumerRemoved DEF StreamCounts
    <2>8. QED
        BY <1>0, <2>1, <2>3, <2>5, <2>7, Countable DEF CooldownOwned, StreamCounts
<1>10. CASE Answer(r) /\ first[r]
    <2>1. /\ sleepers' = sleepers + 1 /\ first' = [first EXCEPT ![r] = FALSE]
          /\ at[r] = "made" /\ at'[r] = "done" /\ UNCHANGED <<cooldown, life>>
        BY <1>0, <1>10 DEF Answer
    <2>2. ~first'[r]
        BY <1>0, <2>1
    <2>3. Owners' = Owners \ {r} /\ r \in Owners /\ Counted' = Counted \ {r} /\ r \in Counted
        BY <1>0, <1>1, <1>10, <2>1, <2>2 DEF Owners, Counted
    <2>4. /\ Cardinality(Owners') = Cardinality(Owners) - 1
          /\ Cardinality(Counted') = Cardinality(Counted) - 1
        BY <2>3, Countable, FS_RemoveElement
    <2>5. /\ Cardinality(Owners') + sleepers' = Cardinality(Owners) + sleepers
          /\ Cardinality(Counted') + sleepers' = Cardinality(Counted) + sleepers
        BY <1>0, <2>1, <2>4, Countable
    <2>6. QED
        BY <2>1, <2>5 DEF CooldownOwned, StreamCounts
<1>11. CASE Answer(r) /\ ~first[r]
    <2>1. UNCHANGED <<life, cooldown, sleepers, first>>
        BY <1>0, <1>11 DEF Answer
    <2>2. QED
        BY <1>2, <1>11, <2>1
<1>12. QED
    BY <1>3, <1>4, <1>5, <1>6, <1>7, <1>8, <1>9, <1>10, <1>11 DEF Outside

\* The cooldown's end gives the consumer back, and what the watcher reports adds none.
LEMMA ElsewhereCounts ==
    ASSUME TypeOK, CooldownOwned, StreamCounts, Elsewhere
    PROVE  CooldownOwned' /\ StreamCounts'
<1>0. /\ sleepers \in Nat /\ life \in LifecycleStates
    BY DEF TypeOK
<1> USE DEF coolState, streamState, vars, sinkVars
<1>1. UNCHANGED <<at, first>>
    BY DEF Elsewhere, CooldownAges, CooldownOver, PipelineDies, WatcherWakes, WatcherNotices,
           WatcherParks, WriterAsks, WriterEnters, WriterLeaves
<1>2. Owners' = Owners /\ Counted' = Counted
    BY <1>1 DEF Owners, Counted
<1>3. CASE CooldownAges
    BY <1>2, <1>3 DEF CooldownAges, CooldownOwned, StreamCounts
<1>4. CASE CooldownOver
    <2>1. /\ sleepers > 0 /\ sleepers' = sleepers - 1 /\ cooldown' = "none"
          /\ life' = IF cooldown = "old" THEN RemoveConsumer(life) ELSE life
          /\ cooldown # "recent" /\ cooldown \in {"none", "recent", "old"}
        BY <1>4 DEF CooldownOver, TypeOK
    <2>2. cooldown = "old" /\ Cardinality(Owners) + sleepers = 1
        BY <1>0, <2>1, Countable DEF CooldownOwned
    <2>3. life.consumers > Phantom(life.mode)
        BY <1>0, <2>1, Countable DEF StreamCounts, Phantom
    <2>4. CountFits(life') /\ life'.mode = "Lazy" /\ life'.consumers = life.consumers - 1
        BY <1>0, <2>1, <2>2, <2>3, ConsumerRemoved DEF StreamCounts
    <2>5. QED
        BY <1>0, <1>2, <2>1, <2>2, <2>4, Countable DEF CooldownOwned, StreamCounts
<1>5. CASE WatcherWakes \/ WatcherNotices
    <2>1. UNCHANGED <<cooldown, sleepers>>
        BY <1>5 DEF WatcherWakes, WatcherNotices
    <2>2. life'.consumers = life.consumers /\ life'.mode = life.mode /\ CountFits(life')
        <3>1. /\ PipelineReady(life) \in LifecycleStates /\ CountFits(PipelineReady(life))
              /\ PipelineReady(life).consumers = life.consumers /\ PipelineReady(life).mode = life.mode
            BY <1>0, OperationsTyped, ReportsCountNobody DEF StreamCounts
        <3>2. life' \in {PipelineReady(life), PipelineError(life), DrainExpired(life),
                         ResetErrorBackoff(PipelineReady(life))}
            BY <1>5 DEF WatcherWakes, WatcherNotices
        <3>3. CASE life' = ResetErrorBackoff(PipelineReady(life))
            <4>1. /\ life'.consumers = PipelineReady(life).consumers
                  /\ life'.mode = PipelineReady(life).mode /\ CountFits(life')
                BY <3>1, <3>3, ReportsCountNobody
            <4>2. QED
                BY <3>1, <4>1
        <3>4. CASE life' \in {PipelineReady(life), PipelineError(life), DrainExpired(life)}
            BY <1>0, <3>4, ReportsCountNobody DEF StreamCounts
        <3>5. QED
            BY <3>2, <3>3, <3>4
    <2>3. QED
        BY <1>2, <2>1, <2>2 DEF CooldownOwned, StreamCounts
<1>6. CASE UNCHANGED <<life, cooldown, sleepers>>
    BY <1>2, <1>6, CountsKept
<1>7. QED
    BY <1>3, <1>4, <1>5, <1>6
    DEF Elsewhere, PipelineDies, WatcherParks, WriterAsks, WriterEnters, WriterLeaves

LEMMA StepCounts ==
    TypeOK /\ Working /\ CooldownOwned /\ StreamCounts /\ [Next]_vars => CooldownOwned' /\ StreamCounts'
<1> SUFFICES ASSUME TypeOK, Working, CooldownOwned, StreamCounts, [Next]_vars
             PROVE  CooldownOwned' /\ StreamCounts'
    OBVIOUS
<1>1. ASSUME NEW r \in Requests, SinkStep(r), Rest PROVE CooldownOwned' /\ StreamCounts'
    <2>1. UNCHANGED <<life, cooldown, sleepers, first>>
        BY <1>1 DEF Rest, streamState, coolState
    <2>2. /\ \A q \in Requests \ {r} : at'[q] = at[q]
          /\ at[r] \notin {"add", "giveback"} /\ at'[r] \notin {"add", "giveback"}
        BY <1>1, SinkEffects DEF SinkLabels
    <2>3. Owners' = Owners /\ Counted' = Counted
        BY <2>1, <2>2 DEF Owners, Counted
    <2>4. QED
        BY <2>1, <2>3, CountsKept
<1>2. CASE UNCHANGED <<at, life, cooldown, sleepers, first>>
    BY <1>2, CountsKept DEF Owners, Counted
<1>3. CASE (Encode \/ Deliver \/ RawFrameAges \/ \E s \in Settings : JpegAges(s)) /\ Rest
    BY <1>2, <1>3 DEF Encode, Deliver, RawFrameAges, JpegAges, Rest, streamState, coolState
<1>4. CASE WatcherDrops
    BY <1>2, <1>4 DEF WatcherDrops, coolState
<1>5. QED
    BY <1>1, <1>3, <1>4, OutsideCounts, ElsewhereCounts, NextIs

-----------------------------------------------------------------------------
(* The pictures *)

\* What the invariants of the encoder speak of.
encoderState == <<encLock, config, held, encoder, inbox, tangled, overlapped>>

LEMMA StepEncoderHeld == TypeOK /\ Working /\ EncoderHeld /\ [Next]_vars => EncoderHeld'
<1> SUFFICES ASSUME TypeOK, Working, EncoderHeld, [Next]_vars PROVE EncoderHeld'
    OBVIOUS
<1> USE DEF EncoderHeld
<1>1. ASSUME NEW r \in Requests, SinkStep(r) PROVE EncoderHeld'
    <2>0. at \in [Requests -> Labels] /\ want' = want /\ \A q \in Requests \ {r} : at'[q] = at[q]
        BY <1>1, SinkEffects DEF TypeOK, Labels
    <2> USE DEF Goto, Make, sinkState
    <2>1. ASSUME UNCHANGED <<encLock, config, held>> \/ (UNCHANGED <<encLock, config>> /\ held' \in {held, "older"}),
                 at'[r] \notin {"configure", "push", "encoding"}
          PROVE  EncoderHeld'
        BY <2>0, <2>1
    <2>2. CASE QuickCheck(r) \/ CheckFreshness(r) \/ LockCapture(r)
        BY <2>0, <2>1, <2>2 DEF QuickCheck, CheckFreshness, LockCapture
    <2>3. CASE FrameArrives(r)
        BY <2>0, <2>1, <2>3 DEF FrameArrives
    <2>4. CASE FinishCapture(r) \/ CaptureFails(r)
        BY <2>0, <2>1, <2>4 DEF FinishCapture, CaptureFails
    <2>5. CASE LockEncoder(r)
        <3>1. UNCHANGED <<config, held>> /\ encLock = None
            BY <2>5 DEF LockEncoder
        <3>2. \A q \in Requests : at[q] \notin {"configure", "push", "encoding"}
            BY <3>1, NobodyIsNone
        <3>3. (at'[r] = "made") \/ (encLock' = r /\ at'[r] = "configure")
            BY <2>0, <2>5 DEF LockEncoder
        <3>4. QED
            BY <2>0, <3>2, <3>3
    <2>6. CASE Configure(r) \/ Push(r)
        <3>1. encLock = r /\ encLock' = encLock
            BY <2>6 DEF Configure, Push
        <3>2. \A q \in Requests \ {r} : at[q] \notin {"configure", "push", "encoding"}
            BY <3>1
        <3>3. held' # "none" /\ config' = want[r]
            BY <2>6 DEF Configure, Push
        <3>4. QED
            BY <2>0, <3>1, <3>2, <3>3
    <2>7. CASE TakeJpeg(r) \/ EncodeFails(r)
        <3>1. encLock = r /\ at'[r] = "made"
            BY <2>0, <2>7 DEF TakeJpeg, EncodeFails
        <3>2. \A q \in Requests : at'[q] \notin {"configure", "push", "encoding"}
            BY <2>0, <3>1
        <3>3. QED
            BY <3>2
    <2>8. QED
        BY <1>1, <2>2, <2>3, <2>4, <2>5, <2>6, <2>7 DEF SinkStep
<1>2. ASSUME NEW r \in Requests, Outside(r) PROVE EncoderHeld'
    BY <1>2, OutsideEffects DEF SinkLabels, sinkState
<1>3. CASE UNCHANGED <<at, want, encLock, config, held>>
    BY <1>3
<1>4. CASE Encode \/ Deliver \/ RawFrameAges \/ \E s \in Settings : JpegAges(s)
    BY <1>3, <1>4 DEF Encode, Deliver, RawFrameAges, JpegAges
<1>5. CASE WatcherDrops
    <2>1. \A r \in Requests : at'[r] \notin SinkLabels
        BY <1>5 DEF WatcherDrops, Making
    <2>2. QED
        BY <2>1 DEF SinkLabels
<1>6. CASE Elsewhere
    BY <1>3, <1>6, ElsewhereEffects DEF sinkState
<1>7. QED
    BY <1>1, <1>2, <1>4, <1>5, <1>6, NextIs

\* The encoder works for one request at a time.
LEMMA OneHolder ==
    ASSUME EncoderHeld, NEW r \in Requests, NEW q \in Requests,
           at[r] \in {"configure", "push", "encoding"}, at[q] \in {"configure", "push", "encoding"}
    PROVE  q = r
BY DEF EncoderHeld

\* Both invariants of what is in the encoder, ...
EncodesRight == EncodesAsAsked /\ EncodesLastFrame

LEMMA SinkEncodes ==
    ASSUME TypeOK, Working, EncoderHeld, EncodesRight, NEW r \in Requests, SinkStep(r)
    PROVE  EncodesRight'
<1>0. /\ at \in [Requests -> Labels] /\ want' = want /\ \A q \in Requests \ {r} : at'[q] = at[q]
      /\ encoder \in Seq(Pushed) /\ inbox \in Jpegs \union {NoJpeg, Lagged}
    BY SinkEffects DEF TypeOK, SinkTypeOK, Labels
<1> USE DEF Goto, Make, sinkState
<1>1. ASSUME UNCHANGED encoderState, at'[r] \notin {"push", "encoding"} PROVE EncodesRight'
    BY <1>0, <1>1 DEF EncodesRight, EncodesAsAsked, EncodesLastFrame, encoderState
<1>2. ASSUME \A q \in Requests : at'[q] \notin {"push", "encoding"} PROVE EncodesRight'
    BY <1>2 DEF EncodesRight, EncodesAsAsked, EncodesLastFrame
<1>3. CASE QuickCheck(r) \/ CheckFreshness(r) \/ LockCapture(r)
    BY <1>0, <1>1, <1>3 DEF QuickCheck, CheckFreshness, LockCapture, encoderState
<1>4. CASE FinishCapture(r) \/ CaptureFails(r)
    BY <1>0, <1>1, <1>4 DEF FinishCapture, CaptureFails, encoderState
<1>5. CASE FrameArrives(r)
    <2>1. /\ inbox' = Age(inbox) /\ encoder' = [i \in DOMAIN encoder |-> Age(encoder[i])]
          /\ overlapped' = (overlapped \/ encLock # None) /\ tangled' = tangled
          /\ at'[r] = "captured"
        BY <1>0, <1>5 DEF FrameArrives
    <2>2. /\ Len(encoder') = Len(encoder) /\ (encoder = <<>> <=> encoder' = <<>>)
          /\ encoder # <<>> => Head(encoder') = Age(Head(encoder)) /\ Head(encoder) \in Pushed
        <3>1. encoder \in [1..Len(encoder) -> Pushed] /\ Len(encoder) \in Nat
            BY <1>0, LenProperties
        <3>2. encoder' \in [1..Len(encoder) -> Pushed]
            BY <2>1, <3>1, AgeIs
        <3>3. encoder' \in Seq(Pushed) /\ Len(encoder') = Len(encoder)
            BY <3>1, <3>2
        <3>4. encoder = <<>> <=> encoder' = <<>>
            BY <1>0, <3>3, EmptySeq
        <3>5. CASE encoder # <<>>
            <4>1. /\ Head(encoder) = encoder[1] /\ Head(encoder') = encoder'[1] /\ 1 \in 1..Len(encoder)
                  /\ Head(encoder) \in Pushed
                BY <1>0, <3>3, <3>4, <3>5, HeadAndTail
            <4>2. encoder'[1] = Age(encoder[1])
                BY <2>1, <3>1, <4>1
            <4>3. QED
                BY <3>3, <3>4, <4>1, <4>2
        <3>6. QED
            BY <3>3, <3>4, <3>5
    <2>3. EncodesAsAsked'
        <3> SUFFICES ASSUME ~tangled, NEW q \in Requests, at[q] = "encoding"
                     PROVE  /\ encoder' = <<>> \/ (Len(encoder') = 1 /\ inbox' = NoJpeg)
                            /\ encoder' # <<>> => Head(encoder').as \in {None, want[q]}
                            /\ inbox' = NoJpeg \/ inbox'.as = want[q]
            BY <1>0, <2>1 DEF EncodesAsAsked
        <3>1. /\ encoder = <<>> \/ (Len(encoder) = 1 /\ inbox = NoJpeg)
              /\ encoder # <<>> => Head(encoder).as \in {None, want[q]}
              /\ inbox = NoJpeg \/ inbox.as = want[q]
            BY DEF EncodesRight, EncodesAsAsked
        <3>2. inbox' = NoJpeg \/ inbox'.as = want[q]
            BY <1>0, <2>1, <3>1, AgeIs
        <3>3. encoder' # <<>> => Head(encoder').as \in {None, want[q]}
            BY <2>2, <3>1, AgeIs
        <3>4. QED
            BY <2>1, <2>2, <3>1, <3>2, <3>3, AgeIs
    <2>4. EncodesLastFrame'
        <3>1. ~overlapped' => \A q \in Requests : at[q] \notin {"push", "encoding"}
            BY <2>1, NobodyIsNone DEF EncoderHeld
        <3>2. QED
            BY <1>0, <2>1, <3>1 DEF EncodesLastFrame
    <2>5. QED
        BY <2>3, <2>4 DEF EncodesRight
<1>6. CASE LockEncoder(r)
    <2>1. encLock = None /\ at'[r] \notin {"push", "encoding"}
        BY <1>0, <1>6 DEF LockEncoder
    <2>2. \A q \in Requests : at[q] \notin {"push", "encoding"}
        BY <2>1, NobodyIsNone DEF EncoderHeld
    <2>3. QED
        BY <1>0, <1>2, <2>1, <2>2
<1>7. CASE Configure(r)
    <2>1. held' = "last" /\ at[r] = "configure" /\ at'[r] = "push"
        BY <1>0, <1>7 DEF Configure
    <2>2. \A q \in Requests \ {r} : at'[q] \notin {"push", "encoding"}
        BY <1>0, <2>1, OneHolder
    <2>3. QED
        BY <2>1, <2>2 DEF EncodesRight, EncodesAsAsked, EncodesLastFrame
<1>8. CASE Push(r)
    <2>1. /\ at[r] = "push" /\ at'[r] = "encoding" /\ inbox' = NoJpeg
          /\ encoder' = Append(encoder, [shot |-> held, as |-> None])
          /\ tangled' = (tangled \/ encoder # <<>>) /\ overlapped' = overlapped
        BY <1>0, <1>8 DEF Push
    <2>2. \A q \in Requests \ {r} : at'[q] \notin {"push", "encoding"}
        BY <1>0, <2>1, OneHolder
    <2>3. CASE tangled'
        BY <2>3 DEF EncodesRight, EncodesAsAsked, EncodesLastFrame
    <2>4. CASE ~tangled'
        <3>1. encoder = <<>> /\ ~tangled
            BY <2>1, <2>4
        <3>2. encoder' = <<[shot |-> held, as |-> None]>>
            BY <2>1, <3>1
        <3>3. Head(encoder') = [shot |-> held, as |-> None] /\ Len(encoder') = 1 /\ encoder' # <<>>
            BY <3>2
        <3>4. EncodesAsAsked'
            BY <2>1, <2>2, <3>3 DEF EncodesAsAsked
        <3>5. ~overlapped => held = "last"
            BY <2>1, <3>1 DEF EncodesRight, EncodesLastFrame
        <3>6. EncodesLastFrame'
            BY <2>1, <2>2, <3>3, <3>5, AgeIs DEF EncodesLastFrame
        <3>7. QED
            BY <3>4, <3>6 DEF EncodesRight
    <2>5. QED
        BY <2>3, <2>4
<1>9. CASE TakeJpeg(r) \/ EncodeFails(r)
    <2>1. at[r] = "encoding" /\ at'[r] = "made"
        BY <1>0, <1>9 DEF TakeJpeg, EncodeFails
    <2>2. \A q \in Requests \ {r} : at'[q] \notin {"push", "encoding"}
        BY <1>0, <2>1, OneHolder
    <2>3. QED
        BY <1>2, <2>1, <2>2
<1>10. QED
    BY <1>3, <1>4, <1>5, <1>6, <1>7, <1>8, <1>9 DEF SinkStep

\* ... also while it encodes and delivers.
LEMMA EncoderEncodes ==
    ASSUME TypeOK, EncoderHeld, EncodesRight, Encode \/ Deliver
    PROVE  EncodesRight'
<1>0. encoder \in Seq(Pushed) /\ config \in Settings \union {None}
    BY DEF TypeOK, SinkTypeOK
<1>1. UNCHANGED <<at, want, held, tangled, overlapped, config>>
    BY DEF Encode, Deliver
<1>2. CASE ~\E r \in Requests : at[r] = "encoding"
    BY <1>1, <1>2 DEF EncodesRight, EncodesAsAsked, EncodesLastFrame
<1>3. CASE tangled
    BY <1>1, <1>3 DEF EncodesRight, EncodesAsAsked, EncodesLastFrame
<1>4. ASSUME NEW r \in Requests, at[r] = "encoding", ~tangled PROVE EncodesRight'
    <2>1. /\ encoder = <<>> \/ (Len(encoder) = 1 /\ inbox = NoJpeg)
          /\ encoder # <<>> => Head(encoder).as \in {None, want[r]}
          /\ inbox = NoJpeg \/ inbox.as = want[r]
          /\ ~overlapped => (encoder # <<>> => Head(encoder).shot = "last") /\ inbox.shot # "older"
          /\ config = want[r]
        BY <1>4 DEF EncodesRight, EncodesAsAsked, EncodesLastFrame, EncoderHeld
    <2>2. \A q \in Requests : at[q] \in {"push", "encoding"} => q = r
        BY <1>4, OneHolder
    <2>3. CASE Encode
        <3>1. PICK i \in DOMAIN encoder : encoder' = [encoder EXCEPT ![i].as = config]
            BY <2>3 DEF Encode
        <3>2. encoder # <<>> /\ DOMAIN encoder = 1..Len(encoder)
            BY <1>0, <3>1, LenProperties
        <3>3. i = 1 /\ Len(encoder) = 1
            BY <2>1, <3>1, <3>2
        <3>4. /\ encoder' \in Seq(Pushed) /\ Len(encoder') = 1
              /\ encoder'[1].as = config /\ encoder'[1].shot = encoder[1].shot
            <4> DEFINE e == EncodedAt(encoder, i, config)
            <4>1. e \in Seq(Pushed) /\ Len(e) = Len(encoder) /\ e[i].as = config /\ e[i].shot = encoder[i].shot
                BY <1>0, <3>1, Encoded
            <4>2. encoder' = e
                BY <3>1 DEF EncodedAt
            <4> HIDE DEF e
            <4>3. QED
                BY <3>3, <4>1, <4>2
        <3>5. encoder' # <<>> /\ Head(encoder') = encoder'[1] /\ Head(encoder) = encoder[1]
            <4>1. encoder' # <<>>
                BY <3>4, OneIsSome
            <4>2. QED
                BY <1>0, <3>2, <3>4, <4>1
        <3>6. inbox' = inbox
            BY <2>3 DEF Encode
        <3>7. /\ Len(encoder') = 1 /\ inbox' = NoJpeg /\ Head(encoder').as = want[r]
              /\ ~overlapped => Head(encoder').shot = "last" /\ inbox'.shot # "older"
            BY <2>1, <3>2, <3>4, <3>5, <3>6
        <3>8. QED
            BY <1>1, <1>4, <2>2, <3>7 DEF EncodesRight, EncodesAsAsked, EncodesLastFrame
    <2>4. CASE Deliver
        <3>1. /\ encoder # <<>> /\ Head(encoder).as # None /\ encoder' = Tail(encoder)
            BY <2>4 DEF Deliver
        <3>2. inbox = NoJpeg /\ Listening
            BY <1>4, <2>1, <3>1 DEF Listening
        <3>3. inbox' = Head(encoder) /\ encoder' = <<>>
            BY <1>0, <2>1, <2>4, <3>1, <3>2, HeadAndTail DEF Deliver
        <3>4. inbox'.as = want[r] /\ (~overlapped => inbox'.shot # "older")
            BY <2>1, <3>1, <3>3
        <3>5. QED
            BY <1>1, <1>4, <2>2, <3>3, <3>4 DEF EncodesRight, EncodesAsAsked, EncodesLastFrame
    <2>5. QED
        BY <2>3, <2>4
<1>5. QED
    BY <1>2, <1>3, <1>4

LEMMA StepEncodes ==
    TypeOK /\ Working /\ EncoderHeld /\ EncodesRight /\ [Next]_vars => EncodesRight'
<1> SUFFICES ASSUME TypeOK, Working, EncoderHeld, EncodesRight, [Next]_vars PROVE EncodesRight'
    OBVIOUS
<1>1. ASSUME NEW r \in Requests, Outside(r) PROVE EncodesRight'
    <2>1. /\ UNCHANGED encoderState
          /\ at'[r] \notin {"push", "encoding"}
          /\ \A q \in Requests \ {r} : at'[q] = at[q] /\ want'[q] = want[q]
        BY <1>1, OutsideEffects DEF SinkLabels, sinkState, encoderState
    <2>2. QED
        BY <2>1 DEF EncodesRight, EncodesAsAsked, EncodesLastFrame, encoderState
<1>2. CASE UNCHANGED <<at, want, encoderState>>
    BY <1>2 DEF EncodesRight, EncodesAsAsked, EncodesLastFrame, encoderState
<1>3. CASE RawFrameAges \/ (\E s \in Settings : JpegAges(s)) \/ Elsewhere
    BY <1>2, <1>3, ElsewhereEffects DEF RawFrameAges, JpegAges, encoderState, sinkState
<1>4. CASE WatcherDrops
    <2>1. \A r \in Requests : at'[r] \notin SinkLabels
        BY <1>4 DEF WatcherDrops, Making
    <2>2. QED
        BY <2>1 DEF SinkLabels, EncodesRight, EncodesAsAsked, EncodesLastFrame
<1>5. QED
    BY <1>1, <1>3, <1>4, SinkEncodes, EncoderEncodes, NextIs

\* A picture is given away, or kept, only as one that was made as asked.
LEMMA StepJpegs ==
    TypeOK /\ Working /\ EncoderHeld /\ EncodesRight /\ JpegAsAsked /\ [Next]_vars => JpegAsAsked'
<1> SUFFICES ASSUME TypeOK, Working, EncoderHeld, EncodesRight, JpegAsAsked, [Next]_vars
             PROVE  JpegAsAsked'
    OBVIOUS
<1>0. /\ got \in [Requests -> Jpegs \union {NoJpeg}] /\ cache \in [Settings -> Jpegs \union {NoJpeg}]
      /\ at \in [Requests -> Labels]
    BY DEF TypeOK, SinkTypeOK, Labels
<1> USE DEF JpegAsAsked
<1>1. CASE UNCHANGED <<want, got, cache, tangled>>
    BY <1>1
<1>2. ASSUME NEW r \in Requests, SinkStep(r) PROVE JpegAsAsked'
    <2>0. want' = want /\ want[r] \in Settings
        BY <1>2, SinkEffects DEF Working, SinkLabels
    <2> USE DEF Goto, Make, sinkState
    <2>1. CASE CheckFreshness(r) \/ LockCapture(r) \/ Configure(r)
        BY <1>1, <2>0, <2>1 DEF CheckFreshness, LockCapture, Configure
    <2>2. CASE QuickCheck(r) \/ LockEncoder(r)
        <3>1. /\ cache' = cache /\ tangled' = tangled
              /\ got' = got \/ (cache[want[r]] # NoJpeg /\ got' = [got EXCEPT ![r] = cache[want[r]]])
            BY <2>2 DEF QuickCheck, LockEncoder
        <3>2. QED
            BY <1>0, <2>0, <3>1
    <2>3. CASE FrameArrives(r)
        <3>1. /\ got' = [q \in Requests |-> Age(got[q])] /\ cache' = [s \in Settings |-> Age(cache[s])]
              /\ tangled' = tangled
            BY <2>3 DEF FrameArrives
        <3>2. /\ \A q \in Requests : got'[q] # NoJpeg => got[q] # NoJpeg /\ got'[q].as = got[q].as
              /\ \A s \in Settings : cache'[s] # NoJpeg => cache[s] # NoJpeg /\ cache'[s].as = cache[s].as
            BY <1>0, <3>1, AgeIs
        <3>3. QED
            BY <2>0, <3>1, <3>2
    <2>4. CASE FinishCapture(r)
        BY <2>0, <2>4 DEF FinishCapture
    <2>5. CASE CaptureFails(r) \/ EncodeFails(r)
        <3>1. /\ cache' = cache /\ tangled' = tangled /\ got' = [got EXCEPT ![r] = NoJpeg]
            BY <2>5 DEF CaptureFails, EncodeFails
        <3>2. QED
            BY <1>0, <2>0, <3>1
    <2>6. CASE Push(r)
        BY <2>0, <2>6 DEF Push
    <2>7. CASE TakeJpeg(r)
        <3>1. /\ cache' = [cache EXCEPT ![want[r]] = inbox] /\ got' = [got EXCEPT ![r] = inbox]
              /\ tangled' = tangled /\ inbox \in Jpegs /\ at[r] = "encoding"
            BY <2>7 DEF TakeJpeg
        <3>2. ~tangled => inbox.as = want[r]
            BY <3>1, AgeIs DEF EncodesRight, EncodesAsAsked
        <3>3. QED
            BY <1>0, <2>0, <3>1, <3>2
    <2>8. QED
        BY <1>2, <2>1, <2>2, <2>3, <2>4, <2>5, <2>6, <2>7 DEF SinkStep
<1>3. ASSUME NEW r \in Requests, Outside(r) PROVE JpegAsAsked'
    BY <1>3, OutsideEffects DEF sinkState
<1>4. CASE Encode \/ Deliver \/ RawFrameAges \/ Elsewhere
    BY <1>1, <1>4, ElsewhereEffects DEF Encode, Deliver, RawFrameAges, sinkState
<1>5. ASSUME NEW s \in Settings, JpegAges(s) PROVE JpegAsAsked'
    BY <1>0, <1>5 DEF JpegAges
<1>6. CASE WatcherDrops
    <2>1. \A r \in Requests : at[r] # "made"
        BY <1>6 DEF WatcherDrops, Making, SinkLabels
    <2>2. \A r \in Requests : got'[r] = NoJpeg
        BY <1>6, <2>1 DEF WatcherDrops, Working
    <2>3. \A s \in Settings : cache'[s] = NoJpeg
        BY <1>6 DEF WatcherDrops
    <2>4. QED
        BY <2>2, <2>3
<1>7. QED
    BY <1>2, <1>3, <1>4, <1>5, <1>6, NextIs

\* A capture that is over has cleared the cache.
LEMMA StepCache ==
    TypeOK /\ Working /\ EncoderHeld /\ EncodesRight /\ CacheShowsLastFrame /\ [Next]_vars
        => CacheShowsLastFrame'
<1> SUFFICES ASSUME TypeOK, Working, EncoderHeld, EncodesRight, CacheShowsLastFrame, [Next]_vars
             PROVE  CacheShowsLastFrame'
    OBVIOUS
<1>0. cache \in [Settings -> Jpegs \union {NoJpeg}] /\ at \in [Requests -> Labels]
    BY DEF TypeOK, SinkTypeOK, Labels
<1> USE DEF CacheShowsLastFrame
<1>1. CASE UNCHANGED <<at, cache, tangled, overlapped>>
    BY <1>1
<1>2. ASSUME NEW r \in Requests, SinkStep(r) PROVE CacheShowsLastFrame'
    <2>0. \A q \in Requests \ {r} : at'[q] = at[q]
        BY <1>2, SinkEffects
    <2> USE DEF Goto, Make, sinkState
    <2>1. ASSUME UNCHANGED cache, at[r] # "captured", tangled => tangled', overlapped' = overlapped
          PROVE  CacheShowsLastFrame'
        BY <2>0, <2>1
    <2>2. CASE QuickCheck(r) \/ CheckFreshness(r) \/ LockCapture(r) \/ CaptureFails(r)
        BY <2>1, <2>2 DEF QuickCheck, CheckFreshness, LockCapture, CaptureFails
    <2>3. CASE LockEncoder(r) \/ Configure(r) \/ Push(r) \/ EncodeFails(r)
        BY <2>1, <2>3 DEF LockEncoder, Configure, Push, EncodeFails
    <2>4. CASE FrameArrives(r)
        BY <1>0, <2>4 DEF FrameArrives
    <2>5. CASE FinishCapture(r)
        BY <2>5, AgeIs DEF FinishCapture
    <2>6. CASE TakeJpeg(r)
        <3>1. /\ cache' = [cache EXCEPT ![want[r]] = inbox] /\ UNCHANGED <<tangled, overlapped>>
              /\ inbox \in Jpegs /\ at[r] = "encoding"
            BY <2>6 DEF TakeJpeg
        <3>2. ~tangled /\ ~overlapped => inbox.shot # "older"
            BY <3>1 DEF EncodesRight, EncodesLastFrame
        <3>3. QED
            BY <1>0, <2>0, <3>1, <3>2
    <2>7. QED
        BY <1>2, <2>2, <2>3, <2>4, <2>5, <2>6 DEF SinkStep
<1>3. ASSUME NEW r \in Requests, Outside(r) PROVE CacheShowsLastFrame'
    <2>1. /\ UNCHANGED <<cache, tangled, overlapped>> /\ at[r] # "captured"
          /\ \A q \in Requests \ {r} : at'[q] = at[q]
        BY <1>3, OutsideEffects DEF SinkLabels, sinkState
    <2>2. QED
        BY <2>1
<1>4. CASE Encode \/ Deliver \/ RawFrameAges \/ Elsewhere
    BY <1>1, <1>4, ElsewhereEffects DEF Encode, Deliver, RawFrameAges, sinkState
<1>5. ASSUME NEW s \in Settings, JpegAges(s) PROVE CacheShowsLastFrame'
    BY <1>0, <1>5, AgeIs DEF JpegAges
<1>6. CASE WatcherDrops
    BY <1>6, AgeIs DEF WatcherDrops
<1>7. QED
    BY <1>2, <1>3, <1>4, <1>5, <1>6, NextIs

-----------------------------------------------------------------------------
(* The theorems *)

LEMMA IInvAlways == Spec => []IInv
<1>1. Init => IInv
    BY InitIInv
<1>2. IInv /\ [Next]_vars => IInv'
    BY StepTyped, StepWorking, StepCounts, StepEncoderHeld, StepEncodes, StepJpegs, StepCache
    DEF IInv, EncodesRight
<1>3. QED
    BY <1>1, <1>2, PTL DEF Spec

\* However requests time out and the cooldown's threads wake, one of them will clear the
\* cooldown while it is set, and the stream has the consumers of those that are under way.
THEOREM ConsumersInvAlways == Spec => []ConsumersInv
<1>1. IInv => ConsumersInv
    <2> SUFFICES ASSUME TypeOK, CooldownOwned, StreamCounts PROVE ThumbnailConsumers
        BY DEF IInv, ConsumersInv
    <2>1. life.consumers = Holders
        BY DEF StreamCounts, Holders, Counted
    <2>2. life.phase \in {"Idle", "Draining"} => life.consumers = 0
        BY DEF StreamCounts, CountFits
    <2>3. QED
        BY <2>1, <2>2 DEF ThumbnailConsumers
<1>2. QED
    BY <1>1, IInvAlways, PTL

\* make_jpeg_thumbnail_from_last_frame answers with the settings that were asked for and
\* with the frame that was captured last, except behind a request that gave up.
THEOREM PicturesInvAlways == Spec => []PicturesInv
<1>1. IInv => PicturesInv
    BY DEF IInv, PicturesInv
<1>2. QED
    BY <1>1, IInvAlways, PTL
=============================================================================
