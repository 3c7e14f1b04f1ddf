------------------------------ MODULE ImageSink ------------------------------
(***************************************************************************)
(* ImageSink::make_jpeg_thumbnail_from_last_frame                          *)
(* (src/lib/stream/sink/image_sink.rs): threads that want a JPEG of a      *)
(* stream with some settings share one raw frame, one encoder pipeline and *)
(* a cache of one JPEG per settings.                                       *)
(*                                                                         *)
(* A frame is either the last one captured or an older one.  A frame or a  *)
(* JPEG is fresh until a second has passed: RawFrameAges and JpegAges, at  *)
(* any time.  Both timeouts are choices: a wait may always end that way.   *)
(***************************************************************************)
EXTENDS Naturals, Sequences, FiniteSets

CONSTANTS
  Requests,     \* threads that make thumbnails: 1..N
  Settings,     \* ThumbnailSettings that are asked for
  MaxPending    \* bound: frames in the encoder pipeline

ASSUME ImageSinkAssumption ==
  /\ IsFiniteSet(Requests) /\ Requests = 1..Cardinality(Requests)
  /\ IsFiniteSet(Settings) /\ 0 \notin Settings
  /\ MaxPending \in Nat \ {0}

None == 0

VARIABLES
  at,        \* where every request is
  want,      \* the settings it asks for
  got,       \* what it has been given: a JPEG or NoJpeg
  rawLock,   \* raw_capture_mutex: its holder, or None
  rawFresh,  \* last_capture_instant is less than a second ago
  encLock,   \* encode_mutex: its holder, or None
  config,    \* the settings jpegenc and the scaler have, None before the first
  held,      \* the frame its holder read from last-sample
  encoder,   \* frames pushed into the encoder pipeline, with the settings once encoded
  inbox,     \* the holder's broadcast receiver, which has room for one
  cache,     \* CachedThumbnails: what try_get would return
  tangled,   \* history: a frame was pushed behind one whose request had given up
  overlapped \* history: a frame was captured while one was being encoded

sinkState == <<rawLock, rawFresh, encLock, config, held, encoder, inbox, cache, tangled,
               overlapped>>
sinkVars  == <<at, want, got, sinkState>>

Frames == {"last", "older"}

NoJpeg == [shot |-> "none", as |-> None]
Jpegs  == [shot : Frames, as : Settings]
\* A frame in the encoder that has not been encoded has no settings yet.
Pushed == [shot : Frames, as : Settings \union {None}]

Lagged == [shot |-> "lagged", as |-> None]

SinkLabels == {"quick", "fresh?", "raw-lock", "capturing", "captured", "enc-lock", "configure",
               "push", "encoding", "made"}

Goto(r, label) == at' = [at EXCEPT ![r] = label]

Make(r, jpeg) == got' = [got EXCEPT ![r] = jpeg] /\ Goto(r, "made")

-----------------------------------------------------------------------------
(* Level 2, before any lock, and level 1, the raw frame *)

QuickCheck(r) ==
  /\ at[r] = "quick"
  /\ IF cache[want[r]] # NoJpeg
       THEN Make(r, cache[want[r]])
       ELSE Goto(r, "fresh?") /\ UNCHANGED got
  /\ UNCHANGED <<want, sinkState>>

CheckFreshness(r) ==
  /\ at[r] = "fresh?"
  /\ Goto(r, IF rawFresh THEN "enc-lock" ELSE "raw-lock")
  /\ UNCHANGED <<want, got, sinkState>>

\* Once it has the lock a request looks again: another may have captured meanwhile.
LockCapture(r) ==
  /\ at[r] = "raw-lock" /\ rawLock = None
  /\ IF rawFresh
       THEN Goto(r, "enc-lock") /\ UNCHANGED rawLock
       ELSE rawLock' = r /\ Goto(r, "capturing")
  /\ UNCHANGED <<want, got, rawFresh, encLock, config, held, encoder, inbox, cache, tangled,
                 overlapped>>

Age(jpeg) == IF jpeg.shot = "last" THEN [jpeg EXCEPT !.shot = "older"] ELSE jpeg

\* The appsink's callback closes the valve and tells the capturing request.
\* From here on last-sample is the new frame, and every other one is older.
FrameArrives(r) ==
  /\ at[r] = "capturing"
  /\ Goto(r, "captured")
  /\ held' = IF held = "last" THEN "older" ELSE held
  /\ encoder' = [i \in DOMAIN encoder |-> Age(encoder[i])]
  /\ inbox' = Age(inbox)
  /\ got' = [q \in Requests |-> Age(got[q])]
  /\ cache' = [s \in Settings |-> Age(cache[s])]
  /\ overlapped' = (overlapped \/ encLock # None)
  /\ UNCHANGED <<want, rawLock, rawFresh, encLock, config, tangled>>

FinishCapture_KeepsCache(r) ==
  /\ at[r] = "captured"
  /\ rawFresh' = TRUE /\ rawLock' = None
  /\ Goto(r, "enc-lock")
  /\ UNCHANGED <<want, got, encLock, config, held, encoder, inbox, cache, tangled, overlapped>>

\* The request notes the time, and the JPEGs of the frame before are dropped.
FinishCapture(r) ==
  /\ at[r] = "captured"
  /\ rawFresh' = TRUE /\ rawLock' = None
  /\ cache' = [s \in Settings |-> NoJpeg]
  /\ Goto(r, "enc-lock")
  /\ UNCHANGED <<want, got, encLock, config, held, encoder, inbox, tangled, overlapped>>

\* No frame in time, or the capture pipeline does not play.
CaptureFails(r) ==
  /\ at[r] = "capturing"
  /\ rawLock' = None
  /\ Make(r, NoJpeg)
  /\ UNCHANGED <<want, rawFresh, encLock, config, held, encoder, inbox, cache, tangled,
                 overlapped>>

-----------------------------------------------------------------------------
(* Level 2, the encoder *)

LockEncoder(r) ==
  /\ at[r] = "enc-lock" /\ encLock = None
  /\ IF cache[want[r]] # NoJpeg
       THEN Make(r, cache[want[r]]) /\ UNCHANGED encLock
       ELSE encLock' = r /\ Goto(r, "configure") /\ UNCHANGED got
  /\ UNCHANGED <<want, rawLock, rawFresh, config, held, encoder, inbox, cache, tangled,
                 overlapped>>

\* encode_raw_frame reads last-sample and sets the encoder up ...
Configure(r) ==
  /\ at[r] = "configure"
  /\ held' = "last" /\ config' = want[r]
  /\ Goto(r, "push")
  /\ UNCHANGED <<want, got, rawLock, rawFresh, encLock, encoder, inbox, cache, tangled,
                 overlapped>>

\* ... then subscribes and pushes the frame.
Push(r) ==
  /\ at[r] = "push" /\ Len(encoder) < MaxPending
  /\ inbox' = NoJpeg
  /\ encoder' = Append(encoder, [shot |-> held, as |-> None])
  /\ tangled' = (tangled \/ encoder # <<>>)
  /\ Goto(r, "encoding")
  /\ UNCHANGED <<want, got, rawLock, rawFresh, encLock, config, held, cache, overlapped>>

\* The encoder pipeline takes the frames in order, with the settings it has then.
Encode ==
  \E i \in DOMAIN encoder :
    /\ encoder[i].as = None /\ \A j \in 1..(i - 1) : encoder[j].as # None
    /\ encoder' = [encoder EXCEPT ![i].as = config]
    /\ UNCHANGED <<at, want, got, rawLock, rawFresh, encLock, config, held, inbox, cache,
                   tangled, overlapped>>

Listening == \E r \in Requests : at[r] = "encoding"

\* Its appsink's callback broadcasts the JPEG.  A receiver that has not yet taken
\* the one before has lost it, and is told so.
Deliver ==
  /\ encoder # <<>> /\ Head(encoder).as # None
  /\ encoder' = Tail(encoder)
  /\ inbox' = IF ~Listening THEN inbox
              ELSE IF inbox = NoJpeg THEN Head(encoder) ELSE Lagged
  /\ UNCHANGED <<at, want, got, rawLock, rawFresh, encLock, config, held, cache, tangled,
                 overlapped>>

EncoderStep == Encode \/ Deliver

ReleaseEncoder == encLock' = None /\ held' = "none" /\ inbox' = NoJpeg

\* The JPEG goes into the cache and to the request.
TakeJpeg(r) ==
  /\ at[r] = "encoding" /\ inbox \in Jpegs
  /\ cache' = [cache EXCEPT ![want[r]] = inbox]
  /\ Make(r, inbox)
  /\ ReleaseEncoder
  /\ UNCHANGED <<want, rawLock, rawFresh, config, encoder, tangled, overlapped>>

EncodeFails_NoTimeout(r) ==
  /\ at[r] = "encoding" /\ inbox = Lagged
  /\ Make(r, NoJpeg)
  /\ ReleaseEncoder
  /\ UNCHANGED <<want, rawLock, rawFresh, config, encoder, cache, tangled, overlapped>>

\* No JPEG in time, or one was missed: what was pushed stays in the encoder.
EncodeFails(r) ==
  /\ at[r] = "encoding"
  /\ Make(r, NoJpeg)
  /\ ReleaseEncoder
  /\ UNCHANGED <<want, rawLock, rawFresh, config, encoder, cache, tangled, overlapped>>

-----------------------------------------------------------------------------
(* A second passes *)

RawFrameAges ==
  /\ rawFresh
  /\ rawFresh' = FALSE
  /\ UNCHANGED <<at, want, got, rawLock, encLock, config, held, encoder, inbox, cache, tangled,
                 overlapped>>

JpegAges(s) ==
  /\ cache[s] # NoJpeg
  /\ cache' = [cache EXCEPT ![s] = NoJpeg]
  /\ UNCHANGED <<at, want, got, rawLock, rawFresh, encLock, config, held, encoder, inbox,
                 tangled, overlapped>>

-----------------------------------------------------------------------------
SinkInit ==
  /\ rawLock = None /\ rawFresh = FALSE /\ encLock = None
  /\ config = None /\ held = "none" /\ encoder = <<>> /\ inbox = NoJpeg
  /\ cache = [s \in Settings |-> NoJpeg]
  /\ tangled = FALSE /\ overlapped = FALSE

SinkStep(r) ==
  \/ QuickCheck(r) \/ CheckFreshness(r) \/ LockCapture(r) \/ FrameArrives(r) \/ FinishCapture(r)
  \/ CaptureFails(r) \/ LockEncoder(r) \/ Configure(r) \/ Push(r) \/ TakeJpeg(r) \/ EncodeFails(r)

SinkNext ==
  \/ \E r \in Requests : SinkStep(r)
  \/ EncoderStep
  \/ RawFrameAges
  \/ \E s \in Settings : JpegAges(s)

-----------------------------------------------------------------------------
(* Properties *)

SinkTypeOK ==
  /\ want \in [Requests -> Settings \union {None}]
  /\ got \in [Requests -> Jpegs \union {NoJpeg}]
  /\ rawLock \in Requests \union {None} /\ encLock \in Requests \union {None}
  /\ rawFresh \in BOOLEAN /\ tangled \in BOOLEAN /\ overlapped \in BOOLEAN
  /\ config \in Settings \union {None} /\ held \in Frames \union {"none"}
  /\ encoder \in Seq(Pushed) /\ Len(encoder) <= MaxPending
  /\ inbox \in Jpegs \union {NoJpeg, Lagged}
  /\ cache \in [Settings -> Jpegs \union {NoJpeg}]

\* Nobody is given a JPEG made with other settings than those asked for, from the
\* cache or from the encoder, until a frame has been pushed behind that of a
\* request that gave up: from then on broadcasts may reach the wrong request.
JpegAsAsked ==
  ~tangled =>
    /\ \A r \in Requests : got[r] # NoJpeg => got[r].as = want[r]
    /\ \A s \in Settings : cache[s] # NoJpeg => cache[s].as = s

\* Once a capture is over no cached JPEG shows an earlier frame, unless a frame was
\* captured while one was being encoded: that one's JPEG enters the cache after it
\* was cleared.
CacheShowsLastFrame ==
  ~overlapped /\ ~tangled /\ (\A r \in Requests : at[r] # "captured")
    => \A s \in Settings : cache[s].shot # "older"
=============================================================================
