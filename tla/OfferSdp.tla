-------------------------------- MODULE OfferSdp --------------------------------
(***************************************************************************)
(* customize_sent_sdp (webrtc_sink.rs): what becomes of a media section of *)
(* webrtcbin's offer before it is sent to the peer.                        *)
(*                                                                         *)
(* A media section is a list of formats (payload types) and a list of      *)
(* attributes [key, pt, value]: pt is the payload type of an rtpmap or     *)
(* fmtp, the id of an extmap, 0 otherwise; value is the encoding of an     *)
(* rtpmap, the parameters of an fmtp, the extension of an extmap.  The     *)
(* code removes from both lists by index.                                  *)
(***************************************************************************)
EXTENDS Naturals, Sequences, SequencesExt, FiniteSetsExt

\* The attribute kinds that the code looks at.
PlayoutDelayId == 13
PlayoutDelay   == [key |-> "extmap", pt |-> PlayoutDelayId, value |-> <<"playout-delay">>]

\* The encodings that the regular expression for an rtpmap matches: those of
\* four letters.
FourLetters == {"H264", "H265", "JPEG"}

Sprops == {"sprop-parameter-sets", "sprop-vps", "sprop-sps", "sprop-pps"}

\* The parameters that are pushed in place of those which are not kept.
Pushed(encoding) ==
  CASE encoding = "H264" ->
         <<"packetization-mode=1", "profile-level-id=42e0", "level-asymmetry-allowed=1">>
    [] encoding = "H265" -> <<"level-id=93">>
    [] OTHER -> <<>>

\* The indices of the elements of s that are in S, in order.
IndicesIn(s, S) == SelectSeq([i \in DOMAIN s |-> i], LAMBDA i : s[i] \in S)

-----------------------------------------------------------------------------
(* Each rtpmap with a known encoding replaces, at its index, the first fmtp  *)
(* whose text starts with its payload type.                                  *)

\* The digits of pt are the first of those of other.
StartsWith(other, pt) == pt = other \/ pt \in {other \div 10, other \div 100} \ {0}

RewriteFmtp(m) ==
  LET attrs == m.attrs
      Mapped == {j \in DOMAIN attrs :
                   attrs[j].key = "rtpmap" /\ attrs[j].value[1] \in FourLetters}
      Found(j) == {i \in DOMAIN attrs :
                     attrs[i].key = "fmtp" /\ StartsWith(attrs[i].pt, attrs[j].pt)}
      Replacing(i) == {j \in Mapped : Found(j) # {} /\ i = Min(Found(j))}
      Kept(value) == SelectSeq(value, LAMBDA v : v \in Sprops)
  IN [m EXCEPT !.attrs = [i \in DOMAIN attrs |->
        IF Replacing(i) = {} THEN attrs[i]
        ELSE [attrs[i] EXCEPT !.value =
                Kept(@) \o Pushed(attrs[Max(Replacing(i))].value[1])]]]

-----------------------------------------------------------------------------
(* Removing *)

RemoveIndices_FromTheFirst(s, is) == FoldLeft(LAMBDA t, i : RemoveAt(t, i), s, is)

\* remove_attribute and remove_format, from the last index to the first
RemoveIndices(s, is) == FoldLeft(LAMBDA t, i : RemoveAt(t, i), s, Reverse(is))

\* a=recvonly, which breaks webrtcbin when the browser answers
DropRecvonly(m) ==
  [m EXCEPT !.attrs =
     RemoveIndices(@, IndicesIn(@, {a \in ToSet(@) : a.key = "recvonly"}))]

\* strip_fec_and_red_from_media
RedAndFec(m) == {a.pt : a \in {b \in ToSet(m.attrs) :
                                 b.key = "rtpmap" /\ b.value[1] \in {"red", "ulpfec"}}}

StripRedAndFec(m) ==
  LET pts == RedAndFec(m) IN
  [m EXCEPT
     !.attrs = RemoveIndices(@, IndicesIn(@,
                 {a \in ToSet(@) : a.key \in {"rtpmap", "fmtp"} /\ a.pt \in pts})),
     !.formats = RemoveIndices(@, IndicesIn(@, pts))]

-----------------------------------------------------------------------------
(* The header extension for the playout delay *)

AddPlayoutDelay(m) ==
  LET extmaps == {a \in ToSet(m.attrs) : a.key = "extmap"} IN
  IF \E a \in extmaps : a.value = PlayoutDelay.value \/ a.pt = PlayoutDelayId
  THEN m
  ELSE [m EXCEPT !.attrs = Append(@, PlayoutDelay)]

Customize(m) == AddPlayoutDelay(StripRedAndFec(DropRecvonly(RewriteFmtp(m))))

-----------------------------------------------------------------------------
(* What a sent media section must be, said without indices. *)

\* Everything of the created section that has to stay is in the sent one, in its
\* order, and nothing else but the playout delay.
IsCleaned(created, sent) ==
  LET pts == RedAndFec(created)
      Stays(a) == a.key # "recvonly" /\ ~(a.key \in {"rtpmap", "fmtp"} /\ a.pt \in pts)
      Shape(a) == <<a.key, a.pt, IF a.key = "fmtp" THEN Sprops \cap ToSet(a.value)
                                                   ELSE ToSet(a.value)>>
      ShapesOf(attrs) == [i \in DOMAIN attrs |-> Shape(attrs[i])]
      stayed == ShapesOf(SelectSeq(created.attrs, Stays))
  IN /\ sent.formats = SelectSeq(created.formats, LAMBDA f : f \notin pts)
     /\ ShapesOf(sent.attrs) \in {stayed, Append(stayed, Shape(PlayoutDelay))}

\* The peer is offered the one profile that every browser decodes, and each
\* extension id names one extension.
IsPlayable(sent) ==
  LET Of(key) == {a \in ToSet(sent.attrs) : a.key = key} IN
  /\ \A r \in Of("rtpmap") : r.value = <<"H264">> =>
       \A f \in Of("fmtp") : f.pt = r.pt =>
         \A v \in ToSet(f.value) \ Sprops : v \in ToSet(Pushed("H264"))
  /\ \A i, j \in DOMAIN sent.attrs :
       (sent.attrs[i].key = "extmap" /\ sent.attrs[j].key = "extmap"
         /\ sent.attrs[i].pt = sent.attrs[j].pt) => i = j
================================================================================
