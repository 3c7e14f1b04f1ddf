------------------------------- MODULE WebRTCPeer -------------------------------
(***************************************************************************)
(* One WebRTC session's sink (webrtc_sink.rs), from its creation to its    *)
(* end: linked to the stream's tee (Pipeline::add_sink, sink/mod.rs),      *)
(* negotiating through webrtcbin's signals, letting data through once      *)
(* webrtcbin is connected and its send path is shaped, and reporting that  *)
(* the peer is lost or never came.                                         *)
(*                                                                         *)
(* Threads: the manager that adds and removes the sink; webrtcbin's own    *)
(* thread, which runs one callback at a time (busy); the streaming threads *)
(* of the two pipelines; the FailSafeKiller.  webrtcbin itself, what it    *)
(* offers and how its connection fares are not this program's: they are    *)
(* chosen freely.  The session's bookkeeping is in WebRTCSessions.         *)
(***************************************************************************)
EXTENDS OfferSdp, FiniteSets

CONSTANTS
  Medias,     \* media sections webrtcbin may offer
  Encoders,   \* elements of webrtcbin to excise (FEC, RED, RTX)
  MaxQueued,  \* bound: buffers in proxysrc's queue (5 s of them in the code)
  MaxOffers,  \* bound: negotiations webrtcbin asks for
  MaxLosses   \* bound: times the peer is lost

ASSUME PeerAssumption ==
  {MaxQueued, MaxOffers, MaxLosses} \subseteq Nat /\ MaxQueued > 0

VARIABLES
  stage,      \* "none", "made", "linked", "playing" or "gone"
  tee,        \* the tee's request pad: "none", "unlinked", "blocked" or "linked"
  linkFailed, \* link returned an error
  probe,      \* the BLOCK probe behind the proxy's queue: "none", "set", "removed"
  queued,     \* buffers in the proxy's queue
  encoders,   \* "absent", "in", "left" (excision failed) or "out", of each
  passed,     \* encoders that a buffer went through before anyone tried to excise them
  busy,       \* what webrtcbin's thread does
  offers,     \* offers made
  signaling,  \* webrtcbin's signaling state: "stable" or "offered"
  remote,     \* remote-description is an answer
  answers,    \* answers handed to webrtcbin that it has not applied yet
  peer,       \* webrtcbin's connection: "new", "connected" or what was last lost
  losses,     \* times the peer was lost
  killer,     \* "off", "waiting", "timed_out" or "done"
  told,       \* a message is in the channel to the killer
  channel,    \* the websocket still reads what is sent
  said        \* kinds of messages sent to the peer, in the order of their first

data  == <<probe, queued, encoders, passed>>
nego  == <<offers, signaling, remote, answers>>
conn  == <<peer, losses>>
guard == <<killer, told>>
link  == <<stage, tee, linkFailed>>
peerVars == <<link, data, busy, nego, conn, guard, channel, said>>

Lost == {"disconnected", "failed", "closed"}

PeerTypeOK ==
  /\ stage \in {"none", "made", "linked", "playing", "gone"}
  /\ tee \in {"none", "unlinked", "blocked", "linked"}
  /\ probe \in {"none", "set", "removed"}
  /\ queued \in 0..MaxQueued
  /\ encoders \in [Encoders -> {"absent", "in", "left", "out"}]
  /\ passed \subseteq Encoders
  /\ busy \in {"idle", "offering", "telling", "excising", "unblocking"}
  /\ offers \in 0..MaxOffers /\ answers \in 0..MaxOffers + 1
  /\ signaling \in {"stable", "offered"}
  /\ peer \in {"new", "connected"} \cup Lost /\ losses \in 0..MaxLosses
  /\ killer \in {"off", "waiting", "timed_out", "done"}
  /\ {remote, told, linkFailed} \subseteq BOOLEAN
  /\ channel \in {"open", "closed"}
  /\ said \in SeqOf({"start", "offer", "candidate", "end"}, 4)

PeerInit ==
  /\ stage = "none" /\ tee = "none" /\ linkFailed = FALSE
  /\ probe = "none" /\ queued = 0 /\ passed = {}
  /\ encoders = [e \in Encoders |-> "absent"]
  /\ busy = "idle" /\ offers = 0
  /\ signaling = "stable" /\ remote = FALSE /\ answers = 0
  /\ peer = "new" /\ losses = 0
  /\ killer = "off" /\ told = FALSE
  /\ channel = "open" /\ said = <<>>

TellPeer(kind) ==
  said' = IF kind \in ToSet(said) THEN said ELSE Append(said, kind)

\* WebRTCSinkWeakProxy::terminate: nothing is sent when nobody reads
Terminate == IF channel = "open" THEN TellPeer("end") ELSE UNCHANGED said

-----------------------------------------------------------------------------
(* The manager adds the sink *)

\* try_new tells the peer that the session starts, then arms the killer and the
\* signals; when the channel is closed there is no sink.
TryNew ==
  /\ stage = "none" /\ channel = "open"
  /\ stage' = "made" /\ killer' = "waiting"
  /\ TellPeer("start")
  /\ UNCHANGED <<tee, linkFailed, data, busy, nego, conn, told, channel>>

\* link_sink_to_tee: a pad is requested and blocked ...
BlockTee ==
  /\ stage = "made" /\ tee = "none"
  /\ tee' = "blocked"
  /\ UNCHANGED <<stage, linkFailed, data, busy, nego, conn, guard, channel, said>>

\* ... and flows again when the proxy is linked; the probe is put behind the
\* proxy's queue, and webrtcbin has its codec preferences.  That there is no pad
\* to put the probe on, or that it does not take it, is only logged.
Link ==
  /\ stage = "made" /\ tee = "blocked"
  /\ stage' = "linked" /\ tee' = "linked" /\ probe' \in {"set", "none"}
  /\ UNCHANGED <<linkFailed, queued, encoders, passed, busy, nego, conn, guard,
                 channel, said>>

\* An error of link drops the sink.  Past the pad's own link the guard of
\* link_sink_to_tee gives the pad back; before it, and after the function, nobody
\* does.
LinkFails ==
  /\ stage = "made" /\ tee = "blocked"
  /\ linkFailed' = TRUE /\ stage' = "gone"
  /\ tee' \in {"none", "unlinked", "linked"}
  /\ killer' = IF killer = "waiting" THEN "done" ELSE killer
  /\ UNCHANGED <<data, busy, nego, conn, told, channel, said>>

\* The stream's pipeline is playing: the sink's own pipeline is started.
Start ==
  /\ stage = "linked"
  /\ stage' = "playing"
  /\ UNCHANGED <<tee, linkFailed, data, busy, nego, conn, guard, channel, said>>

\* remove_sink, or add_sink when the stream's pipeline does not play: the pad is
\* unlinked and given back, and the sink dropped with its pipeline and the
\* sender to the killer.
Unlink ==
  /\ stage \in {"linked", "playing"}
  /\ stage' = "gone" /\ tee' = "none"
  /\ queued' = 0
  /\ killer' = IF killer = "waiting" THEN "done" ELSE killer
  /\ UNCHANGED <<linkFailed, probe, encoders, passed, busy, nego, conn, told,
                 channel, said>>

-----------------------------------------------------------------------------
(* Data *)

\* A full queue leaks: the stream's pipeline never waits for a session.
Produce ==
  /\ stage = "playing" /\ tee = "linked"
  /\ queued < MaxQueued
  /\ queued' = queued + 1
  /\ UNCHANGED <<link, probe, encoders, passed, busy, nego, conn, guard,
                 channel, said>>

Flow ==
  /\ stage = "playing" /\ queued > 0 /\ probe # "set"
  /\ queued' = queued - 1
  /\ passed' = passed \cup {e \in Encoders : encoders[e] = "in"}
  /\ UNCHANGED <<link, probe, encoders, busy, nego, conn, guard, channel, said>>

-----------------------------------------------------------------------------
(* Negotiation, in webrtcbin's thread *)

Alive == stage \in {"linked", "playing"}

\* on-negotiation-needed asks for an offer; on_offer_created has every media
\* section of it customized (OfferSdp) and makes it the local description, which
\* creates the encoders, ...
OnOfferCreated ==
  /\ Alive /\ busy = "idle"
  /\ offers < MaxOffers /\ signaling = "stable"
  /\ busy' = "offering" /\ offers' = offers + 1 /\ signaling' = "offered"
  /\ encoders' = [e \in Encoders |-> IF encoders[e] = "absent" THEN "in" ELSE encoders[e]]
  /\ UNCHANGED <<link, probe, queued, passed, remote, answers, conn, guard,
                 channel, said>>

\* ... and sends it.
SendOffer ==
  /\ busy = "offering"
  /\ busy' = "idle"
  /\ IF channel = "open" THEN TellPeer("offer") ELSE UNCHANGED said
  /\ UNCHANGED <<link, data, nego, conn, guard, channel>>

\* The local description makes webrtcbin gather: on_ice_candidate
OnIceCandidate ==
  /\ Alive /\ busy = "idle" /\ offers > 0
  /\ IF channel = "open" THEN TellPeer("candidate") ELSE UNCHANGED said
  /\ UNCHANGED <<link, data, busy, nego, conn, guard, channel>>

\* handle_sdp, in the signalling's thread: an answer is passed on unless
\* webrtcbin has applied one before, whatever it offered since.
HandleAnswer ==
  /\ Alive /\ "offer" \in ToSet(said)
  /\ ~remote /\ answers <= MaxOffers
  /\ answers' = answers + 1
  /\ UNCHANGED <<link, data, busy, offers, signaling, remote, conn, guard,
                 channel, said>>

\* webrtcbin applies it, when it waits for one
ApplyAnswer ==
  /\ Alive /\ busy = "idle" /\ answers > 0
  /\ answers' = answers - 1
  /\ signaling' = "stable"
  /\ remote' = (remote \/ signaling = "offered")
  /\ UNCHANGED <<link, data, busy, offers, conn, guard, channel, said>>

-----------------------------------------------------------------------------
(* The connection *)

\* connection-state becomes Connected, for the first time or again
Connect ==
  /\ Alive /\ busy = "idle" /\ remote
  /\ peer \in {"new", "disconnected"}
  /\ peer' = "connected" /\ busy' = "telling"
  /\ UNCHANGED <<link, data, nego, losses, guard, channel, said>>

\* nobody is told
Tell_Nobody ==
  /\ busy = "telling"
  /\ busy' = "excising"
  /\ UNCHANGED <<link, data, nego, conn, guard, channel, said>>

\* the killer is told
Tell ==
  /\ busy = "telling"
  /\ busy' = "excising"
  /\ told' = (killer = "waiting")
  /\ UNCHANGED <<link, data, nego, conn, killer, channel, said>>

\* optimise_send_path: each encoder is excised, or a warning logged
Excise(e) ==
  /\ busy = "excising" /\ encoders[e] = "in"
  /\ \E result \in {"out", "left"} : encoders' = [encoders EXCEPT ![e] = result]
  /\ UNCHANGED <<link, probe, queued, passed, busy, nego, conn, guard, channel, said>>

Excised == \A e \in Encoders : encoders[e] # "in"

\* the probe is removed first
Unblock_First ==
  /\ busy = "excising" /\ (probe = "set" \/ Excised)
  /\ busy' = IF Excised THEN "idle" ELSE busy
  /\ probe' = IF probe = "set" THEN "removed" ELSE probe
  /\ UNCHANGED <<link, queued, encoders, passed, nego, conn, guard, channel, said>>

\* removing the probe comes last
Unblock ==
  /\ busy = "excising" /\ Excised
  /\ busy' = "idle"
  /\ probe' = IF probe = "set" THEN "removed" ELSE probe
  /\ UNCHANGED <<link, queued, encoders, passed, nego, conn, guard, channel, said>>

\* The states of which each monitor ends the session: that of the DTLS transport
\* stands in for connection-state, which GStreamer does not always report.
Ends_WorkaroundOnly(monitor) ==
  IF monitor = "dtls" THEN {"failed", "closed"} ELSE {}

Ends(monitor) == IF monitor = "dtls" THEN {"failed", "closed"} ELSE Lost

\* What webrtcbin reports when it loses the peer.
Reports == {<<"connection", s>> : s \in Lost} \cup {<<"ice", s>> : s \in Lost}
             \cup {<<"dtls", s>> : s \in Lost \ {"disconnected"}}

Lose(monitor, state) ==
  /\ Alive /\ busy = "idle" /\ remote
  /\ peer \notin {"closed", state} /\ losses < MaxLosses
  /\ peer' = state /\ losses' = losses + 1
  /\ IF state \in Ends(monitor) THEN Terminate ELSE UNCHANGED said
  /\ UNCHANGED <<link, data, busy, nego, guard, channel>>

\* The elements close their transport while the sink is dropped.
CloseLate ==
  /\ stage = "gone" /\ peer = "connected"
  /\ peer' = "closed"
  /\ Terminate
  /\ UNCHANGED <<link, data, busy, nego, losses, guard, channel>>

-----------------------------------------------------------------------------
(* The FailSafeKiller *)

KillerIsTold ==
  /\ killer = "waiting" /\ told
  /\ killer' = "done" /\ told' = FALSE
  /\ UNCHANGED <<link, data, busy, nego, conn, channel, said>>

\* ten seconds without a message
KillerTimesOut ==
  /\ killer = "waiting" /\ ~told
  /\ killer' = "timed_out"
  /\ UNCHANGED <<link, data, busy, nego, conn, told, channel, said>>

\* a killer that ends itself
KillerKills_Nobody ==
  /\ killer = "timed_out"
  /\ killer' = "done"
  /\ UNCHANGED <<link, data, busy, nego, conn, told, channel, said>>

KillerKills ==
  /\ killer = "timed_out"
  /\ killer' = "done"
  /\ Terminate
  /\ UNCHANGED <<link, data, busy, nego, conn, told, channel>>

\* The websocket ends: its session's removal is the signalling's affair.
CloseChannel ==
  /\ channel = "open"
  /\ channel' = "closed"
  /\ UNCHANGED <<link, data, busy, nego, conn, guard, said>>

-----------------------------------------------------------------------------
Manager   == TryNew \/ BlockTee \/ Link \/ LinkFails \/ Start \/ Unlink
Connected == Tell \/ (\E e \in Encoders : Excise(e)) \/ Unblock
Killer    == KillerIsTold \/ KillerTimesOut \/ KillerKills

PeerNext ==
  \/ Manager \/ Connected \/ Killer
  \/ Produce \/ Flow
  \/ OnOfferCreated \/ SendOffer \/ OnIceCandidate \/ HandleAnswer \/ ApplyAnswer
  \/ Connect \/ CloseLate \/ CloseChannel
  \/ \E r \in Reports : Lose(r[1], r[2])

\* The threads run; the manager, once it began to link, goes on.  Nothing is
\* assumed of the peer.
PeerSpec ==
  /\ PeerInit /\ [][PeerNext]_peerVars
  /\ WF_peerVars(Killer) /\ WF_peerVars(Connected) /\ WF_peerVars(SendOffer)
  /\ WF_peerVars(Link \/ LinkFails) /\ WF_peerVars(Start)

-----------------------------------------------------------------------------
(* Properties *)

\* No buffer goes through a RED, FEC or RTX encoder before webrtcbin's thread
\* tried to take it out, though the stream plays all the while -- unless link had
\* to do without the probe.
NothingPassesUnshaped ==
  passed # {} => stage \notin {"none", "made"} /\ probe = "none"

\* The peer hears of its session before anything else, and of the offer before
\* the candidates that belong to it.
MessagesInOrder ==
  /\ said # <<>> => said[1] = "start"
  /\ \A i \in DOMAIN said : said[i] = "candidate" =>
       \E j \in 1..(i - 1) : said[j] = "offer"

CleanSections ==
  \A m \in Medias : IsCleaned(m, Customize(m)) /\ IsPlayable(Customize(m))

\* What is offered is what webrtcbin created without RED, FEC and recvonly, with
\* the profile that browsers decode; removing by index took nothing else.
OffersAreClean == "offer" \in ToSet(said) => CleanSections

\* A sink that was linked gives its pad of the tee back, or the stream would push
\* into nothing for as long as it plays.
PadGivenBack == stage = "gone" /\ ~linkFailed => tee = "none"

\* Once webrtcbin's thread went past Connected's first step, the killer's ten
\* seconds cannot end any more.
KillerSparesConnected ==
  [][killer' = "timed_out" /\ killer # "timed_out" =>
       ~(peer = "connected" /\ busy # "telling")]_peerVars

\* A session whose peer never connects is ended, if the websocket still reads.
NeverConnectedIsEnded ==
  stage = "made" ~> \/ peer = "connected" \/ "end" \in ToSet(said)
                    \/ stage = "gone" \/ channel = "closed"

\* A session whose peer is lost, for good or for now, is ended.
LostIsEnded ==
  peer \in Lost ~> \/ "end" \in ToSet(said) \/ stage = "gone" \/ channel = "closed"

\* What a session's negotiation and its branch of the pipeline keep true: messages
\* in order, nothing sent unshaped, and the pad given back at the end.
PeerInv == PeerTypeOK /\ NothingPassesUnshaped /\ MessagesInOrder /\ PadGivenBack
================================================================================
