------------------------------ MODULE MavlinkLink ------------------------------
(***************************************************************************)
(* src/lib/mavlink/manager.rs: the two threads that share the connection   *)
(* to the MAVLink network behind one std::sync::RwLock.  The receiver      *)
(* keeps its read guard while it waits for the network; whichever thread   *)
(* finds the connection missing or broken makes a new one under the write  *)
(* guard and retries for ever.                                             *)
(*                                                                         *)
(* The lock's state is read off the program counters of its users.  It is  *)
(* the futex lock of Linux: a waiting writer keeps new readers out.        *)
(***************************************************************************)
EXTENDS Naturals

CONSTANTS
    MaxBreaks,      \* how often the network fails
    Capacity,       \* of the broadcast channel (100 in the code)
    Exclusive       \* the address can be bound only once (udpin), so that a
                    \* connection cannot be made while the old one is kept

ASSUME LinkAssumption ==
    MaxBreaks \in Nat /\ Capacity \in Nat \ {0} /\ Exclusive \in BOOLEAN

VARIABLES
    network,        \* the other end can be reached
    breaks,         \* times the network failed
    connection,     \* Connection.connection: "none", "fine" or "stale"
    pc,             \* of the threads
    unsent          \* messages of the cameras the sender has not taken yet

linkVars == <<network, breaks, connection, pc, unsent>>

Threads == {"receiver", "sender"}

LinkTypeOK ==
    /\ network \in BOOLEAN
    /\ breaks \in 0..MaxBreaks
    /\ connection \in {"none", "fine", "stale"}
    /\ pc \in [Threads -> {"idle", "inside", "failed", "asking", "connecting"}]
    /\ unsent \in 0..Capacity

LinkInit ==
    /\ network = TRUE
    /\ breaks = 0
    /\ connection = "none"
    /\ pc = [t \in Threads |-> "idle"]
    /\ unsent = 0

------------------------------------------------------------------------------
(* The lock *)

\* RwLock::read: no writer has it or waits for it
CanRead == \A t \in Threads : pc[t] \notin {"asking", "connecting"}

\* a read guard that outlives the loop it was taken in
CanWrite_GuardsKept ==
    \A t \in Threads : pc[t] \notin {"inside", "failed", "asking", "connecting"}

\* RwLock::write: nobody has it
CanWrite == \A t \in Threads : pc[t] \notin {"inside", "connecting"}

Goto(t, at) == pc' = [pc EXCEPT ![t] = at]

------------------------------------------------------------------------------
(* receiver_loop *)

\* takes the read guard; without a connection it gives it back at once and
\* goes to reconnect
ReceiverEnters ==
    /\ pc["receiver"] = "idle"
    /\ CanRead
    /\ Goto("receiver", IF connection = "none" THEN "failed" ELSE "inside")
    /\ UNCHANGED <<network, breaks, connection, unsent>>

\* recv returns: nothing in time, something that cannot be parsed, or a
\* message of a component that is no ground station; the guard goes back
ReceiveNothing ==
    /\ pc["receiver"] = "inside"
    /\ connection = "fine"
    /\ Goto("receiver", "idle")
    /\ UNCHANGED <<network, breaks, connection, unsent>>

\* recv fails with an I/O error that is not WouldBlock
ReceiveFails ==
    /\ pc["receiver"] = "inside"
    /\ connection = "stale"
    /\ Goto("receiver", "failed")
    /\ UNCHANGED <<network, breaks, connection, unsent>>

------------------------------------------------------------------------------
(* sender_loop *)

\* a message of a camera is taken and the read guard with it; nothing tells
\* a message the thread has in hand from one that it has not taken yet
SenderEnters ==
    /\ pc["sender"] = "idle"
    /\ unsent > 0
    /\ CanRead
    /\ unsent' = unsent - 1
    /\ Goto("sender", IF connection = "none" THEN "failed" ELSE "inside")
    /\ UNCHANGED <<network, breaks, connection>>

\* the message is written, or is lost with the connection
SenderSends ==
    /\ pc["sender"] = "inside"
    /\ Goto("sender", IF connection = "fine" THEN "idle" ELSE "failed")
    /\ UNCHANGED <<network, breaks, connection, unsent>>

------------------------------------------------------------------------------
(* Reconnecting, the same in both loops *)

\* out of the loop, and so without the read guard: inner.write() is called ...
AskToWrite(t) ==
    /\ pc[t] = "failed"
    /\ Goto(t, "asking")
    /\ UNCHANGED <<network, breaks, connection, unsent>>

\* ... and returns, and with the guard into Connection::connect
StartConnecting(t) ==
    /\ pc[t] = "asking"
    /\ CanWrite
    /\ Goto(t, "connecting")
    /\ UNCHANGED <<network, breaks, connection, unsent>>

\* connect tries every second until it succeeds; only then the old
\* connection is replaced, and so dropped
ConnectSucceeds(t) ==
    /\ pc[t] = "connecting"
    /\ network
    /\ Exclusive => connection = "none"
    /\ connection' = "fine"
    /\ Goto(t, "idle")
    /\ UNCHANGED <<network, breaks, unsent>>

------------------------------------------------------------------------------
(* The network *)

NetworkFails ==
    /\ network
    /\ breaks < MaxBreaks
    /\ network' = FALSE
    /\ breaks' = breaks + 1
    /\ connection' = IF connection = "fine" THEN "stale" ELSE connection
    /\ UNCHANGED <<pc, unsent>>

NetworkReturns ==
    /\ ~network
    /\ network' = TRUE
    /\ UNCHANGED <<breaks, connection, pc, unsent>>

\* what the threads and the network do by themselves
LinkNext ==
    \/ ReceiverEnters \/ ReceiveNothing \/ ReceiveFails
    \/ SenderEnters \/ SenderSends
    \/ \E t \in Threads : AskToWrite(t) \/ StartConnecting(t) \/ ConnectSucceeds(t)
    \/ NetworkFails \/ NetworkReturns

\* The threads run, recv returns (within the read timeout of a TCP
\* connection, with the next message of the vehicle otherwise), the lock is
\* given to who waits for it, and the network is not down for ever.
LinkFairness ==
    /\ WF_linkVars(ReceiverEnters \/ ReceiveNothing \/ ReceiveFails)
    /\ WF_linkVars(SenderEnters \/ SenderSends)
    /\ \A t \in Threads :
        WF_linkVars(AskToWrite(t) \/ StartConnecting(t) \/ ConnectSucceeds(t))
    /\ WF_linkVars(NetworkReturns)
================================================================================
