------------------------------- MODULE Streams -------------------------------
(***************************************************************************)
(* One logical stream of a relay tunnel: its opening, its two pumps at     *)
(* each end, the credit that bounds what is under way, and its end         *)
(* (relay-server/src/relay.rs for the Relay, node.rs for the Node Host's   *)
(* connector, flow.rs for the credit).  The two ends run the same          *)
(* protocol, so an action takes the end it happens at.  The tunnel carries *)
(* frames in order; it fails as a whole when an end rejects a frame.       *)
(* Quota and rate limits only delay or end a pump and are left to Quota.   *)
(***************************************************************************)
EXTENDS Naturals, Sequences, FiniteSets

CONSTANTS
    Window,      \* initial_window_bytes, which both ends configure
    MaxFrame,    \* max_frame_bytes: the most a pump reads at once
    QueueFrames, \* stream_buffer_frames
    MaxRead      \* bound: bytes an end reads from its socket

ASSUME StreamsAssumption ==
    /\ MaxFrame \in Nat \ {0} /\ Window \in Nat /\ Window >= MaxFrame
    /\ QueueFrames \in Nat \ {0} /\ MaxRead \in Nat

VARIABLES
    open,     \* open[e]: the stream is in the tunnel's table at end e
    credit,   \* credit[e]: send_credit
    notified, \* notified[e]: notify_waiters has fired for the current waiter
    pump,     \* pump[e]: the pump from the socket into the tunnel
    amount,   \* amount[e]: bytes that pump has read and not yet sent
    unread,   \* unread[e]: bytes the socket still has for it
    window,   \* window[e]: receive_remaining
    inbound,  \* inbound[e]: the queue of received frames
    drain,    \* drain[e]: the pump from the tunnel to the socket
    holding,  \* holding[e]: bytes that pump took and has not granted back
    wire,     \* wire[e]: frames that end e has sent
    opening,  \* the Relay's open_stream: "no", "waiting" or "done"
    tunnel    \* "up", or "failed" after a rejected frame

sendVars == <<credit, notified, pump, amount, unread>>
receiveVars == <<window, inbound, drain, holding>>
streamsVars == <<open, credit, notified, pump, amount, unread, window, inbound, drain, holding, wire,
                 opening, tunnel>>

Ends == {"relay", "node"}
Peer(e) == IF e = "relay" THEN "node" ELSE "relay"

Frame(kind, n) == [kind |-> kind, bytes |-> n]
\* Frames arrive whole and in the order in which they were sent.
Incoming(e) == Head(wire[Peer(e)])
Send(e, f) == wire' = [wire EXCEPT ![e] = Append(@, f)]

\* The payload of the frames of one kind.
Weight(f, kind) == IF f.kind = kind THEN f.bytes ELSE 0
Bytes(frames, kind) ==
    LET upTo[i \in 0 .. Len(frames)] == IF i = 0 THEN 0 ELSE upTo[i - 1] + Weight(frames[i], kind)
    IN upTo[Len(frames)]

-----------------------------------------------------------------------------
(* Opening *)

\* handle_member calls open_stream: the stream is entered and Open is sent.
OpenStream ==
    /\ opening = "no"
    /\ open' = [open EXCEPT !["relay"] = TRUE]
    /\ Send("relay", Frame("open", Window))
    /\ opening' = "waiting"
    /\ UNCHANGED <<sendVars, receiveVars, tunnel>>

\* One task for each direction.
StartPumps(e) == pump' = [pump EXCEPT ![e] = "read"] /\ drain' = [drain EXCEPT ![e] = "receive"]

\* run_local_stream reached its target; both pumps of the node start.
LocalConnected ==
    /\ open["node"] /\ pump["node"] = "connect"
    /\ StartPumps("node")
    /\ Send("node", Frame("open_ok", Window))
    /\ UNCHANGED <<open, credit, notified, amount, unread, window, inbound, holding, opening, tunnel>>

LocalUnavailable ==
    /\ open["node"] /\ pump["node"] = "connect"
    /\ pump' = [pump EXCEPT !["node"] = "off"]
    /\ open' = [open EXCEPT !["node"] = FALSE]
    /\ Send("node", Frame("open_error", 0))
    /\ UNCHANGED <<credit, notified, amount, unread, receiveVars, opening, tunnel>>

\* open_stream gives up after open_timeout and removes the stream; it sends nothing.
OpenTimeout ==
    /\ opening = "waiting" /\ open["relay"]
    /\ open' = [open EXCEPT !["relay"] = FALSE]
    /\ opening' = "done"
    /\ UNCHANGED <<sendVars, receiveVars, wire, tunnel>>

-----------------------------------------------------------------------------
(* From the socket into the tunnel: pump_member_to_node, pump_target_to_relay *)

Read(e, n) ==
    /\ open[e] /\ pump[e] = "read" /\ n <= unread[e]
    /\ amount' = [amount EXCEPT ![e] = n] /\ unread' = [unread EXCEPT ![e] = @ - n]
    /\ pump' = [pump EXCEPT ![e] = "subscribe"]
    /\ UNCHANGED <<open, credit, notified, receiveVars, wire, opening, tunnel>>

\* Credit::consume creates the Notified future before it looks at the credit.
Subscribe(e) ==
    /\ open[e] /\ pump[e] = "subscribe"
    /\ notified' = [notified EXCEPT ![e] = FALSE]
    /\ pump' = [pump EXCEPT ![e] = "check"]
    /\ UNCHANGED <<open, credit, amount, unread, receiveVars, wire, opening, tunnel>>

Consume(e) ==
    /\ open[e] /\ pump[e] = "check"
    /\ IF credit[e] >= amount[e]
       THEN credit' = [credit EXCEPT ![e] = @ - amount[e]] /\ pump' = [pump EXCEPT ![e] = "send"]
       ELSE pump' = [pump EXCEPT ![e] = "poll"] /\ UNCHANGED credit
    /\ UNCHANGED <<open, notified, amount, unread, receiveVars, wire, opening, tunnel>>

\* The future is polled for the first time, and then waited for.
Poll(e) ==
    /\ open[e] /\ pump[e] = "poll"
    /\ pump' = [pump EXCEPT ![e] = "wait"]
    /\ UNCHANGED <<open, credit, notified, amount, unread, receiveVars, wire, opening, tunnel>>

Wake(e) ==
    /\ open[e] /\ pump[e] = "wait" /\ notified[e]
    /\ pump' = [pump EXCEPT ![e] = "subscribe"]
    /\ UNCHANGED <<open, credit, notified, amount, unread, receiveVars, wire, opening, tunnel>>

SendData(e) ==
    /\ open[e] /\ pump[e] = "send"
    /\ Send(e, Frame("data", amount[e]))
    /\ amount' = [amount EXCEPT ![e] = 0]
    /\ pump' = [pump EXCEPT ![e] = "read"]
    /\ UNCHANGED <<open, credit, notified, unread, receiveVars, opening, tunnel>>

\* The socket reached its end: Fin, and the other direction goes on.
SendFin(e) ==
    /\ open[e] /\ pump[e] = "read"
    /\ Send(e, Frame("fin", 0))
    /\ pump' = [pump EXCEPT ![e] = "done"]
    /\ UNCHANGED <<open, credit, notified, amount, unread, receiveVars, opening, tunnel>>

-----------------------------------------------------------------------------
(* From the tunnel to the socket: pump_node_to_member, pump_relay_to_target *)

\* A data frame is taken and written to the socket.
Deliver(e) ==
    /\ open[e] /\ drain[e] = "receive" /\ inbound[e] # <<>> /\ Head(inbound[e]).kind = "data"
    /\ holding' = [holding EXCEPT ![e] = Head(inbound[e]).bytes]
    /\ inbound' = [inbound EXCEPT ![e] = Tail(@)]
    /\ drain' = [drain EXCEPT ![e] = "written"]
    /\ UNCHANGED <<open, sendVars, window, wire, opening, tunnel>>

\* Mutant: the update is sent before the bytes are added to the window.
ReopenWindowLate(e) ==
    /\ open[e] /\ drain[e] = "written"
    /\ drain' = [drain EXCEPT ![e] = "granted"]
    /\ UNCHANGED <<open, sendVars, window, inbound, holding, wire, opening, tunnel>>

\* receive_remaining grows before the peer may learn of it.
ReopenWindow(e) ==
    /\ open[e] /\ drain[e] = "written"
    /\ window' = [window EXCEPT ![e] = @ + holding[e]]
    /\ drain' = [drain EXCEPT ![e] = "granted"]
    /\ UNCHANGED <<open, sendVars, inbound, holding, wire, opening, tunnel>>

SendUpdate(e) ==
    /\ open[e] /\ drain[e] = "granted"
    /\ Send(e, Frame("window_update", holding[e]))
    /\ holding' = [holding EXCEPT ![e] = 0]
    /\ drain' = [drain EXCEPT ![e] = "receive"]
    /\ UNCHANGED <<open, sendVars, window, inbound, opening, tunnel>>

FinishDrain(e) ==
    /\ open[e] /\ drain[e] = "receive" /\ inbound[e] # <<>> /\ Head(inbound[e]).kind = "fin"
    /\ inbound' = [inbound EXCEPT ![e] = Tail(@)]
    /\ drain' = [drain EXCEPT ![e] = "done"]
    /\ UNCHANGED <<open, sendVars, window, holding, wire, opening, tunnel>>

\* Both pumps ended, one failed, the watchdog fired, the socket broke or the stream was removed
\* under them: the stream is removed, then Close is sent (relay_member_stream, run_local_stream).
EndStream(e) ==
    /\ pump[e] \notin {"off", "connect"}
    /\ open' = [open EXCEPT ![e] = FALSE]
    /\ pump' = [pump EXCEPT ![e] = "off"] /\ drain' = [drain EXCEPT ![e] = "off"]
    /\ Send(e, Frame("close", 0))
    /\ UNCHANGED <<credit, notified, amount, unread, window, inbound, holding, opening, tunnel>>

-----------------------------------------------------------------------------
(* Frames: read_tunnel_frames at the Relay, read_relay_frames at the node *)

Fail == tunnel' = "failed" /\ UNCHANGED <<open, sendVars, receiveVars, opening>>

\* Credit::add and notify_waiters, which reaches every future created before.
AddCredit(e, n) ==
    /\ credit' = [credit EXCEPT ![e] = @ + n]
    /\ notified' = [notified EXCEPT ![e] = @ \/ pump[e] \in {"check", "poll", "wait"}]

AcceptOpen(e, f) ==
    /\ open' = [open EXCEPT ![e] = TRUE] /\ pump' = [pump EXCEPT ![e] = "connect"]
    /\ credit' = [credit EXCEPT ![e] = f.bytes]
    /\ UNCHANGED <<notified, amount, unread, receiveVars, opening, tunnel>>

\* open_stream learns the peer's window and the Relay's pumps start.
AcceptOpenOk(e, f) ==
    /\ opening' = "done"
    /\ StartPumps(e)
    /\ credit' = [credit EXCEPT ![e] = @ + f.bytes]
    /\ UNCHANGED <<open, notified, amount, unread, window, inbound, holding, tunnel>>

AcceptOpenError(e) ==
    /\ opening' = "done" /\ open' = [open EXCEPT ![e] = FALSE]
    /\ UNCHANGED <<sendVars, receiveVars, tunnel>>

\* debit_receive_window, then the bounded queue.
AcceptData(e, f) ==
    /\ window' = [window EXCEPT ![e] = @ - f.bytes]
    /\ IF Len(inbound[e]) < QueueFrames
       THEN inbound' = [inbound EXCEPT ![e] = Append(@, f)] /\ UNCHANGED open
       ELSE open' = [open EXCEPT ![e] = FALSE] /\ UNCHANGED inbound
    /\ UNCHANGED <<sendVars, drain, holding, opening, tunnel>>

AcceptFin(e, f) ==
    /\ IF Len(inbound[e]) < QueueFrames
       THEN inbound' = [inbound EXCEPT ![e] = Append(@, f)] /\ UNCHANGED open
       ELSE open' = [open EXCEPT ![e] = FALSE] /\ UNCHANGED inbound
    /\ UNCHANGED <<sendVars, window, drain, holding, opening, tunnel>>

AcceptClose(e) ==
    /\ open' = [open EXCEPT ![e] = FALSE]
    /\ UNCHANGED <<sendVars, receiveVars, opening, tunnel>>

AcceptUpdate(e, f) ==
    /\ AddCredit(e, f.bytes)
    /\ UNCHANGED <<open, pump, amount, unread, receiveVars, opening, tunnel>>

\* The frame needs an open stream (stream_dispatch), or the tunnel fails.
Receive(e) ==
    LET f == Incoming(e)
        rest == [wire EXCEPT ![Peer(e)] = Tail(@)]
        full == f.kind = "data" /\ Len(inbound[e]) = QueueFrames
    IN /\ wire[Peer(e)] # <<>>
       /\ wire' = IF open[e] /\ full /\ f.bytes <= window[e]
                  THEN [rest EXCEPT ![e] = Append(@, Frame("close", 0))] ELSE rest
       /\ \/ f.kind = "open" /\ AcceptOpen(e, f)
          \/ f.kind = "close" /\ AcceptClose(e)
          \/ f.kind \notin {"open", "close"} /\ ~ open[e] /\ Fail
          \/ f.kind = "open_ok" /\ open[e] /\ AcceptOpenOk(e, f)
          \/ f.kind = "open_error" /\ open[e] /\ AcceptOpenError(e)
          \/ f.kind = "data" /\ open[e] /\ f.bytes > window[e] /\ Fail
          \/ f.kind = "data" /\ open[e] /\ f.bytes <= window[e] /\ AcceptData(e, f)
          \/ f.kind = "fin" /\ open[e] /\ AcceptFin(e, f)
          \/ f.kind = "window_update" /\ open[e] /\ AcceptUpdate(e, f)

-----------------------------------------------------------------------------
\* Credit, and the pump that waits for it.
NothingToSend ==
    /\ credit = [e \in Ends |-> 0] /\ notified = [e \in Ends |-> FALSE] /\ pump = [e \in Ends |-> "off"]
    /\ amount = [e \in Ends |-> 0] /\ unread = [e \in Ends |-> MaxRead]

\* The receive window and the queue of a stream.
NothingReceived ==
    /\ window = [e \in Ends |-> Window] /\ inbound = [e \in Ends |-> <<>>]
    /\ drain = [e \in Ends |-> "off"] /\ holding = [e \in Ends |-> 0]

StreamsInit ==
    /\ open = [e \in Ends |-> FALSE] /\ NothingToSend /\ NothingReceived
    /\ wire = [e \in Ends |-> <<>>] /\ opening = "no" /\ tunnel = "up"

PumpStep(e) ==
    \/ \E n \in 1 .. MaxFrame : Read(e, n)
    \/ Subscribe(e) \/ Consume(e) \/ Poll(e) \/ Wake(e) \/ SendData(e) \/ SendFin(e)
    \/ Deliver(e) \/ ReopenWindow(e) \/ SendUpdate(e) \/ FinishDrain(e)
    \/ EndStream(e) \/ Receive(e)

StreamsNext ==
    /\ tunnel = "up"
    /\ OpenStream \/ LocalConnected \/ LocalUnavailable \/ OpenTimeout \/ \E e \in Ends : PumpStep(e)

StreamsSpec == StreamsInit /\ [][StreamsNext]_streamsVars

-----------------------------------------------------------------------------
(* Properties *)

\* An end that respects its credit never exceeds the other end's window: what
\* is on the wire for an open stream always fits receive_remaining, for the
\* bytes are added to it before the update that returns them can be used.
WindowCoversFlight ==
    \A e \in Ends : open[e] => Bytes(wire[Peer(e)], "data") <= window[e]

\* A pump never sleeps through the credit it waits for: credit that arrives
\* between the failed check and the wait wakes it.
NoLostWakeup ==
    \A e \in Ends : pump[e] \in {"poll", "wait"} /\ ~ notified[e] => credit[e] < amount[e]

\* Flow control neither overruns a window nor forgets a sender that waits (flow.rs).
FlowIsControlled == WindowCoversFlight /\ NoLostWakeup
=============================================================================
