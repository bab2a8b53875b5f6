---------------------------- MODULE TunnelStream ----------------------------
(***************************************************************************)
(* What the tunnel promises a browser: its connection to the proxy is a    *)
(* stream of the bodies it sends, while the proxy neither hangs up nor     *)
(* refuses, until the server has no descriptor for one of its packets.     *)
(***************************************************************************)
EXTENDS Tunnel

VARIABLE dropped   \* history: what the server dropped as socket() had failed

DroppedNow == IF S!SocketFails THEN {Head(sWork).body} ELSE {}

ObservedInit == Init /\ dropped = {}
ObservedNext == Next /\ dropped' = dropped \cup DroppedNow

ObservedSpec == ObservedInit /\ [][ObservedNext]_<<vars, dropped>> /\ Fairness

\* What the proxy's connections have been written of what c said.
Heard(c) ==
  FlattenSeq([s \in Proxy |->
    IF From(sTx[s], world.browsers[c]) THEN sTx[s] ELSE <<>>])

\* Nothing of what c said was dropped.
Whole(c) == dropped \cap Range(world.browsers[c]) = {}

Request(c) == INSTANCE PacketStream
  WITH Packet <- Body, sent <- SubSeq(world.browsers[c], 1, browserSaid[c]),
       got <- Heard(c), intact <- Whole(c)

\* While the proxy neither hangs up nor refuses, the tunnel is a stream from
\* each browser's connection to the proxy (putdata, process_sock_data,
\* process_fs_event), whatever reaches the two ends in which order.  When the
\* server has had no descriptor for a packet, a later one may open the
\* connection: the stream of that browser is broken, not those of the others.
StreamSpec ==
  /\ \A c \in Browsers : Request(c)!Init
  /\ [][world.faults \subseteq {"malloc"} =>
          \A c \in Browsers : [Request(c)!Next]_(Request(c)!vars)]_<<vars, dropped>>
=============================================================================
