----------------------------- MODULE MCDelivery -----------------------------
(* A small instance of webhook acceptance and retention *)
EXTENDS Delivery, TLC

CONSTANTS hookA, hookB, event, empty, ping, m1, m2, m3, sw1, sw2

MCEndpointOf == [s \in Source |-> "agent"]
MCBytesOf == [b \in Body |-> CASE b = ping -> 1 [] b = event -> 2 [] b = empty -> 0]
MCRankOf == [i \in Id |-> CASE i = m1 -> 1 [] i = m2 -> 2 [] i = m3 -> 3]

\* One sender repeats an event and reuses its id for a ping, another triggers the
\* same endpoint without a body
MCDeliveries ==
  {[src |-> hookA, body |-> event], [src |-> hookA, body |-> ping],
   [src |-> hookB, body |-> empty]}

=============================================================================
