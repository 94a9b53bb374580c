---------------------------- MODULE MCTunSession ----------------------------
(* Destinations and payloads that resemble each other, for TLC. *)
EXTENDS TunSession

\* IPv6 addresses that start like a header, and one of zeros.
MCAddrs ==
    {<<10, 0, 0, 1>>, <<4, 6, 17, 255>>,
     [i \in 1..16 |-> 0], [i \in 1..16 |-> IF i % 2 = 1 THEN 6 ELSE 17]}

MCMetadatas ==
    {[IPVersion |-> IF Len(a) = 4 THEN 4 ELSE 6, Network |-> n, DstIP |-> a,
      DstPort |-> p] : a \in MCAddrs, n \in {TCP, UDP}, p \in {0, 256, 65535}}

\* Of 30 bytes the server's buffer is filled by the second last in a first
\* message over IPv4 and cuts it over IPv6, and it cuts the last in any message.
MCPayloads ==
    {<<6>>, <<4, 6>>, [i \in 1..22 |-> i], [i \in 1..31 |-> IF i = 1 THEN 4 ELSE i]}
=============================================================================
