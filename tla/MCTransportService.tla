------------------------- MODULE MCTransportService -------------------------
(* TransportService for TLC: two clients whose credentials the policy tells *)
(* apart, and more process slots than descriptors, so that both can run out. *)
EXTENDS TransportService, TLC

CONSTANTS c1, c2

MCClients == {c1, c2}

MCOneClient == {c1}

\* c1's own certificate grants its request; nothing grants c2's.
MCGrants == {<<c1, c1>>}

\* c2's request is granted by the certificate c1 brings.
MCCrossGrants == {<<c1, c1>>, <<c2, c1>>}

\* Every credential from either client.
MCAllMessages == [c \in Clients |-> Credentials]

\* Every credential is sent by one of the clients, and both may get as far as
\* the binder file.
MCFirstMessages ==
  [c \in Clients |-> IF c = c1 THEN {"endless", "unverified", "keyless"}
                              ELSE {"garbage", "verified"}]

Slots == Permutations(Procs)

=============================================================================
