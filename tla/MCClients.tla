----------------------------- MODULE MCClients -----------------------------
(***************************************************************************)
(* Small instances of Clients for TLC: two clients, a ringbuffer each.     *)
(***************************************************************************)
EXTENDS Clients, TLC

CONSTANTS c1, c2, r1, r2

TwoClients == {c1, c2}
TwoRings == {r1, r2}
OneRing == {r1}
OneEach == (r1 :> c1) @@ (r2 :> c2)
OfFirst == [r \in OneRing |-> c1]
NoClients == {}
=============================================================================
