----------------------------- MODULE MCThreads -----------------------------
(***************************************************************************)
(* Small instances of Threads for TLC: a client with two threads, and the  *)
(* callback of another client, which signals them too.                     *)
(***************************************************************************)
EXTENDS Threads, TLC

CONSTANTS c1, c2, t1, t2

TwoClients == {c1, c2}
TwoThreads == {t1, t2}
OfClient == [t \in Threads |-> c1]
Processes == {c1, c2}
FirstProcess == {c1}
=============================================================================
