----------------------------- MODULE MCResident -----------------------------
(* The resident and its address for TLC. They share no variable: a behaviour *)
(* explores the inside of one server, or the address of many, so that their  *)
(* states add up instead of multiplying.                                     *)
EXTENDS Resident, Endpoint, TLC

VARIABLE side       \* which of the two this behaviour is about

all == <<vars, endpoint, side>>

ServerInit == Init /\ AddressInit /\ side \in {"server", "address"}

ServerNext ==
    /\ \/ side = "server" /\ Next /\ UNCHANGED endpoint
       \/ side = "address" /\ AddressNext /\ UNCHANGED vars
    /\ UNCHANGED side

ServerSpec == ServerInit /\ [][ServerNext]_all
ServerFairSpec == ServerSpec /\ Fairness /\ AddressFairness

Symmetry == Permutations(Readers) \cup Permutations(Engines) \cup Permutations(Installers)
=============================================================================
