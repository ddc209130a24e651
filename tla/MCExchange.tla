------------------------------ MODULE MCExchange ------------------------------
(* Instances of Exchange for TLC. *)
EXTENDS Exchange

MCSize == [r \in Stored |-> IF r = "long" THEN 2 ELSE 1]

\* Two fetches on the first connection, one on the second.
MCMaxFetches == [c \in Clients |-> IF c = 1 THEN 2 ELSE 1]
=============================================================================
