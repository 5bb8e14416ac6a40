------------------------------ MODULE MCWsPair ------------------------------
(* Model-checking instance of WsPair: end 0 does most of the sending and end *)
(* 1 all of the receiving, so the queue, both parked slots and the watchdogs *)
(* of one direction are all exercised, with a send of end 1 in the other     *)
(* direction to meet its receives at the close.                              *)
EXTENDS WsPair

MCSendBudget == [e \in Ends |-> IF e = 0 THEN 3 ELSE 1]
MCReceiveBudget == [e \in Ends |-> IF e = 0 THEN 0 ELSE 2]

\* Duplex with the message set TLC can enumerate.
MCChannel == INSTANCE Duplex WITH
    Bound <- Depth, Messages <- 1 .. 3,
    transit <- queues, taken <- delivered, ended <- closed

\* The pair implements the bounded duplex channel of Duplex: queues, handovers
\* to parked receives and absorbed parked sends are its steps, and nothing
\* enters after the close.
ImplementsDuplex == MCChannel!DSpec
=============================================================================
