-------------------------- MODULE MCCanController --------------------------
(* Small instances of CanController for TLC; the .cfg files choose among   *)
(* these values.                                                           *)
EXTENDS CanController

\* Identifiers: SELF_CAN_ID and another one.
MCIds  == {"self", "other"}
MCData == {"d1", "d2"}

Std(i, d) == [ext |-> FALSE, id |-> i, data |-> d]
Ext(i, d) == [ext |-> TRUE, id |-> i, data |-> d]

NoFrames   == {}
NoRequests == {}
\* Two responses to the firmware and a frame no filter accepts.
Responses  == {Std("self", "d1"), Std("self", "d2"), Std("other", "d1")}
\* Standard and extended frames for both FIFOs.
FifoFrames == {Std("self", "d1"), Ext("self", "d1")}

\* ss1_receive_can_response: SELF_CAN_ID into Rx buffer 2, filter 0.
Response == {[ext |-> FALSE, slot |-> 0,
              filter |-> [dest |-> "buffer", id |-> "self", arg |-> 2]]}
\* The FIFO filters of the example can_controller.h was made from.
Fifo0    == {[ext |-> FALSE, slot |-> 1,
              filter |-> [dest |-> "fifo", id |-> "self", arg |-> Exact]]}
Fifo1    == {[ext |-> TRUE, slot |-> 1,
              filter |-> [dest |-> "fifo", id |-> "self", arg |-> Exact]]}
BothFifos == Fifo0 \cup Fifo1

=============================================================================
