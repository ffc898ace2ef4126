--------------------------- MODULE MCEmbeddedRoom ---------------------------
(* EmbeddedRoom with one participant of each kind of runtime.                 *)
EXTENDS EmbeddedRoom

\* A message to a runtime that does not steer is sent to the queue.
Sendable == {i \in Slots \X BOOLEAN : i[2] => i[1] \in Steering}
=============================================================================
