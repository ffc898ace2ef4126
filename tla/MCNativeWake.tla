----------------------------- MODULE MCNativeWake -----------------------------
(* One slot, whose sessions run Claude or Codex, for TLC. *)
EXTENDS NativeWake

OneSlot == {1}
Runtimes == {"handoff", "turnend", "none"}
=============================================================================
