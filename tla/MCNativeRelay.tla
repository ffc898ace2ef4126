---------------------------- MODULE MCNativeRelay ----------------------------
(* Small Rooms for TLC: bind attempts b1 and b3 come from one session, b2 from *)
(* another, so that a session can rebind and can try to hold both slots.       *)
EXTENDS NativeRelay

CONSTANTS b1, b2, b3, c1, c2

OneBind == {b1}
TwoBinds == {b1, b2}
ThreeBinds == {b1, b2, b3}
OneCollector == {c1}
TwoCollectors == {c1, c2}
Sessions(B) == [b \in B |-> IF b = b2 THEN "second" ELSE "first"]
SessionsOfOne == Sessions(OneBind)
SessionsOfTwo == Sessions(TwoBinds)
SessionsOfThree == Sessions(ThreeBinds)
=============================================================================
