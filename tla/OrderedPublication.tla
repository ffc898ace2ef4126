-------------------------- MODULE OrderedPublication --------------------------
(***************************************************************************)
(* What a binding promises about the replies of its session, with no       *)
(* journal, request or crash in sight: the replies are spoken one after    *)
(* the other, and the Room takes in some of them, each at most once and    *)
(* never one that was spoken before another it already has.                *)
(***************************************************************************)
EXTENDS Naturals, Sequences

VARIABLES spoken, taken   \* how many replies there were; those taken in
publication == <<spoken, taken>>

Init == spoken = 0 /\ taken = <<>>

Speak == spoken' = spoken + 1 /\ UNCHANGED taken

TakeIn(r) ==
  /\ \A i \in DOMAIN taken : taken[i] < r
  /\ taken' = Append(taken, r)
  /\ UNCHANGED spoken

Next == Speak \/ \E r \in 1..spoken : TakeIn(r)

Spec == Init /\ [][Next]_publication
=============================================================================
