------------------------- MODULE PublicationBarrier --------------------------
(***************************************************************************)
(* What a commit promises an agent, without engines, tokens or renderers.  *)
(*                                                                         *)
(* Mutations are numbered. A frame shows the effect of every mutation up   *)
(* to some number. A commit waits until a frame that includes everything   *)
(* up to and including it has been shown, and is then acknowledged, once   *)
(* and in commit order; the commits waiting together are acknowledged      *)
(* together.                                                               *)
(***************************************************************************)
EXTENDS Naturals, Sequences

VARIABLES
  applied,    \* number of the last mutation applied
  visible,    \* number of the last mutation some frame has shown
  waiting,    \* numbers of the commits not acknowledged yet
  acked       \* numbers of the commits acknowledged, in order

barrierVars == <<applied, visible, waiting, acked>>

Init ==
  /\ applied = 0 /\ visible = 0
  /\ waiting = <<>> /\ acked = <<>>

Mutate ==
  /\ applied' \in Nat /\ applied' > applied
  /\ UNCHANGED <<visible, waiting, acked>>

Commit ==
  /\ applied' \in Nat /\ applied' > applied
  /\ waiting' = Append(waiting, applied')
  /\ UNCHANGED <<visible, acked>>

Show ==
  /\ visible' \in visible..applied
  /\ UNCHANGED <<applied, waiting, acked>>

Acknowledge ==
  /\ \A i \in 1..Len(waiting) : waiting[i] <= visible
  /\ acked' = acked \o waiting
  /\ waiting' = <<>>
  /\ UNCHANGED <<applied, visible>>

Next == Mutate \/ Commit \/ Show \/ Acknowledge

Spec == Init /\ [][Next]_barrierVars

==============================================================================
