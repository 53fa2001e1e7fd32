----------------------------- MODULE FileIndex -----------------------------
(***************************************************************************)
(* What the index promises to a search, whatever the processes that write  *)
(* it are doing: of each file it holds either one complete version or      *)
(* nothing, and it goes from one such state to another a file at a time    *)
(* (or loses everything at once, when a full reindex begins).  A search    *)
(* never sees a file half replaced, nor the chunks of two versions side    *)
(* by side.                                                                *)
(***************************************************************************)
CONSTANTS
  Files,
  Versions   \* file |-> its complete versions, each the set of its texts

VARIABLE idx \* file |-> the texts of it that a search can return

Nothing == {}

Init ==
  /\ idx = [f \in Files |-> idx[f]]
  /\ \A f \in Files : idx[f] \in Versions[f] \union {Nothing}

Publish(f) == \E v \in Versions[f] : idx' = [idx EXCEPT ![f] = v]

Drop(f) == idx' = [idx EXCEPT ![f] = Nothing]

Clear == idx' = [f \in Files |-> Nothing]

Next == Clear \/ \E f \in Files : Publish(f) \/ Drop(f)

Spec == Init /\ [][Next]_idx
=============================================================================
