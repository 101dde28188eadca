---------------------------- MODULE MCStackDepth ----------------------------
(* A thread, two helpers and three handlers, each with a frame of its own. *)
EXTENDS StackDepth

\* A call that could not be followed is made, if at all, from one helper; one
\* handler calls nothing.
Graphs == {e \in [Functions -> SUBSET (Helpers \cup {Unfollowed})] :
             \A f \in Functions \ {"f"} : Unfollowed \notin e[f] /\ e["k"] = {}}

Bytes == [f \in Functions \cup {Unfollowed} |->
            CASE f = Main -> 1 [] f = "f" -> 2 [] f = "g" -> 4
              [] f = "i" -> 8 [] f = "j" -> 16 [] f = "k" -> 32 [] OTHER -> 64]
=============================================================================
