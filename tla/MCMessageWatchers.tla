-------------------------- MODULE MCMessageWatchers --------------------------
(* Instances of MessageWatchers: neither a call of await_message nor a     *)
(* message is told apart from another by more than its arguments.          *)
EXTENDS MessageWatchers, TLC

Symmetry == Permutations(Watcher) \cup Permutations(Message)
=============================================================================
