-------------------------- MODULE CanonicalHistory -------------------------
(***************************************************************************)
(* What the service promises of a canonical store, without handles,        *)
(* leases, receipts or acknowledgements: the stored states form one        *)
(* append-only history that starts with the genesis tree, and each later   *)
(* state is its predecessor, as read back, with one admissible transaction *)
(* applied.  What a tree is, how it is written and read, which             *)
(* transactions are admissible on it and what they do are parameters.      *)
(***************************************************************************)
EXTENDS Sequences

CONSTANTS Actors, Requests,
          GenesisTree,
          Written(_),         \* the bytes of a tree
          ReadBack(_),        \* the tree of some bytes
          Gates(_, _, _, _),  \* tree, request, actor, root principal: "None" admits
          Applied(_, _)       \* the tree after a request

VARIABLE log   \* the stored bytes, oldest first

Start == log = <<>>

Genesis ==
    /\ log = <<>>
    /\ log' = <<Written(GenesisTree)>>

Advance(request, actor) ==
    /\ log # <<>>
    /\ LET tree == ReadBack(log[Len(log)])
       IN  /\ Gates(tree, request, actor, tree.rootPrincipal) = "None"
           /\ log' = Append(log, Written(Applied(tree, request)))

Step == /\ log' # log
        /\ Genesis \/ \E request \in Requests, actor \in Actors : Advance(request, actor)

History == Start /\ [][Step]_log
=============================================================================
