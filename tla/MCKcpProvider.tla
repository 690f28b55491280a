----------------------------- MODULE MCKcpProvider -----------------------------
(* KcpProvider for TLC: a tree of three levels and two addresses of kcp. *)
EXTENDS KcpProvider

CONSTANTS s1, s2, none, c1, top, left, right, leaf

MCWorkspaces == {top, left, right, leaf}

MCChildren == [w \in MCWorkspaces |->
                 CASE w = top -> {left, right} [] w = left -> {leaf} [] OTHER -> {}]

Usable(s, w) == [kind |-> "usable", server |-> s, workspace |-> w, named |-> {w, right}]

Broken(kind) == [kind |-> kind, server |-> s2, workspace |-> top, named |-> {top}]

\* No list fails, or one does: within the tree below top, at the root of that
\* below left.
MCOutages == {{}, {left}}

MCFiles == {Usable(s1, top), Usable(s2, left)}
             \cup {Broken(k) : k \in {"contextless", "foreign", "unreadable"}}
=============================================================================
