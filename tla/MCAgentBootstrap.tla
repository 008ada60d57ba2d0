--------------------------- MODULE MCAgentBootstrap ---------------------------
(* TLC instances of AgentBootstrap.                                         *)
EXTENDS AgentBootstrap

CONSTANTS p1, p2, session, script

Theirs1 == Hook("lint", "theirs")

(* Nothing; an older layout with a hook of another in the same entry and an *)
(* entry of others behind it; hooks of others only.                         *)
MCGiven ==
    {[mcp |-> Empty("mcp"), settings |-> NoSettings],
     [mcp |-> [ours |-> "before", others |-> Foreign],
      settings |-> [NoSettings EXCEPT
        !.Stop = <<[matcher |-> "", hooks |-> <<Hook("drain", "before"), Theirs1>>],
                   [matcher |-> "m", hooks |-> <<Theirs1, Hook("stop", "before")>>],
                   [matcher |-> "", hooks |-> <<Hook("drain", "now")>>]>>,
        !.PostToolUse = <<[matcher |-> "Edit", hooks |-> <<Theirs1>>]>>]]}

\* Before and behind all that is there.
MCPlaces == {-1, 4}

\* A session is in one project, the script goes through all.
MCRoute == [w \in Writers |-> IF w = script THEN <<p1, p2>> ELSE <<p1>>]
=============================================================================
