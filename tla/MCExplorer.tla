---------------------------- MODULE MCExplorer ----------------------------
EXTENDS Explorer

\* One root with a folder and a file in it, one with nothing.
SmallDisk == {<<"r1", "d">>, <<"r1", "d", "f">>}

FirstRoot == <<"r1">>

\* An agent works in the first one.
AgentPaths == {<<"r1", "d">>, <<"r1", "f">>}

=============================================================================
