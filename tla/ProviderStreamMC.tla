--------------------------- MODULE ProviderStreamMC ---------------------------
(* Small instances of ProviderStream for TLC.                                *)
EXTENDS ProviderStream

Block(kind, pieces) == [kind |-> kind, pieces |-> pieces]
MCReplies ==
    {Wire(<<Block("thinking", <<"think">>), Block("text", <<"wide">>)>>, "stop"),
     Wire(<<Block("other", <<>>), Block("tool", <<"js", "on">>)>>, "toolUse"),
     Wire(<<Block("redacted", <<>>)>>, "error"),
     Wire(<<>>, "unheard of"),
     <<[type |-> "message_start"], [type |-> "error"]>>}

ProviderSpec == ProviderInit /\ [][ProviderNext]_providerVars
=============================================================================
