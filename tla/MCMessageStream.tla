---------------------------- MODULE MCMessageStream ----------------------------
(* TLC instances of MessageStream: two-character tags, tokens that hold a     *)
(* whole tag, a part of one, or half a character.                             *)
EXTENDS MessageStream

MCChar == {"<", "t", ">", "k", "a", "s", " ", "h", "i"}
MCToolOpen == <<"<", "t">>
MCToolClose == <<"t", ">">>
MCThinkOpen == <<"<", "k">>
MCThinkClose == <<"k", ">">>
MCSplit == <<"h", "i">>
MCCalls == {<<"a">>}
MCStops == <<<<"a", "a">>, <<"s">>>>
MCNoStops == <<>>
MCPieces == {<<"<">>, <<"<", "t">>, <<"t", ">">>, <<"<", "k">>, <<"k", ">">>,
            <<"a">>, <<" ">>, <<"a", "s">>}
MCSplitPieces == {<<"h">>, <<"i">>, <<"a">>}
===============================================================================
