-------------------------- MODULE MCBencodeDecoder --------------------------
(* Every string of up to four of the tokens, and every dictionary of up to  *)
(* four keys and values, with repeated, unsorted and ill-typed keys.        *)
EXTENDS BencodeGrammar

Tokens == {<<"i">>, <<"e">>, <<"l">>, <<"d">>, <<"-">>, <<"+">>, <<":">>, <<"0">>,
           <<"1">>, <<"1", ":">>, <<"9">>, <<"a">>}
Parts  == {<<"0", ":">>, <<"1", ":", "a">>, <<"1", ":", "i">>, <<"i", "1", "e">>,
           <<"l", "e">>, <<"d", "e">>}

Strings(parts, n) == {FlattenSeq(t) : t \in UNION {[1 .. m -> parts] : m \in 0 .. n}}

MCInputs ==
    Strings(Tokens, 4)
      \cup {<<"d">> \o s \o <<"e">> : s \in Strings(Parts, 4)}
      \cup {<<"l", "i">> \o s \o <<"e", "e">> : s \in Strings({<<"+">>, <<"-">>, <<"1">>, <<"9">>, <<"0">>}, 3)}
=============================================================================
