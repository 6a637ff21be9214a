----------------------------- MODULE MCCommands -----------------------------
(* Files made of entries before and after the info dictionary: a tracker, a *)
(* comment that contains the mark, a nested dictionary that has an info of  *)
(* its own, a second info; and of info dictionaries with lengths that are   *)
(* missing, negative, ill-typed or overflow, and too many or ragged hashes. *)
EXTENDS Commands, MetainfoHash

Key(k, v)   == <<"1", ":", k>> \o v
Dict(s)     == <<"d">> \o s \o <<"e">>
List(s)     == <<"l">> \o s \o <<"e">>
Num(digits) == <<"i">> \o digits \o <<"e">>
Str1(c)     == <<"1", ":", c>>

(* What a piece length and the hashes can be.                               *)
PieceFields ==
    {Key("p", Num(p)) \o Key("h", h) :
       p \in {<<"4">>, <<"0">>, <<"-", "1">>, <<"9", "8">>},
       h \in {<<"2", ":", "x", "x">>, <<"4", ":", "x", "x", "y", "y">>, <<"0", ":">>}}
      \cup {Key("p", Num(<<"4">>)) \o Key("h", Str1("x")), Key("h", <<"0", ":">>),
            Key("p", Num(<<"4">>)), <<>>}

FileEntry(z, q) == Dict(Key("z", z) \o Key("q", List(q)))
Big == Num(<<"9", "8">>)

FileLists ==
    {List(<<>>), Str1("x"), List(Str1("x")), List(Dict(Key("z", Num(<<"3">>)))),
     List(Dict(Key("q", List(<<>>)))),
     List(FileEntry(Num(<<"3">>), Str1("x")) \o FileEntry(Num(<<"4">>), Str1("<") \o Str1("y"))),
     List(FileEntry(Num(<<"3">>), <<>>) \o FileEntry(Num(<<"0">>), <<>>)),
     List(FileEntry(Big, <<>>) \o FileEntry(Big, <<>>)),
     List(FileEntry(Big, <<>>) \o FileEntry(Big, <<>>) \o FileEntry(Num(<<"5">>), <<>>)),
     List(FileEntry(Num(<<"-", "3">>), <<>>) \o FileEntry(Num(<<"7">>), <<>>) \o Str1("x")),
     List(FileEntry(Num(<<"-", "3">>), <<>>) \o FileEntry(Num(<<"7">>), <<>>))}

LengthFields ==
    {Key("z", z) : z \in {Num(<<"4">>), Num(<<"7">>), Num(<<"8">>), Num(<<"-", "1">>), Str1("x")}}
      \cup {Key("f", l) : l \in FileLists} \cup {<<>>}

Names == {Key("n", Str1("x")), Key("n", Str1("<")), <<>>}

Infos ==
    {Key("n", Str1("x")) \o s \o z : s \in PieceFields, z \in LengthFields}
      \cup {n \o Key("p", Num(<<"4">>)) \o Key("h", <<"0", ":">>) \o Key("z", Num(<<"0">>))
              : n \in Names}

Small == {Key("n", Str1("x")) \o Key("p", Num(<<"4">>)) \o Key("h", <<"2", ":", "x", "x">>)
            \o Key("z", Num(<<"4">>)), <<>>}
Info(s) == Key("I", Dict(s))

Before ==
    {<<>>, Key("c", <<"4", ":">> \o InfoMark), Key("c", <<"4", ":">> \o Str1("I")),
     Key("a", Dict(Info(<<>>))),
     Key("a", Dict(Key("I", Str1("x")))), Info(<<>>),
     Key("u", Str1("x")), Key("u", Str1("<")),
     Key("u", <<"5", ":", "x", "<", ">", "x", "x">>), Key("u", <<"5", ":", "<", ">", "<", ">", "x">>),
     Key("t", List(List(Str1("x") \o Str1("<")) \o Str1("x") \o List(<<>>))), Key("t", Str1("x"))}
After == {<<>>, Info(<<>>), Key("I", Str1("x")), Key("z", Dict(Info(<<>>))), Str1("x")}

MCFiles ==
    {Dict(Info(s)) : s \in Infos}
      \cup {Dict(b \o Info(s) \o a) : b \in Before, s \in Small, a \in After}
      \cup {Dict(b) : b \in Before} \cup {Dict(<<>>) \o <<"x">>, List(<<>>), <<"d">>}
MCLetters == {"u", "t", "I", "n", "p", "h", "z", "f", "q", "a", "c", "x", "y", "<", ">"}

(* Magnet URIs: hashes of two bytes with digits of either case, a plus, a   *)
(* character of two bytes at either offset, too short; texts with every     *)
(* way to encode them; repeated and missing parameters.                     *)
Xt(v) == [key |-> "xt", value |-> v]

Hashes == [1 .. 4 -> {49, 97, 70}]
            \cup {<<43, 49, 97, 98>>, <<97, 98, 43, 49>>, <<195, 169, 97, 98>>,
                  <<97, 195, 169, 98>>, <<49, 43, 97, 98>>, <<97, 98, 99>>, <<>>, <<103, 97, 97, 97>>}
Xts == {Xt(<<UrnBtih>> \o h) : h \in Hashes} \cup {Xt(<<>>), Xt(<<97, 49>>)}

Texts2  == {<<>>} \cup UNION {[1 .. n -> {Percent, PlusSign, Space, 52, 97}] : n \in 1 .. 2}
Coded(key) ==
    {[p |-> [key |-> key, value |-> e], m |-> {t}] : <<t, e>> \in
        UNION {{<<t, e>> : e \in EncodingsOf(t)} : t \in Texts2}}
      \cup {[p |-> [key |-> key, value |-> v], m |-> {}] :
              v \in {<<Percent>>, <<Percent, 52>>, <<Percent, Percent, 52>>, <<Percent, 103, 49>>}}

Good == Xt(<<UrnBtih, 49, 97, 70, 48>>)
Uri(ps, ms) == [magnet |-> TRUE, params |-> ps, meant |-> ms]

SomeTr == [p |-> [key |-> "tr", value |-> <<97>>], m |-> {<<97>>}]
SomeDn == [p |-> [key |-> "dn", value |-> <<52>>], m |-> {<<52>>}]

MCUris ==
    {Uri(<<x>>, <<{}>>) : x \in Xts} \cup {Uri(<<x, Good>>, <<{}, {}>>) : x \in Xts}
      \cup {Uri(<<Good, x>>, <<{}, {}>>) : x \in Xts}
      \cup {Uri(<<SomeTr.p, Good, c.p>>, <<SomeTr.m, {}, c.m>>) : c \in Coded("tr")}
      \cup {Uri(<<c.p, SomeDn.p, Good>>, <<c.m, SomeDn.m, {}>>) : c \in Coded("dn")}
      \cup {Uri(<<>>, <<>>), Uri(<<SomeDn.p>>, <<SomeDn.m>>),
            [magnet |-> FALSE, params |-> <<Good>>, meant |-> <<{}>>]}
=============================================================================
