------------------------------ MODULE MCLoader ------------------------------
(* A screen of two or three lines, files of a few units, words of four bits. *)
EXTENDS Loader

MCGlyphWidth == [ch \in {"0", "1", "2", "3", "4", "5", "6", "7", "a", "-", "W"} |->
                   IF ch = "W" THEN 2 ELSE 1]
Plain(conv) == Conv(conv, {}, None, None, "")
Text(chars) == [fmt |-> [i \in DOMAIN chars |-> Lit(chars[i])], args |-> <<>>]
MCMessages ==
    << Text(<<"W", "a", NL>>),
       Text(<<"a", NL, NL, "W", TAB, "0">>),
       [fmt |-> <<Plain("d"), Lit(NL)>>, args |-> <<5>>],
       [fmt |-> <<Conv("s", {}, Star, Star, ""), Conv("c", {"LEFT"}, 2, None, "")>>,
        args |-> <<-3, 2, [null |-> FALSE, text |-> <<"W", "a", "a">>], "W">>],
       [fmt |-> <<Plain("@"), Plain("!")>>, args |-> <<<<1, 0, 2, 3>>, <<0, 1, 2, 3, 4, 5>>>>],
       [fmt |-> <<Plain("p"), Plain("%"), Conv("s", {}, 3, None, "")>>,
        args |-> <<7, [null |-> TRUE, text |-> <<>>]>>] >>
MCNotice == <<"1", "a", NL>>

MCFlags == {"LEFT", "ZEROPAD", "PLUS", "SPACE", "SPECIAL"}
MCConversions ==
    [d : {Conv(c, f, w, p, q) : c \in {"d", "u", "o", "x", "X"}, f \in SUBSET MCFlags,
                                w \in {None, 4}, p \in {None, 3}, q \in {"", "h"}},
     arg : -8 .. 15]

Videos == {[width |-> 3, height |-> 2, rowb |-> 4, addr |-> a] : a \in {1, 7, 8, 15}}
Heap == InitrdStart + 1 .. Top
MCSetups ==
    {s \in [k : Heap, k_len : {2, 5}, r : {0} \cup Heap, r_len : 0 .. 2, stack : {InitrdStart + 1, Top}, setup_sects : {0},
            signature : {TRUE}, o : {<<"a">>}, video : {CHOOSE v \in Videos : v.addr = 8}] : Placed(s)}
    \cup {s \in [k : {InitrdStart + 1}, k_len : {4}, r : {0}, r_len : {1}, stack : {Top}, setup_sects : {1},
                 signature : {TRUE}, o : {<<>>, <<"a", "0">>}, video : Videos] : Placed(s)}
    \cup {[k |-> InitrdStart + 1, k_len |-> 2, r |-> 0, r_len |-> 0, stack |-> Top, setup_sects |-> 0,
           signature |-> FALSE, o |-> <<>>, video |-> CHOOSE v \in Videos : TRUE]}
=============================================================================
