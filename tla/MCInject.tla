------------------------------ MODULE MCInject ------------------------------
(* The files for the runs of Inject.                                       *)
EXTENDS Inject

CONSTANTS u1, u2, u3, u4, u5, u6
SixIds == <<u1, u2, u3, u4, u5, u6>>

(* A file is written from a list of items, each at its level: a def with   *)
(* or without a docstring and decorator, on one line or not, a block, or   *)
(* a statement.                                                            *)
Times(n, tok) == [i \in 1..n |-> tok]
Literal(kind, words, nl, ind) ==
    CASE kind = "none"   -> <<>>
      [] kind = "triple" -> <<"tq">> \o words \o <<"tq">>
      [] kind = "owned"  -> <<"tq">> \o words \o <<nl>> \o ind \o <<"tq">>
      [] kind = "single" -> <<"sq">> \o words \o <<"sq">>
      [] kind = "concat" -> <<"tq">> \o words \o <<"tq", "sp", "sq", "sp", "w", "sq">>
Line(item, level, nl, tab) ==
    LET ind == Times(level, tab)
        doc == Literal(item.doc, item.words, nl, ind \o <<tab>>) IN
    (IF item.decorated THEN ind \o <<"at", nl>> ELSE <<>>) \o ind \o
    (CASE item.kind = "stmt" -> <<"stmt", nl>>
       [] item.kind = "if" -> <<"if", nl>>
       [] item.kind = "def" -> <<"def", nl>> \o
              (IF doc = <<>> THEN <<>> ELSE ind \o <<tab>> \o doc \o <<nl>>)
       [] item.kind = "one-liner" -> <<"def", "sp">> \o
              (IF doc = <<>> THEN <<"stmt">> ELSE doc) \o <<nl>>
       [] item.kind = "continued" -> <<"def", "sp", "continue", nl>> \o ind \o <<tab>> \o
              (IF doc = <<>> THEN <<"stmt">> ELSE doc) \o <<nl>>)
Written(items, levels, nl, tab) ==
    FlattenSeq([i \in DOMAIN items |-> Line(items[i], levels[i], nl, tab)])

Item(kind, doc, words) ==
    [kind |-> kind, doc |-> doc, words |-> words, decorated |-> FALSE]
Other(kind) == Item(kind, "none", <<>>)

Items == {Item("def", d, <<"w">>) : d \in {"none", "triple", "owned", "single", "concat"}}
         \cup {Item("one-liner", d, <<"w">>) : d \in {"none", "triple", "single"}}
         \cup {Item("continued", "triple", <<"w">>)}
         \cup {Item("def", "triple", w) : w \in {<<"w:">>, <<"w", "sp", "ID:">>,
                                               <<"ID:", "sp", "k">>,
                                               <<"ID:", "sp", "w:">>}}
         \cup {[Item("def", "none", <<>>) EXCEPT !.decorated = TRUE],
               [Item("one-liner", "none", <<>>) EXCEPT !.decorated = TRUE]}
         \cup {Other("stmt"), Other("if")}
Few == {Item("def", d, <<"w">>) : d \in {"none", "owned"}}
       \cup {Item("one-liner", "none", <<>>), Other("stmt")}

Levels(n) == {l \in [1..n -> 0..2] : l[1] = 0 /\ \A i \in 2..n : l[i] <= l[i - 1] + 1}
TextsOf(items, n, nls, tabs) ==
    {t \in {Written(is, l, nl, tab) :
               is \in [1..n -> items], l \in Levels(n), nl \in nls, tab \in tabs} : Read(t).parses}

Nest(kinds, nl) == Written([i \in DOMAIN kinds |-> Other(kinds[i])], [i \in DOMAIN kinds |-> i - 1],
                           nl, "ws")
Mixed == Few
         \cup {Item("def", "concat", <<"w">>), Item("one-liner", "single", <<"w", "sp", "ID:">>),
               [Item("one-liner", "none", <<>>) EXCEPT !.decorated = TRUE]}

(* The files a run is started on, and what an editor may save.             *)
CONSTANTS Started, Editor
TextsFor(which) ==
    CASE which = "keys"      -> TextsOf(Items, 1, {"lf", "crlf"}, {"ws", "tab"})
                                \cup TextsOf(Items, 2, {"lf", "crlf"}, {"ws", "tab"})
                                \cup TextsOf(Mixed, 3, {"crlf"}, {"tab"})
                                \cup {Nest(<<"def">>, "lf"), <<"sq", "w", "lf">>}
      [] which = "two"       -> {Nest(<<"def", "one-liner">>, "lf"),
                                 <<"stmt", "lf">> \o Nest(<<"def", "stmt">>, "lf")}
      [] which = "saved"     -> {Nest(<<"def", "one-liner">>, "lf"), Nest(<<"def">>, "lf")}
      [] which = "oldmac"    -> TextsOf({Other("def"), Other("one-liner"), Other("stmt")}, 3,
                                        {"cr"}, {"ws"})
      [] which = "none"      -> {}
StartedTexts == TextsFor(Started)
EditorTexts == TextsFor(Editor)
One == {1}
Two == {1, 2}
=============================================================================
