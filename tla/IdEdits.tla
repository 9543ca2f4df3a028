------------------------------ MODULE IdEdits -------------------------------
(***************************************************************************)
(* Where an `ID:` goes in a Python file and the edits that put it there    *)
(* (edit.rs), which defs there are (defs.rs) and which have a key          *)
(* (scan.rs).                                                              *)
(*                                                                         *)
(* A text is a sequence of tokens, an offset the index of one.  Tokens     *)
(* stand for what these files tell apart: a newline, a unit of             *)
(* indentation, a quote, a header up to its colon, a statement, a word.    *)
(* The first part reads a text as Python does; the parser is ruff's.       *)
(*                                                                         *)
(* A definition called Mutant_X is X with one plausible slip in it.  No    *)
(* other definition uses it.                                               *)
(***************************************************************************)
EXTENDS Integers, Sequences, SequencesExt, FiniteSetsExt

CONSTANT Uuids   \* the ids Uuid::new_v4 mints, in order

Newline == {"lf", "crlf", "cr"}
Indent == {"ws", "tab"}           \* four spaces, a tab
Blank == Newline \cup Indent \cup {"sp"}
Quote == {"tq", "sq"}             \* three quotes, one
Header == {"def", "if"}           \* `def f(...):` or `class C:`; any other block

-----------------------------------------------------------------------------
(* The literal open after each of the first i - 1 tokens, "none" or "bad". *)
Opens(t) ==
    FoldLeft(LAMBDA os, tok :
                Append(os, IF Last(os) = "none" /\ tok \in Quote THEN tok
                           ELSE IF Last(os) = tok THEN "none"
                           ELSE IF Last(os) = "sq" /\ tok \in Newline THEN "bad"
                           ELSE Last(os)),
             <<"none">>, t)

Continued(t, i) == t[i] \in Newline /\ i > 1 /\ t[i - 1] = "continue"
LineEnds(t, os) == {i \in DOMAIN t : t[i] \in Newline /\ os[i] = "none" /\ ~Continued(t, i)}

(* The first token of each logical line that is not blank.                 *)
Heads(t, ends) ==
    SelectSeq([i \in DOMAIN t |-> i], LAMBDA i :
        /\ t[i] \notin Indent \cup Newline
        /\ \E s \in 1..i : (s = 1 \/ s - 1 \in ends) /\ \A j \in s..(i - 1) : t[j] \in Indent)

(* The tokens of indentation before a head.                                *)
IndentOf(t, h) ==
    SubSeq(t, 1 + Max({0} \cup {i \in 1..(h - 1) : t[i] \notin Indent}), h - 1)

(* The statement on a header's own line; its newline, if there is none.    *)
AfterColon(t, h) ==
    Min({j \in (h + 1)..Len(t) : /\ t[j] \notin Indent \cup {"sp", "continue"}
                                 /\ ~Continued(t, j)})
HasInline(t, h) == t[h] \in Header /\ t[AfterColon(t, h)] \notin Newline

(* Indentation, line by line: a stack of what is open, the level of each   *)
(* line, and whether the line was where it may be.                         *)
Indented(a, tok, block, ind) ==
    LET opened == a.opens /\ IsStrictPrefix(Last(a.stack), ind)
        stack == IF opened THEN Append(a.stack, ind)
                 ELSE SelectSeq(a.stack, LAMBDA s : IsPrefix(s, ind)) IN
    [stack |-> stack,
     levels |-> Append(a.levels, Len(stack)),
     opens |-> block,
     decorated |-> tok = "at",
     ok |-> /\ a.ok /\ (a.opens <=> opened) /\ Last(stack) = ind
            /\ a.decorated => tok \in {"at", "def"} /\ stack = a.stack]
Layout(t, heads) ==
    FoldLeft(LAMBDA a, h : Indented(a, t[h], t[h] \in Header /\ ~HasInline(t, h), IndentOf(t, h)),
             [stack |-> <<<<>>>>, levels |-> <<>>, opens |-> FALSE, decorated |-> FALSE,
              ok |-> TRUE], heads)

(* The statements other than docstrings, each at its level.                *)
Shape(t, heads, levels) ==
    LET at(i, h) ==
            (IF t[h] \in Quote THEN <<>> ELSE <<<<t[h], levels[i]>>>>) \o
            (IF HasInline(t, h) /\ t[AfterColon(t, h)] \notin Quote
             THEN <<<<t[AfterColon(t, h)], levels[i] + 1>>>> ELSE <<>>)
    IN FlattenSeq([i \in DOMAIN heads |-> at(i, heads[i])])

-----------------------------------------------------------------------------
(* extract_metadata on the words of a docstring: the last `ID: value`      *)
(* whose value has no colon; no set element when there is none.            *)
Colon == {"ID:", "w:"}
Mutant_KeyOf(words) == {words[i + 1] : i \in {i \in 1..(Len(words) - 1) : words[i] = "ID:"}}
KeyOf(words) ==
    LET at == {i \in 1..(Len(words) - 1) : words[i] = "ID:" /\ words[i + 1] \notin Colon}
    IN {words[i + 1] : i \in {i \in at : i = Max(at)}}

(* DefScanner: every def, whatever block it is in, in source order, with   *)
(* what doc_slot reads of its body.  A decorated def starts at its first   *)
(* decorator.                                                              *)
DocOf(t, ends, body) ==
    IF t[body] \in Quote THEN body..(Min({j \in ends : j >= body}) - 1) ELSE {}
Def(t, os, start, body, doc) ==
    [start |-> start, body |-> body,
     closers |-> {j \in doc : t[j] \in Quote /\ os[j + 1] = "none"},
     key |-> KeyOf(SelectSeq(SubSeq(t, body, body - 1 + Cardinality(doc)),
                             LAMBDA w : w \notin Blank \cup Quote))]
Defs(t, os, ends, heads) ==
    LET start(i) == heads[Min({k \in 1..i : \A j \in k..(i - 1) : t[heads[j]] = "at"})]
        body(i) == IF HasInline(t, heads[i]) THEN AfterColon(t, heads[i]) ELSE heads[i + 1]
        def(i, b) == Def(t, os, start(i), b, DocOf(t, ends, b))
        isDef == SelectSeq([i \in DOMAIN heads |-> i], LAMBDA i : t[heads[i]] = "def")
    IN [n \in DOMAIN isDef |-> def(isDef[n], body(isDef[n]))]

-----------------------------------------------------------------------------
(* A text as the database has it: whether module.errors() is empty, the    *)
(* statements, and the defs of a text that parses.                         *)
Parsed(t, os, ends, heads, layout, ok) ==
    [text |-> t, parses |-> ok, shape |-> Shape(t, heads, layout.levels),
     defs |-> IF ok THEN Defs(t, os, ends, heads) ELSE <<>>]
Parses(os, layout) ==
    layout.ok /\ ~layout.opens /\ ~layout.decorated /\ Last(os) = "none"
ParsedLines(t, os, ends, heads, layout) ==
    Parsed(t, os, ends, heads, layout, Parses(os, layout))
ParsedHeads(t, os, ends, heads) == ParsedLines(t, os, ends, heads, Layout(t, heads))
ParsedTokens(t, os, ends) == ParsedHeads(t, os, ends, Heads(t, ends))
ParsedText(t, os) == ParsedTokens(t, os, LineEnds(t, os))
Read(t) == ParsedText(t, Opens(t))

(* The keys of a text's defs: what `definitions` is asked for.             *)
Keys(defs) == [i \in DOMAIN defs |-> defs[i].key]

-----------------------------------------------------------------------------
(* line_prefix: what stands before an offset on its line.                  *)
Prefix(t, at) ==
    SubSeq(t, 1 + Max({0} \cup {i \in 1..(at - 1) : t[i] \in {"lf", "crlf"}}), at - 1)
StartsLine(t, at) == Range(Prefix(t, at)) \subseteq Indent \cup {"sp"}

Mutant_OneLinerIndent(t, def) == <<"ws">>
OneLinerIndent(t, def) ==
    (IF StartsLine(t, def.start) THEN Prefix(t, def.start) ELSE <<>>) \o <<"ws">>

(* doc_slot: before the closing quotes of the LAST literal.                *)
Closer(def) == Max(def.closers)

Mutant_Backed(t, at) == at
Backed(t, at) == at - Len(Prefix(t, at))

Key(u) == <<"ID:", "sp", u>>

(* id_edit, with the white space before the body and whether the body     *)
(* starts its line.                                                        *)
Extended(t, at, own, ind, u, nl) ==
    CASE ~own \/ t[at] # "tq" -> [at |-> at, text |-> <<"sp">> \o Key(u)]
      [] own /\ t[at] = "tq" /\ StartsLine(t, at) ->
            [at |-> Backed(t, at), text |-> <<nl>> \o ind \o Key(u) \o <<nl>>]
      [] OTHER -> [at |-> at, text |-> <<nl, nl>> \o ind \o Key(u) \o <<nl>> \o ind]
Prepended(at, own, ind, u, nl) ==
    [at |-> at,
     text |-> (IF own THEN <<>> ELSE <<nl>> \o ind)
              \o <<"tq">> \o Key(u) \o <<"tq", nl>> \o ind]
IdEditAt(t, def, own, ind, u, nl) ==
    IF def.closers # {} THEN Extended(t, Closer(def), own, ind, u, nl)
    ELSE Prepended(def.body, own, ind, u, nl)
BodyIndent(t, def, own) == IF own THEN Prefix(t, def.body) ELSE OneLinerIndent(t, def)
IdEditIn(t, def, own, u, nl) == IdEditAt(t, def, own, BodyIndent(t, def, own), u, nl)
IdEdit(t, def, u, nl) == IdEditIn(t, def, StartsLine(t, def.body), u, nl)

(* find_newline: the ending of the first line.                             *)
LineEnding(t) ==
    LET ends == {i \in DOMAIN t : t[i] \in Newline}
    IN IF ends = {} THEN "lf" ELSE t[Min(ends)]

(* plan_ids: an edit for each def with no key, the n-th id minted first.   *)
PlanFor(t, unkeyed, n, nl) ==
    [i \in DOMAIN unkeyed |-> IdEdit(t, unkeyed[i], Uuids[n + i], nl)]
PlanIds(src, n) ==
    PlanFor(src.text, SelectSeq(src.defs, LAMBDA def : def.key = {}), n, LineEnding(src.text))

(* apply: from the last offset to the first.                               *)
Mutant_Before(e, f) == e.at < f.at
Before(e, f) == e.at > f.at
Apply(t, edits) ==
    FoldLeft(LAMBDA out, e :
                SubSeq(out, 1, e.at - 1) \o e.text \o SubSeq(out, e.at, Len(out)),
             t, SortSeq(edits, Before))

=============================================================================
