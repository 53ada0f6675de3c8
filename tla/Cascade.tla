--------------------------------- MODULE Cascade ---------------------------------
(***************************************************************************)
(* parse_tcss, parse_inline_tcss and apply_styles                          *)
(* (oxiterm-renderer/src/parser/tcss.rs, ComputedStyle of oxiterm-proto).  *)
(*                                                                         *)
(* A declaration is read as [key, side, value]; side is "" unless the key  *)
(* is padding or margin, where it is "all" or one of the four.  A key "?"  *)
(* is text that is no declaration at all.  Values are numbers where the    *)
(* property takes a number, with NaN for text that is none, and words      *)
(* elsewhere; flex, justify-content and opacity are left out.              *)
(*                                                                         *)
(* Definitions called ...Mutant are no part of the specification: each is  *)
(* a plausible bug that the properties of this module must detect.         *)
(***************************************************************************)
EXTENDS Integers, Sequences, SequencesExt

Sides == {"top", "right", "bottom", "left"}
NaN == -2
None == -1
NoBorder == [on |-> FALSE, fg |-> "reset", chars |-> "single"]

\* A sequence, whatever its elements.
IsList(s) == Len(s) \in Nat /\ s = [i \in 1..Len(s) |-> s[i]]

\* ComputedStyle::default().
DefaultStyle ==
    [fg |-> "reset", bg |-> "reset", width |-> None, height |-> None,
     direction |-> "row", align |-> "stretch",
     padding |-> [s \in Sides |-> 0], margin |-> [s \in Sides |-> 0],
     border |-> NoBorder, wrap |-> "none", position |-> "static",
     top |-> None, left |-> None, z |-> 0, transition |-> << >>]

-----------------------------------------------------------------------------
(* Reading *)

Numeric == {"width", "height", "top", "left", "z", "padding", "margin"}
Coloured == {"fg", "bg", "border", "border-color"}

\* Text that has been read as declarations.
AreDeclarations(raw) ==
    /\ IsList(raw)
    /\ \A i \in DOMAIN raw :
          /\ raw[i] = [key |-> raw[i].key, side |-> raw[i].side, value |-> raw[i].value]
          /\ raw[i].key \in Numeric => raw[i].value \in Int

Colours == {"red", "green", "blue"}

\* parse_color: what it does not know is no colour.
Colour(value) == IF value \in Colours THEN value ELSE "reset"

Animatable ==
    {"left", "top", "right", "bottom", "width", "height", "opacity", "fg", "bg",
     "margin-left", "margin-top", "margin-right", "margin-bottom"}

\* parse_transitions: the items it does not know are skipped, two stand for many.
Transitions(items) ==
    LET Properties(item) ==
            CASE item = "all" ->
                    <<"left", "top", "right", "bottom", "width", "height",
                      "margin-left", "margin-top", "opacity", "fg", "bg">>
              [] item = "margin" ->
                    <<"margin-left", "margin-top", "margin-right", "margin-bottom">>
              [] OTHER -> IF item \in Animatable THEN << item >> ELSE << >>
    IN  FlattenSeq([i \in DOMAIN items |-> Properties(items[i])])

Unknown == [key |-> "unknown", side |-> "", value |-> ""]

\* parse_declaration: the value that is meant, a default for a word it does not
\* know, or nothing for a number that is none.
Read(d) ==
    LET As(value) == [d EXCEPT !.value = value]
    IN  CASE d.key \in Numeric -> IF d.value = NaN THEN Unknown ELSE d
          [] d.key \in Coloured -> As(Colour(d.value))
          [] d.key = "wrap" -> As(IF d.value = "word" THEN "word" ELSE "none")
          [] d.key = "direction" -> As(IF d.value = "column" THEN "column" ELSE "row")
          [] d.key = "align" -> As(IF d.value = "stretch" THEN "stretch" ELSE "start")
          [] d.key = "position" ->
                IF d.value \in {"static", "relative", "absolute", "fixed"} THEN d ELSE Unknown
          [] d.key = "border-style" ->
                As(IF d.value \in {"double", "rounded"} THEN d.value ELSE "single")
          [] d.key = "transition" -> As(Transitions(d.value))
          [] OTHER -> Unknown

\* parse_declarations: up to the first text that is no declaration.
Bad(d) == d.key = "?"

Declarations(raw) ==
    LET bad == SelectInSeq(raw, Bad)
        good == IF bad = 0 THEN raw ELSE SubSeq(raw, 1, bad - 1)
    IN  [i \in DOMAIN good |-> Read(good[i])]

\* parse_rules: a rule with such a text does not reach its '}', and ends the
\* sheet; parse_tcss reports no error.
Rules(sheet) ==
    LET bad == SelectInSeq(sheet, LAMBDA rule : SelectInSeq(rule.raw, Bad) # 0)
        good == IF bad = 0 THEN sheet ELSE SubSeq(sheet, 1, bad - 1)
    IN  [i \in DOMAIN good |->
            [kind |-> good[i].kind, name |-> good[i].name, decls |-> Declarations(good[i].raw)]]

-----------------------------------------------------------------------------
(* Applying *)

\* apply_declaration
Applied(style, d) ==
    LET b == style.border
    IN  CASE d.key \in {"padding", "margin"} ->
                [style EXCEPT ![d.key] =
                    [s \in Sides |-> IF d.side \in {"all", s} THEN d.value ELSE @[s]]]
          [] d.key \in {"border", "border-color"} ->
                [style EXCEPT !.border = [b EXCEPT !.on = TRUE, !.fg = d.value]]
          [] d.key = "border-style" ->
                [style EXCEPT !.border = [b EXCEPT !.on = TRUE, !.chars = d.value]]
          [] d.key = "unknown" -> style
          [] OTHER -> [style EXCEPT ![d.key] = d.value]

\* The declarations of the rules with a selector of this kind that match.
Matching(rules, kind, names) ==
    FlattenSeq([i \in DOMAIN rules |->
        IF rules[i].kind = kind /\ rules[i].name \in names THEN rules[i].decls ELSE << >>])

StyledMutant(rules, node) ==
    LET inline == Declarations(node.attrs.style)
    IN  FoldLeft(Applied, DefaultStyle,
                 Matching(rules, "tag", {node.tag})
                    \o Matching(rules, "id", {node.attrs.id})
                    \o Matching(rules, "class", node.attrs.class)
                    \o inline)

\* apply_styles: tags, then classes, then the id, then the element's own.
Styled(rules, node) ==
    LET inline == Declarations(node.attrs.style)
    IN  FoldLeft(Applied, DefaultStyle,
                 Matching(rules, "tag", {node.tag})
                    \o Matching(rules, "class", node.attrs.class)
                    \o Matching(rules, "id", {node.attrs.id})
                    \o inline)

-----------------------------------------------------------------------------
(* The cascade that is meant *)

\* Specificity of a rule for a node; 0 if it does not match.
Specificity(rule, node) ==
    CASE rule.kind = "tag" /\ rule.name = node.tag -> 1
      [] rule.kind = "class" /\ rule.name \in node.attrs.class -> 2
      [] rule.kind = "id" /\ rule.name = node.attrs.id -> 3
      [] OTHER -> 0

\* The declarations that bear on a node, each with its rank: the specificity of
\* its rule, then the place of the rule in the sheet, then its place in the rule.
Bearing(rules, node) ==
    LET inline == Declarations(node.attrs.style)
        matching == {i \in DOMAIN rules : Specificity(rules[i], node) > 0}
    IN  (UNION {{[rank |-> << Specificity(rules[i], node), i, j >>, d |-> rules[i].decls[j]] :
                    j \in DOMAIN rules[i].decls} : i \in matching})
        \cup {[rank |-> << 4, 0, j >>, d |-> inline[j]] : j \in DOMAIN inline}

Outranks(a, b) ==
    \/ a[1] > b[1]
    \/ a[1] = b[1] /\ a[2] > b[2]
    \/ a[1] = b[1] /\ a[2] = b[2] /\ a[3] > b[3]

Top(S) == CHOOSE x \in S : \A y \in S \ {x} : Outranks(x.rank, y.rank)

\* The declaration of highest rank gives the value, and the default stands where
\* none speaks of it.
Decides(S, value, default) == value = IF S = {} THEN default ELSE Top(S).d.value

\* Whatever is declared of one thing is decided by the ranks, for itself.
Cascades(rules, node) ==
    LET style == node.style
        About(keys) == {x \in Bearing(rules, node) : x.d.key \in keys}
        AboutSide(key, s) == {x \in About({key}) : x.d.side \in {"all", s}}
    IN  /\ \A key \in DOMAIN DefaultStyle \ {"padding", "margin", "border"} :
              Decides(About({key}), style[key], DefaultStyle[key])
        /\ \A key \in {"padding", "margin"}, s \in Sides :
              Decides(AboutSide(key, s), style[key][s], 0)
        /\ Decides(About({"border", "border-color"}), style.border.fg, "reset")
        /\ Decides(About({"border-style"}), style.border.chars, "single")
        /\ style.border.on = (About({"border", "border-color", "border-style"}) # {})

==============================================================================
