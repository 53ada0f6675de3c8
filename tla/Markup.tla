--------------------------------- MODULE Markup ---------------------------------
(***************************************************************************)
(* THTMLParser::parse up to the document                                   *)
(* (oxiterm-renderer/src/parser/thtml.rs, document.rs, arena.rs).          *)
(*                                                                         *)
(* A source is a sequence of tokens: "open" (with tag, attributes and      *)
(* whether it closes itself), "close", "chars" (a run without '<'), "cb"   *)
(* and "ce" (the two ends of a comment), "lt" (a '<' that begins nothing   *)
(* else) and "style" (a whole style block).  A text is the sequence of its *)
(* characters.  The recursion of parse_element is kept as the stack of the *)
(* open elements.                                                          *)
(*                                                                         *)
(* A document is the sequence of its nodes in the order of allocation,     *)
(* node 1 the root; the children of a node are in the order of their ids.  *)
(*                                                                         *)
(* Definitions called ...Mutant are no part of the specification: each is  *)
(* a plausible bug that the properties of this module must detect.         *)
(***************************************************************************)
EXTENDS Naturals, Sequences, SequencesExt

Space == " "
Newline == "/"   \* the character '\n'

IsBlank(c) == c \in {Space, Newline}

\* What is left of a text without the blanks at its ends.
Trim(text) ==
    LET first == SelectInSeq(text, LAMBDA c : ~IsBlank(c))
        last == SelectLastInSeq(text, LAMBDA c : ~IsBlank(c))
    IN  SubSeq(text, first, IF first = 0 THEN -1 ELSE last)

\* NodeAttributes::default(); the empty value is None.
NoAttrs ==
    [id |-> "", class |-> {}, style |-> << >>, src |-> "", alt |-> << >>, show |-> "",
     htmx |-> "", value |-> "", each |-> "", type |-> "", preview |-> "", anchor |-> ""]

\* parse_attributes: names that are not known are skipped, and the last of two
\* values stands.
Attrs(pairs) ==
    FoldLeft(LAMBDA attrs, pair :
                IF pair[1] \in DOMAIN attrs
                  THEN [attrs EXCEPT ![pair[1]] = pair[2]]
                  ELSE attrs,
             NoAttrs, pairs)

Node(tag, parent, attrs) == [tag |-> tag, parent |-> parent, attrs |-> attrs, text |-> << >>]

Root == Node("screen", 0, NoAttrs)

-----------------------------------------------------------------------------
(* The parser *)

\* extract_style_block, which runs first and knows neither elements nor comments.
Sheet(source) ==
    FlattenSeq([i \in DOMAIN source |-> IF source[i].kind = "style" THEN source[i].rules
                                                                    ELSE << >>])

\* A For node without "each" is a failure.
LacksEach(token) ==
    token.kind = "open" /\ token.tag = "for" /\ Attrs(token.attrs).each = ""

\* What a token is when it is read as characters.
Chars(token) == IF token.kind = "chars" THEN token.text ELSE << "<" >>

OpenElementMutant(s, token) ==
    LET id == Len(s.nodes) + 1
    IN  [s EXCEPT !.nodes = Append(@, Node(token.tag, IF s.open = << >> THEN 1 ELSE Last(s.open),
                                           Attrs(token.attrs))),
                  !.open = Append(@, id)]

\* parse_element up to '>', and insert_node_recursive, which allocates a node
\* before its children.
OpenElement(s, token) ==
    LET parent == IF s.open = << >> THEN 1 ELSE Last(s.open)
    IN  [s EXCEPT !.nodes = Append(@, Node(token.tag, parent, Attrs(token.attrs))),
                  !.open = IF token.self THEN @ ELSE Append(@, Len(s.nodes) + 1)]

\* parse_nodes outside of any element: elements, comments and blanks.  What is
\* none of them ends the document, and nobody looks at the rest.
AtTop(s, source, i) ==
    LET token == source[i]
        closed == \E j \in i..Len(source) : source[j].kind = "ce"
    IN  CASE LacksEach(token) -> [s EXCEPT !.at = "failed"]
          [] token.kind = "open" /\ ~LacksEach(token) -> OpenElement(s, token)
          [] token.kind = "cb" /\ closed -> [s EXCEPT !.at = "comment"]
          [] token.kind = "chars" /\ Trim(token.text) = << >> -> s
          [] OTHER -> [s EXCEPT !.at = "end"]

\* The loop of parse_element: its own closing tag, a child, or text.
Inside(s, token) ==
    LET element == s.nodes[Last(s.open)]
    IN  CASE token.kind = "close" /\ token.tag = element.tag ->
                [s EXCEPT !.open = Front(@)]
          [] token.kind = "open" /\ ~LacksEach(token) -> OpenElement(s, token)
          [] OTHER ->
                [s EXCEPT !.nodes[Last(s.open)].text = @ \o Chars(token)]

\* One token of what is left of the source without its style blocks.
Scan(s, source, i) ==
    IF s.at \in {"end", "failed"} \/ source[i].kind = "style" THEN s
    ELSE IF s.at = "comment"
      THEN IF source[i].kind = "ce" THEN [s EXCEPT !.at = "body"] ELSE s
    ELSE IF s.open = << >> THEN AtTop(s, source, i) ELSE Inside(s, source[i])

Scanned(source) ==
    FoldLeftDomain(LAMBDA s, i : Scan(s, source, i),
                   [nodes |-> << Root >>, open |-> << >>, at |-> "body"], source)

\* The whole parser; the end of the source closes what is open.
Parsed(source) ==
    LET last == Scanned(source)
    IN  [ok |-> last.at # "failed",
         nodes |-> [n \in DOMAIN last.nodes |-> [last.nodes[n] EXCEPT !.text = Trim(@)]]]

-----------------------------------------------------------------------------
(* The tree that a source describes *)

Opening(token) == token.kind = "open" /\ ~token.self

\* The closing tag of the opening tag at i, or 0.
Match(source, i) ==
    LET Count(Test(_), j) == Cardinality({k \in i..j : Test(source[k])})
        Balanced(j) == Count(Opening, j) = Count(LAMBDA token : token.kind = "close", j)
        ends == {j \in i..Len(source) : Balanced(j)}
    IN  IF Opening(source[i]) /\ ends # {} THEN CHOOSE j \in ends : \A k \in ends : j <= k ELSE 0

\* The innermost element around the token at i, or 0.
Around(source, i) ==
    LET outer == {j \in 1..(i - 1) : Match(source, j) > i}
    IN  IF outer = {} THEN 0 ELSE CHOOSE j \in outer : \A k \in outer : k <= j

\* Every tag has its partner, only blanks stand outside of the elements, and
\* there is no comment.
WellFormed(source) ==
    \A i \in DOMAIN source :
       /\ source[i].kind \in {"open", "close", "chars", "style"} /\ ~LacksEach(source[i])
       /\ Opening(source[i]) =>
             /\ Match(source, i) # 0
             /\ source[Match(source, i)].tag = source[i].tag
       /\ source[i].kind = "close" => \E j \in 1..i : Match(source, j) = i
       /\ (source[i].kind = "chars" /\ Around(source, i) = 0) => Trim(source[i].text) = << >>

\* A well-formed source becomes the tree that its tags describe: one node for
\* each opening tag, in their order, below the innermost element around the tag,
\* with all the text that stands directly inside of it.
Nests(source) ==
    LET opens == {i \in DOMAIN source : source[i].kind = "open"}
        id(i) == IF i = 0 THEN 1 ELSE 1 + Cardinality({j \in opens : j <= i})
        within(i) == {j \in DOMAIN source : source[j].kind = "chars" /\ Around(source, j) = i}
        texts(i) == [j \in DOMAIN source |-> IF j \in within(i) THEN source[j].text ELSE << >>]
        nodes == Parsed(source).nodes
    IN  WellFormed(source) =>
           /\ Parsed(source).ok /\ Len(nodes) = 1 + Cardinality(opens)
           /\ \A i \in opens :
                 /\ nodes[id(i)].tag = source[i].tag
                 /\ nodes[id(i)].parent = id(Around(source, i))
                 /\ nodes[id(i)].text = Trim(FlattenSeq(texts(i)))

=============================================================================
