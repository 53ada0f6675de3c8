---------------------------------- MODULE MCPage ----------------------------------
(* A model-checking instance of Page: every short source for the parser, and a *)
(* few pages for all of the path to the screen.                                *)
EXTENDS Page

MCFiles ==
    [pic |-> [where |-> "there", decodes |-> TRUE, name |-> << "p" >>,
              top |-> "red", bottom |-> "reset", cols |-> 3, rows |-> 1],
     gone |-> [where |-> "missing", decodes |-> FALSE, name |-> << "g" >>,
               top |-> "reset", bottom |-> "reset", cols |-> 0, rows |-> 0],
     bad |-> [where |-> "there", decodes |-> FALSE, name |-> << "b", "d" >>,
              top |-> "reset", bottom |-> "reset", cols |-> 0, rows |-> 0]]

\* Tokens
Open(tag, attrs) == [kind |-> "open", tag |-> tag, attrs |-> attrs, self |-> FALSE]
Void(tag, attrs) == [kind |-> "open", tag |-> tag, attrs |-> attrs, self |-> TRUE]
Close(tag) == [kind |-> "close", tag |-> tag]
Run(text) == [kind |-> "chars", text |-> text]
Style(rules) == [kind |-> "style", rules |-> rules]
Rule(kind, name, raw) == [kind |-> kind, name |-> name, raw |-> raw]
D(key, value) == [key |-> key, side |-> "all", value |-> value]
Inline(decls) == << "style", decls >>
Size(w, h) == << D("width", w), D("height", h) >>
Column == D("direction", "column")

Label(tag, attrs, text) == << Open(tag, attrs), Run(text), Close(tag) >>
Box(attrs, inside) == << Open("box", attrs) >> \o inside \o << Close("box") >>

\* A text that wraps; boxes over each other, the upper one there when "on".
Verse == << "a", " ", "b", " ", "W", "/", "c", "d" >>
Texts ==
    Box(<< Inline(Size(5, 3) \o << Column >>) >>,
        Label("text", << Inline(<< D("wrap", "word"), D("fg", "green") >>) >>, Verse))

Layers ==
    << Style(<< Rule("tag", "box", << D("bg", "blue"), D("z", 2) >>),
                Rule("id", "top", << D("z", 3), D("bg", "green") >>),
                Rule("class", "low", << D("z", 1), D("bg", "red") >>) >>) >>
    \o Box(<< Inline(Size(6, 4)) >>,
           Box(<< << "id", "top" >>, << "class", {"low"} >>, << "show", "on" >>,
                  Inline(Size(3, 2) \o << D("position", "absolute"), D("left", 1), D("border", "red") >>) >>, << >>)
           \o Box(<< << "class", {"low"} >>,
                     Inline(Size(4, 2) \o << D("position", "absolute"), D("left", 2), D("top", 1) >>) >>,
                  Label("button", << << "htmx", "go" >> >>, << "W", "x" >>)))

\* More than fits, with a picture that scrolls.
Long ==
    Box(<< Inline(Size(6, 6) \o << Column, D("align", "start") >>) >>,
        Label("text", << Inline(<< D("bg", "red") >>) >>, << "a", "Z", "b" >>)
        \o << Void("img", << << "src", "pic" >>, Inline(Size(2, 2)) >>),
              Open("input", << << "value", "key" >>, Inline(Size(3, 1)) >>), Run(<< "p", "q" >>), Close("input"),
              Void("img", << << "src", "gone" >>, << "show", "on" >>, Inline(Size(4, 2)) >>) >>)

Failing ==
    Box(<< Inline(Size(5, 3)) >>, << Void("img", << << "src", "pic" >> >>) >>)

Mixed ==
    Box(<< Inline(Size(6, 4) \o << Column >>) >>,
        << Void("diagram", << << "src", "pic" >>, << "alt", << "A" >> >>, Inline(Size(4, 2)) >>),
           Void("video", << << "src", "bad" >>, << "show", "on" >>, Inline(Size(5, 2)) >>) >>
        \o Label("text", << Inline(<< D("position", "fixed"), D("top", 0) >>) >>, << "f" >>))

Hanging ==
    Box(<< Inline(Size(6, 1)) >>,
        Label("text", << >>, << "b", "W" >>) \o Label("button", << >>, << "k" >>)
        \o << Open("input", << << "type", "password" >>, << "value", "key" >>, Inline(Size(2, 1)) >>), Run(<< "W" >>),
              Close("input") >>)

\* Somebody has typed outside of the inputs.
MCTyped(shown) == IF shown = "block" THEN << "k", "k" >> ELSE << >>

Documents == {Texts, Layers, Long, Failing, Mixed, Hanging}

Tokens ==
    {Open("box", << >>), Open("text", << >>), Void("box", << >>), Close("box"), Close("text"),
     Run(<< "a" >>), Run(<< " " >>), [kind |-> "cb"], [kind |-> "ce"], [kind |-> "lt"],
     Open("for", << >>)}

Short == UNION {[1..n -> Tokens] : n \in 1..3}

MCSources == Documents \cup Short

\* From the empty page to all of them; from some of them on to another.
MCLeadsTo(s, shown) ==
    CASE s = << >> -> Documents \cup IF shown = "block" THEN Short ELSE {}
      [] s = Texts -> {Layers}
      [] s = Layers -> {Hanging}
      [] s = Long -> {Texts}
      [] s = Mixed -> {Failing}
      [] OTHER -> {}

===================================================================================
