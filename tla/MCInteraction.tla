----------------------------- MODULE MCInteraction -----------------------------
(* Instances of Interaction for TLC. *)
EXTENDS Interaction, Sequences, TLC

CONSTANTS home, list_page, gone

Node(parent, kind, high) ==
    [parent |-> parent, kind |-> kind, rows |-> high,
     act |-> "none", show |-> "always", drag |-> "no", end |-> "none"]
Root == Node(1, "box", 0)

\* A link, a box with an input that is shown when on, a window with a handle that loads
\* a page, and a long text whose end can be pressed.
HomeFile ==
    << Root,
       [Node(1, "text", 1) EXCEPT !.act = list_page],
       [Node(1, "box", 0) EXCEPT !.show = "on"],
       Node(3, "input", 1),
       [Node(1, "box", 0) EXCEPT !.drag = "draggable", !.end = "toggle"],
       [Node(5, "text", 1) EXCEPT !.drag = "handle", !.act = list_page],
       Node(5, "text", 1),
       [Node(1, "text", 2) EXCEPT !.act = "toggle"] >>

\* On mobiles the page is a button and a missing link.
HomeMobileFile ==
    << Root,
       [Node(1, "text", 1) EXCEPT !.act = "toggle"],
       [Node(1, "text", 1) EXCEPT !.act = gone] >>

\* A list inside of a box that can be pressed, and a link back.
ListFile ==
    << Root,
       [Node(1, "box", 0) EXCEPT !.act = "toggle", !.drag = "draggable"],
       Node(2, "for", 1),
       [Node(1, "text", 1) EXCEPT !.act = home, !.show = "off"] >>

Files == [home |-> HomeFile, mobile |-> HomeMobileFile, list |-> ListFile]

FileOf == (home :> [m \in BOOLEAN |-> IF m THEN "mobile" ELSE "home"])
       @@ (list_page :> [m \in BOOLEAN |-> "list"])
       @@ (gone :> [m \in BOOLEAN |-> NoFile])
=============================================================================
