---------------------------- MODULE MCInputDecoder ----------------------------
(* An instance of InputDecoder: one item of every kind, and a noise of the    *)
(* bytes that steer the decoder.                                              *)
EXTENDS InputDecoder

MCItems ==
    {CharItem(cp) : cp \in {97, 322, 8364, 128512}}
    \cup {FlowItem(XON, "xon"), FlowItem(XOFF, "xoff")}
    \cup {KittyItem(97, mods, kind) :
             mods \in {{}, {"shift", "meta"}}, kind \in {"press", "release"}}
    \cup {MouseItem(button, "press", {}, 5, 7) : button \in DOMAIN Buttons}
    \cup {MouseItem("left", action, {"alt"}, 5, 7) : action \in {"move", "release"}}
    \cup {AnswerItem(<<ESC, 91, 63, 54, 99>>), AnswerItem(<<ESC, 95, 71, 49, ESC, 92>>)}
    \cup {TokenItem(t) : t \in {<<116>>, <<116, ESC, 116>>, [i \in 1..8 |-> 116]}}

\* ESC, [ _ \ < ; 1 M u, the lead bytes of two, three and four bytes, a
\* continuation, and a byte that occurs in no character.
MCNoise == {ESC, 91, 95, 92, 60, 59, 49, 77, 117, 195, 226, 240, 159, 255}
=============================================================================
