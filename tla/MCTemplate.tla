----------------------------- MODULE MCTemplate -----------------------------
(* All short templates, and pairs of blocks that nest, follow or cross.     *)
EXTENDS TemplateMeaning

Token(op, expr, as) == [op |-> op, expr |-> expr, as |-> as]

Leaves == {Token("text", "t", "this"), Token("eval", "x", "this"), Token("eval", "@last", "this")}

Ats == {Token("#each", "pair", "x"), Token("#each", "none", "x"),
        Token("#each", "x", "x"), Token("#each", "rows", "y"),
        Token("#unless", "@last", "this")}

Tos == {Token("/each", "", "this"), Token("/unless", "", "this")}

Short == UNION {[1 .. n -> Leaves \cup Ats \cup Tos] : n \in 0 .. 4}

Optional == {<<>>} \cup {<<leaf>> : leaf \in Leaves}

Long == {<<a>> \o u \o <<b>> \o v \o <<c>> \o w \o <<d>> \o z :
            a \in Ats, b \in Ats \cup Tos, c \in Tos, d \in Tos,
            u \in Optional, v \in Optional, w \in Optional, z \in Optional}

MCTemplates == Short \cup Long

MCHelpers ==
    [pair |-> List(<<Value("a"), Value("b")>>),
     none |-> Value("nil"),
     rows |-> List(<<List(<<Value("c"), Value("d")>>), Value("e")>>)]

Plain == {Value(is) : is \in {"nil", "true", "false", "a", "b", "c", "d", "e"}}

MCValues == Plain \cup {MCHelpers[e] : e \in DOMAIN MCHelpers}
                  \cup {List(<<Value("c"), Value("d")>>)}
=============================================================================
