--------------------------- MODULE MCLinearParser ---------------------------
(***************************************************************************)
(* Files: every body of up to five lines below a title and three without,  *)
(* and every kind of frontmatter and command line before a few bodies.     *)
(***************************************************************************)
EXTENDS LinearParser

Fence    == [kind |-> "fence"]
Blank    == [kind |-> "blank"]
Other    == [kind |-> "other"]
Heading  == [kind |-> "title", text |-> TRUE]
Hash     == [kind |-> "title", text |-> FALSE]
Item(n)  == [kind |-> "item", number |-> n, text |-> TRUE]
Bare(n)  == [kind |-> "item", number |-> n, text |-> FALSE]

UpTo(S, n) == UNION {[1..k -> S] : k \in 0..n}

Bodies ==
    {<<Heading>> \o rest : rest \in UpTo({Blank, Other, Item(1), Item(2), Item(3), Bare(2)}, 5)}
    \cup UpTo({Blank, Fence, Other, Heading, Hash, Item(1), Item(3)}, 3)

SomeBodies == {<<>>, <<Blank>>, <<Heading>>, <<Blank, Heading, Item(1), Fence>>, <<Item(2)>>}

Yaml(id, version, owner, string_keys) ==
    [result |-> "mapping", string_keys |-> string_keys,
     fields |-> [id |-> id, version |-> version, owner |-> owner]]
Good == Yaml("valid", "valid", "valid", TRUE)

FieldStates == {"valid", "invalid", "absent"}
Yamls ==
    {[result |-> r] : r \in {"empty", "other", "error", "exception"}}
    \cup {Yaml(a, b, c, d) : a, b, c \in FieldStates, d \in BOOLEAN}

Call(check, path, text, yaml) ==
    [check |-> check, path |-> path, lines |-> text, yaml |-> yaml]
File(text, yaml) == Call(TRUE, "text", <<Fence, Other, Fence>> \o text, yaml)

MCCalls ==
    {File(body, Good) : body \in Bodies}
    \cup {File(body, yaml) : body \in SomeBodies, yaml \in Yamls}
    \cup {Call(TRUE, "text", <<Fence, Fence, Heading, Item(1)>>, [result |-> "empty"])}
    \cup {Call(TRUE, "text", text, Good) :
             text \in {<<>>, <<Item(1)>>, <<Heading, Fence>>, <<Fence>>, <<Fence, Heading, Item(1)>>}}
    \cup {Call(FALSE, "text", <<Fence, Other, Fence, Heading, Item(1)>>, Good)}
    \cup {Call(TRUE, path, <<>>, Good) : path \in {"missing", "directory", "binary"}}
=============================================================================
