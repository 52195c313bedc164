----------------------------- MODULE MCKVReuse ------------------------------
(***************************************************************************)
(* Instances of KVReuse for TLC.                                           *)
(***************************************************************************)
EXTENDS KVReuse

a == Text("a")
b == Text("b")
c == Text("c")

Image(name) == [id |-> "pad", mark |-> name]

\* Prompts that share a rulebook block or nothing, and one short enough to be
\* kept whole; pictures that share a prefix, and differ in nothing but content.
Block       == <<a, b>>
LongPrompts == {<<a, b, a>>, <<a, b, b>>}
ShortPrompt == LongPrompts \cup {<<a, b>>}
OffTopic    == LongPrompts \cup {<<b, a, c>>}
Pictures    == {<<a, Image("cat"), b>>, <<a, Image("cat"), a>>, <<a, Image("dog"), b, c>>}
Turn        == {<<c>>}
Replies     == {a}
=============================================================================
