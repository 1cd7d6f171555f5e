----------------------------- MODULE MCContent ------------------------------
(* Constants for checking Content with TLC. *)
EXTENDS Content

UpTo(n, chars) == UNION {[1..k -> chars] : k \in 0..n}

SomeChars == {" ", "u2005", "line", "dashes", "@", "[", "]", "q", ":", "zh:", "a", "b"}

SomeNames == {<<"a">>, <<"b", "b">>, <<"a", " ", "b">>, <<"b", "a", "b", "a">>}
SomeBot   == <<"b", "b">>

\* Texts with mentions, of every form.
Plain == UpTo(5, {"@", "a", "b", " ", "u2005"}) \cup
         {<<"@">> \o n \o <<s>> \o t : n \in SomeNames, s \in White, t \in UpTo(2, {"@", "a", "u2005"})}

\* Quotes of every form, in front of a text and of a mention of the bot.
Quote(m, q, t) == m.prefix \o q \o m.suffix \o t
Quoting ==
    {Quote(m, q, t) : m \in {Zh, En}, q \in UpTo(3, {"a", "b", ":", "zh:", " "}), t \in {<<"a">>, <<"@", "b", "b">>}}
    \cup
    {Quote(m, n \o s \o t, <<"a">>) : m \in {Zh, En}, n \in SomeNames, s \in {<<"zh:">>, <<":", " ">>},
                                  t \in UpTo(2, {"a", " ", "zh:"}) \cup {<<"@", "b", "b">>}}

\* Marks of quotes in any order.
Marks == UpTo(5, {"[", "]", "q", "line", "a"})

AllTexts == Plain \cup Quoting \cup Marks
=============================================================================
