------------------------------ MODULE Content -------------------------------
(***************************************************************************)
(* What onText takes out of a text message of a group (hub.go, with the    *)
(* helpers of functions.go): the quote in front of the text, and the       *)
(* member the text mentions.                                               *)
(*                                                                         *)
(* A text is a sequence of characters; "line" stands for the newline, row  *)
(* of dashes and newline that end a quote, and "u2005" is the space that   *)
(* WeChat puts behind a mention.  FormatEmoji rewrites emoji, of which the *)
(* texts here have none.                                                   *)
(***************************************************************************)
EXTENDS Integers, SequencesExt

CONSTANTS
    Chars, \* the characters
    Texts, \* what may be received
    Names, \* the display names and nicknames of the members
    Bot,   \* the name of the bot's own account
    Limit, \* characters of a content in which a name is looked for
    Nothing \* no quote, no mention: nil

NoName  == <<>>
Nobody  == <<"nobody">>
White   == {" ", "u2005"}

ASSUME CharsType ==
    {" ", "u2005", "line", "dashes", "@", "[", "]", "q", ":", "zh:"} \subseteq Chars
ASSUME TextsType == Texts \subseteq Seq(Chars)

\* Names are trimmed and have no newline, which "line" and "dashes" have.
ASSUME NamesType ==
    /\ Bot \in Names /\ Names \subseteq Seq(Chars)
    /\ Names \cap {NoName, Nobody} = {}
    /\ \A n \in Names : /\ {n[1], n[Len(n)]} \cap White = {}
                       /\ {"line", "dashes"} \cap Range(n) = {}
ASSUME LimitIsNat == Limit \in Nat
ASSUME NothingIsNothing ==
    Nothing \notin [name : Names, content : Seq(Chars)]
               \cup [name : Names, place : [offset : Int, length : Nat]]

VARIABLES
    input,  \* the content of the message
    group,  \* it comes from a group
    pc,     \* onText: received, quote, mention, dispatched, panicked
    text,   \* msgContent
    quote, at,
    body,   \* history: msgContent behind the quote
    failed  \* history: lookups of a member that failed

vars == <<input, group, pc, text, quote, at, body, failed>>

Init ==
    /\ input \in Texts
    /\ group \in BOOLEAN
    /\ pc = "received"
    /\ text = input
    /\ quote = Nothing
    /\ at = Nothing
    /\ body = input
    /\ failed = {}

-----------------------------------------------------------------------------
(* Package strings. *)

Inside(s, t)  == s \in SubSeqs(t)
First(s, t)   == IndexFirstSubSeq(s, t)
Behind(i, t)  == SubSeq(t, i, Len(t))

\* TrimSpace also takes the newline off a row of dashes at either end.
Trim(s) ==
    LET kept == {i \in DOMAIN s : s[i] \notin White}
        core == IF kept = {} THEN <<>> ELSE SubSeq(s, Min(kept), Max(kept))
    IN  [i \in DOMAIN core |->
            IF core[i] = "line" /\ i \in {1, Len(core)} THEN "dashes" ELSE core[i]]

-----------------------------------------------------------------------------
(* getUserFromContent.                                                       *)

\* searchByName: a member without a display name matches the empty name.
Known(name) == name \in Names \cup {NoName}

\* Mutant: off by one.
CutShort(s) == Trim(IF Len(s) >= Limit THEN SubSeq(s, 1, Limit - 1) ELSE s)

Cut(s) == Trim(IF Len(s) > Limit THEN SubSeq(s, 1, Limit) ELSE s)

\* Mutant: the shortest first.
ShortestOf(names) == CHOOSE n \in names : \A other \in names : Len(n) <= Len(other)

PreferredOf(names) == CHOOSE n \in names : \A other \in names : Len(n) >= Len(other)

\* The parts between the separators are joined again, from all of them down to the
\* first, until a member has that name.
NameIn(s, separator) ==
    LET c     == Cut(s)
        ends  == {i \in DOMAIN c : IsPrefix(separator, Behind(i, c))}
        names == {n \in {c} \cup {SubSeq(c, 1, i - 1) : i \in ends} : Known(n)}
    IN  IF names = {} THEN Nobody ELSE PreferredOf(names)

IsMember(name) == name \notin {Nobody, NoName}

-----------------------------------------------------------------------------
(* getQuote, and what onText makes of it.                                    *)

Zh == [prefix |-> <<"[">>, suffix |-> <<"]", "line">>, separator |-> <<"zh:">>]
En == [prefix |-> <<"q">>, suffix |-> <<"q", "line">>, separator |-> <<":", " ">>]

HasQuote(t, m) == IsPrefix(m.prefix, t) /\ Inside(m.suffix, t)
Quoted(t, m)   == SubSeq(t, Len(m.prefix) + 1, First(m.suffix, t) - 1)

\* Mutant: the suffix is left in front of the text.
WithSuffix(t, m) == Behind(First(m.suffix, t), t)

Rest(t, m) == Behind(First(m.suffix, t) + Len(m.suffix), t)

\* The name and the separator go, if they stand right at the start.
Unnamed(q, name, m) ==
    LET head == name \o m.separator
    IN  IF IsPrefix(head, q) THEN Behind(Len(head) + 1, q) ELSE q

Receive ==
    /\ pc = "received"
    /\ text' = Trim(input)
    /\ body' = text'
    /\ pc' = IF group THEN "quote" ELSE "dispatched"
    /\ UNCHANGED <<input, group, quote, at, failed>>

\* The prefix of an English quote is the start of its suffix: where there is nothing
\* between them the slice ends before it starts.
Panic ==
    /\ pc = "quote"
    /\ \E m \in {Zh, En} : HasQuote(text, m) /\ First(m.suffix, text) <= Len(m.prefix)
    /\ pc' = "panicked"
    /\ UNCHANGED <<input, group, text, quote, at, body, failed>>

TakeQuote(m) ==
    /\ pc = "quote"
    /\ HasQuote(text, m) /\ First(m.suffix, text) > Len(m.prefix)
    /\ LET q    == Quoted(text, m)
           name == NameIn(q, m.separator)
       IN  \/ /\ IsMember(name)
              /\ quote' = [name |-> name, content |-> Unnamed(q, name, m)]
              /\ UNCHANGED failed
           \/ /\ IsMember(name)
              /\ failed' = failed \cup {"quote"}
              /\ UNCHANGED quote
           \/ /\ ~IsMember(name)
              /\ UNCHANGED <<quote, failed>>
    /\ text' = Rest(text, m)
    /\ body' = text'
    /\ pc' = "mention"
    /\ UNCHANGED <<input, group, at>>

NoQuote ==
    /\ pc = "quote"
    /\ \A m \in {Zh, En} : ~HasQuote(text, m)
    /\ pc' = "mention"
    /\ UNCHANGED <<input, group, text, quote, at, body, failed>>

-----------------------------------------------------------------------------
(* The mention.                                                              *)

\* openwechat looks for the bot's name in the whole message, the quote included.
IsAt == Inside(<<"@">> \o Bot \o (IF Inside(<<"u2005">>, input) THEN <<"u2005">> ELSE <<>>), input)

\* Up to the special space, if there is one, or else as in a quote.
Mentioned(t) ==
    LET rest == Behind(First(<<"@">>, t) + 1, t)
        name == Trim(SubSeq(rest, 1, First(<<"u2005">>, rest) - 1))
    IN  CASE IsAt                       -> Bot
          [] ~IsAt /\ ~Inside(<<"@">>, t) -> Nobody
          [] OTHER -> IF Inside(<<"u2005">>, rest)
                      THEN IF Known(name) THEN name ELSE Nobody
                      ELSE NameIn(rest, <<" ">>)

\* Mutant: counted from one.
FromOne(flag, t) == First(flag, t)

Offset(flag, t) == First(flag, t) - 1

\* The mention as it stands in the text, with the space behind it if there is one.
Place(name, t) ==
    LET flag  == <<"@">> \o name
        wide  == flag \o <<" ">>
    IN  IF Inside(wide, t) THEN [offset |-> Offset(wide, t), length |-> Len(wide)]
        ELSE IF Inside(flag, t) THEN [offset |-> Offset(flag, t), length |-> Len(flag)]
        ELSE [offset |-> -1, length |-> 0]

TakeMention ==
    /\ pc = "mention"
    /\ IsMember(Mentioned(text))
    /\ text' = ReplaceFirstSubSeq(<<>>, <<"u2005">>, text)
    /\ \/ /\ at' = [name |-> Mentioned(text), place |-> Place(Mentioned(text), text')]
          /\ UNCHANGED failed
       \/ /\ failed' = failed \cup {"at"}
          /\ UNCHANGED at
    /\ pc' = "dispatched"
    /\ UNCHANGED <<input, group, quote, body>>

\* Nobody is mentioned, or the bot does not find itself in the group.
NoMention ==
    /\ pc = "mention"
    /\ IsAt \/ ~IsMember(Mentioned(text))
    /\ failed' = IF IsAt THEN failed \cup {"at"} ELSE failed
    /\ pc' = "dispatched"
    /\ UNCHANGED <<input, group, text, quote, at, body>>

Next == Receive \/ Panic \/ (\E m \in {Zh, En} : TakeQuote(m)) \/ NoQuote \/ TakeMention \/ NoMention

Spec == Init /\ [][Next]_vars

-----------------------------------------------------------------------------
Whole == Trim(input)

\* The body is the message, or the message with its quote in front of it.
Rejoins ==
    \/ body = Whole /\ quote = Nothing
    \/ \E m \in {Zh, En} : LET head(q) == m.prefix \o q \o m.suffix \o body IN
         IF quote = Nothing THEN HasQuote(Whole, m) /\ Whole = head(Quoted(Whole, m))
         ELSE Whole \in {head(quote.content),
                         head(quote.name \o m.separator \o quote.content)}

(***************************************************************************)
(* No part of the message is lost: what is dispatched, put together again, *)
(* is the message, less the special space behind a mention, and less a     *)
(* quote whose author is not known.  Only a message that starts with an    *)
(* empty English quote is not dispatched at all.                           *)
(***************************************************************************)
NothingLost ==
    /\ pc = "dispatched" =>
         /\ text \in {body, ReplaceFirstSubSeq(<<>>, <<"u2005">>, body)}
         /\ Rejoins
    /\ pc = "panicked" => IsPrefix(En.suffix, Whole)

\* The message starts with a quote of some words of n.
Quotes(n, m) ==
    /\ HasQuote(Whole, m)
    /\ IsPrefix(n \o m.separator, Quoted(Whole, m))
    /\ LET words == Unnamed(Quoted(Whole, m), n, m)
       IN  words # <<>> /\ words[1] \notin White

Finds(n) == "quote" \in failed \/ (quote # Nothing /\ Len(quote.name) >= Len(n))

(***************************************************************************)
(* The first Limit characters are looked at because no name is longer      *)
(* (functions.go:17): the author of a quote is found, and not mistaken for *)
(* a member with a shorter name.  Only when the cut leaves one or two      *)
(* characters of an English separator, the space of which is trimmed, the  *)
(* author is lost, and the quote with them.                                *)
(***************************************************************************)
AuthorsFound ==
    pc = "mention" =>
        \A n \in Names, m \in {Zh, En} :
            /\ Len(n) <= Limit
            /\ m = En => Len(n) \notin {Limit - 2, Limit - 1}
            /\ Quotes(n, m)
            => Finds(n)

\* The first @ of the text is in front of n, and the first special space, if one
\* follows, right behind it.
Mentions(n) ==
    /\ Inside(<<"@">>, body)
    /\ LET rest == Behind(First(<<"@">>, body) + 1, body)
       IN  \/ ~Inside(<<"u2005">>, n) /\ IsPrefix(n \o <<"u2005">>, rest)
           \/ ~Inside(<<"u2005">>, rest) /\ (rest = n \/ IsPrefix(n \o <<" ">>, rest))

(***************************************************************************)
(* A member the text mentions is found, and not mistaken for one with a    *)
(* shorter name; but a mention of the bot, wherever it is, goes first.     *)
(***************************************************************************)
MentionsFound ==
    pc = "dispatched" /\ group =>
        \A n \in Names : Len(n) <= Limit /\ Mentions(n) =>
            "at" \in failed \/ (at # Nothing /\ (Len(at.name) >= Len(n) \/ (IsAt /\ at.name = Bot)))

(***************************************************************************)
(* Offset and length mark the mention in the text that is dispatched, and  *)
(* there is no place (-1) only when the bot is mentioned in the quote, or  *)
(* its name has the special space in it, which was taken out, or a space   *)
(* follows the @.                                                          *)
(***************************************************************************)
MentionsMarked ==
    at # Nothing =>
        LET i == at.place.offset
            j == i + at.place.length
        IN  IF i = -1
            THEN \/ IsAt /\ (body # Whole \/ Inside(<<"u2005">>, Bot))
                 \/ \E c \in White : Inside(<<"@", c>>, body)
            ELSE j <= Len(text) /\ SubSeq(text, i + 1, j) \in {<<"@">> \o at.name, <<"@">> \o at.name \o <<" ">>}
=============================================================================
