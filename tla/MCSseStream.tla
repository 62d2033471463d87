---------------------------- MODULE MCSseStream ----------------------------
(* Texts built around one pair of tags: with something, white space or a    *)
(* quote before it, with or without thinking, ended or not, and with the    *)
(* text that may follow. A stream may break off anywhere, so their prefixes *)
(* are there too.                                                           *)
EXTENDS SseStream

CONSTANTS call1, call2

Before  == {<< >>, <<"a">>, <<NL>>, <<Quote>>}
Between == {<< >>, <<"b">>, <<NL, "b">>, <<"b", NL, "c">>}
After   == {<<NL, NL, "d">>, <<NL, "d">>, <<Quote>>}

TaggedTexts ==
    {b \o OpenTag \o t \o CloseTag \o s : b \in Before, t \in Between, s \in After}
PlainTexts == {<<"a", "b", "c">>, <<"<t", "a", NL, "b">>, CloseTag \o <<NL, NL>>,
               <<Quote, "a">> \o OpenTag \o <<"b">> \o CloseTag \o <<NL, NL>> \o OpenTag}

FewTexts  == {<<"a">> \o OpenTag \o <<"b">> \o CloseTag}
Summaries == {<<"a">>, <<"a", "b">>, <<"a", "b", "c">>, <<"a", "b", NL, "c", "d">>}
SomeTexts == TaggedTexts \cup PlainTexts \cup FewTexts
=============================================================================
