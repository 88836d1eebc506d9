---------------------------- MODULE MCLineEditor ----------------------------
(* One CLI session on a terminal, lines of up to four characters. *)
EXTENDS LineEditor, FiniteSets

KeyBytes == {"^P", "^N", "^B", "^D", "^H", "^J", "^W", "^U", "^K",
             "ESC", "d", "a", "!", "1", "2", "h", Blank, "IAC"}

\* what is left of t when some of it was deleted or never typed
Parts(t) == { [i \in 1 .. Cardinality(S) |->
                 t[CHOOSE j \in S : Cardinality({k \in S : k < j}) = i - 1]] :
              S \in SUBSET DOMAIN t }
Starts(t) == {SubSeq(t, 1, n) : n \in 0 .. Len(t)}
TypedTexts == UNION {Starts(t) : t \in {<<"a", "!">>, <<"!", "!">>, <<"!", "2">>,
                                        <<"h", Blank, "1", "!">>}}
RelativeTexts == UNION {Parts(t) : t \in {<<"a">>, <<"!", "-", "1">>}}
=============================================================================
