----------------------------- MODULE CmdHistory -----------------------------
(***************************************************************************)
(* The command history of one trxmgr CLI session (trxmgrHist.c): the list  *)
(* of the last nbuf commands with the number each was given, and hist_cmd, *)
(* which every finished line goes through.  A line is a sequence of        *)
(* characters, a character a string of length one; tab is not told from    *)
(* blank.  Operators only: LineEditor keeps the state.                     *)
(*                                                                         *)
(* cmds and ctag hold the curidx entries in use, oldest first, so curidx   *)
(* is Len(cmds).  C's index i is i + 1 here; the entry at C's index curidx *)
(* is memory nobody has written (or one past the array), and what becomes  *)
(* of a command that uses it is not defined: the outcome is marked wild.   *)
(***************************************************************************)
EXTENDS Integers, Sequences, TLC

CONSTANTS MaxL,      \* DEF_LENGTH: size of the line buffer and of an entry
          DefHist,   \* DEF_HIST: entries a new session keeps
          MaxHist    \* DEF_MAXHIST: most entries a user may ask for

ASSUME HistAssumption ==
    /\ MaxL \in Nat \ {0, 1}
    /\ MaxHist \in Nat \ {0}
    /\ DefHist \in 1 .. MaxHist

Blank == " "
Digits == {ToString(d) : d \in 0 .. 9}

\* the characters hist_cmd and sscanf look for are no digits
ASSUME DigitsAssumption == Digits \cap {Blank, "!", "-", "+"} = {}

Take(s, n) == SubSeq(s, 1, IF n < Len(s) THEN n ELSE Len(s))
Drop(s, n) == SubSeq(s, n + 1, Len(s))

\* how many characters at the start of s are in S
Span(s, S) ==
    CHOOSE n \in 0 .. Len(s) :
        /\ \A i \in 1 .. n : s[i] \in S
        /\ n < Len(s) => s[n + 1] \notin S

\* the first word of s
Word(s) == Take(s, CHOOSE n \in 0 .. Len(s) :
                      /\ \A i \in 1 .. n : s[i] # Blank
                      /\ n < Len(s) => s[n + 1] = Blank)

Number(ds) ==
    LET val[n \in 0 .. Len(ds)] ==
          IF n = 0 THEN 0
          ELSE 10 * val[n - 1] + (CHOOSE d \in 0 .. 9 : ToString(d) = ds[n])
    IN  val[Len(ds)]

\* sscanf(s, "%d", &n): blanks, a sign, digits; <<>> when there is no number
ScanInt(s) ==
    LET t   == Drop(s, Span(s, {Blank}))
        u   == Drop(t, IF t # <<>> /\ t[1] \in {"-", "+"} THEN 1 ELSE 0)
        abs == Number(Take(u, Span(u, Digits)))
    IN  IF Span(u, Digits) = 0 THEN <<>>
        ELSE IF t[1] = "-" THEN <<-abs>> ELSE <<abs>>

-----------------------------------------------------------------------------

\* mutant: a shorter list keeps its oldest commands
HistSetMaxOldest(h, n) ==
    IF n \notin 1 .. MaxHist \/ n = h.nbuf THEN h
    ELSE [h EXCEPT !.nbuf = n, !.cmds = Take(@, n), !.ctag = Take(@, n)]

\* hist_setmax: keep the last n commands from now on
HistSetMax(h, n) ==
    IF n \notin 1 .. MaxHist \/ n = h.nbuf THEN h
    ELSE LET start == IF n < Len(h.cmds) THEN Len(h.cmds) - n ELSE 0
         IN  [h EXCEPT !.nbuf = n, !.cmds = Drop(@, start), !.ctag = Drop(@, start)]

\* hist_init, of which hist_setmax allocates the arrays
HistInit ==
    HistSetMax([nbuf |-> 0, cmds |-> <<>>, ctag |-> <<>>, curtag |-> 0], DefHist)

\* the entry hist_add makes of s1 and s2: both, cut at maxl
Entry(s1, s2) == Take(s1 \o s2, MaxL)

\* hist_add: the oldest entry goes when the list is full
HistAdd(h, s1, s2) ==
    LET Kept(q) == IF Len(h.cmds) = h.nbuf THEN Tail(q) ELSE q
    IN  [h EXCEPT !.cmds   = Append(Kept(@), Entry(s1, s2)),
                  !.ctag   = Append(Kept(@), h.curtag + 1),
                  !.curtag = @ + 1]

\* hist_getcmd: whether the command off places back exists, and the command
HistHas(h, off) == off \in 0 .. Len(h.cmds)
HistGet(h, off) == IF off = 0 THEN <<>> ELSE h.cmds[Len(h.cmds) + 1 - off]

\* What hist_cmd may do with a line: the history afterwards, the command it
\* returns (<<>> for a null pointer) and whether memory nobody wrote was used.
Nothing(h)       == [hist |-> h, ret |-> <<>>, wild |-> FALSE]
Added(h, s1, s2) == [hist |-> HistAdd(h, s1, s2), ret |-> Entry(s1, s2), wild |-> FALSE]
Wild(h)          == [hist |-> h, ret |-> <<>>, wild |-> TRUE]

\* repeat, for an index from 0 on as C counts
Repeat(h, idx, xtra) ==
    IF idx \in 0 .. Len(h.cmds) - 1 THEN Added(h, h.cmds[idx + 1], xtra) ELSE Wild(h)

\* mutant: the number of a command taken for its place
GetIdxPlace(h, tag) == {IF tag <= Len(h.cmds) THEN tag - 1 ELSE -1}

\* getidx: the scan starts one past the entries in use, where any number may be
GetIdx(h, tag) ==
    LET hits == {i \in 0 .. Len(h.cmds) - 1 : h.ctag[i + 1] = tag}
        last == IF hits = {} THEN -1
                ELSE CHOOSE i \in hits : \A j \in hits : j <= i
    IN  {last, Len(h.cmds)}

\* "!n" and "!-n": tok is the line after the exclamation mark
RecallNumber(h, tok, n) ==
    LET rel  == tok[1] = "-"
        rest == Drop(tok, IF rel THEN 1 ELSE 0)
        xtra == Drop(rest, Span(rest, Digits))
    IN  IF rel
        THEN {IF Len(h.cmds) > -n THEN Repeat(h, Len(h.cmds) + n, xtra) ELSE Nothing(h)}
        ELSE {IF i >= 0 THEN Repeat(h, i, xtra) ELSE Nothing(h) : i \in GetIdx(h, n)}

\* "!text": the newest command that starts with the text
RecallText(h, tok) ==
    LET w    == Word(tok)
        hits == {i \in 1 .. Len(h.cmds) : Take(h.cmds[i], Len(w)) = w}
    IN  IF hits = {} THEN Nothing(h)
        ELSE Repeat(h, (CHOOSE i \in hits : \A j \in hits : j <= i) - 1,
                    Drop(tok, Len(w)))

Recall(h, line) ==
    LET tok == Tail(line)
        n   == ScanInt(tok)
    IN  IF tok # <<>> /\ tok[1] = "!"
        THEN {IF h.cmds = <<>> THEN Nothing(h)
              ELSE Repeat(h, Len(h.cmds) - 1, Tail(tok))}
        ELSE IF n # <<>> THEN RecallNumber(h, tok, n[1])
        ELSE {RecallText(h, tok)}

\* "h" and "history" list the commands or, given a number, set how many to keep
HistoryWords == {<<"h">>, <<"h", "i", "s", "t", "o", "r", "y">>}
HistoryCmd(h, cmd) ==
    LET at == {i \in 1 .. Len(cmd) : cmd[i] \in Digits}
        ds == Drop(cmd, (CHOOSE i \in at : \A j \in at : i <= j) - 1)
    IN  IF at = {} THEN Nothing(h)
        ELSE Nothing(HistSetMax(h, Number(Take(ds, Span(ds, Digits)))))

\* hist_cmd.  The test for "!" looks at the line before its blanks are skipped.
HistCmd(h, line) ==
    LET cmd == Drop(line, Span(line, {Blank}))
    IN  IF cmd = <<>> THEN {Nothing(h)}
        ELSE IF Word(cmd) \in HistoryWords THEN {HistoryCmd(h, cmd)}
        ELSE IF line[1] = "!" THEN Recall(h, line)
        ELSE {Added(h, cmd, <<>>)}
=============================================================================
