----------------------------- MODULE LineEditor -----------------------------
(***************************************************************************)
(* The line editor of a trxmgr CLI session (trxmgrRl.c, and cliGetchar and *)
(* cliNewCmd of trxmgrCli.c): bytes of the telnet connection become keys,  *)
(* keys edit the line, a finished line goes through the command history    *)
(* and to the command interpreter.                                         *)
(*                                                                         *)
(* cells is rl->buf, maxl bytes of which the first is the prompt; NUL ends *)
(* the text as it does in C, so that the length the editor keeps (maxpos)  *)
(* and the one the C library finds (strlen) are two things.  A step that   *)
(* reads or writes past the buffer, or uses an entry of the history nobody *)
(* wrote, makes the session wild; nothing is said of what follows.  What   *)
(* is sent to the terminal (showbuf, curboth, buz) is left out, but for    *)
(* the cursor it moves.                                                    *)
(***************************************************************************)
EXTENDS CmdHistory

CONSTANTS Bytes,     \* the bytes a user's terminal sends
          Typed,     \* bound: the texts a user types, begun or finished
          MaxCmds    \* bound: commands entered in a session

\* a byte of value zero is none to getinput
ASSUME EditorAssumption == "NUL" \notin Bytes

VARIABLES online,    \* the session has a connection (cli.fd)
          busy,      \* a report is under way: the input is not read
          iac,       \* bytes seen of a telnet negotiation
          seq,       \* curseq[0 .. seqidx-1]: what a key's sequence has sent
          cells,     \* buf
          curpos, maxpos, histoff,
          hist,      \* the session's command history
          wild,      \* memory outside the buffer was used
          entered,   \* every command recorded since the session began
          sent       \* the last command given to the interpreter

editorVars == <<online, busy, iac, seq, cells, curpos, maxpos, histoff, hist, wild,
                entered, sent>>

NUL == "NUL"
PLen == 1                          \* strlen(">")
Index == 0 .. MaxL - 1

Alnum == Digits \cup {"a", "b", "d", "f", "h", "A", "O"}

\* where the string that starts at p ends; MaxL when it runs past the buffer
StrEnd(b, p) ==
    IF \E i \in p .. MaxL - 1 : b[i] = NUL
    THEN CHOOSE i \in p .. MaxL - 1 : b[i] = NUL /\ \A j \in p .. i - 1 : b[j] # NUL
    ELSE MaxL
Text(b) == [i \in 1 .. StrEnd(b, PLen) - PLen |-> b[PLen + i - 1]]

\* mutant: one byte too few is moved
MemMoveShort(b, dst, src, n) ==
    [i \in Index |-> IF i \in dst .. dst + n - 2 THEN b[i - dst + src] ELSE b[i]]

\* memmove(buf + dst, buf + src, n) and strcpy(buf + PLen, s)
MemMove(b, dst, src, n) ==
    [i \in Index |-> IF i \in dst .. dst + n - 1 THEN b[i - dst + src] ELSE b[i]]
StrCpy(b, s) ==
    [i \in Index |-> IF i \in PLen .. PLen + Len(s) - 1 THEN s[i - PLen + 1]
                     ELSE IF i = PLen + Len(s) THEN NUL ELSE b[i]]

-----------------------------------------------------------------------------
(* From bytes to keys *)

\* ctrls: control characters that are keys
Control == [b \in {"^P", "^N", "^B", "^F", "^D", "^H", "^J", "^W", "^U", "^K",
                   "^A", "^E", "^L", "^R", "DEL", "CR"} |->
              CASE b = "^P" -> "UP"         [] b = "^N" -> "DOWN"
                [] b = "^B" -> "LEFT"       [] b = "^F" -> "RIGHT"
                [] b = "^D" -> "DELETE"     [] b \in {"^H", "DEL"} -> "BACKSPACE"
                [] b = "^W" -> "KILLWORD"   [] b = "^U" -> "KILLTOBOL"
                [] b = "^K" -> "KILLTOEOL"  [] b = "^A" -> "GOTOBOL"
                [] b = "^E" -> "GOTOEOL"    [] b = "^L" -> "CLRSCR"
                [] b = "^R" -> "REDRAW"     [] b \in {"^J", "CR"} -> "LINEDONE"]

\* what the description of xterm says its keys send and its screen understands, and the
\* four sequences rl_init adds, in the order of seqs
Strings == <<
    <<"ESC", "O", "A">>, <<"ESC", "O", "B">>, <<"ESC", "O", "D">>, <<"ESC", "O", "C">>,
    <<"ESC", "[", "3", "~">>, <<"^H">>,
    <<"ESC", "DEL">>, <<"ESC", "d">>, <<"ESC", "b">>, <<"ESC", "f">>,
    <<"ESC", "[", "%", "p", "1", "%", "d", "A">>,
    <<"ESC", "[", "%", "p", "1", "%", "d", "B">>,
    <<"ESC", "[", "%", "p", "1", "%", "d", "D">>,
    <<"CR">>,
    <<"ESC", "[", "%", "p", "1", "%", "d", "C">>,
    <<"ESC", "[", "J">> >>

\* codes
Codes == << "UP", "DOWN", "LEFT", "RIGHT", "DELETE", "BACKSPACE", "KILLWORD", "KILLWORDFWD",
            "WORDBACK", "WORDFWD", "UP", "DOWN", "LEFT", "GOTOBOL", "RIGHT", "GOTOEOL" >>

\* getinput compares each byte with the byte at its own place in each
\* sequence: the sequences whose last byte is matched, and those whose byte
\* at the newest place is
Completed(s) ==
    {i \in DOMAIN Strings : LET k == Strings[i] IN
        Len(k) <= Len(s) /\ k[Len(k)] = s[Len(k)]}
Matching(s) ==
    {i \in DOMAIN Strings : LET k == Strings[i] IN
        Len(s) <= Len(k) /\ k[Len(s)] = s[Len(s)]}

\* cliGetchar: the bytes of a negotiation that have been seen after byte b, of which two or
\* three are swallowed.  Bound: terminals negotiate at the prompt.
Negotiated(b) ==
    CASE iac > 0               -> IF iac = 2 \/ b \in {"IAC", "BREAK"} THEN 0 ELSE 2
      [] iac = 0 /\ b = "IAC"  -> IF maxpos = PLen THEN 1 ELSE 0
      [] OTHER                 -> 0

\* getinput: the key a byte makes ("none" when it was swallowed),
\* the character when it is one of the line, and what is remembered of a sequence.  A byte
\* that is no key and no part of one is a character, printable or not.
Input(b) ==
    LET s == Append(seq, b)
        In(key, q) == [key |-> key, char |-> NUL, iac |-> Negotiated(b), seq |-> q]
        First(B) == CHOOSE i \in B : \A j \in B : i <= j
    IN
    CASE iac > 0 \/ b = "IAC"   -> In("none", seq)
      [] iac = 0 /\ b \in DOMAIN Control -> In(Control[b], seq)
      [] OTHER ->
            IF Completed(s) # {} THEN In(Codes[First(Completed(s))], <<>>)
            ELSE IF Matching(s) # {} THEN In("none", s)
            ELSE [In("INSERT", <<>>) EXCEPT !.char = b]

-----------------------------------------------------------------------------
(* The line *)

\* mutant: the place in the history is kept
ResetStateKeepsPlace ==
    /\ cells'   = [i \in Index |-> IF i = 0 THEN ">" ELSE NUL]
    /\ histoff' = histoff
    /\ curpos'  = PLen
    /\ maxpos'  = PLen

\* rl_resetState: nothing but the prompt
ResetState ==
    /\ cells'   = [i \in Index |-> IF i = 0 THEN ">" ELSE NUL]
    /\ histoff' = 0
    /\ curpos'  = PLen
    /\ maxpos'  = PLen

\* newCli, rl_init, hist_init.  What a closed session leaves is never freed nor
\* used again: it is forgotten here when the session closes.
NewSession(connected) ==
    /\ online' = connected /\ busy' = FALSE /\ iac' = 0 /\ seq' = <<>>
    /\ hist' = HistInit /\ wild' = FALSE /\ entered' = <<>> /\ sent' = <<>>
    /\ ResetState

EditorInit ==
    /\ online = FALSE /\ busy = FALSE /\ iac = 0 /\ seq = <<>>
    /\ hist = HistInit /\ wild = FALSE /\ entered = <<>> /\ sent = <<>>
    /\ cells = [i \in Index |-> IF i = 0 THEN ">" ELSE NUL]
    /\ histoff = 0 /\ curpos = PLen /\ maxpos = PLen

Connect == ~online /\ NewSession(TRUE)

\* rl_newChar: what the next byte may be, of a session that cliSetFds reads
Inputs == IF online /\ ~busy /\ ~wild THEN {Input(b) : b \in Bytes} ELSE {}

\* input i is key k
Key(i, k) == i.key = k /\ iac' = i.iac /\ seq' = i.seq

\* a key that only edits the line
Editing == UNCHANGED <<online, busy, hist, entered>> /\ sent' = <<>>

\* the length the editor takes over from the C library (strlen(buf))
Measured(b) ==
    /\ cells'  = b
    /\ maxpos' = StrEnd(b, 0)
    /\ wild'   = (StrEnd(b, 0) = MaxL)

\* a byte that only changes what is remembered of a sequence
Swallowed(in) ==
    /\ Key(in, "none")
    /\ Editing /\ UNCHANGED <<cells, curpos, maxpos, histoff, wild>>

\* up and down: a command of the history takes the place of the line
Browse(in) ==
    \E inc \in {1, -1} :
        /\ Key(in, IF inc = 1 THEN "UP" ELSE "DOWN")
        /\ IF HistHas(hist, histoff + inc)
           THEN LET p == HistGet(hist, histoff + inc) IN
                /\ histoff' = histoff + inc
                /\ IF PLen + Len(p) < MaxL
                   THEN Measured(StrCpy(cells, p)) /\ curpos' = PLen + Len(p)
                   ELSE wild' = TRUE /\ UNCHANGED <<cells, curpos, maxpos>>
           ELSE UNCHANGED <<cells, curpos, maxpos, histoff, wild>>
        /\ Editing

\* the cells right of the cursor's new place close up by one
Erase(at) ==
    /\ cells'  = MemMove(cells, at, at + 1, MaxL - at - 1)
    /\ maxpos' = maxpos - 1
    /\ curpos' = at

Backspace(in) ==
    /\ Key(in, "BACKSPACE")
    /\ IF curpos = PLen THEN UNCHANGED <<cells, maxpos, curpos>> ELSE Erase(curpos - 1)
    /\ Editing /\ UNCHANGED <<histoff, wild>>

Delete(in) ==
    /\ Key(in, "DELETE")
    /\ IF curpos = maxpos THEN UNCHANGED <<cells, maxpos, curpos>> ELSE Erase(curpos)
    /\ Editing /\ UNCHANGED <<histoff, wild>>

\* how far the cursor goes: over what is not a word, then over the word
NextWord(p) ==
    CHOOSE i \in p .. maxpos : /\ \A j \in p .. i - 1 : cells[j] \notin Alnum
                               /\ i < maxpos => cells[i] \in Alnum
WordEnd(p) ==
    CHOOSE i \in NextWord(p) .. maxpos :
        /\ \A j \in NextWord(p) .. i - 1 : cells[j] \in Alnum
        /\ i < maxpos => cells[i] \notin Alnum
\* the same backwards, from p, never past the prompt
BeforeWord(p) ==
    LET word == CHOOSE i \in PLen .. p : /\ \A j \in i + 1 .. p : cells[j] \notin Alnum
                                         /\ i > PLen => cells[i] \in Alnum
    IN  CHOOSE i \in PLen .. word : /\ \A j \in i + 1 .. word : cells[j] \in Alnum
                                    /\ i > PLen => cells[i] \notin Alnum

MoveKeys == {"LEFT", "RIGHT", "GOTOBOL", "GOTOEOL", "WORDFWD", "WORDBACK",
             "CLRSCR", "REDRAW"}
Move(in) ==
    \E k \in MoveKeys :
        /\ Key(in, k)
        /\ curpos' =
             CASE k = "LEFT"     -> IF curpos = PLen THEN PLen ELSE curpos - 1
               [] k = "RIGHT"    -> IF curpos = maxpos THEN curpos ELSE curpos + 1
               [] k = "GOTOBOL"  -> PLen
               [] k = "GOTOEOL"  -> maxpos
               [] k = "WORDFWD"  -> WordEnd(curpos)
               [] k = "WORDBACK" -> IF curpos = PLen THEN PLen
                                    ELSE LET i == BeforeWord(curpos - 1)
                                         IN  IF i > PLen THEN i + 1 ELSE i
               [] OTHER          -> curpos
        /\ Editing /\ UNCHANGED <<cells, maxpos, histoff, wild>>

\* back to the start of the word before the cursor
KillWord(in) ==
    /\ Key(in, "KILLWORD")
    /\ IF curpos = PLen THEN UNCHANGED <<cells, maxpos, curpos, wild>>
       ELSE LET stop == BeforeWord(curpos - 1)
                i    == IF stop < maxpos /\ cells[stop] \notin Alnum THEN stop + 1 ELSE stop
            IN  /\ curpos' = i
                /\ Measured(MemMove(cells, i, curpos, MaxL - curpos))
    /\ Editing /\ UNCHANGED histoff

KillToBol(in) ==
    /\ Key(in, "KILLTOBOL")
    /\ curpos' = PLen
    /\ Measured(MemMove(cells, PLen, curpos, MaxL - curpos))
    /\ Editing /\ UNCHANGED histoff

KillToEol(in) ==
    /\ Key(in, "KILLTOEOL")
    /\ IF curpos < MaxL THEN Measured([cells EXCEPT ![curpos] = NUL])
       ELSE wild' = TRUE /\ UNCHANGED <<cells, maxpos>>
    /\ Editing /\ UNCHANGED <<curpos, histoff>>

\* on to the start of the next word, of which one blank stays
KillWordForward(in) ==
    /\ Key(in, "KILLWORDFWD")
    /\ IF curpos = maxpos THEN UNCHANGED <<cells, maxpos, wild>>
       ELSE LET next == NextWord(WordEnd(curpos))
                i    == IF next < maxpos THEN next - 1 ELSE next
            IN  Measured(MemMove(cells, curpos, i, MaxL - i))
    /\ Editing /\ UNCHANGED <<curpos, histoff>>

\* a character, at the cursor, while the buffer has room
Insert(in) ==
    /\ Key(in, "INSERT")
    /\ IF maxpos = MaxL THEN UNCHANGED <<cells, maxpos, curpos>>
       ELSE /\ cells'  = [MemMove(cells, curpos + 1, curpos, MaxL - curpos - 1)
                            EXCEPT ![curpos] = in.char]
            /\ maxpos' = maxpos + 1
            /\ curpos' = curpos + 1
            /\ [i \in 1 .. maxpos' - PLen |-> cells'[PLen + i - 1]] \in Typed
    /\ Editing /\ UNCHANGED <<histoff, wild>>

\* A finished line: history first, then the interpreter (cliNewCmd), whose
\* command may leave the session waiting for a report.
LineDone(in) ==
    /\ Key(in, "LINEDONE")
    /\ Len(entered) < MaxCmds
    /\ IF StrEnd(cells, PLen) = MaxL
       THEN wild' = TRUE /\ Editing /\ UNCHANGED <<cells, maxpos, curpos, histoff>>
       ELSE \E r \in HistCmd(hist, Text(cells)) :
            /\ hist' = r.hist
            /\ entered' = IF r.hist.curtag = hist.curtag THEN entered
                          ELSE Append(entered, r.ret)
            /\ wild' = (r.wild \/ PLen + Len(r.ret) >= MaxL)
            /\ sent' = IF wild' THEN <<>> ELSE r.ret
            /\ busy' \in IF sent' = <<>> THEN {FALSE} ELSE BOOLEAN
            /\ IF wild' THEN UNCHANGED <<cells, maxpos, curpos, histoff>> ELSE ResetState
            /\ UNCHANGED online

\* closeCli: the terminal went away, or the finished line was "quit"
Close == online /\ ~busy /\ ~wild /\ NewSession(FALSE)

\* cliDecWait: the report the session waited for is complete
ReportDone ==
    /\ online /\ busy /\ ~wild
    /\ busy' = FALSE
    /\ ResetState
    /\ sent' = <<>>
    /\ UNCHANGED <<online, iac, seq, hist, wild, entered>>

EditorNext ==
    \/ Connect
    \/ ReportDone
    \/ Close
    \/ \E in \in Inputs :
         \/ Swallowed(in) \/ Browse(in) \/ Backspace(in) \/ Delete(in) \/ Move(in)
         \/ KillWord(in) \/ KillToBol(in) \/ KillToEol(in) \/ KillWordForward(in)
         \/ Insert(in) \/ LineDone(in)

EditorSpec == EditorInit /\ [][EditorNext]_editorVars

-----------------------------------------------------------------------------
(* Properties *)

\* Type invariant: the cursor is on the line, the line in the buffer, and the
\* place in the history one the history has, also after it was made shorter.
EditorTypeOK ==
    /\ {online, busy, wild} \subseteq BOOLEAN
    /\ iac \in 0 .. 2 /\ seq \in Seq(Bytes)
    /\ cells \in [Index -> Bytes \cup {">", NUL}]
    /\ maxpos \in PLen .. MaxL
    /\ curpos \in PLen .. maxpos
    /\ histoff \in 0 .. Len(hist.cmds)
    /\ hist.nbuf \in 1 .. MaxHist
    /\ entered \in Seq(Seq(Bytes)) /\ sent \in Seq(Bytes)

\* The length the editor keeps is the length of the text, whatever keys came
\* in whatever order, as long as the last byte of the buffer is not used: what
\* the user sees is what LINEDONE submits.
ShownIsSubmitted == ~wild /\ cells[MaxL - 1] = NUL => StrEnd(cells, 0) = maxpos

\* The history is the end of the log of all commands of the session: the last
\* curidx of them, each with the number it had when it was entered, whatever
\* hist_setmax and hist_add dropped in between.
HistoryIsLog ==
    LET n == Len(hist.cmds)
        k == Len(entered) - n
    IN  /\ n <= hist.nbuf /\ k >= 0
        /\ hist.curtag = Len(entered)
        /\ \A i \in 1 .. n : hist.cmds[i] = entered[k + i] /\ hist.ctag[i] = k + i

\* "!n" gives the interpreter the command that was entered as number n, with
\* what follows the number added, as long as the history lists n.
NumberMeansCommand ==
    [][LET line == Text(cells)
           n    == ScanInt(Tail(line))[1]
       IN  /\ ~wild' /\ Len(line) > 1 /\ line[1] = "!" /\ line[2] \in Digits
           /\ n \in {hist.ctag[i] : i \in DOMAIN hist.ctag}
           /\ \E in \in Inputs : LineDone(in)
           => sent' = Entry(entered[n], Drop(line, 1 + Span(Tail(line), Digits)))]_editorVars

-----------------------------------------------------------------------------
(* What the comments promise and the code does not keep: the deviations run *)

\* "maximum command length": a line of any length up to it can be entered
LineStaysInBuffer == ~wild

\* "scan backward and find a tg": every listed command can be recalled by its
\* distance, the oldest as well
RelativeReachesAll ==
    [][\A n \in 1 .. Len(hist.cmds) :
         Text(cells) = <<"!", "-", ToString(n)>> /\ (\E in \in Inputs : LineDone(in))
           => sent' # <<>>]_editorVars
=============================================================================
