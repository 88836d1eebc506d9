------------------------------- MODULE TrxConfig -------------------------------
(***************************************************************************)
(* The manager's configuration: the file, the table that readConf makes of *)
(* it at the start and after a SIGHUP, and the settings that a program is  *)
(* sent when it registers.                                                 *)
(*                                                                         *)
(* A file is a sequence of lines; a line has a program's name or "*", the  *)
(* flags that it switches on, as they are spelled in it, and may have      *)
(* something in it that readConf does not understand.                      *)
(***************************************************************************)
EXTENDS Integers, Sequences, FiniteSets, FiniteSetsExt, SequencesExt

CONSTANTS
    Names,      \* programs
    Contents,   \* what may be in the file (bound)
    MaxApps,    \* entries that the table holds (100)
    MaxEdits,   \* changes of the file (bound)
    MaxHups     \* signals (bound)

Words == {"enable", "poison", "validate", "track"}
Masks == {"ENABLE", "POISON", "VALIDATE", "TRACK"}
Lines == [name : Names \cup {"*"}, on : SUBSET Words, ok : BOOLEAN]

\* No file: what stands for it is none that can be read.
Absent == <<[name |-> "absent", on |-> {}, ok |-> FALSE]>>

VARIABLES
    file,       \* the configuration file
    apps,       \* the table
    defaultsValid, defaultAppSettings,
    redoConf,
    pc,         \* the manager: down, select, work, eintr, redone
    set,        \* what each program was told to do, and from which file
    edits, hups,
    good,       \* (history) the file that was read without an error last
    unread      \* (history) the file changed and a signal was sent since it was read

defaults == <<defaultsValid, defaultAppSettings>>
table    == <<apps, defaults>>
bounds   == <<edits, hups>>
history  == <<good, unread>>
vars     == <<file, table, redoConf, pc, set, bounds, history>>

NotSet == [cmds |-> {}, by |-> Absent]

Init ==
    /\ file \in Contents \cup {Absent}
    /\ apps = <<>> /\ defaultsValid = FALSE /\ defaultAppSettings = Masks
    /\ redoConf = FALSE /\ pc = "down"
    /\ set = [n \in Names |-> NotSet]
    /\ edits = 0 /\ hups = 0
    /\ good = <<>> /\ unread = FALSE

-----------------------------------------------------------------------------
(* The table of flags                                                      *)

flgmap == {[flgstr |-> "enable",   mask |-> "ENABLE",   cmd |-> "ENABLE"],
           [flgstr |-> "poison",   mask |-> "POISON",   cmd |-> "POISON"],
           [flgstr |-> "validate", mask |-> "TRACK",    cmd |-> "TRACK"],
           [flgstr |-> "track",    mask |-> "VALIDATE", cmd |-> "VALIDATE"]}

FlagMasks(on)    == {f.mask : f \in {g \in flgmap : g.flgstr \in on}}
sendConfig(mask) == {f.cmd  : f \in {g \in flgmap : g.mask \in mask}}

-----------------------------------------------------------------------------
(* readConf                                                                *)

IsApp(l)  == l.name # "*"
IsStar(l) == l.name = "*"

\* The lines that are read: no more after the one that fills the table.
ReadLines(f) ==
    SubSeq(f, 1, Max({0} \cup {j \in 1..Len(f) :
                                  Len(SelectSeq(SubSeq(f, 1, j - 1), IsApp)) < MaxApps}))

Entries(f) == SelectSeq(ReadLines(f), IsApp)
Stars(f)   == SelectSeq(ReadLines(f), IsStar)
Sound(f)   == \A j \in 1..Len(ReadLines(f)) : ReadLines(f)[j].ok

\* The lines named "*" take effect as they are read; the others when all are read,
\* if there was no error.
ReadInto(f, valid, settings) ==
    /\ defaultsValid' = (valid \/ Stars(f) # <<>>)
    /\ defaultAppSettings' = IF Stars(f) = <<>> THEN settings ELSE FlagMasks(Last(Stars(f)).on)
    /\ apps' = IF Sound(f) THEN Entries(f) ELSE apps
    /\ good' = IF Sound(f) THEN f ELSE good

getAppConfig(n) ==
    LET at == {j \in 1..Len(apps) : apps[j].name = n} IN
    IF at # {}           THEN FlagMasks(apps[Min(at)].on)
    ELSE IF defaultsValid THEN defaultAppSettings
    ELSE {}

-----------------------------------------------------------------------------
(* The manager                                                             *)

\* No file, or one with an error: it does not start.
Start ==
    /\ pc = "down" /\ Sound(file)
    /\ ReadInto(file, FALSE, Masks)
    /\ pc' = "select" /\ redoConf' = FALSE /\ unread' = FALSE
    /\ UNCHANGED <<file, set, bounds>>

\* Something to read, or the second is over.
Work ==
    /\ pc = "select" /\ pc' = "work"
    /\ UNCHANGED <<file, table, redoConf, set, bounds, history>>

EndWork ==
    /\ pc = "work" /\ pc' = "select"
    /\ UNCHANGED <<file, table, redoConf, set, bounds, history>>

\* A program of that name has started, registers and is sent its settings.
Register(n) ==
    /\ pc = "work"
    /\ set' = [set EXCEPT ![n] = [cmds |-> sendConfig(getAppConfig(n)), by |-> good]]
    /\ UNCHANGED <<file, table, redoConf, pc, bounds, history>>

\* sigHandler: it ends select(), if that is where the manager is.
Hup ==
    /\ pc # "down" /\ hups < MaxHups
    /\ hups' = hups + 1
    /\ redoConf' = TRUE /\ unread' = TRUE
    /\ pc' = IF pc = "select" THEN "eintr" ELSE pc
    /\ UNCHANGED <<file, table, set, edits, good>>

\* The file is read; without one, the message that says so ends the process.
Reread ==
    /\ pc = "eintr"
    /\ IF file = Absent
       THEN pc' = "down" /\ UNCHANGED <<table, history>>
       ELSE /\ ReadInto(file, defaultsValid, defaultAppSettings)
            /\ pc' = "redone" /\ unread' = FALSE
    /\ UNCHANGED <<file, redoConf, set, bounds>>

Reset ==
    /\ pc = "redone" /\ pc' = "select"
    /\ redoConf' = FALSE
    /\ UNCHANGED <<file, table, set, bounds, history>>

Edit ==
    /\ edits < MaxEdits
    /\ edits' = edits + 1
    /\ file' \in (Contents \cup {Absent}) \ {file}
    /\ UNCHANGED <<table, redoConf, pc, set, hups, history>>

-----------------------------------------------------------------------------
Loop == Work \/ EndWork \/ Reread \/ Reset
Next == \/ Start \/ Loop \/ Hup \/ Edit
        \/ \E n \in Names : Register(n)

Spec == Init /\ [][Next]_vars

\* select() returns within a second, and nothing that follows it waits for ever.
FairSpec == Spec /\ WF_vars(Loop)

-----------------------------------------------------------------------------
TypeOK ==
    /\ file \in Contents \cup {Absent}
    /\ apps \in Seq(Lines) /\ Len(apps) <= MaxApps
    /\ defaultsValid \in BOOLEAN /\ defaultAppSettings \subseteq Masks
    /\ redoConf \in BOOLEAN
    /\ pc \in {"down", "select", "work", "eintr", "redone"}
    /\ set \in [Names -> [cmds : SUBSET Masks, by : Contents \cup {Absent, <<>>}]]
    /\ edits \in 0..MaxEdits /\ hups \in 0..MaxHups
    /\ good \in Contents \cup {<<>>} /\ unread \in BOOLEAN

\* A program that has a line of its own in the last file without an error is told
\* what the first of its lines says, whatever files, with and without errors, longer
\* and shorter, were read before and after (trxmgr.c, readConf and getAppConfig; trxmgrClient.c, sendConfig).
NamedGetTheirs ==
    \A n \in Names :
        LET own == SelectSeq(Entries(set[n].by), LAMBDA l : l.name = n) IN
        set[n].by # Absent /\ own # <<>> => set[n].cmds = sendConfig(FlagMasks(own[1].on))

\* A file with an error changes nothing (trxmgr.c, readConf: "%d errors detected,
\* configuration file ignored.").
BadFileIsIgnored ==
    [][(pc = "eintr" /\ file # Absent /\ ~Sound(file))
          => \A n \in Names : getAppConfig(n)' = getAppConfig(n)]_vars

\* After a signal the file is read (trxmgr.c, sigHandler: "Got HUP: re-reading
\* config.").
HupIsHeard == unread ~> (~unread \/ pc = "down")

\* Without a file the manager goes on and tracking is disabled (trxmgr.c, readConf:
\* "Application tracking is disabled by default.", "Use CLI to enable tracking").
GoesOnWithoutFile == [][(pc = "eintr" /\ file = Absent) => pc' # "down"]_vars

\* A program does what its line says, each flag under its own name (settings: track
\* is "Record allocation callstack", validate is "Validate on free").
DoesWhatItSays ==
    \A n \in Names :
        LET own == SelectSeq(Entries(set[n].by), LAMBDA l : l.name = n) IN
        set[n].by # Absent /\ own # <<>>
            => /\ "TRACK" \in set[n].cmds    <=> "track" \in own[1].on
               /\ "VALIDATE" \in set[n].cmds <=> "validate" \in own[1].on

-----------------------------------------------------------------------------
(* Instances                                                               *)

Line(n, on, ok) == [name |-> n, on |-> on, ok |-> ok]
AllFlags  == {"enable", "poison", "validate", "track"}
SomeFlags == {"enable", "track"}

\* One program; a default and a program; and an error in a file that has a default.
Three == {<<Line("a", SomeFlags, TRUE)>>,
          <<Line("*", SomeFlags, TRUE), Line("b", AllFlags, TRUE)>>,
          <<Line("*", AllFlags, TRUE), Line("a", {"enable"}, FALSE)>>}
=============================================================================
