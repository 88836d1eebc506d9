------------------------------ MODULE Transports ------------------------------
(***************************************************************************)
(* How the backup programs reach their server (transports/nas.py,          *)
(* iscsi.py, rsync.py): the shares and devices mounted for them, the iSCSI *)
(* sessions, the ssh keys.  setdown does nothing, so what one process      *)
(* mounts is what the next one finds, and what a setup with other          *)
(* parameters unmounts is gone for those that work in it.                  *)
(*                                                                         *)
(* A job (run-backups, run-recover, archiver) holds the backup lock, a     *)
(* settings page does not: it saves what has passed its setup (set), or    *)
(* only tries it (test; testBackups), or saves what it has not tried, with *)
(* backups disabled.  Every command of the system that a setup runs is a   *)
(* step, and may fail.  The mount table, iscsiadm, the init script and     *)
(* sshd are external.                                                      *)
(***************************************************************************)
EXTENDS Naturals, Sequences, FiniteSets

CONSTANTS
    Jobs, Pages,  \* processes
    Choices       \* each what one installation's users may enter, and on which
                  \* of the pages: [params, pages], params of [type, target, user]

Procs  == Jobs \cup Pages
Params == UNION {c.params : c \in Choices}
NoName  == ""                       \* a mount line without a username option

ASSUME TransportsAssumption ==
    /\ Jobs \cap Pages = {} /\ IsFiniteSet(Procs)
    /\ Choices # {} /\ \A c \in Choices : c.params # {} /\ c.pages \subseteq Pages
    /\ \A q \in Params : q.type \in {"nas", "iscsi", "ssh"}

VARIABLES
    choice,     \* what may be entered here
    cfg,        \* the parameters in the configuration file
    wanted,     \* Enabled or Recover is set there
    proc,       \* of each process:
                \*   pc, my: where it is, with the parameters it has read
                \*   pass:   of a job, 1 in validate's setup, 2 in its own
                \*   dev:    devPaths[0], the target whose device was found
                \*   at:     its command's place in the stack, 0 when local
    stack,      \* what is mounted on the mount point of a type, one on the other
    daemon,     \* open-iscsi runs
    sessions,   \* the targets logged in to
    ours,       \* the devices with our label
    key, auth,  \* /root/.ssh/id_rsa; the servers that accept it
    raced       \* (history) the types whose processes began with, or beside, what is
                \* strange to them; until one begins alone with nothing strange

iscsi  == <<daemon, sessions, ours>>
ssh    == <<key, auth>>
vars   == <<choice, cfg, wanted, proc, stack, iscsi, ssh, raced>>

\* a process that does not run
Off == [pc |-> "off", my |-> CHOOSE q \in Params : TRUE, pass |-> 0, dev |-> 0, at |-> 0]

Init ==
    /\ choice \in Choices /\ cfg \in choice.params /\ wanted \in BOOLEAN
    /\ proc = [p \in Procs |-> Off]
    /\ stack = [t \in {"nas", "iscsi"} |-> <<>>]
    /\ daemon = FALSE /\ sessions = {} /\ ours = {}
    /\ key = "none" /\ auth = {}
    /\ raced = {}

pc(p)      == proc[p].pc
Type(p)    == proc[p].my.type
Target(p)  == proc[p].my.target
Mounted(p) == stack[Type(p)]

Go(p, l) == proc' = [proc EXCEPT ![p].pc = l]

\* where setup begins, and validate
First(q, n) == IF q.type # "ssh" THEN "look" ELSE IF n = 1 THEN "keys" ELSE "mkdir"

\* setup or validate returns: a page goes on to settings.set, or was a test; a
\* job goes from validate to setup and from there to its commands; an exception,
\* a message and a false value all end the process (nas.py:55, backups.py:455)
Returns(p, ok) ==
    IF ~ok THEN proc' = [proc EXCEPT ![p] = Off]
    ELSE IF p \in Pages THEN Go(p, "save") \/ proc' = [proc EXCEPT ![p] = Off]
    ELSE proc' = [proc EXCEPT ![p].pc = IF proc[p].pass = 1 THEN First(proc[p].my, 2) ELSE "ready",
                              ![p].pass = 2]
Fails(p) == Returns(p, FALSE)

\* nothing but where p is changes
Moves == UNCHANGED <<choice, cfg, wanted, stack, iscsi, ssh, raced>>

-----------------------------------------------------------------------------
(* The processes                                                           *)

\* what a mount's line says of one who has mounted q
Line(q) == [target |-> q.target, user |-> q.user]

\* the others that are on their way to what is mounted, or use it
Beside(p, q) == {r \in Procs \ {p} : pc(r) # "off" /\ Type(r) = q.type}

\* One who begins with q finds what it cannot deal with, or meets others who want
\* or have something else.  Alone, a setup of nas can deal with any one share.
Strange(p, q) ==
    LET s     == stack[q.type]
        alone == Beside(p, q) = {}
    IN  \/ \E r \in Beside(p, q) : proc[r].my # q
        \/ q.type = "nas" /\ alone /\ \E i, j \in DOMAIN s : s[i] # s[j]
        \/ q.type = "nas" /\ ~alone /\ \E i \in DOMAIN s : s[i] # Line(q)
        \/ /\ q.type = "iscsi"
           /\ (\E i \in DOMAIN s : s[i].target # q.target) \/ \E d \in sessions : d # q.target

Begins(p, q, n) ==
    /\ pc(p) = "off"
    /\ proc' = [proc EXCEPT ![p] = [Off EXCEPT !.pc = First(q, n), !.my = q, !.pass = n]]
    /\ raced' = IF q.type = "ssh" THEN raced
                ELSE IF Strange(p, q) THEN raced \cup {q.type}
                ELSE IF Beside(p, q) = {} THEN raced \ {q.type} ELSE raced
    /\ UNCHANGED <<choice, cfg, wanted, stack, iscsi, ssh>>

\* a backup validates first, the archiver's sendFile does not
BeginJob(p) ==
    /\ wanted /\ \A j \in Jobs : pc(j) = "off"
    /\ \E n \in {1, 2} : Begins(p, cfg, n)
BeginPage(p) == p \in choice.pages /\ \E q \in choice.params : Begins(p, q, 1)

\* settings.set, when validate said that the parameters are good
Save(p) ==
    /\ pc(p) = "save"
    /\ cfg' = proc[p].my /\ wanted' = TRUE
    /\ proc' = [proc EXCEPT ![p] = Off]
    /\ UNCHANGED <<choice, stack, iscsi, ssh, raced>>

\* it says so of everything when nothing is enabled
SaveDisabled(p) ==
    /\ pc(p) = "off" /\ p \in choice.pages
    /\ cfg' \in choice.params /\ wanted' = FALSE
    /\ UNCHANGED <<choice, proc, stack, iscsi, ssh, raced>>

\* the script recover asks for a recovery with the parameters that are there,
\* and takes it back (backups that are enabled stay so, which does not matter here)
Recover ==
    /\ wanted' = ~wanted
    /\ UNCHANGED <<choice, cfg, proc, stack, iscsi, ssh, raced>>

\* mkCmd: "cd <mount point> && ..."
Command(p) ==
    /\ pc(p) = "ready"
    /\ proc' = [proc EXCEPT ![p].pc = "running",
                            ![p].at = IF Type(p) = "ssh" THEN 0 ELSE Len(Mounted(p))]
    /\ Moves

Done(p) ==
    /\ pc(p) = "running"
    /\ proc' = [proc EXCEPT ![p].pc = "ready", ![p].at = 0]
    /\ Moves

EndJob(p) ==
    /\ pc(p) = "ready"
    /\ proc' = [proc EXCEPT ![p] = Off]
    /\ Moves

-----------------------------------------------------------------------------
(* setup of nas and iscsi                                                  *)

\* mutant: the directory is not compared
SameUser(m, q) == q.type = "nas" => m.user = q.user

\* what is the same of a mount's line and of the parameters
Same(m, q) == m.target = q.target /\ (q.type = "nas" => m.user = q.user)

\* what setup makes of the first line of the mount table, that of what was
\* mounted first; the device of a session that has ended has no link in /sys/block
Verdict(q, m) ==
    IF q.type = "iscsi" /\ m.target \notin sessions THEN "gone"
    ELSE IF q.type = "nas" /\ m.target = q.target /\ m.user = NoName THEN "nameless"
    ELSE IF Same(m, q) THEN "same" ELSE "changed"

\* mutant: a directory that has changed is only logged
LookLogs(p) ==
    /\ pc(p) = "look"
    /\ LET v == IF Mounted(p) = <<>> THEN "none" ELSE Verdict(proc[p].my, Mounted(p)[1]) IN
       \/ v \in {"none", "nameless", "changed"} /\ Go(p, "look2")
       \/ v \in {"same", "gone"} /\ Returns(p, v = "same")
    /\ Moves

\* the first isMounted, and the comparison
Look(p) ==
    /\ pc(p) = "look"
    /\ LET v == IF Mounted(p) = <<>> THEN "none" ELSE Verdict(proc[p].my, Mounted(p)[1]) IN
       \/ v \in {"none", "nameless"} /\ Go(p, "look2")
       \/ v = "changed" /\ Go(p, "unmount")
       \/ v \in {"same", "gone"} /\ Returns(p, v = "same")
    /\ Moves

InUse(t, n) == \E r \in Procs : pc(r) = "running" /\ Type(r) = t /\ proc[r].at = n

\* unMount: umount takes off what was mounted last, unless somebody works there
UmountOk(p) ==
    /\ pc(p) = "unmount"
    /\ LET s == Mounted(p) IN
       /\ s # <<>> /\ ~InUse(Type(p), Len(s))
       /\ stack' = [stack EXCEPT ![Type(p)] = SubSeq(s, 1, Len(s) - 1)]
    /\ Go(p, IF Type(p) = "nas" THEN "look2" ELSE "stop")
    /\ UNCHANGED <<choice, cfg, wanted, iscsi, ssh, raced>>

\* it fails, which nobody looks at, or finds that another process was faster
UmountFails(p) ==
    /\ pc(p) = "unmount"
    /\ Go(p, IF Type(p) = "iscsi" /\ Mounted(p) = <<>> THEN "stop" ELSE "look2")
    /\ Moves

\* "LOGED_IN" is no state of a session: nobody logs out, and whether the init
\* script ends the sessions is its own affair
StopDaemon(p) ==
    /\ pc(p) = "stop"
    /\ \/ daemon' = FALSE /\ sessions' \in {{}, sessions}
       \/ UNCHANGED <<daemon, sessions>>
    /\ Go(p, "look2")
    /\ UNCHANGED <<choice, cfg, wanted, stack, ours, ssh, raced>>

\* mutant: mounts whatever is there
Look2Blind(p) ==
    /\ pc(p) = "look2"
    /\ Go(p, IF Type(p) = "nas" THEN "mount" ELSE "daemon")
    /\ Moves

Look2(p) ==
    /\ pc(p) = "look2"
    /\ IF Mounted(p) = <<>>
       THEN Go(p, IF Type(p) = "nas" THEN "mount" ELSE "daemon")
       ELSE Returns(p, Type(p) = "iscsi")   \* nas.setup ends without a value
    /\ Moves

MountOk(p) ==
    /\ pc(p) = "mount"
    /\ Type(p) = "iscsi" => proc[p].dev \in sessions
    /\ stack' = [stack EXCEPT ![Type(p)] =
          Append(@, [target |-> IF Type(p) = "nas" THEN Target(p) ELSE proc[p].dev,
                     user   |-> proc[p].my.user])]
    /\ Returns(p, TRUE)
    /\ UNCHANGED <<choice, cfg, wanted, iscsi, ssh, raced>>

\* an iSCSI setup then tries to fsck a device it has no name for (iscsi.py:217)
MountFails(p) == pc(p) = "mount" /\ Fails(p) /\ Moves

-----------------------------------------------------------------------------
(* setup of iscsi: the device                                              *)

StartDaemon(p) ==
    /\ pc(p) = "daemon"
    /\ \/ daemon' = TRUE /\ Go(p, "devices")
       \/ ~daemon /\ Fails(p) /\ UNCHANGED daemon
    /\ UNCHANGED <<choice, cfg, wanted, stack, sessions, ours, ssh, raced>>

\* getDevices: a session whose disk it finds is taken for ours, whatever its
\* target; it finds none when there is none, or not yet, or iscsiadm or grep fails.
\* After the login that is an exception (iscsi.py:184).
Devices(p) ==
    /\ pc(p) \in {"devices", "found"}
    /\ \/ \E d \in sessions : proc' = [proc EXCEPT ![p].dev = d, ![p].pc = "label"]
       \/ IF pc(p) = "devices" THEN Go(p, "login") ELSE Fails(p)
    /\ Moves

\* discovery and login, which may be the second one to this target
Login(p) ==
    /\ pc(p) = "login"
    /\ \/ daemon /\ sessions' \in {sessions, sessions \cup {Target(p)}}
          /\ Go(p, "found")
       \/ Fails(p) /\ UNCHANGED sessions
    /\ UNCHANGED <<choice, cfg, wanted, stack, daemon, ours, ssh, raced>>

\* e2label: a label that is another or cannot be read makes the device a new one
Label(p) ==
    /\ pc(p) = "label"
    /\ \/ /\ proc[p].dev \in sessions
          /\ Go(p, IF proc[p].dev \in ours THEN "mount" ELSE "format")
       \/ Go(p, "format")
       \/ Fails(p)
    /\ Moves

\* formatAndLabel: mkfs, which refuses a device that is mounted, and e2label
Format(p) ==
    /\ pc(p) = "format"
    /\ \/ /\ proc[p].dev \in sessions
          /\ \A i \in DOMAIN stack["iscsi"] : stack["iscsi"][i].target # proc[p].dev
          /\ \/ ours' = ours \cup {proc[p].dev} /\ Go(p, "mount")
             \/ ours' = ours \ {proc[p].dev} /\ Fails(p)
       \/ Fails(p) /\ UNCHANGED ours
    /\ UNCHANGED <<choice, cfg, wanted, stack, daemon, sessions, ssh, raced>>

-----------------------------------------------------------------------------
(* ssh                                                                     *)

\* a key pair is made when there is none; ssh-keygen does not overwrite
Keys(p) ==
    /\ pc(p) = "keys"
    /\ \/ key # "private" /\ key' = "pair" /\ Go(p, "connect")
       \/ key # "pair" /\ key' \in {key, "private"} /\ Fails(p)
    /\ UNCHANGED <<choice, cfg, wanted, stack, iscsi, auth, raced>>

\* with the key; when it is refused with the password, if there is one
Connect(p) ==
    /\ pc(p) = "connect"
    /\ \/ Target(p) \in auth /\ Returns(p, TRUE)
       \/ Target(p) \notin auth /\ p \in Pages /\ Go(p, "append")
       \/ Fails(p)
    /\ Moves

\* cat >> .ssh/authorized_keys, which may not be done when ssh is closed
AddKey(p) ==
    /\ pc(p) = "append"
    /\ auth' \in {auth, auth \cup {Target(p)}}
    /\ Go(p, "again")
    /\ UNCHANGED <<choice, cfg, wanted, stack, iscsi, key, raced>>

Reconnect(p) ==
    /\ pc(p) = "again"
    /\ \/ Target(p) \in auth /\ Returns(p, TRUE)
       \/ Fails(p)
    /\ Moves

\* setup: ssh user@server mkdir -p
MakeDir(p) ==
    /\ pc(p) = "mkdir"
    /\ \/ key = "pair" /\ Target(p) \in auth /\ Returns(p, TRUE)
       \/ Fails(p)
    /\ Moves

-----------------------------------------------------------------------------

\* one step of a setup
Setup(p) ==
    \/ Look(p) \/ UmountOk(p) \/ UmountFails(p) \/ StopDaemon(p) \/ Look2(p)
    \/ MountOk(p) \/ MountFails(p)
    \/ StartDaemon(p) \/ Devices(p) \/ Login(p) \/ Label(p) \/ Format(p)
    \/ Keys(p) \/ Connect(p) \/ AddKey(p) \/ Reconnect(p) \/ MakeDir(p)

Next ==
    \/ \E p \in Jobs : BeginJob(p) \/ Command(p) \/ Done(p) \/ EndJob(p)
    \/ \E p \in Pages : BeginPage(p) \/ Save(p) \/ SaveDisabled(p)
    \/ Recover
    \/ \E p \in Procs : Setup(p)

Spec == Init /\ [][Next]_vars

\* Jobs go on and have an end, and are started again and again (cron, the database's
\* archive command); a share that a job asks for again and again is mounted in the
\* end, and taken off in the end, when its server works.  Nothing is assumed of pages.
FairSpec ==
    /\ Spec
    /\ \A p \in Jobs :
          /\ WF_vars(BeginJob(p)) /\ WF_vars(Setup(p)) /\ WF_vars(Done(p)) /\ SF_vars(EndJob(p))
          /\ SF_vars(UmountOk(p)) /\ SF_vars(MountOk(p))

-----------------------------------------------------------------------------
(* Properties                                                              *)

\* Type invariant: what is on a mount point, and at which place of it a job works.
TypeOK ==
    /\ cfg \in choice.params
    /\ stack \in [{"nas", "iscsi"} ->
                  Seq([target : {q.target : q \in Params}, user : {q.user : q \in Params}])]
    /\ \A p \in Procs : proc[p].at > 0 => pc(p) = "running" /\ proc[p].at <= Len(Mounted(p))

\* Two setups that both find nothing mounted both mount, one on the other; but
\* however often this happens, no more is stacked than there are processes.
StackBounded == \A t \in DOMAIN stack : Len(stack[t]) <= Cardinality(Procs)

\* where a command's directory is
Share(p) == stack[Type(p)][proc[p].at]

\* what a command needs of it
Right(p) ==
    /\ proc[p].at > 0 /\ Share(p).target = Target(p)
    /\ Type(p) = "nas" => Share(p).user = proc[p].my.user

\* A command of a job runs on the share or the device the job was configured for, not
\* on another nor in the local directory, whatever pages have left mounted, saved
\* without mounting it, or could not unmount: as long as those that are under way
\* together have the same parameters and find nothing else mounted (two that do not
\* may both unmount it, one of them what the other has mounted since).  A setup of
\* iscsi must find nothing else even alone: it takes any session for its own.
RightShare ==
    \A p \in Procs : pc(p) = "running" /\ Type(p) \in {"nas", "iscsi"} \ raced => Right(p)

\* When backups are enabled, the configuration stays at a share and a user name, and
\* the pages are left alone, jobs get at their server again and again, whatever was
\* mounted before and however often umount and mount failed.  Not when a share is
\* mounted without a user name: it is never unmounted, and never good.
JobsGetThrough ==
    <>[](/\ wanted /\ cfg.type = "nas" /\ cfg.user # NoName
         /\ \A i \in DOMAIN stack["nas"] : stack["nas"][i].user # NoName
         /\ \A p \in Pages : pc(p) = "off")
      => []<>(\E p \in Jobs : pc(p) = "ready" /\ Type(p) = "nas")

-----------------------------------------------------------------------------
(* What the comments promise and the code does not keep: the deviations run *)

\* "check if the mount is already active with the same parameters" (nas.py:83)
SameParameters == \A p \in Procs : pc(p) = "running" /\ Type(p) = "nas" => Right(p)

\* "validate the parameters of the iscsi sesssion ... all good" (iscsi.py:137, 228)
RightDevice == \A p \in Procs : pc(p) = "running" /\ Type(p) = "iscsi" => Right(p)

\* "make a list of existing iscsi device so we can find which one we created"
\* (iscsi.py:162): one of many cannot be told from the others
OneSession == Cardinality(sessions) <= 1

\* "format and label a new device" (iscsi.py:103): no other is formatted
OnlyNewFormatted ==
    [][\A p \in Procs : pc(p) = "format" /\ proc'[p].pc = "mount" => proc[p].dev \notin ours]_vars
=============================================================================
