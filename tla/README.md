# RimComponents: specifications, model checks and proofs

RimComponents is a collection of packages for the Rim appliances.  Most of its files are
third-party programs (Java, Tomcat, lxc, kernels) that are only packaged here.  Its own
programs are

- **prof/track**, a memory and descriptor tracker: a preloaded library (`trxlib`), the
  thread in it that talks to a manager (`trxclient`), and the manager (`trxmgr`) with its
  command line sessions;
- **backup**, scheduled backups to a remote server, recovery from them, and continuous
  archiving of the database's log;
- **imgd**, a server that installs machines over the network (dhcp, tftp);
- **builder** and **lxc scripts**, a smoke test with the consoles of its virtual machines, and
  tools around containers.

This directory has TLA+ modules for all of these, configurations of TLC that check them, and
TLAPS proofs about eight of the modules.  Paths below are relative to `src/`.

    tlc -config MCImgd.cfg MCImgd                   # one run
    tlc -config MCTrxMgr.cfg TrxMgr                 # an instance that needs no definitions
    tlapm TrxMgr_proofs.tla                         # one module of proofs

## 1. Inventory

### 1.1 Tracker: connection (`trxcommon.c`, `trxclient.c`, `trxmgrClient.c`)

*State*: a UNIX stream socket; on each side a sequence number, and what it waits for; in
the process `enable`, `sendReport` and the phase of its thread; in the manager the slot's
state.  *Operations*: `sendCmd` (write, then wait one second for the acknowledgement of
this number), `getCmd`/`sendAck`, REGISTER, one configuration command per flag, REPORT
both ways, reading end of file, reconnection every second.  *Interaction*: each side may
send a command at any time, so commands cross; the manager is one thread and does nothing
else while it waits.  *Hard*: late acknowledgements, crossed commands, a peer that exits
between two packets, SIGPIPE, a write or a read that fails half-way through an exchange.
*Correct when* an acknowledgement is taken only for its command, a process that is served
has its whole configuration, and a report that is owed comes or the connection closes.

### 1.2 Tracker: the manager's tables (`trxmgrClient.c`, `trxmgrCli.c`, `trxmgr.c`)

*State*: `clients[]` (fd, state, `reportTo`, `snap`), `cli[]` (fd, `waiting`, scope, report
file).  *Operations*: accept a client or a CLI, read a packet of a client, read a command,
walk over the clients in scope, count an answer (`cliDecWait`), close.  *Hard*: one session's
walk closes clients that another session waits for; slots and entries are used again and
not everything in them is reset; an answer may come after the session has gone.  *Correct
when* a session waits exactly for the clients that owe it something, is not released
before, is released eventually, and keeps its file open until then.

### 1.3 Tracker: configuration of the manager (`trxmgr.c`, `prof/track/settings`)

*State*: the file, the table `apps`, the defaults, `redoConf`.  *Operations*: `readConf`, the
SIGHUP handler and the main loop, the settings sent at REGISTER, the settings page.
*Hard*: a file with an error half-way; a signal at any place of the loop.

### 1.4 Tracker: the library (`trxlib.c`)

*State*: `enable`, `tracking`, `alloctag`, the lock, the lists of blocks by tag, `curalloc`,
the table of descriptors, the report's shared memory.  *Operations*: malloc, realloc, free,
fork, open, close, commands of the manager, `sendReport`.  *Hard*: any number of threads of
any program; flags change between two reads of them; fork copies a lock that somebody
else holds; the report copies descriptors without the lock.  *Correct when* a listed
block is live, no tracked block is lost, and a report stays inside its segment.

### 1.5 Backup: lock, jobs, directories, archiver (`backup/sbin`)

*State*: `/tmp/lockfile` and `/var/run/backups.pid`; the configuration file (Enabled,
Recover); on the server the directories `_Backup_<t>`, `Latest_<t>`, `Backup_<t>`; the local
directory of log segments.  *Operations*: `run-backups`, `run-recover`, `check-recover`, the
settings page, `archiver`, started by cron, at(1), the database or a user.  *Interaction*:
through the lock, the configuration file, and the names of directories.  *Hard*: each
command on the server may fail by itself; a process may be killed between any two of
them; a job works with the configuration it read before it waited; two files make one
lock.  *Correct when* at most one job works, a whole backup stays on the server whatever
happens, the backup a recovery reads stays in place, a recovery that is asked for is
carried out, and no log segment that was stored is lost or overtaken.

### 1.6 Image server (`imgd/imgd`, `imgd/python`, `imgd/settings`)

*State*: the configuration file and the copy read at the start; per host Serve, the dhcp
exchange, the file asked for; the transfer under way; the tftp socket.  *Operations*: DHCP
discover and request, read request, acknowledgement, chunk after chunk with timeouts,
clearing Serve after the initrd, reload on a changed file.  *Hard*: one socket for all
hosts, a transfer loop that reads everybody's messages, messages lost, late and sent
again, hosts that are switched off in the middle, two writers of one file.  *Correct when*
a host receives its own files, chunk by chunk, is not served again after it has its
initrd, and the loop ends unless it is disturbed for ever.

The images themselves (`isos.py`, `isohandlers`): *state* the uploaded file, its copy, what is
mounted and what is exported, all of which outlive the server.  *Hard*: each handler in turn,
for each host, decides by what it finds mounted whether to mount again; uploads go on
meanwhile, beside the copy of an image too, whose time is that of its last write; every command may fail and most results are ignored.  *Correct when* what a host
installs from is exported and is the uploaded image.

### 1.7 Tracker: line editor and history (`trxmgrRl.c`, `trxmgrHist.c`)

*State*: per session a buffer with its length and cursor, the bytes of a key sequence that has
begun, the place in the history; the history's commands and their numbers.  *Operations*: a
byte of the connection (keys, escape sequences, telnet negotiation), a finished line, `!n`,
`!-n`, `!text`, `history n`.  *Hard*: the length that the editor keeps and the one that the C
library finds are two things; the history shrinks and grows between recalls.  *Correct when*
the line that is submitted is the one that is shown, and a number recalls the command that
had it.

### 1.8 Backup: transports (`backup/sbin/transports`)

*State*: what is mounted on the two mount points and with which parameters, iSCSI sessions,
keys.  *Operations*: `setup` of a job, command by command; a settings page that tries
parameters, saves what it has tried, or saves untried what is not enabled; the script `recover`.
*Interaction*: jobs hold the lock of 1.5, pages do not; `setdown` does nothing, so that what
one process mounts is what the next finds.  *Hard*: a page unmounts what a job works in; two
setups both find nothing and both mount; what an earlier configuration, or a page that only
tried, left is taken for one's own.  *Correct when* a job's commands run on the share or the
device it was configured for, and jobs get through again and again.

### 1.9 Containers (`lxc/lxc-0.8.0/scripts`)

*State*: per container what lxc knows, its mounts, the level in its file; the host's inittab
and what is recorded of it.  *Operations*: `containers start` and `stop`, container by
container, enabling and disabling on the settings page.  *Hard*: the script ignores failures,
learns of a container's progress from a file that may be its last run's, edits a container's
inittab beside a command that does the same and is not waited for, and may be run twice.
*Correct when* "done" means that the container came up, and nothing is taken from a container
that runs.

### 1.10 Builder: consoles and smoke test (`builder/sbin`)

*State*: per console process its telnet port and who has called it, the domain it is joined to
through socat and a file; in the hypervisor a blob per machine with its port; the smoke test's
place, the machines' drives, the buffer of `RimAPI`.  *Operations*: finding a port, waiting for
the machine, joining it again after each boot; shutdown, insert, start, wait for the eject, wait
for the configuration, changing it.  *Interaction*: the smoke test forks the consoles, which
exit if they find their port in use; all go through the hypervisor's database, which has no
transactions.  *Hard*: consoles that choose a port at once; files and domains of a console that
was killed, and the port that its socat has inherited; a console whose start returns into the
script; events before the registration, or lost with it.
*Correct when* a user reaches the machine he asked for, a console finds its machine again, and
the script ends.

### 1.11 Not modelled (see "components" in PROJECT.json for each)

The presentation of reports (`trxTree.c`, `stacktext`), which sorts and prints; test programs
and start scripts; forms, listings and hooks of the backup, below "a command succeeds or
fails"; the texts of settings pages and of boot files; everything third-party.  The Java
headers (`jni.h`, `jvmti.h`, `classfile_constants.h`, in two copies some 10,000 of the 18,000
lines that count as implementation here) are vendored declarations without behaviour: the
part that the modules stand for is more than half of the repository's own 7,500 or so.

## 2. Modules

| module | stands for | kind |
|---|---|---|
| `ReportLink` | what a connection promises to the manager's tables | abstract |
| `TrxConn` | one connection, packet by packet, and the manager's death | detailed; implements `ReportLink` |
| `TrxConn_proofs` | theorems about `TrxConn` | proofs |
| `ReportDesk` | what the manager promises to its CLI sessions | abstract |
| `TrxMgr` | the tables; an exchange with a client is one step, with the outcomes that `ReportLink` allows | detailed; implements `ReportDesk` |
| `TrxMgr_proofs` | theorems about `TrxMgr`, and about `LineEditor` with `CmdHistory` | proofs |
| `TrxConfig` | configuration file, readConf, SIGHUP, the settings a program is sent | |
| `TrxAlloc` | malloc, realloc, free, fork, the lists, the total, the flags | |
| `TrxAlloc_proofs` | theorems about `TrxAlloc` and `TrxFds` | proofs |
| `TrxFds` | table of descriptors, shared memory of a report | |
| `CmdHistory` | `hist_add`, `hist_setmax`, `hist_cmd` as operators | |
| `LineEditor` | a session's buffer, keys and lines; uses `CmdHistory` | |
| `TryLock` | a lock with one owner | abstract |
| `BackupLock` | `lockit` and `unlockit`, system call by system call | detailed; implements `TryLock` |
| `BackupShelf` | one latest backup, older ones behind it | abstract |
| `BackupJobs` | backups, recoveries, settings page, directories; takes the lock as one step | detailed; implements `BackupShelf` |
| `BackupJobs_proofs` | theorems about `BackupLock` and `BackupJobs` | proofs |
| `WalArchive` | the archiver; takes backups and the lock as single steps | |
| `WalArchive_proofs` | theorems about `WalArchive` | proofs |
| `Transports` | shares, devices, iSCSI sessions and keys; jobs and settings pages | |
| `Transports_proofs` | theorems about `Transports` | proofs |
| `Imgd` | tftp and dhcp handlers, hosts, network, configuration | |
| `IsoPool` | copy, mount, export and replacement of an uploaded image | |
| `Imgd_proofs` | theorems about `Imgd` and `IsoPool` | proofs |
| `CiConsole` | the console of a virtual machine, its users, its port and its file | |
| `Smoke` | the smoke test, which starts consoles and machines; extends `CiConsole` | composition |
| `Containers` | containers, the script that starts and stops them, the host's level | |
| `TestBeds_proofs` | theorems about `Containers` and about `Smoke` with `CiConsole` | proofs |
| `MC*` | instances for TLC that need definitions of their own | |

The layers: `TrxConn` is checked and proved to implement `ReportLink`, and `TrxMgr` takes exactly the
state changes of `ReportLink` as the outcomes of its exchanges.  `BackupLock` is checked
and proved to implement `TryLock`, and `BackupJobs` and `WalArchive` take a lock with one
owner, released at its owner's death, for granted.  (Until an attempt to lock meets a stretch
in which the two files of `BackupLock` disagree: see `AlwaysExclusive` in section 5.)
`Transports` refines what `BackupJobs` takes as "the connection works or fails", and `IsoPool`
what `Imgd` takes as "the host has an image or none".

Two components that share a module of proofs have no name in common, so that one module can
extend both: `LockSpec`, `PoolSpec` and `BoxesSpec` are the specifications of `BackupLock`,
`IsoPool` and `Containers`, and so on for `Init`, `Next` and the types.

How code becomes actions, module by module:

- **TrxConn.** One action per packet read or written on either side, per timeout, and per
  exit; the state `pc`-like fields stand for the place in `handleExchange`, `sendCmd1` and
  `connectToMgr` at which a side blocks.  Sequence numbers are counted modulo `SeqMod`.
  A wait that times out leaves the late answer on the wire.
- **TrxMgr.** `ClientStep` has what `handleClient` reads from one client; `CliStep` what one
  command does; `WalkStep` one client of a walk.  `waiting[k]` is a natural number as in the
  code (`cliDecWait` tests it before it decrements).  Whether a client is in a session's
  scope is a nondeterministic choice.  `calm` is a history variable: the manager has closed no
  client since it was started.
- **TrxConfig.** A file is a sequence of lines, each with what is understood of it; `ReadInto`
  is `readConf` with its early stores.  `Hup` is the handler, `Reread` and `Reset` the two
  places of the loop.
- **TrxAlloc.** A call of malloc or free is cut where it reads a flag, takes or gives up the
  lock, and reads or writes `curalloc`.  Every block has size 1; `curalloc`
  and `alloctag` are unsigned and count modulo `Word`, which stands for 2^32.
  The model stops where the program has corrupted its heap (`fits`, `sane`) or has used a list
  that `alist` does not have (`within`): at the first block or report with a tag of `MAXTAGS` or more.
- **TrxFds.** open and close are a kernel step and a table step.  A report counts, makes or
  finds the segment, copies the memory entries and then one descriptor at a time.
- **BackupLock.** Each system call of `lockit`/`unlockit` is an action; unlinking a file that
  another process has open leaves that process with the old one (files are numbered).  A
  process id is not used again for another process.  `met` is a history variable: an attempt has
  met a stretch in which the two files disagree (the owner has locked and not yet written its
  id, or has unlocked and not yet removed it, or the file has been unlinked under somebody).
- **BackupJobs.** A step is what happens between two commands on the server.  `full` has the
  directories that hold a whole copy, `mixed` those copied from a system that was itself
  half recovered.  ls, mv, rm, rsync, hooks and the connection fail independently
  (`Failures`).  `mishap` is a history variable: ls has overlooked a backup, mv has failed, the
  server has refused a command, or a backup was killed.
- **CmdHistory, LineEditor.** A byte is a step; escape sequences are matched byte by byte as in
  `getinput`.  The buffer is a function on `0..MaxL-1` with NUL in it, so that `strlen` of it is
  computed, not remembered; a byte of value zero from the terminal is none to `getinput`
  (`EditorAssumption`).  A step that leaves the buffer, or uses an entry of the history
  that nobody wrote, makes the session wild, and nothing is said of what follows.
- **Transports.** Each command of the system that a setup runs is a step and may fail; a mount
  point is a stack of mounts, since mount(8) mounts one on the other.  An installation
  (`choice`) has the parameters its users may enter and the pages on which they do.  `raced` is
  history, a set of transports: one began beside others with other parameters, or found something
  else mounted or logged in (`Strange`), and none has begun alone with nothing strange since.
  A page that has validated is a test, which ends, or goes on to `Save`; `SaveDisabled` saves what
  nothing has tried.  A process reads the configuration when it has the lock, as one step with its
  beginning.
- **IsoPool.** Each command of `use()` is a step and may fail; `upset` is history: one has.  The
  copy is written into the file that may still be mounted (`linked`).  It takes long, so it is two
  steps: `CopyStart` opens both files, and `CopyEnd` leaves the image that was opened, the one
  that was uploaded meanwhile, or parts of both (`Copied`), with the time at which it ends.
- **Containers.** Each command of the script is a step.  setSystemInfo, which is started and not
  waited for, may have put its inittab in place before the script's edit, or does so any time
  later (`late`, `Settles`), from what it has read before or after that edit.  `upset` is history: a command has failed
  that the script does not notice, the user interrupted it, or a container ended by itself.
- **CiConsole, Smoke.** Each call of the hypervisor is a step, so that the scan for a port and
  the three calls that take it come apart; a process is at the call it makes next (`pc`).
  `boots` counts a machine's domain ids.  `raced` is history: two consoles have chosen a port
  at once, or one has ended while it did.  `Spec` has killed consoles and failing installations;
  `FaultySpec`, for the deviations, also a login of `setKeys` that fails (then the console's
  `start` returns, to the script) and a crash of the build machine.  A socat that was left waiting
  keeps the port (`Held`).
- **WalArchive.** The archiver's exit status decides what the database does next.
- **Imgd.** The server's handlers are written from the code, including the loop that answers
  the sender of whatever it read.  Boot ROMs are external, written as RFC 1350/2347 clients
  with ports, timeouts and power cycles.  The network loses and delays, and keeps the order
  of the messages of one host.  A transfer takes bytes 2 and 3 of every message for the number
  acknowledged (`Number`): of a request, the first letters of the name; of an error, its code; of
  other machines' messages, anything.  A file that is not there makes the server answer with an
  error and remember no file; without an image it does not answer a request, and dies of a DHCP
  message or of the end of a transfer.

Operators marked "no part of the specification" are variants of a definition with a
plausible mistake in it.  They are named in "mutants" of PROJECT.json: with the variant in
the place of the definition the property must fail, which shows that the property depends
on that code.

## 3. Runs

| run | module, cfg | what it shows | bounds, and why they are enough |
|---|---|---|---|
| `conn` | TrxConn, MCTrxConn | an acknowledgement is taken only for its command; a served process has all flags; the connection implements `ReportLink`; what is owed is resolved | 2 flags (a partial configuration exists), sequence numbers modulo 4 with at most 3 late answers, so that no stale number can match by wrapping around; exits, timeouts and manager's death at any place |
| `mgr` | TrxMgr, MCTrxMgr | no session waits for a report that nobody owes; a closed entry waits for nothing; every wait ends; until the manager closes a client the counters are exact, files stay open until the last report, and `ReportDesk` is implemented | 2 slots and 2 sessions: a walk of one meets a client that owes the other, and the manager dies and starts again; clients fail anywhere |
| `lock` | BackupLock, MCBackupLock | nothing dead keeps the lock; a call of lockit ends unless it is about to remove a lock file that another has made meanwhile; until an attempt meets a stretch in which the files disagree, one owner, its id on file, `TryLock` implemented | 3 scripts, each killed anywhere, so that one meets two others that come and go; the one that waits for the lock, as run-backups does, tries twice and is followed to its end, the other two, which do not wait, are like it with fewer steps.  The proofs are for any number |
| `jobs` | BackupJobs, MCBackupJobs | a whole copy stays on the server; a recovery's source stays; until ls overlooks a backup, mv fails, the server refuses or a backup is killed, `BackupShelf` is implemented and a recovery asked for is carried out or given up | 4 backups in turn (the first time an old one is deleted is in the fourth) and a recovery that waits and works beside them, settings page and check-recover, all failures, one kill.  The view leaves out the variables of processes that have ended |
| `alloc` | TrxAlloc, MCTrxAlloc | lists hold live blocks of their tag, and every tracked block | 2 threads, 2 blocks, 2 commands out of five kinds.  Two threads and two commands already give every pair of places; of the three tags two have lists, and the third is the one at which the program leaves them |
| `imgd` | MCImgd | the file received is the one asked for; a host's own acknowledgement stops its being served only when it has all of it; transfers end unless they are disturbed | 1 host that boots twice, one machine that the server does not know, 3 files (one missing) of 2 chunks: the shortest file with a chunk that is not the last; 1 retry; one edit.  Boot ROMs and the unknown machine send again as often as they like; the server's socket holds 2 messages and the way to a host 1.  A request and an unknown machine's message read as the last chunk's number, an error as the first's |
| `wal` | WalArchive, MCWalArchive | what is stored stays, goes out in order and to the latest backup | 5 segments, limit 1: the directory fills, segments are left out, and room comes back; 2 backups; every fault |
| `editor` | MCLineEditor | the line submitted is the line shown; the history is the end of the log of commands; a number recalls the command that had it | lines of 4 characters, so that words, kills and the end of the buffer meet in one line; a history of 2 that can be made 1; 3 commands; every key |
| `transport` | MCTransports | a job works on its own share or device as long as those beside it have the same parameters and nothing else is mounted; mounts stack no higher than there are processes; jobs get through | a job after the other and a page beside it, with three shares (one that asks for no user), two devices, or a server and a share; or two pages beside it, with two shares: two pages can enter the same new share before it is saved, which one page cannot do |
| `containers` | Containers, MCContainers | "done" means up; a container that runs keeps its root; starts and stops go on, unless the two edits of an inittab cross | 2 containers, 2 scripts; the host restarts at any time; explored up to the first failure that the script does not notice (`AfterUpset` = FALSE) |
| `isos` | MCIsoPool | what a handler looks at is exported and mounted once; what is kept is the uploaded image, unless its upload ended while it was copied | 2 hosts, both handlers, 2 versions, 3 ticks of the clock: an upload that begins and ends before, beside and after a copy, in the same tick and in another; mounts stacked to 2 |
| `ci` | Smoke, MCSmoke | until two consoles choose a port at once a user reaches the machine he asked for; a console that lives is joined to its machine again, unless its port is held by what a killed one has left; the script ends, or waits for an eject it cannot hear or has lost | 2 machines, the script and its 2 consoles, one of them killed anywhere and started again; one user; one attempt, since each is like the last |

Some properties hold and are in no run: `NamedGetTheirs` of `TrxConfig` (a program that the
file names gets its own line) passes when it is put into `MCTrxConfigDeviations.cfg`, and
`ReportFits` of `TrxFds`, `ExactCount` of `TrxMgr`, `OwnerRecorded` of `BackupLock`,
`LocalBounded` of `WalArchive` and `AnswersOnlyWhenReady` of `TrxConn` are proved.  Each
module's type invariant was checked with its instance too; it is in the modules, and proved
for ten of them.  Deadlock is checked in the runs of the connection, the tables and the lock, and not in those
of systems that really stop: their boots, segments, backups or edits run out.

**Fairness.**  `TrxConn`: both sides' steps are weakly fair; a process that blocks in a read
is woken by its one-second timeout, and the manager's loop returns to select().  `TrxMgr`:
the walk is a loop of the manager (weak); of a client that owes a report, `Deliver` or `Eof`
happens (strong, since a walk in between disables the reading of the socket): this is what
`TrxConn` is checked to provide (`OwedIsResolved`).  `BackupLock`: a script that is in
`lockit` goes on (without a limit on the others' coming and going).  `BackupJobs`: jobs go on to their end and cron runs `check-recover` every
minute; nothing is assumed of the user or of new backups.  `Imgd`: the server's loop goes
on; nothing is assumed of machines or of the network, and they may send for ever.  `Transports`: cron starts jobs; a
job's setup goes on, and its umount and mount succeed now and then (strong): without it no job
would ever get through.  Nothing is assumed of pages.  `Containers`: the script goes on, setSystemInfo
ends, and a container that starts reaches its level, unless something ends it.  `Smoke`: every process goes on; nothing is
assumed of machines, events and users.  `LineEditor`, `IsoPool`, `WalArchive`: safety only.

## 4. Proofs

| module | theorems | from |
|---|---|---|
| `TrxConn_proofs` | `TypeCorrect`; an accepted answer is the answer to the command (`AckIsForCommand`); who is served is configured (`ConfiguredWhenServed`) | `ConnAssumption` |
| | a command for a CLI is answered only by a program that is configured and owes nothing (`AnswersOnlyWhenReady`); the packets implement `ReportLink` (`ImplementsLink`) | also: report commands name a tag (`Owing` within `{1}`) |
| `TrxMgr_proofs` | `TypeCorrect`; a session's counter is at most the number of clients that owe it (`NoPhantomWait`); a closed entry waits for nothing (`ClosedCliIdle`); `ExactCount`; a report's file stays open (`FileStaysOpen`); `ImplementsDesk` | `MgrAssumption` |
| | `EditorTypeCorrect`; the line submitted is the line shown (`ShownIsSubmitted`); the history is the end of the log of commands (`HistoryIsLog`); a number recalls the command that had it (`NumberMeansCommand`) | `HistAssumption`, `DigitsAssumption`, `EditorAssumption` |
| `TrxAlloc_proofs` | `TypeCorrect`; the lists have live blocks of their tag (`ListedIsLive`) and every tracked block the program holds (`NothingLost`), up to the first use of a list that is not there | `AllocAssumption` |
| | `TableTypeCorrect`; no slot outside the segment of `TrxFds`'s report is written (`Fits`) | `FdsAssumption` of the instance `Table`, as a hypothesis |
| `BackupJobs_proofs` | `LockTypeCorrect`, `MutualExclusion`, `OwnerRecorded`; nothing dead keeps the lock (`NoStaleLock`); `ImplementsTryLock` | `LockAssumption` |
| | `TypeCorrect`; a whole copy stays where recoveries find it (`KeepsACopy`); what a recovery reads stays (`SourceStays`); `ImplementsShelf` | `JobsAssumption` |
| `WalArchive_proofs` | `TypeCorrect`; nothing stored is lost (`StoredStays`), nothing overtakes (`SentInOrder`), it goes to the latest backup (`SentToLatest`), the directory is bounded (`LocalBounded`) | `WalAssumption` |
| `Transports_proofs` | `TypeCorrect`; mounts stack no higher than there are processes (`StackBounded`); a job works on its own share or device (`RightShare`) | `TransportsAssumption` |
| `Imgd_proofs` | until a command fails, a handler looks at an image that is mounted once and exported (`UsedIsExported`), and what `use()` keeps is the upload, unless that ended beside the copy (`KeptIsNewest`) | no assumption |
| | `TypeCorrect` of `Imgd` | `ImgdAssumption` |
| | a host receives the file it asked for (`RightFile`); its own acknowledgement ends its being served only when it has its initrd (`ServedMeansWhole`) | also `OneHost`: the configuration lists one host, and hosts insist on the answer to their options |
| `TestBeds_proofs` | a container that runs has its root (`OwnRoot`); "done" means up (`StartMeansUp`) | `ContainersAssumption` |
| | a user reaches the machine he asked for (`RightConsole`), also with failing logins and crashes of the build machine | `ConsoleAssumption`, `SmokeAssumption` |

(PROJECT.json "theorems" has the names.)  All hold for any number of flags, sequence
numbers, slots, sessions, threads, blocks, descriptors, scripts, jobs, pages, segments, hosts,
files, handlers, uploads, containers, machines, consoles and lengths of line and history, except where a hypothesis is named.

*TrxConn.*  What `recvAck` accepts says nothing of the past by itself; the invariant says what
can be in the socket.  `DownInv`: behind the manager's answers there is at most one command,
and it is the one that the manager awaits the answer of (a connection whose wait timed out is
closed).  `UpInv`: a REGISTER is the first packet of its connection and comes before any
configuration; an answer of success is the only one, is to the command awaited, and the
command has been executed.  `ConfigInv`: the commands of the configuration are executed in
order, and only a REGISTER that is not read yet keeps the configuration incomplete.  Each
needs the others: that a second answer cannot come takes `DownInv`, that an answer means an
executed command is what `ConfigInv` counts with.  The proof never uses the comparison of
sequence numbers: on a stream socket that is closed after every failure, the test for an ACK
alone keeps commands and answers together (section 5).

The refinement of `ReportLink` needs to know where a report is.  A manager that has something
else before the answer it awaits will close the connection whatever happens (`Doomed`), and
of such a connection nothing has to be said.  Otherwise the one report that is due, because
its request was acknowledged or the acknowledgement is on its way, is about to be sent or is
on its way itself (`TokenInv`): so `owed` never exceeds 1, and a REPORT that is read is owed.
`TokenInv` in turn takes that `sendReport` is not set and forgotten (`PendInv`).  It can be
set in a program that still reads its configuration, but then the request has crossed the
program's REGISTER and the connection is doomed.  A command for tag -1 does leave a request
forgotten (`EveryTagIsReported` in section 5), hence the hypothesis on `Owing`; TLC finds the
refinement violated without it.

*TrxMgr.*  `NoPhantomWait` is inductive together with the types: every step that lets a
client owe one report less also counts it, perhaps twice, and a counter at zero is not
decremented.  The work is in the cardinality of `Owed(k)`, the set of clients that owe `k`
a report: lemmas say how adding or removing one client changes it for the session
concerned and for the others.  `ClosedCliIdle` needs that the session that walks is open
(`IdleInv`).  `ExactCount` is inductive with the types alone: a walk that comes to a client
which registers or owes a report can only fail with it, and then the manager is not calm any
more.  It is regained only by a new manager, whose tables are empty (`CalmIsNotRegained`).  The
refinement of `ReportDesk` follows step by step from `ExactInv`; it is what fails after a client
has been closed (`PromptMeansDone` in section 5).  `FileStaysOpen` must hold of a
session whose report is still being asked for, when nobody owes it yet (`FileOpen`), and takes
that a new session finds an entry that waits for nothing (`ClosedCliIdle`).

*TrxAlloc.*  A block that libc has given has one owner: the program, which may pass it to
free, or one thread's call, as the block it works on or the one that realloc frees afterwards
(`Owned`).  Since no two calls have the same block, what a list contains can be told from where
the threads are (`Working`, `Lists`): a tracked block is in the list of its tag except before
its call has linked it and after its call has unlinked it, as long as every tag used has a list
(`within`; the step that uses the first other one is the last).  What is held is linked
(`HeldIsLinked`), which the step that hands it to the program keeps (`NextHeld`).  What a call does with a list it
decides by the block's kind and tag as they were at malloc, which is why switches of tracking
and tags that are pushed and popped between malloc and free do no harm.

*BackupLock.*  Mutual exclusion does not follow from the flock alone, since a file can be
unlinked while it is locked.  `LockInv` says that the flock is held exactly from lockit's success to
unlockit (`LockedHere`), that whoever is in lockit has opened the file that has the name and
nobody is about to unlink it (`SameFile`), that the owner's id is on file (`IdOnFile`), and that
who has failed to lock finds the id of a process (`IdReadable`), which is why it does not
unlink.  Each needs the others, and a step keeps them unless it meets (`NextLock`).  The refinement maps the owner to the process that holds
the flock.

`NoStaleLock` holds whatever meets: a process that is gone holds no lock, since the
kernel closes its files (`DeadHoldNothing`).

*BackupJobs.*  `JobsInv`: a job that works on the server has the lock, so that there is one
(`Owning`); each backup has a stamp of its own, of a directory that does not exist until it
begins and that is a part until it publishes it, and what it has moved aside is an older backup
until then (`Stamping`); what is called Latest is a whole copy, of the older backups each is
whole or a later one is, and so it is without the one that has been moved aside and may be put
back (`Whole`).  `KeepsACopy` follows from `Whole`; by itself it does not say that what a
deletion leaves in pieces is never the last copy.  `SourceStays`
is kept by `Owning`.  For the shelf also `InOrder`: until a mishap one backup at most is called
Latest, and none between the two moves.

*WalArchive.*  Here the properties are inductive only with what the processes know.  `Walk` has
the types and where the processes are; `Sending` says that no backup becomes the latest while
the archiver has the lock, and that the file it is about to remove has been sent; `Ordered` that
nothing in the directory is older than what was sent; `Kept` is `StoredStays` and says the
same of the segment at hand; and `Needed` that what was written since the backup that runs has
started waits here, which is what `SentToLatest` takes when that backup becomes the latest.

*TrxFds.*  `Fits` takes `FdsInv`: from the count to the copy the report's thread knows that the
segment has at least the slots that were counted (`Room`, `Counted`), and that what it holds
is its own (`Held`, `Fresh`), although descriptors are opened and closed meanwhile.

*IsoPool.*  `PoolInv` says of the time before the first failure where a server can be and what is
mounted and exported then (`Placed`: what is handed to a handler is mounted once and exported,
and while `use()` replaces an image nothing is mounted), that a mount is of the copy on disk
(`OfCopy`), that no copy is later than the clock (`Times`), and that a copy begun after the upload
was complete has all of it (`LaterIsWhole`).  A copy that ended before that is older and is
replaced, so `KeptIsNewest` follows by the comparison of times.

*Transports.*  A process that has seen an empty mount point may mount there however late, so a
bound on the stack is not inductive; what is (`MountsLeft`) counts the processes that have found
nothing mounted and not mounted yet, together with what is mounted.  `RightShare` is about the
processes beside a job: nobody else may unmount what it works on.  That all under way together
have the same parameters (`Together`) is not enough: two that find a third share mounted both
unmount, and the second may take off what the first has mounted and works on, which TLC shows
with two pages.  So `raced` also has those that begin beside others with something else
mounted.  One that begins alone may find another share (a test, or parameters saved untried, have
left it), and unmounts it: then all that is mounted is equal (`EqualMounts`), who is about to
unmount has other parameters (`UnmountsOther`), and what a job has found or mounted is what it
asked for (`AsAsked`).  A setup of iscsi takes any device, so its part needs more: that only the
device asked for is logged in or mounted (`OnlyMine`), which a process takes with it to its command
(`AtHome`).

*Imgd.*  Two halves.  `ImgdInv` holds for any hosts and gives the types: a boot ROM uses a new port
for every file, so a message from the port in use is about the file it waits for (`InboxOk`,
`WireOk`), and an error on it means that there is no such file.  `RightFile` needs more, and it
is true only of a server with one host to serve: there is one transfer for all, and whoever
sends next is answered with it (the deviations `DataGoesToRequester` and `RightFile` have two
hosts; a machine that the configuration does not list is harmless, and the theorem has any
number of those).  Then a host's messages are read in the order of its ports (`InOrder`); once
the server has sent the options for a file, nothing it read earlier can make it send another
(`Tuned`); so the data that come after the options are of that file (`Follow`), and before them
the ROM takes none, which is where `Plain` matters.  `ServedMeansWhole`: the last
acknowledgement of a transfer of the initrd can only be sent by a host that has it (`Whole`),
also if the transfer was begun anew.  That it must be the host's own acknowledgement is what the
loop does not look at: an error, a request or another machine's message with the right number
does as well (`ServedOnlyWhole` in section 5).

*Containers.*  A script knows of a container what the steps before told it, and a container's own
init, a restart of the host and the settings page go on meanwhile.  `Worked` says for each
step what may be taken for granted there; `Stopped` that the level 5 of an earlier run is not in
a root that is mounted, for which `mountit` removes it only with the first mount; `Own` is what
the properties need.  They hold until `upset`, which the script's own overlap sets too
(`Alone`).

*Smoke, CiConsole.*  A machine's port goes from a scan (`Chosen`) by way of a blob and its label
(`Described`) to a console (`OfBlob`); what must not happen is that two blobs have the same
(`Distinct`), and only who holds a port that nobody's blob has may write it, which is so as long
as one console at a time chooses (`OneChooser`, until `raced`).  A caller has a console that
serves (`Answered`), whose end hangs him up; with this his console is of the machine that he
asked for.

*LineEditor, CmdHistory.*  The length the editor keeps and the length of the string in the buffer
are changed in different ways: the first is counted, the second moves with `memmove`.  What keeps them
equal (`Whole`) is that the text has no end before `maxpos` and ends there, where a buffer that
is full has no end at all; it holds until a step uses memory outside the buffer (`Shown`).
`EditorInv` joins it with `Cursor`, which is where the word keys need a proof that their scans
stop within the line (a place that satisfies the test exists), and with `HistoryIsLog`, which `hist_cmd` keeps whatever it makes of a line, also when the
history is made shorter or the command is an earlier one (`Sound`).  `NumberMeansCommand` then
follows from where in the log a number is.  The proof never needs what value a string of
digits has (`Number`, a recursion): only that the editor and the property read the same.  It
found an error of the model: the scans of the word keys bound their conjuncts so that a word
that ends with the line was no case of theirs.

*Only model-checked*: liveness in any case (`OwedIsResolved`, `WaitResolves`, `AttemptEnds`,
`RecoveryIsServed`, `TransferEnds` and the like: fairness and ENABLED are out of the prover's
reach).  Nor is it proved what `Number` computes for every string of digits: that is an
induction over data.

## 5. Deviations met while modelling

What a comment, a message or a documentation in the repository says and the code does not
do.  Each is a property of its module (section "What the comments say, and the code does not
do", or named in the table), and TLC finds a counterexample with the configuration named
here; where one configuration has several, leave the one in that is looked at.

| property | cfg | at | comment and code |
|---|---|---|---|
| `ConfigReachesProgram` | `MCTrxConnDeviations.cfg` | prof/track/trxclient.c:254 | The comment says "While we hold the main thread, make sure w get all config from mgr." (src/prof/track/trxclient.c:254). A command a CLI sends to an accepted but unregistered client crosses its REGISTER; the manager reads REGISTER as a bad answer and closes the connection, sendCmd1's failed acknowledgement is ignored, handleExchange ends with enable still 0, and clientInit closes the socket: the program starts without its configuration and never connects again. |
| `MgrSurvives` | `MCTrxConnDeviations.cfg` | prof/track/trxmgrClient.c:165 | The comment says a failed command makes the manager "tear down this client connection" (src/prof/track/trxmgrClient.c:165). setSig installs handlers for other signals and leaves SIGPIPE at its default, and sendCmdMore uses write(): a command to a client that has just exited ends the manager and with it every connection and session. |
| `EveryTagIsReported` | `MCTrxConnDeviations.cfg` | prof/track/trxclient.c:154 | The comment says the argument of CMD_REPORT is "[tag number / -1 for current tag value]" (src/prof/track/trxclient.c:153). sendReport is set to the argument plus one, so -1 leaves it at 0, which means no report pending: the command is acknowledged and its report never sent, and the CLI waits until the client exits. |
| `PromptMeansDone` | `MCTrxMgrDeviations.cfg` | prof/track/trxmgrClient.c:427 | The comment says cli[].waiting means "Waiting for some result of a previous command ?" (src/prof/track/trxmgrCli.c:39). A client that fails is counted out of the CLI in reportTo twice (handleExchange and closeClient), and reportTo is neither set when it registers nor cleared when its report has come, so waiting reaches 0 while other clients still owe that CLI a report. |
| `ConsoleByDefault` | `MCTrxMgrDeviations.cfg` | prof/track/trxmgrCli.c:205 | The help says "Optional 'file' defaults to console." (src/prof/track/trxmgrCli.c:394). The file of a report command is closed only by cliDecWait; when no client was asked, it stays in cli[].ffd and takes the output of the next report, which names no file. |
| `ScopeIsSet` | `MCTrxMgrDeviations.cfg` | prof/track/trxmgrCli.c:94 | The declaration says "current scope of commands as set with 'set scope <list>'" (src/prof/track/trxmgrCli.c:46). closeCli frees the names and leaves the pointers, and newCli does not reset them: the next session in that entry starts with a scope of freed strings, which inScope compares and cmdSet and closeCli free again. |
| `ComparesOwnSnapshot` | `MCTrxMgrDeviations.cfg` | prof/track/trxmgrClient.c:467 | The comment says sreport shows the "difference in allocation between current report and last snap command." (src/prof/track/trxmgrClient.c:380). newClient leaves clients[].snap as the slot's previous client left it, so the first sreport of a new program is compared with a snapshot of another program. |
| `AlwaysExclusive` | `MCBackupLockDeviations.cfg` | backup/sbin/backups.py:375 | The archiver says of its use of the lock "we only get busy between backups" (src/backup/sbin/archiver:40). lockit unlinks the lock file when the flock fails and no process id is on file, which is so between an owner's flock and its write of the id, and after unlockit, which removes pidFile once the lock is already free, has removed the next owner's: the next script creates and locks a new file while the owner is still inside. |
| `AttemptAlwaysEnds` | `MCBackupLockDeviations.cfg` | backup/sbin/backups.py:372 | src/backup/sbin/backups.py:361 says "Failed - retrying for %d seconds". While lockit finds no process id it neither waits nor counts: it unlinks the lock file and tries the one it has open again. It ends with an exception when there is nothing to unlink; two others that lock, and make the file anew between its unlinks, keep it there for ever. |
| `NoBackupWhenAsked` | `MCBackupDeviations.cfg` | backup/sbin/run-backups:23 | The comment says "IF A RECOVERY IS BEING ASKED FOR - DO NOT BACKUP ANYTHING!" (src/backup/sbin/run-backups:22). run-backups and start() look at the configuration that the Backup object read when it was made; a recovery asked for while the script waits up to 30 seconds for the lock does not stop it, and the backup of a system about to be recovered becomes the Latest that the recovery uses. |
| `ResetMeansRecovered` | `MCBackupDeviations.cfg` | backup/sbin/backups.py:703 | The comment says "A successful recovery will reset the standing recovery flag." (src/backup/sbin/check-recover:7). recover() logs the exit code of the rsync and goes on; when the permission files run without error, the flag is reset and the status is success although files were not restored. |
| `LatestIsNewest` | `MCBackupDeviations.cfg` | backup/sbin/backups.py:200 | The comment says "get the timestamp of the latest backup , if any" (src/backup/sbin/backups.py:195). It is the first name ls prints. When an ls fails once, start() takes it for "there is no Latest" and makes a second one; from then on the first, which is the older one, is what recoveries use. |
| `NoLeftovers` | `MCBackupDeviations.cfg` | backup/sbin/backups.py:488 | The comment says "something failed - remove anything we created on the backup target" (src/backup/sbin/backups.py:572). The two failures before the copy (too little space, and an ownership record that cannot be written) skip that branch: _Backup_<time> stays on the server, and for too little space start() returns True. |
| `FlagDrives` | `MCBackupDeviations.cfg` | backup/sbin/backups.py:560 | The header says "The standing recovery flag will drive this." (src/backup/sbin/check-recover:5). A run-backups killed between mv Latest_ Backup_ and mv _Backup_ Latest_ leaves no Latest; run-recover then retries for ever (recover() knows only Latest), and no backup can make a new one while the flag is set. |
| `TotalExact` | `MCTrxAllocDeviations.cfg` | prof/track/trxlib.c:488 | The comment says "lock for mp support" (src/prof/track/trxlib.c:50). Without tracking, tp_alloc and free update curalloc outside the lock: two threads that allocate at the same time lose one of the two sizes, and the total that reports show is wrong from then on. |
| `HeaderFits` | `MCTrxAllocDeviations.cfg` | prof/track/trxlib.c:457 | The comment says the size is computed "given the fact that we have a header and footer to" install (src/prof/track/trxlib.c:437). tracking is read once for the size and again for the header; a set tracking on from a CLI between the two makes tp_alloc write a trxblk_t in front of a block that has room for three words. |
| `PointersMatch` | `MCTrxAllocDeviations.cfg` | prof/track/trxlib.c:540 | The message says "Use CLI to enable tracking (requires application restart)." (src/prof/track/trxmgr.c:51). When a manager that was started again sends its configuration to a program that reconnects, enable changes in the running program: free then gives libc pointers behind a header, or finds no header in front of libc's and dumps core. |
| `TagsHaveLists` | `MCTrxAllocDeviations.cfg` | prof/track/trxlib.c:473 | The help says of set tag <int value> "Change the tag value associated with each allocations." (src/prof/track/trxmgrCli.c:295). alist has MAXTAGS entries, 0 to 254; push goes to 255 and set tag to any value: tp_alloc then links blocks into whatever lies behind alist, and a report of such a tag walks what it finds there. |
| `ChildTalks` | `MCTrxAllocDeviations.cfg` | prof/track/trxlib.c:810 | The comment says "if that worked, then lets close and re-register with mgr" (src/prof/track/trxlib.c:809). fork copies the lock as it is: if another thread is in malloc, free or a report, nobody in the child ever releases it, and clientInit blocks in the first allocation. |
| `FullReport` | `MCTrxFdsDeviations.cfg` | prof/track/trxlib.c:209 | The comment says the function is there "to send a full report to the manager" (src/prof/track/trxlib.c:140). The descriptors are counted under the lock and copied after it, and newFd and closeFd never take it; and a segment that the manager did not remove is used again with its old slots. A descriptor open all the time may be missing, and slots may be empty or of an earlier report. |
| `ServedOnlyWhole` | `MCImgdDeviations.cfg` | imgd/python/tftpd.py:87 | src/imgd/python/dhcpd.py:147 says "Serve will become False after tftp file has been served". The loop takes bytes 2 and 3 of whatever it reads for the number acknowledged: the error a boot ROM sends when its user stops it, a request for a file with the right name, or a message of another machine ends the transfer of an initrd that the host does not have, and it is not served any more. |
| `TransferAlwaysEnds` | `MCImgdDeviations.cfg` | imgd/python/tftpd.py:91 | src/imgd/python/tftpd.py:84 says "Retried 10 times - aborting". Only a silence of half a second is a retry: messages that are not the answer, from whomever, have the chunk sent again without being counted, and the server is busy with that transfer as long as they come. |
| `DataGoesToRequester` | `MCImgdDeviations.cfg` | imgd/python/tftpd.py:79 | src/imgd/imgd:17 says "fork a thread for each tftp transfers". There is no thread: a transfer is a loop that reads the one socket of all hosts, and "ack, address=self.s.recvfrom(128)" takes the address of whatever message it reads. When another host's message comes meanwhile, the chunk is sent again to that host; one that has just acknowledged its own options takes the first host's chunks for its file. |
| `RightFile` | `MCImgdDeviations.cfg` | imgd/python/tftpd.py:53 | src/imgd/python/tftpd.py:56-57 says "if we restart in ther middle of a tranfer, we may get stray OptAcks... bail out if so". The code bails out only when no file was asked for since the start; any acknowledgement, of any number, is taken for the one of the options, so that the last one of a transfer, received twice, starts that transfer again. The host's next request is then read by the loop, which answers it with the first chunk of the old file. |
| `ServeBecomesFalse` | `MCImgdDeviations.cfg` | imgd/python/tftpd.py:85 | src/imgd/python/dhcpd.py:147 says "Serve will become False after tftp file has been served". It does only if the acknowledgement of the last chunk arrives: the host that received all of its initrd does not answer any more, the loop gives up after its retries and returns before the flag is cleared, and the host is installed again at its next boot. |
| `EditsAreKept` | `MCImgdDeviations.cfg` | imgd/python/tftpd.py:98 | src/imgd/settings:6-8 says "We read and write tothe configuration file and the imgd program will use imon interface to detect changes and reajust state and host table." The program saves the configuration that it read when the servers were started, without looking at the file: what the user saved while the file was sent is lost, and the reload that follows reads the program's own. |
| `HoleMeansBackup` | `MCWalArchiveDeviations.cfg` | backup/sbin/archiver:79 | src/backup/sbin/archiver:74-75 says "check if it was gone for more then 60 archiver runs which would mean we have a hole in the archiving stream and need to create a backup now". Whether a segment was left out is known only to the run that did it. When the server comes back and goes away again after some files were sent, the run ends in an error, the database hands the same segment over once more, and the next run, which finds room in the directory, sends the rest and asks for nothing: the hole stays until the next backup of the schedule. |
| `BadFileIsIgnored` | `MCTrxConfigDeviations.cfg` | prof/track/trxmgr.c:103 | src/prof/track/trxmgr.c:115 says "%d errors detected, configuration file ignored." The flags of a line "*" are stored in the defaults as the line is read, before it is known whether the file has an error, and stay there: every program without a line of its own is configured by the file that was ignored. |
| `HupIsHeard` | `MCTrxConfigDeviations.cfg` | prof/track/trxmgr.c:235 | src/prof/track/trxmgr.c:129 says "Got HUP: re-reading config." The flag that the handler sets is looked at only when select() was interrupted. A signal that arrives while the manager talks to a client, or between readConf and the line that resets the flag, is logged and not acted on. |
| `GoesOnWithoutFile` | `MCTrxConfigDeviations.cfg` | prof/track/trxmgr.c:51 | src/prof/track/trxmgr.c:50-51 says "Application tracking is disabled by default." and "Use CLI to enable tracking (requires application restart)." The second message is printed with the argument that ends the process: there is no CLI to use any more, neither after the signal nor at the start. |
| `DoesWhatItSays` | `MCTrxConfigDeviations.cfg` | prof/track/trxcommon.c:15 | src/prof/track/settings:148-156 says that track is "Record allocation callstack" and validate "Validate on free". The table flgmap gives the word validate the mask and the command of track, and the other way round, so that each of them switches the other on in the program. |
| `LineStaysInBuffer` | `MCLineEditorDeviations.cfg` | prof/track/trxmgrRl.c:561 | The buffer has maxl bytes, prompt and end of string included; INSERT lets maxpos reach maxl, so that the string has no end in the buffer and the next strlen, strcpy or hist_cmd runs past it. trxmgrRl.c:17 says of maxl "maximum command length". |
| `RelativeReachesAll` | `MCLineEditorDeviations.cfg` | prof/track/trxmgrHist.c:241 | "!-n" is refused when n is the number of commands listed (curidx > n), so the oldest cannot be recalled by its distance. trxmgrHist.c:147 says "get a previous command from the history and place it in the current input". |
| `SameParameters` | `MCTransportsDeviations.cfg` | backup/sbin/transports/nas.py:83 | A page that validates other parameters unmounts a job's share and mounts its own on the same mount point; the job's next command runs there, or in the local directory. nas.py:83 says "check if the mount is already active with the same parameters". |
| `OneSession` | `MCTransportsDeviations.cfg` | backup/sbin/transports/iscsi.py:95 | src/backup/sbin/transports/iscsi.py:162 says "make a list of existing iscsi device so we can find which one we created". getDevices gives an empty list when iscsiadm fails or the disk is not attached yet, and the setup logs in once more, perhaps to another target; which of the sessions' devices is the one asked for is then not known: the first is taken. |
| `RightDevice` | `MCTransportsDeviations.cfg` | backup/sbin/transports/iscsi.py:163 | Nobody logs out ("LOGED_IN" is no state of a session, iscsi.py:239), so after the target was changed the old session's device is found, taken for ours and mounted. iscsi.py:137 says "validate the parameters of the iscsi sesssion", iscsi.py:228 "all good". |
| `OnlyNewFormatted` | `MCTransportsDeviations.cfg` | backup/sbin/transports/iscsi.py:207 | A device whose label could not be read is formatted, backups and all. iscsi.py:103 says "format and label a new device". |
| `PrevIsPrior` | `MCContainersDeviations.cfg` | lxc/lxc-0.8.0/scripts/settings.py:32 | Enabling records the initdefault, which is 8 when the containers were enabled already or disabled outside initmode: a container is then to come up at level 8 and its start waits for level 5 for ever. settings.py:83 says "Run Level prior to level 8". |
| `DisabledStaysOff` | `MCContainersDeviations.cfg` | lxc/lxc-0.8.0/scripts/settings.py:42 | Outside initmode disabling replaces 3 by 5 and leaves the 8 that enabling put there: the host boots into level 8 and starts the containers. settings.py:74 says of Enabled "Enable the simulation", settings.py:75 "This will trigger the instanciations of N client containers". |
| `AdjustedIsPrior` | `MCContainersDeviations.cfg` | lxc/lxc-0.8.0/scripts/lxc.py:251 | src/lxc/lxc-0.8.0/scripts/lxc.py:248 says "ajust run level of container to the one prior to level 8". setSystemInfo, which was started in the container's root and is not waited for, edits the same inittab: if it has read the file before the script's sed has put its own in place, it puts the level 8 back afterwards, and the container's start waits for level 5 for ever. |
| `MountedIsSkipped` | `MCContainersDeviations.cfg` | lxc/lxc-0.8.0/scripts/lxc.py:175 | A cache that is still mounted is attached and checked again, and mounted over. containers:158 says "The container object is able to figure out what state it is at and skip over transitions that have been done already". |
| `AlwaysExported` | `MCIsoPoolDeviations.cfg` | imgd/python/isohandlers/rimiso.py:39 | src/imgd/python/isohandlers/rimiso.py:39 says "The mountpoint is already exported by the iso class use()/probe() methods." use() looks only at the mount: when a server was killed between mount and exportfs, or the unmount after a failed exportfs failed, the next use() finds the image mounted and hands it out without exporting it. |
| `OlderIsReplaced` | `MCIsoPoolDeviations.cfg` | imgd/python/isohandlers/iso.py:59 | src/imgd/python/isohandlers/iso.py:51 says "check if the current mounted iso is older then current one in the iso pool". What is compared is when the copy was last written, not what was copied: when an upload ends while cp still writes, the copy is the younger one, although it is of the former image or of parts of both, and is installed from for good. |
| `PortIsFree` | `MCSmokeDeviations.cfg` | builder/sbin/ciConsole.py:316 | src/builder/sbin/ciConsole.py:359 says "find a free telnet port". smoke starts both consoles at once: the second scans before the first has labelled its blob, takes the same port, finds it in use and exits, and its blob keeps the number, so that console leads to the other machine from then on. |
| `PortComesBack` | `MCSmokeDeviations.cfg` | builder/sbin/ciConsole.py:399 | src/builder/sbin/ciConsole.py:359 says "find a free telnet port". socat is started without close_fds and inherits the console's listening socket. When a console is killed before it has joined its socat, that one goes on waiting and keeps the port: the next console of the machine, which has the port on record, finds it in use and exits, again and again, although nobody answers there. |
| `EjectIsTaken` | `MCSmokeDeviations.cfg` | builder/sbin/smoke:107 | src/builder/sbin/smoke:108 says "Caught EVENTS_LOST; should reregister". It does not, and swallows every other failure: the eject that was among the events is not read any more, nor, without a registration, is a later one, and the loop goes on for ever. |
| `ClientsKept` | `MCSmokeDeviations.cfg` | builder/sbin/ciConsole.py:186 | src/builder/sbin/ciConsole.py:25 says "Telnet client are kept alive accross vm reboots." What a user types after socat has ended is sent to a closed socket, and a message for a user who has gone to his: an exception that nothing in this file catches, on the way to all callers. |
| `WaitForFileEnds` | `MCSmokeDeviations.cfg` | builder/sbin/ciConsole.py:404 | src/builder/sbin/ciConsole.py:402 says "wait for the socket file to be created". A file that was left by a crash is there already: socat cannot listen on it and ends, nobody ever listens, and the loop goes on for ever. |
| `OneScript` | `MCSmokeDeviations.cfg` | builder/sbin/ciConsole.py:395 | src/builder/sbin/ciConsole.py:357 says "We are now running inside a detached child process". When setKeys fails, start returns in that child, to the smoke test's own code: a second script goes on beside the first with the same machines. |
| `FreshAttempt` | `MCSmokeDeviations.cfg` | builder/sbin/rimAPI.py:29 | src/builder/sbin/smoke:292 says "now wait until we have http access to these IPs". The buffer of RimAPI is never emptied: once an answer was cut short, every later one is read behind its beginning and is no configuration, and the remaining attempts are in vain. |
| `EjectIsHeard` | `MCSmokeDeviations.cfg` | builder/sbin/smoke:100 | src/builder/sbin/smoke:96 says "wait for the next vdi event on a certain ref". The script registers after it has started the machine: an eject before that is not heard, there is no other, and the script waits for ever. |

`RightFile` holds for boot ROMs that insist on the answer to their options, as in the run
`imgd`, and fails with those that accept data instead (`Plain`).  `AlwaysExclusive` is
`MutualExclusion` of the run `lock` after an attempt has met files that disagree, and
`AttemptAlwaysEnds`, `ServedOnlyWhole`, `TransferAlwaysEnds` and `EjectIsTaken` are what `AttemptEnds`,
`ServedMeansWhole`, `TransferEnds` and `ScriptEnds` become without their exceptions.  `FlagDrives` is
`RecoveryIsServed` of the run `jobs` when a backup is killed, `PortIsFree` what `RightConsole` of
the run `ci` comes to when two consoles race.

Things that look wrong and are not, in the sense that no property fails: dropping only the
check of the sequence number in `recvAck` (the check of the command catches what it would
let through; the proof of `AckIsForCommand` does not use the numbers either), or only one of the two places that count a failed client
out of its session.

## 6. Limits

- `TrxConn`: no partial packets; one connection at a time.
- `TrxMgr`: the order in which one select() pass serves ready sockets is free; text is left out.
- `TrxAlloc`: sizes, alignment, call stacks and poisoning are left out; the model goes no
  further than the first corruption of the heap, or the first use of a list outside `alist`;
  tags 0 to `MAXTAGS`, a small number, and any other is like `MAXTAGS`.
- `TrxFds`: dup is left out (the library does not enter its result in the table).
- `BackupLock`: process ids are not used again; permissions are left out (the archiver, which
  does not run as root, can meet a pid file that it cannot write).
- `BackupJobs`: size estimates are a choice; status and progress files are left out.
- `WalArchive`: a backup is what `BackupJobs` makes of it, in two steps.
- `Imgd`: chunk numbers have no width; iso files are there or not.  The death of the server for want
  of an image, and its restart, are one step.  Acknowledgements of a boot that the servers have
  not seen the end of may be read in the next one's transfer: `has` begins when the servers do.
- `Transports`: the configuration is read in one step with the lock, though the code reads it
  before; `BackupJobs` has the two apart.
- `LineEditor`: what is sent to the terminal is left out, but for the cursor it moves; `IsoPool`:
  one image; a cp that goes on after its server was killed is not followed (`upset`).
- `Imgd`: with two hosts in the configuration the properties do not hold (section 5), so their
  proofs are about one.
- `Containers`: what follows a failure that the script does not notice is in the deviations only.
  setSystemInfo is external; the `telinit` that its handler returns is taken not to reach a
  container's init.
- `Smoke`: one user, one kill, one attempt; telnet's options, what users type and the log are left
  out; the selector module, which is not in the repository, is taken to end the process or to
  lose an error of a handler.
- A pass of TLC is about its instance; where it says "until" (calm, met, raced, upset), what
  comes after is in section 5.

## 7. Plan

1. Done: the tracker, the backup with its transports, the image server, the containers, the
   builder's consoles and smoke test.  What is left of the code is presentation, forms and
   texts (1.11).
2. Done: proofs about every safety property of the runs.  What stays model-checked only is named
   in section 4.
3. A second look at each hazard in PROJECT.json that has no property of a run.
