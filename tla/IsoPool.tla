-------------------------------- MODULE IsoPool --------------------------------
(***************************************************************************)
(* The installation images of the image server (isos.py, isohandlers):     *)
(* when a host asks to boot, each handler in turn has the image copied,    *)
(* mounted and exported, unless it is, and looks for its own files in it.  *)
(* What an earlier server left mounted is taken over; an image that was    *)
(* uploaded since replaces it, whoever installs from it.                   *)
(*                                                                         *)
(* One image.  Every command of the system is a step, and may fail; the    *)
(* copy of an image is two, since it takes long: uploads go on beside it,  *)
(* and the copy has the time of its last write.  The upload and the        *)
(* system's restart are external.                                          *)
(***************************************************************************)
EXTENDS Naturals, Sequences

CONSTANTS
    Installers, \* that install from the image
    Handlers,   \* the modules of isohandlers, in the order they are asked
    Kinds,      \* what an image may be: a handler's, or another
    MaxVer,     \* versions that are uploaded (bound)
    MaxClock    \* ticks of the file system's clock (bound)

None == "none"

VARIABLES
    pool,       \* the uploaded file: ver, kind, whole, and its ctime
    copy,       \* <name>.iso.mounted: the same, or NoCopy
    cp,         \* the cp that made it, or makes it: what it opened, and when
    mounts,     \* mounted on the mount point, one on the other; linked says that
                \* the file is still the copy, which the next cp writes into
    exported,   \* the mount point is exported
    pc, host, at,   \* the server: where it is, for which host, at which handler
    given,      \* host.iso: the handler that a host's files come from
    clock,
    upset       \* (history) a command failed, or the server was killed in use()

disk   == <<pool, copy, cp, mounts, exported>>
server == <<pc, host, at, given>>
poolVars   == <<disk, server, clock, upset>>

Image(v, k, w) == [ver |-> v, kind |-> k, whole |-> w, ctime |-> clock]
NoCopy == [ver |-> 0, kind |-> None, whole |-> FALSE, ctime |-> 0]

PoolInit ==
    /\ clock = 0 /\ pool \in {Image(1, k, TRUE) : k \in Kinds}
    /\ copy = NoCopy /\ cp = [of |-> pool, at |-> 0] /\ mounts = <<>> /\ exported = FALSE
    /\ pc = "idle" /\ host \in Installers /\ at = 1 /\ given = [h \in Installers |-> None]
    /\ upset = FALSE

-----------------------------------------------------------------------------
(* The world                                                               *)

Tick == clock < MaxClock /\ clock' = clock + 1 /\ UNCHANGED <<disk, server, upset>>

Upload ==
    /\ pool.whole /\ pool.ver < MaxVer
    /\ pool' \in {Image(pool.ver + 1, k, FALSE) : k \in Kinds}
    /\ UNCHANGED <<copy, cp, mounts, exported, server, clock, upset>>

Uploaded ==
    /\ ~pool.whole
    /\ pool' = Image(pool.ver, pool.kind, TRUE)
    /\ UNCHANGED <<copy, cp, mounts, exported, server, clock, upset>>

NoHost == pc' = "idle" /\ given' = [h \in Installers |-> None] /\ UNCHANGED <<host, at>>

Killed ==
    /\ NoHost
    /\ upset' = (upset \/ pc # "idle")
    /\ UNCHANGED <<disk, clock>>

\* the restart of the machine
Reboot ==
    /\ NoHost
    /\ mounts' = <<>> /\ exported' = FALSE
    /\ UNCHANGED <<pool, copy, cp, clock, upset>>

-----------------------------------------------------------------------------
(* iso.use                                                                 *)

AskFor(h) ==
    /\ pc = "idle"
    /\ pc' = "use" /\ host' = h /\ at' = 1
    /\ UNCHANGED <<given, disk, clock, upset>>

Go(l) == pc' = l /\ UNCHANGED <<host, at, given>>

Succeeds == UNCHANGED upset
Breaks   == upset' = TRUE

\* the test the other way round (no part of the specification)
IsNewerArrivedSwapped == copy # NoCopy => copy.ctime > pool.ctime

\* times in ticks of the file system's clock (a second on ext3)
IsNewerArrived == copy # NoCopy => copy.ctime < pool.ctime

\* a newer image that is mounted over the older one (no part of the specification)
UseOver ==
    /\ pc = "use"
    /\ Go(IF mounts = <<>> \/ IsNewerArrived THEN "copy" ELSE "test")
    /\ UNCHANGED <<disk, clock, upset>>

Use ==
    /\ pc = "use"
    /\ Go(IF mounts = <<>> THEN "copy" ELSE IF IsNewerArrived THEN "unexport" ELSE "test")
    /\ UNCHANGED <<disk, clock, upset>>

Unexport ==
    /\ pc = "unexport"
    /\ \/ exported' = FALSE /\ Succeeds
       \/ UNCHANGED exported /\ Breaks
    /\ Go("umount")
    /\ UNCHANGED <<pool, copy, cp, mounts, clock>>

Top == mounts[Len(mounts)]

\* a mount in use, by a host that installs or another mount, is not taken off
UmountOr ==
    \/ mounts # <<>> /\ mounts' = SubSeq(mounts, 1, Len(mounts) - 1) /\ Succeeds
    \/ UNCHANGED mounts /\ Breaks

Umount ==
    /\ pc = "umount"
    /\ UmountOr
    /\ Go("copy")
    /\ UNCHANGED <<pool, copy, cp, exported, clock>>

\* cp writes into the file that is there; what is still mounted from it changes
Written(c) == [i \in DOMAIN mounts |->
    IF mounts[i].linked THEN [ver |-> c.ver, kind |-> c.kind, whole |-> c.whole, linked |-> TRUE]
    ELSE mounts[i]]

CopyTo(c) == copy' = c /\ mounts' = Written(c)

\* cp opens both files, and truncates the copy; or it fails
CopyStart ==
    /\ pc = "copy"
    /\ \/ /\ cp' = [of |-> pool, at |-> clock]
          /\ CopyTo(Image(pool.ver, pool.kind, FALSE))
          /\ Go("copying") /\ Succeeds
       \/ UNCHANGED <<copy, cp, mounts>> /\ Go("mount") /\ Breaks
    /\ UNCHANGED <<pool, exported, clock>>

\* What cp has made when it ends: what it opened, as far as that was uploaded.  When the upload
\* has gone on meanwhile it may also be the new image, if cp read nothing before, or a
\* part of each.
Copied ==
    {Image(i.ver, i.kind, i.whole) : i \in {cp.of, pool}} \cup
    IF pool = cp.of THEN {} ELSE {Image(i.ver, i.kind, FALSE) : i \in {cp.of, pool}}

\* the copy's time is that of the last write; or cp fails on the way
CopyEnd ==
    /\ pc = "copying"
    /\ \/ (\E c \in Copied : CopyTo(c)) /\ Succeeds
       \/ (\E i \in {cp.of, pool} : CopyTo(Image(i.ver, i.kind, FALSE))) /\ Breaks
    /\ Go("mount")
    /\ UNCHANGED <<pool, cp, exported, clock>>

\* an image that is not whole may be mounted or not; a failure ends use()
Mount ==
    /\ pc = "mount"
    /\ \/ /\ copy # NoCopy
          /\ mounts' = Append(mounts, [ver |-> copy.ver, kind |-> copy.kind,
                                       whole |-> copy.whole, linked |-> TRUE])
          /\ Go("export")
       \/ UNCHANGED mounts /\ Go("next")
    /\ UNCHANGED <<pool, copy, cp, exported, clock, upset>>

Export ==
    /\ pc = "export"
    /\ \/ exported' = TRUE /\ Go("test") /\ Succeeds
       \/ UNCHANGED exported /\ Go("undo") /\ Breaks
    /\ UNCHANGED <<pool, copy, cp, mounts, clock>>

Undo ==
    /\ pc = "undo"
    /\ UmountOr
    /\ Go("remove")
    /\ UNCHANGED <<pool, copy, cp, exported, clock>>

Remove ==
    /\ pc = "remove"
    /\ copy' = NoCopy /\ mounts' = [i \in DOMAIN mounts |-> [mounts[i] EXCEPT !.linked = FALSE]]
    /\ Go("next")
    /\ UNCHANGED <<pool, cp, exported, clock, upset>>

-----------------------------------------------------------------------------
(* probe, of a handler and of isos                                         *)

\* the handler's own files: bom.xml, install; a part of an image may have them
Found == mounts # <<>> /\ Top.kind = Handlers[at]

Test ==
    /\ pc = "test"
    /\ \/ Found /\ given' = [given EXCEPT ![host] = Handlers[at]] /\ pc' = "idle"
       \/ ~(Found /\ Top.whole) /\ pc' = "next" /\ UNCHANGED given
    /\ UNCHANGED <<host, at, disk, clock, upset>>

NextHandler ==
    /\ pc = "next" /\ at < Len(Handlers)
    /\ at' = at + 1 /\ pc' = "use"
    /\ UNCHANGED <<host, given, disk, clock, upset>>

\* no handler: dhcpd.py asks None for the name of its boot loader, and the server ends
NoHandler ==
    /\ pc = "next" /\ at = Len(Handlers)
    /\ NoHost
    /\ UNCHANGED <<disk, clock, upset>>

PoolNext ==
    \/ Tick \/ Upload \/ Uploaded \/ Killed \/ Reboot
    \/ \E h \in Installers : AskFor(h)
    \/ Use \/ Unexport \/ Umount \/ CopyStart \/ CopyEnd \/ Mount \/ Export \/ Undo \/ Remove
    \/ Test \/ NextHandler \/ NoHandler

PoolSpec == PoolInit /\ [][PoolNext]_poolVars

-----------------------------------------------------------------------------
(* Properties                                                              *)

ImageType == [ver : Nat, kind : Kinds \cup {None}, whole : BOOLEAN, ctime : 0..clock]

\* Type invariant: the images, what is mounted of them, and where the server is.
PoolTypeOK ==
    /\ clock \in Nat /\ pool \in ImageType /\ copy \in ImageType
    /\ cp \in [of : ImageType, at : 0..clock]
    /\ mounts \in Seq([ver : Nat, kind : Kinds \cup {None}, whole : BOOLEAN, linked : BOOLEAN])
    /\ exported \in BOOLEAN /\ upset \in BOOLEAN
    /\ pc \in {"idle", "use", "unexport", "umount", "copy", "copying", "mount", "export", "undo",
               "remove", "test", "next"}
    /\ host \in Installers /\ at \in Nat
    /\ given \in [Installers -> {None} \cup {Handlers[i] : i \in DOMAIN Handlers}]

(***************************************************************************)
(* Until a command fails or the server is killed in the middle, a handler  *)
(* looks at an image that is mounted, once, and exported ("The mountpoint  *)
(* is already exported by the iso class use()/probe() methods",            *)
(* rimiso.py:39), whatever the uploads, the other hosts and the restarts   *)
(* of the machine do.                                                      *)
(***************************************************************************)
UsedIsExported == ~upset /\ pc = "test" => Len(mounts) = 1 /\ exported

(***************************************************************************)
(* Until then, an image that is mounted and kept ("check if the current    *)
(* mounted iso is older", iso.py:51) is the uploaded one, whole, unless    *)
(* the upload ended while cp made the copy: a copy that was finished       *)
(* while the upload was going on is replaced after it.                     *)
(***************************************************************************)
KeptIsNewest ==
    [][pc = "use" /\ pc' = "test" /\ ~upset /\ pool.whole /\ pool.ctime \notin cp.at .. copy.ctime
           => Top.ver = pool.ver /\ Top.whole]_poolVars

-----------------------------------------------------------------------------
(* What the comments say, and the code does not do                         *)

\* rimiso.py:39, whatever failed before
AlwaysExported == pc = "test" => mounts # <<>> /\ exported

\* "check if the current mounted iso is older then current one in the iso pool"
\* (iso.py:51): a copy of another version, or of a part of the image, that was made in another
\* tick than the upload ended in is replaced, also when the upload went on beside cp
OlderIsReplaced ==
    ~upset /\ pc = "use" /\ mounts # <<>> /\ pool.whole /\ copy.ctime # pool.ctime
        /\ ~(Top.ver = pool.ver /\ Top.whole) => IsNewerArrived
=============================================================================
