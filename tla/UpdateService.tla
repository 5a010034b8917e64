------------------------------- MODULE UpdateService -------------------------------
(***************************************************************************)
(* The update service (src/server/UpdateService.ts) with the routes that   *)
(* drive it: checks, downloads, changes of the channel and the install of  *)
(* an update on the four kinds of installation, interleaved at every       *)
(* await.                                                                  *)
(*                                                                         *)
(* A generation is the life of one channel; reconfigure() begins the next. *)
(* A release stands for its version, the folder its assets are in and the  *)
(* manager that reads that folder.  An action runs up to the next await;   *)
(* what a settled promise wakes runs before anything else (Runnable).      *)
(***************************************************************************)
EXTENDS Naturals

CONSTANTS
    Releases,    \* the releases that can be offered
    Own,         \* the release that is running
    None,
    Checks,      \* names for checks in flight
    Downloads,   \* names for calls of Velopack's download
    Platforms,   \* the kinds of installation
    MaxSwitches  \* bound on changes of the channel

Windows == {"win-service", "win-local"}

\* An update that was found, the manager it was found with, and its channel.
Offers == [update : Releases, mgr : Releases \cup {Own}, gen : Nat]

ASSUME UpdateAssumption ==
    /\ Platforms \subseteq Windows \cup {"linux", "linux-wide"}
    /\ MaxSwitches \in Nat
    /\ None \notin Releases \cup {Own} \cup Checks \cup Downloads \cup Offers
    /\ Own \notin Releases

VARIABLES
    platform,    \* how this app is installed
    gen,         \* this.generation
    mgr,         \* the release this.mgr reads
    status,      \* state.status
    pending,     \* pendingUpdate and pendingMgr, with the generation they came from
    applyError,  \* the version lastApplyError is about
    checks,      \* the performCheck() in flight
    check,       \* this.check
    downloads,   \* the runDownload() in flight, and those given up on that go on
    download,    \* this.download
    apply,       \* the applyUpdate() in flight
    streams,     \* liveStreams: stopped from the point of no return on
    markers,     \* the hand-off markers on disk: "kept" when their removal was refused
    server       \* up, or gone once the process has exited for an update

answers == <<mgr, pending, applyError>>
work == <<checks, check, downloads, download>>
outside == <<streams, markers, server>>
vars == <<platform, gen, mgr, status, pending, applyError,
          checks, check, downloads, download, apply, streams, markers, server>>

NoCheck == [pc |-> "none", gen |-> 0, mgr |-> None]
NoDownload == [pc |-> "none", gen |-> 0, lock |-> "none"]
NoApply == [pc |-> "none", gen |-> 0, update |-> None, mgr |-> None]

CheckPcs == {"none", "resolve", "velopack", "waits", "woken", "download"}
ApplyPcs == {"none", "waits", "woken", "download", "downloaded", "asset", "pkexec",
             "manifest", "hygiene", "handoff", "unmark", "exiting"}

TypeOK ==
    /\ platform \in Platforms
    /\ gen \in Nat
    /\ mgr \in Releases \cup {Own}
    /\ status \in {"idle", "checking", "downloading", "ready", "error"}
    /\ pending \in Offers \cup {None}
    /\ applyError \in Releases \cup {None}
    /\ checks \in [Checks -> [pc : CheckPcs, gen : Nat, mgr : Releases \cup {Own, None}]]
    /\ check \in Checks \cup {None}
    /\ downloads \in [Downloads -> [pc : {"none", "runs", "cut"}, gen : Nat,
                                    lock : {"none", "got", "refused"}]]
    /\ download \in Downloads \cup {None}
    /\ apply \in [pc : ApplyPcs, gen : Nat, update : Releases \cup {None},
                  mgr : Releases \cup {Own, None}]
    /\ streams \in {"open", "stopped"}
    /\ markers \in {"none", "written", "kept"}
    /\ server \in {"up", "gone"}
    /\ check # None => checks[check].pc # "none"
    /\ download # None => downloads[download].pc = "runs"

\* After init(), before its first check.
Init ==
    /\ platform \in Platforms
    /\ gen = 0
    /\ mgr = Own
    /\ status = "idle"
    /\ pending = None
    /\ applyError = None
    /\ checks = [c \in Checks |-> NoCheck]
    /\ check = None
    /\ downloads = [d \in Downloads |-> NoDownload]
    /\ download = None
    /\ apply = NoApply
    /\ streams = "open"
    /\ markers = "none"
    /\ server = "up"

-----------------------------------------------------------------------------
(* Seeded faults: each is a slip the code could have made.                 *)

\* A check does not look whether the channel changed while it waited.
OvertakenNever(g) == FALSE

\* A check is started although an update is being applied.
MayCheckAlways(busy) == TRUE

\* A download does not wait for the one of the channel before.
MustWaitNever(g) == FALSE

\* A failed install does not re-open the streams.
StreamsAfterFailureKept == streams

\* Only a failed download is followed by a check.
ChecksAgainOnDownload(kind) == kind = "download"

\* The hand-off that failed leaves its markers.
UnmarkedLeft == {markers}

\* A stalled download keeps everybody waiting.
StallsNever(d) == FALSE

-----------------------------------------------------------------------------
(* Who may run.                                                            *)

Applying == apply.pc # "none"

\* Continuations that a settled promise has made runnable: they go first.
Runnable ==
    \/ \E c \in Checks : checks[c].pc = "woken"
    \/ apply.pc \in {"woken", "downloaded"}

Turn == server = "up" /\ ~Runnable

-----------------------------------------------------------------------------
(* runCheck.                                                               *)

MayCheck(busy) == ~busy
Joins(g) == check # None /\ checks[check].gen = g

StartCheck(g) ==
    /\ \E c \in Checks :
        /\ checks[c].pc = "none"
        /\ checks' = [checks EXCEPT ![c] = [pc |-> "resolve", gen |-> g, mgr |-> None]]
        /\ check' = c
    /\ status' = "checking"

\* runCheck for generation g; `rest' is the status if none is started.
RunCheck(g, busy, rest) ==
    IF MayCheck(busy) /\ ~Joins(g)
    THEN StartCheck(g)
    ELSE status' = rest /\ UNCHANGED <<checks, check>>

\* performCheck returns: this.check is cleared if it is still this one.
EndCheck(c) ==
    /\ checks' = [checks EXCEPT ![c] = NoCheck]
    /\ check' = IF check = c THEN None ELSE check

Overtaken(g) == g # gen

-----------------------------------------------------------------------------
(* downloadIfNeeded, up to its first await.                                *)

MustWait(g) == download # None /\ downloads[download].gen # g
AwaitOf(g) == IF MustWait(g) THEN "waits" ELSE "download"

\* Velopack's exclusive lock on the packages folder.
LockFree == \A d \in Downloads : downloads[d].lock # "got"

JoinOrDownload(g) ==
    /\ status' = "downloading"
    /\ IF download # None /\ (MustWait(g) \/ downloads[download].gen = g)
       THEN UNCHANGED <<downloads, download>>
       ELSE \E d \in Downloads :
                /\ downloads[d].pc = "none"
                /\ downloads' = [downloads EXCEPT ![d] =
                        [pc |-> "runs", gen |-> g,
                         lock |-> IF LockFree THEN "got" ELSE "refused"]]
                /\ download' = d

-----------------------------------------------------------------------------
(* Checks.                                                                 *)

\* The timer, the start-up or the page asks for a check.
AskCheck ==
    /\ Turn
    /\ MayCheck(Applying) /\ ~Joins(gen)
    /\ StartCheck(gen)
    /\ UNCHANGED <<platform, gen, answers, downloads, download, apply, outside>>

\* The channel or its owner was changed in the settings.
Reconfigure ==
    /\ Turn
    /\ gen < MaxSwitches
    /\ gen' = gen + 1
    /\ pending' = None
    /\ applyError' = None
    /\ RunCheck(gen + 1, Applying, "idle")
    /\ UNCHANGED <<platform, mgr, downloads, download, apply, outside>>

\* Nothing newer is published: no offer, and no failure of an offer.
NothingOffered(c) ==
    /\ status' = "idle"
    /\ pending' = None
    /\ applyError' = None
    /\ EndCheck(c)
    /\ UNCHANGED <<platform, gen, mgr, downloads, download, apply, outside>>

CheckFails(c) ==
    /\ status' = "error"
    /\ EndCheck(c)
    /\ UNCHANGED <<platform, gen, answers, downloads, download, apply, outside>>

\* The answer is for a channel that is not this one any more.
CheckIsDropped(c) ==
    /\ EndCheck(c)
    /\ UNCHANGED <<platform, gen, answers, status, downloads, download, apply, outside>>

\* The release of the channel is known: its manager is built and asked.
AskVelopack(c, r) ==
    /\ mgr' = r
    /\ checks' = [checks EXCEPT ![c].pc = "velopack", ![c].mgr = r]
    /\ UNCHANGED <<platform, gen, status, pending, applyError, check, downloads, download,
                   apply, outside>>

\* The lookup of the newest release ends, or building its manager fails.
Resolved(c) ==
    /\ Turn
    /\ checks[c].pc = "resolve"
    /\ IF Overtaken(checks[c].gen) THEN CheckIsDropped(c)
       ELSE \/ CheckFails(c)
            \/ NothingOffered(c)
            \/ \E r \in Releases \cup {Own} : AskVelopack(c, r)

\* An update is found: it is kept with the manager that was asked, and with
\* automatic updates on a Windows install downloads it before it is ready.
Offered(c, u) ==
    /\ pending' = [update |-> u, mgr |-> checks[c].mgr, gen |-> checks[c].gen]
    /\ applyError' = IF applyError = u THEN u ELSE None
    /\ \/ /\ status' = "ready"
          /\ EndCheck(c)
          /\ UNCHANGED <<downloads, download>>
       \/ /\ platform \in Windows
          /\ JoinOrDownload(checks[c].gen)
          /\ checks' = [checks EXCEPT ![c].pc = AwaitOf(checks[c].gen)]
          /\ UNCHANGED check
    /\ UNCHANGED <<platform, gen, mgr, apply, outside>>

\* Velopack answers, fails, or has not answered in a minute.
VelopackAnswers(c) ==
    /\ Turn
    /\ checks[c].pc = "velopack"
    /\ IF Overtaken(checks[c].gen) THEN CheckIsDropped(c)
       ELSE \/ CheckFails(c)
            \/ NothingOffered(c)
            \/ checks[c].mgr # Own /\ Offered(c, checks[c].mgr)

-----------------------------------------------------------------------------
(* Downloads.                                                              *)

\* The promise of runDownload settles: `lock' is what the call still holds.
Settles(d, s, lock) ==
    /\ downloads' = [downloads EXCEPT ![d] =
            IF lock = "none" THEN NoDownload ELSE [@ EXCEPT !.pc = "cut"]]
    /\ download' = IF download = d THEN None ELSE download
    /\ status' = IF Overtaken(downloads[d].gen) THEN status ELSE s
    /\ checks' = [c \in Checks |->
            IF checks[c].pc = "download" THEN NoCheck
            ELSE IF checks[c].pc = "waits" THEN [checks[c] EXCEPT !.pc = "woken"]
            ELSE checks[c]]
    /\ check' = IF check # None /\ checks[check].pc = "download" THEN None ELSE check
    /\ apply' = IF apply.pc = "download" THEN [apply EXCEPT !.pc = "downloaded"]
                ELSE IF apply.pc = "waits" THEN [apply EXCEPT !.pc = "woken"]
                ELSE apply
    /\ UNCHANGED <<platform, gen, answers, outside>>

DownloadDone(d) ==
    /\ Turn
    /\ downloads[d].pc = "runs" /\ downloads[d].lock = "got"
    /\ Settles(d, "ready", "none")

\* Also at once, when another call holds the lock.
DownloadFails(d) ==
    /\ Turn
    /\ downloads[d].pc = "runs"
    /\ Settles(d, "error", "none")

Stalls(d) == downloads[d].pc = "runs" /\ downloads[d].lock = "got"

\* Two minutes without progress: given up on, but it cannot be cancelled.
DownloadStalls(d) ==
    /\ Turn
    /\ Stalls(d)
    /\ Settles(d, "error", "got")

\* A download given up on ends after all, and nobody listens.
StalledEnds(d) ==
    /\ Turn
    /\ downloads[d].pc = "cut"
    /\ downloads' = [downloads EXCEPT ![d] = NoDownload]
    /\ UNCHANGED <<platform, gen, answers, status, checks, check, download, apply, outside>>

\* A check that waited for the download of the channel before goes on.
CheckGoesOn(c) ==
    /\ server = "up"
    /\ checks[c].pc = "woken"
    /\ IF Overtaken(checks[c].gen) \/ pending = None
       THEN CheckIsDropped(c)
       ELSE /\ JoinOrDownload(checks[c].gen)
            /\ checks' = [checks EXCEPT ![c].pc = AwaitOf(checks[c].gen)]
            /\ UNCHANGED <<platform, gen, answers, check, apply, outside>>

-----------------------------------------------------------------------------
(* Installing an update.                                                   *)

At(pc) == apply' = [apply EXCEPT !.pc = pc]

StreamsAfterFailure == "open"
Blamed(kind) == kind # "declined" /\ gen = apply.gen
ChecksAgain(kind) == kind = "download" \/ gen # apply.gen

\* The catch of applyUpdate.  A download that failed left the update ready.
ApplyFails(kind) ==
    /\ apply' = NoApply
    /\ streams' = StreamsAfterFailure
    /\ applyError' = IF Blamed(kind) THEN apply.update ELSE applyError
    /\ LET rest == IF kind = "download" THEN "ready" ELSE status IN
       IF ChecksAgain(kind)
       THEN RunCheck(gen, FALSE, rest)
       ELSE status' = rest /\ UNCHANGED <<checks, check>>
    /\ UNCHANGED <<platform, gen, mgr, pending, downloads, download, server>>

\* enterPointOfNoReturn, up to its first await: the viewers are told.
EnterPointOfNoReturn ==
    /\ At("hygiene")
    /\ streams' = "stopped"
    /\ UNCHANGED <<platform, gen, answers, status, work, markers, server>>

Goes(pc) ==
    /\ At(pc)
    /\ UNCHANGED <<platform, gen, answers, status, work, outside>>

\* POST /api/updates/apply.
Apply ==
    /\ Turn
    /\ ~Applying
    /\ pending # None /\ status = "ready"
    /\ applyError' = None
    /\ apply' = [pc |-> IF platform \in Windows THEN AwaitOf(gen) ELSE "asset",
                 gen |-> gen, update |-> pending.update, mgr |-> pending.mgr]
    /\ IF platform \in Windows THEN JoinOrDownload(gen)
       ELSE UNCHANGED <<status, downloads, download>>
    /\ UNCHANGED <<platform, gen, mgr, pending, checks, check, outside>>

ApplyGoesOn ==
    /\ server = "up"
    /\ apply.pc = "woken"
    /\ IF Overtaken(apply.gen) \/ pending = None
       THEN Goes("downloaded")
       ELSE /\ JoinOrDownload(apply.gen)
            /\ At(AwaitOf(apply.gen))
            /\ UNCHANGED <<platform, gen, answers, checks, check, outside>>

\* keepChannelAcrossApply may fail to write the channel.
Unrecorded == ApplyFails("record") /\ UNCHANGED markers

\* downloadBeforeApply ends.
ApplyDownloaded ==
    /\ server = "up"
    /\ apply.pc = "downloaded"
    /\ IF Overtaken(apply.gen)
            \/ pending # [update |-> apply.update, mgr |-> apply.mgr, gen |-> apply.gen]
       THEN ApplyFails("changed") /\ UNCHANGED markers
       ELSE IF status # "ready"
       THEN ApplyFails("download") /\ UNCHANGED markers
       ELSE \/ Unrecorded
            \/ platform = "win-service" /\ EnterPointOfNoReturn
            \/ platform = "win-local" /\ Goes("manifest")

\* Linux: the AppImage was downloaded and verified, or not; the helper is staged.
AssetDone ==
    /\ Turn
    /\ apply.pc = "asset"
    /\ \/ ApplyFails("asset") /\ UNCHANGED markers
       \/ Unrecorded
       \/ platform = "linux" /\ EnterPointOfNoReturn
       \/ platform = "linux-wide" /\ Goes("pkexec")

\* The password prompt of a machine-wide install.
PkexecDone ==
    /\ Turn
    /\ apply.pc = "pkexec"
    /\ \/ ApplyFails("declined") /\ UNCHANGED markers
       \/ ApplyFails("pkexec") /\ UNCHANGED markers
       \/ EnterPointOfNoReturn

\* Windows, local mode: the manifest the operation server verifies against.
ManifestWritten ==
    /\ Turn
    /\ apply.pc = "manifest"
    /\ \/ ApplyFails("manifest") /\ UNCHANGED markers
       \/ EnterPointOfNoReturn

\* adb is down; the markers are written, which is allowed to fail.
HygieneDone ==
    /\ Turn
    /\ apply.pc = "hygiene"
    /\ markers' \in {markers, "written"}
    /\ At("handoff")
    /\ UNCHANGED <<platform, gen, answers, status, work, streams, server>>

\* The swap is handed over; on Windows that may throw.
HandOff ==
    /\ Turn
    /\ apply.pc = "handoff"
    /\ \/ Goes("exiting")
       \/ platform \in Windows /\ Goes("unmark")

\* removeApplyHandoffMarkers: a removal that is refused is logged, and that is all.
Unmarked == IF markers = "none" THEN {"none"} ELSE {"none", "kept"}

\* The hand-off threw: in service mode the install has failed, in local mode the
\* server exits all the same.
MarkersRemoved ==
    /\ Turn
    /\ apply.pc = "unmark"
    /\ markers' \in Unmarked
    /\ IF platform = "win-service" THEN ApplyFails("handoff")
       ELSE At("exiting") /\ UNCHANGED <<platform, gen, answers, status, work, streams, server>>

\* The route has answered, and 100 ms have passed.
Exit ==
    /\ Turn
    /\ apply.pc = "exiting"
    /\ server' = "gone"
    /\ UNCHANGED <<platform, gen, answers, status, work, apply, streams, markers>>

-----------------------------------------------------------------------------
CheckStep ==
    \/ AskCheck
    \/ Reconfigure
    \/ \E c \in Checks : Resolved(c) \/ VelopackAnswers(c) \/ CheckGoesOn(c)

DownloadStep ==
    \E d \in Downloads :
        DownloadDone(d) \/ DownloadFails(d) \/ DownloadStalls(d) \/ StalledEnds(d)

InstallGoesOn ==
    \/ ApplyGoesOn \/ ApplyDownloaded \/ AssetDone \/ ManifestWritten
    \/ HygieneDone \/ HandOff \/ MarkersRemoved \/ Exit

ApplyStep == Apply \/ PkexecDone \/ InstallGoesOn

Next == CheckStep \/ DownloadStep \/ ApplyStep

\* What has a timeout ends: the lookup and Velopack's check (their retries and
\* the minute), a download (it stalls), adb, file writes, and the fetch of the
\* AppImage.  Strong fairness where other continuations may go first again and
\* again: the event loop comes round to each.  Nothing is assumed of the user at
\* the password prompt, nor of a download that was given up on.
Fairness ==
    /\ \A c \in Checks : SF_vars(Resolved(c) \/ VelopackAnswers(c) \/ CheckGoesOn(c))
    /\ \A d \in Downloads :
        SF_vars(DownloadStalls(d) \/ (downloads[d].lock = "refused" /\ DownloadFails(d)))
    /\ SF_vars(InstallGoesOn)

Spec == Init /\ [][Next]_vars /\ Fairness

-----------------------------------------------------------------------------
(* Properties.                                                             *)

\* What is on offer came from a check of the channel that is configured now,
\* and is kept with the manager whose release folder holds its package: no
\* answer that was under way when the channel changed is ever offered.
OfferIsCurrent ==
    pending # None => pending.gen = gen /\ pending.mgr = pending.update

\* The install button is only shown for an update that can be installed.
ReadyIsOnOffer == status = "ready" => pending # None

\* While an update is being applied no check moves it, its manager or the
\* status away from under the install; only a change of the channel may.
ApplyKeepsItsOffer ==
    Applying /\ apply.gen = gen =>
        /\ pending = [update |-> apply.update, mgr |-> apply.mgr, gen |-> gen]
        /\ status \in {"ready", "downloading", "error"}
        /\ apply.pc \notin {"waits", "woken", "download", "downloaded"} => status = "ready"

\* A download is refused Velopack's lock only by one that was given up on.
OnlyTheStalledHoldTheLock ==
    \A d \in Downloads : downloads[d].lock = "refused" =>
        \A e \in Downloads \ {d} : downloads[e].pc # "runs"

\* The viewers are shut out, and the markers that tell the launcher of an
\* update are on disk, only while an install is past its point of no return.
\* Excepted is a marker that an install which failed could not remove ("kept").
StopIsForAnInstall ==
    /\ streams = "stopped" => apply.pc \in {"hygiene", "handoff", "unmark", "exiting"}
    /\ markers = "written" => apply.pc \in {"handoff", "unmark", "exiting"}

\* The reason of a failed install is shown only beside the update it is about.
FailureIsAboutTheOffer ==
    applyError # None => pending # None /\ pending.update = applyError

\* A check ends, whatever it waits for, and never blocks those after it.
CheckEnds ==
    \A c \in Checks : checks[c].pc # "none" ~> (checks[c].pc = "none" \/ server = "gone")

\* A channel chosen while an update of the one before is being installed is
\* looked at once that install has failed; only a password prompt that nobody
\* answers may hold it up.
NewChannelIsChecked ==
    \/ <>[](apply.pc = "pkexec")
    \/ \A g \in 1..MaxSwitches :
        gen = g /\ Applying /\ apply.gen # g
            ~> (gen # g \/ server = "gone" \/ \E c \in Checks : checks[c].gen = g)

-----------------------------------------------------------------------------
(* The service is an Updater.                                              *)

Promise == INSTANCE Updater WITH
    channel <- gen,
    offer <- IF pending = None THEN None ELSE pending.update,
    phase <- IF server = "gone" THEN "gone" ELSE IF Applying THEN "installing" ELSE "watching",
    chosen <- apply.update

\* An install takes what is on offer, keeps to it, and takes the server down
\* only after its viewers were told.
ImplementsUpdater == Promise!Spec
====================================================================================
