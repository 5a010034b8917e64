----------------------------- MODULE UpdateServiceProofs -----------------------------
(***************************************************************************)
(* Proofs about UpdateService, for any sets of releases, checks, downloads *)
(* and platforms and any number of changes of the channel.  The inductive  *)
(* invariant says who owns the status: a check of the current channel, an  *)
(* install, or nobody.                                                     *)
(***************************************************************************)
EXTENDS UpdateService, TLAPS

\* A check or download in flight belongs to a channel up to the current one.
PastOnly ==
    /\ \A c \in Checks : checks[c].gen <= gen
    /\ \A d \in Downloads : downloads[d].gen <= gen
    /\ Applying => apply.gen <= gen

\* One check of the current channel, none of it while an update is applied,
\* and the status is its own.
CheckOwnsStatus ==
    \A c \in Checks : checks[c].pc # "none" /\ checks[c].gen = gen =>
        /\ check = c
        /\ ~Applying
        /\ checks[c].pc \in {"resolve", "velopack"} => status = "checking"
        /\ checks[c].pc \in {"waits", "woken", "download"} => status = "downloading"

\* What waits for a download waits for the one that runs.
WaitsForDownload ==
    /\ \A c \in Checks :
        /\ checks[c].pc = "waits" => download # None /\ downloads[download].gen # checks[c].gen
        /\ checks[c].pc = "download" => download # None /\ downloads[download].gen = checks[c].gen
    /\ apply.pc = "waits" => download # None /\ downloads[download].gen # apply.gen
    /\ apply.pc = "download" => download # None /\ downloads[download].gen = apply.gen

\* A download of the current channel is awaited by its check or the install.
DownloadIsAwaited ==
    download # None /\ downloads[download].gen = gen =>
        /\ pending # None
        /\ \/ apply.pc = "download" /\ apply.gen = gen
           \/ check # None /\ checks[check].pc = "download" /\ checks[check].gen = gen

\* Only the current download runs, and only one that runs is refused the lock.
RunsAreCurrent ==
    \A d \in Downloads :
        /\ downloads[d].pc = "runs" => download = d
        /\ downloads[d].lock = "refused" => downloads[d].pc = "runs"

\* What an install has at each of its stages.
ApplyShape ==
    /\ apply.pc = "none" => apply = NoApply
    /\ Applying => apply.update \in Releases /\ apply.mgr \in Releases \cup {Own}
    /\ apply.pc \in {"hygiene", "handoff", "unmark", "exiting"} <=> streams = "stopped"
    /\ server = "gone" => apply.pc = "exiting"
    /\ apply.gen = gen /\ apply.pc \in {"waits", "woken", "download"} => status = "downloading"

\* A check that asks Velopack asks a manager.
AskedIsKnown == \A c \in Checks : checks[c].pc = "velopack" => checks[c].mgr # None

WorkInv ==
    /\ AskedIsKnown
    /\ PastOnly
    /\ CheckOwnsStatus
    /\ WaitsForDownload
    /\ DownloadIsAwaited
    /\ RunsAreCurrent

OfferInv ==
    /\ ApplyShape
    /\ OfferIsCurrent
    /\ ReadyIsOnOffer
    /\ ApplyKeepsItsOffer
    /\ StopIsForAnInstall
    /\ FailureIsAboutTheOffer

Inv == TypeOK /\ WorkInv /\ OfferInv

-----------------------------------------------------------------------------
(* What every step of the proof may look into.                             *)

USE UpdateAssumption DEF TypeOK, Applying, Offers, NoCheck, NoDownload, NoApply,
    CheckPcs, ApplyPcs, Windows, answers, work, outside

\* The catch of applyUpdate, whoever threw: no marker of this install is left by
\* then, but for one that could not be removed.
LEMMA ApplyFailsKeepsInv ==
    ASSUME Inv, server = "up", markers' \in {"none", "kept"},
           apply.pc \in {"downloaded", "asset", "pkexec", "manifest", "unmark"},
           NEW kind \in {"record", "changed", "download", "asset", "declined", "pkexec",
                         "manifest", "handoff"},
           ApplyFails(kind),
           kind = "download" => pending # None
    PROVE  Inv'
<1> USE DEF Inv, Turn, Runnable, ApplyFails, ChecksAgain, Blamed, StreamsAfterFailure,
        RunCheck, StartCheck, MayCheck, Joins
<1>1. TypeOK'
  <2>1. applyError' \in Releases \cup {None}
    BY DEF OfferInv, ApplyShape
  <2>2. CASE ChecksAgain(kind) /\ ~Joins(gen)
    <3>1. status' = "checking" /\ apply' = NoApply
      BY <2>2
    <3>2. checks' \in [Checks -> [pc : CheckPcs, gen : Nat, mgr : Releases \cup {Own, None}]]
      BY <2>2
    <3>3. check' \in Checks /\ checks'[check'].pc # "none"
      BY <2>2
    <3>4. /\ UNCHANGED <<platform, gen, mgr, pending, downloads, download, server>>
          /\ streams' = "open"
      OBVIOUS
    <3> HIDE DEF ApplyFails
    <3>5. QED  BY <2>1, <3>1, <3>2, <3>3, <3>4
  <2>3. CASE ~(ChecksAgain(kind) /\ ~Joins(gen))
    BY <2>1, <2>3
  <2>4. QED  BY <2>2, <2>3
<1>2. WorkInv'
    BY SMTT(30) DEF WorkInv, AskedIsKnown, PastOnly, CheckOwnsStatus, WaitsForDownload,
       DownloadIsAwaited, RunsAreCurrent, OfferInv, ApplyShape, ReadyIsOnOffer, ApplyKeepsItsOffer
<1>3. OfferInv'
  <2>1. CASE ChecksAgain(kind) /\ ~Joins(gen)
    BY <2>1, SMTT(30) DEF WorkInv, PastOnly, CheckOwnsStatus, WaitsForDownload, DownloadIsAwaited,
       RunsAreCurrent, OfferInv, ApplyShape,
       OfferIsCurrent, ReadyIsOnOffer, ApplyKeepsItsOffer, StopIsForAnInstall,
       FailureIsAboutTheOffer
  <2>2. CASE ~(ChecksAgain(kind) /\ ~Joins(gen))
    <3>1. /\ status' \in {"ready", status} /\ apply' = NoApply
          /\ kind # "download" => status' = status
      BY <2>2
    <3>2. ReadyIsOnOffer'
      BY <3>1, SMTT(30) DEF OfferInv, ReadyIsOnOffer
    <3>3. FailureIsAboutTheOffer'
      BY <2>2, SMTT(30) DEF OfferInv, ApplyShape, FailureIsAboutTheOffer, ApplyKeepsItsOffer
    <3>4. OfferIsCurrent' /\ ApplyKeepsItsOffer' /\ StopIsForAnInstall' /\ ApplyShape'
      BY <3>1 DEF OfferInv, OfferIsCurrent, ApplyKeepsItsOffer, StopIsForAnInstall, ApplyShape
    <3>5. QED  BY <3>2, <3>3, <3>4 DEF OfferInv
  <2>3. QED  BY <2>1, <2>2
<1>4. QED  BY <1>1, <1>2, <1>3

\* An install that goes past the point of no return.
LEMMA PointOfNoReturnKeepsInv ==
    ASSUME Inv, server = "up", Applying, EnterPointOfNoReturn,
           apply.pc \in {"downloaded", "asset", "pkexec", "manifest"},
           apply.gen = gen => status = "ready"
    PROVE  Inv'
<1> USE DEF Inv, Turn, Runnable, EnterPointOfNoReturn, At
<1>1. TypeOK'
    BY DEF OfferInv, ApplyShape
<1>2. WorkInv'
    BY SMTT(30) DEF WorkInv, AskedIsKnown, PastOnly, CheckOwnsStatus, WaitsForDownload,
       DownloadIsAwaited, RunsAreCurrent, OfferInv, ApplyShape, ReadyIsOnOffer, ApplyKeepsItsOffer
<1>3. OfferInv'
    BY SMTT(30) DEF WorkInv, PastOnly, CheckOwnsStatus, WaitsForDownload, DownloadIsAwaited,
       RunsAreCurrent, OfferInv, ApplyShape, OfferIsCurrent, ReadyIsOnOffer,
       ApplyKeepsItsOffer, StopIsForAnInstall, FailureIsAboutTheOffer
<1>4. QED  BY <1>1, <1>2, <1>3

\* An install that goes on to its next stage before that point.
LEMMA GoesOnKeepsInv ==
    ASSUME Inv, server = "up", Applying, NEW pc \in {"downloaded", "pkexec", "manifest"}, Goes(pc),
           apply.pc \in {"woken", "downloaded", "asset"},
           apply.gen = gen => status = "ready"
    PROVE  Inv'
<1> USE DEF Inv, Turn, Runnable, Goes, At
<1>1. TypeOK'
    BY DEF OfferInv, ApplyShape
<1>2. WorkInv'
    BY SMTT(30) DEF WorkInv, AskedIsKnown, PastOnly, CheckOwnsStatus, WaitsForDownload,
       DownloadIsAwaited, RunsAreCurrent, OfferInv, ApplyShape, ReadyIsOnOffer, ApplyKeepsItsOffer
<1>3. OfferInv'
    BY SMTT(30) DEF WorkInv, PastOnly, CheckOwnsStatus, WaitsForDownload, DownloadIsAwaited,
       RunsAreCurrent, OfferInv, ApplyShape, OfferIsCurrent, ReadyIsOnOffer,
       ApplyKeepsItsOffer, StopIsForAnInstall, FailureIsAboutTheOffer
<1>4. QED  BY <1>1, <1>2, <1>3

\* The end of the download that runs.
LEMMA DownloadSettlesKeepsInv ==
    ASSUME Inv, Turn, NEW d \in Downloads, downloads[d].pc = "runs",
           NEW s \in {"ready", "error"}, NEW lock \in {"none", "got"},
           lock = "got" => downloads[d].lock = "got", Settles(d, s, lock)
    PROVE  Inv'
<1> USE DEF Inv, Turn, Runnable, Settles, Overtaken
<1>1. TypeOK'
  <2>1. apply' \in [pc : ApplyPcs, gen : Nat, update : Releases \cup {None},
                   mgr : Releases \cup {Own, None}]
    OBVIOUS
  <2>2. checks' \in [Checks -> [pc : CheckPcs, gen : Nat, mgr : Releases \cup {Own, None}]]
    OBVIOUS
  <2>3. downloads' \in [Downloads -> [pc : {"none", "runs", "cut"}, gen : Nat,
                                     lock : {"none", "got", "refused"}]]
    OBVIOUS
  <2>4. /\ check' \in Checks \cup {None}
        /\ check' # None => checks'[check'].pc # "none"
        /\ download' \in Downloads \cup {None}
        /\ download' # None => downloads'[download'].pc = "runs"
        /\ status' \in {"idle", "checking", "downloading", "ready", "error"}
    OBVIOUS
  <2>5. UNCHANGED <<platform, gen, mgr, pending, applyError, streams, markers, server>>
    OBVIOUS
  <2>6. /\ platform' \in Platforms /\ gen' \in Nat /\ mgr' \in Releases \cup {Own}
        /\ pending' \in Offers \cup {None} /\ applyError' \in Releases \cup {None}
        /\ streams' \in {"open", "stopped"} /\ markers' \in {"none", "written", "kept"}
        /\ server' \in {"up", "gone"}
    BY <2>5
  <2> HIDE DEF Settles, Inv
  <2>7. QED  BY <2>1, <2>2, <2>3, <2>4, <2>6
<1>2. WorkInv'
    BY SMTT(30) DEF WorkInv, AskedIsKnown, PastOnly, CheckOwnsStatus, WaitsForDownload,
       DownloadIsAwaited, RunsAreCurrent, OfferInv, ApplyShape, ReadyIsOnOffer, ApplyKeepsItsOffer
<1>3. OfferInv'
    BY SMTT(30) DEF WorkInv, PastOnly, CheckOwnsStatus, WaitsForDownload, DownloadIsAwaited,
       RunsAreCurrent, OfferInv, ApplyShape, OfferIsCurrent, ReadyIsOnOffer,
       ApplyKeepsItsOffer, StopIsForAnInstall, FailureIsAboutTheOffer
<1>4. QED  BY <1>1, <1>2, <1>3

\* A check is asked for.
LEMMA AskCheckKeepsInv ==
    ASSUME Inv, AskCheck
    PROVE  Inv'
<1> USE DEF Inv, Turn, Runnable, AskCheck, StartCheck, MayCheck, Joins
<1>1. TypeOK'
    BY DEF OfferInv, ApplyShape
<1>2. WorkInv'
    BY SMTT(30) DEF WorkInv, AskedIsKnown, PastOnly, CheckOwnsStatus, WaitsForDownload,
       DownloadIsAwaited, RunsAreCurrent, OfferInv, ApplyShape, ReadyIsOnOffer, ApplyKeepsItsOffer
<1>3. OfferInv'
    BY SMTT(30) DEF WorkInv, PastOnly, CheckOwnsStatus, WaitsForDownload, DownloadIsAwaited,
       RunsAreCurrent, OfferInv, ApplyShape, OfferIsCurrent, ReadyIsOnOffer,
       ApplyKeepsItsOffer, StopIsForAnInstall, FailureIsAboutTheOffer
<1>4. QED  BY <1>1, <1>2, <1>3

\* The channel changes: all that is in flight belongs to the past.
LEMMA ReconfigureKeepsInv ==
    ASSUME Inv, Reconfigure
    PROVE  Inv'
<1> USE DEF Inv, Turn, Runnable, Reconfigure, RunCheck, StartCheck, MayCheck, Joins
<1>1. TypeOK'
    BY DEF OfferInv, ApplyShape
<1>2. WorkInv'
    BY SMTT(30) DEF WorkInv, AskedIsKnown, PastOnly, CheckOwnsStatus, WaitsForDownload,
       DownloadIsAwaited, RunsAreCurrent, OfferInv, ApplyShape, ReadyIsOnOffer, ApplyKeepsItsOffer
<1>3. OfferInv'
    BY SMTT(30) DEF WorkInv, PastOnly, CheckOwnsStatus, WaitsForDownload, DownloadIsAwaited,
       RunsAreCurrent, OfferInv, ApplyShape, OfferIsCurrent, ReadyIsOnOffer,
       ApplyKeepsItsOffer, StopIsForAnInstall, FailureIsAboutTheOffer
<1>4. QED  BY <1>1, <1>2, <1>3

\* The lookup of the newest release ends.
LEMMA ResolvedKeepsInv ==
    ASSUME Inv, NEW c \in Checks, Resolved(c)
    PROVE  Inv'
<1> USE DEF Inv, Turn, Runnable, Resolved, CheckFails, NothingOffered, AskVelopack,
        CheckIsDropped, EndCheck, Overtaken
<1>1. TypeOK'
    BY DEF OfferInv, ApplyShape
<1>2. WorkInv'
    BY SMTT(30) DEF WorkInv, AskedIsKnown, PastOnly, CheckOwnsStatus, WaitsForDownload,
       DownloadIsAwaited, RunsAreCurrent, OfferInv, ApplyShape, ReadyIsOnOffer, ApplyKeepsItsOffer
<1>3. OfferInv'
    BY SMTT(30) DEF WorkInv, PastOnly, CheckOwnsStatus, WaitsForDownload, DownloadIsAwaited,
       RunsAreCurrent, OfferInv, ApplyShape, OfferIsCurrent, ReadyIsOnOffer,
       ApplyKeepsItsOffer, StopIsForAnInstall, FailureIsAboutTheOffer
<1>4. QED  BY <1>1, <1>2, <1>3

\* A check's answer is kept and shown as ready.
LEMMA OfferedKeepsInv ==
    ASSUME Inv, Turn, NEW c \in Checks, checks[c].pc = "velopack", checks[c].gen = gen,
           checks[c].mgr \in Releases, Offered(c, checks[c].mgr), status' = "ready"
    PROVE  Inv'
<1> USE DEF Inv, Turn, Runnable, Offered, EndCheck, JoinOrDownload
<1>1. TypeOK'
    BY SMTT(30) DEF WorkInv, AskedIsKnown, PastOnly, CheckOwnsStatus, WaitsForDownload,
       DownloadIsAwaited, RunsAreCurrent, OfferInv, ApplyShape, ReadyIsOnOffer, ApplyKeepsItsOffer
<1>2. WorkInv'
  <2>1. ~(download # None /\ downloads[download].gen = gen)
    BY DEF WorkInv, AskedIsKnown, PastOnly, CheckOwnsStatus, WaitsForDownload,
       DownloadIsAwaited, RunsAreCurrent, OfferInv, ApplyShape
  <2>2. AskedIsKnown'
    BY <2>1, SMTT(30) DEF WorkInv, AskedIsKnown, CheckOwnsStatus, PastOnly, RunsAreCurrent
  <2>3. PastOnly'
    BY <2>1, SMTT(30) DEF WorkInv, PastOnly, CheckOwnsStatus, RunsAreCurrent
  <2>4. CheckOwnsStatus'
    BY <2>1, SMTT(30) DEF WorkInv, CheckOwnsStatus, PastOnly, RunsAreCurrent
  <2>5. WaitsForDownload'
    BY <2>1, SMTT(30) DEF WorkInv, WaitsForDownload, CheckOwnsStatus, PastOnly, RunsAreCurrent
  <2>6. DownloadIsAwaited'
    BY <2>1, SMTT(30) DEF WorkInv, DownloadIsAwaited, CheckOwnsStatus, PastOnly, RunsAreCurrent
  <2>7. RunsAreCurrent'
    BY <2>1, SMTT(30) DEF WorkInv, RunsAreCurrent, CheckOwnsStatus, PastOnly
  <2>8. QED  BY <2>2, <2>3, <2>4, <2>5, <2>6, <2>7 DEF WorkInv
<1>3. OfferInv'
    BY SMTT(30) DEF WorkInv, PastOnly, CheckOwnsStatus, WaitsForDownload, DownloadIsAwaited,
       RunsAreCurrent, OfferInv, ApplyShape, OfferIsCurrent, ReadyIsOnOffer,
       ApplyKeepsItsOffer, StopIsForAnInstall, FailureIsAboutTheOffer
<1>4. QED  BY <1>1, <1>2, <1>3

\* A check's answer is kept and, on Windows, downloaded.
LEMMA OfferedDownloadsKeepsInv ==
    ASSUME Inv, Turn, NEW c \in Checks, checks[c].pc = "velopack", checks[c].gen = gen,
           checks[c].mgr \in Releases, Offered(c, checks[c].mgr), status' # "ready"
    PROVE  Inv'
<1> USE DEF Inv, Turn, Runnable, Offered, JoinOrDownload, MustWait, AwaitOf, LockFree
<1>1. TypeOK'
    BY SMTT(30) DEF WorkInv, AskedIsKnown, PastOnly, CheckOwnsStatus, WaitsForDownload,
       DownloadIsAwaited, RunsAreCurrent, OfferInv, ApplyShape, ReadyIsOnOffer, ApplyKeepsItsOffer
<1>2. WorkInv'
    BY SMTT(30) DEF WorkInv, AskedIsKnown, PastOnly, CheckOwnsStatus, WaitsForDownload,
       DownloadIsAwaited, RunsAreCurrent, OfferInv, ApplyShape, ReadyIsOnOffer, ApplyKeepsItsOffer
<1>3. OfferInv'
    BY SMTT(30) DEF WorkInv, PastOnly, CheckOwnsStatus, WaitsForDownload, DownloadIsAwaited,
       RunsAreCurrent, OfferInv, ApplyShape, OfferIsCurrent, ReadyIsOnOffer,
       ApplyKeepsItsOffer, StopIsForAnInstall, FailureIsAboutTheOffer
<1>4. QED  BY <1>1, <1>2, <1>3

\* A check ends without an offer.
LEMMA DroppedKeepsInv ==
    ASSUME Inv, Turn, NEW c \in Checks, checks[c].pc \in {"resolve", "velopack"},
           \/ Overtaken(checks[c].gen) /\ CheckIsDropped(c)
           \/ ~Overtaken(checks[c].gen) /\ (CheckFails(c) \/ NothingOffered(c))
    PROVE  Inv'
<1> USE DEF Inv, Turn, Runnable, CheckFails, NothingOffered, CheckIsDropped, EndCheck,
        Overtaken
<1>1. TypeOK'
    BY DEF OfferInv, ApplyShape
<1>2. WorkInv'
  <2>1. checks[c].gen = gen => ~(download # None /\ downloads[download].gen = gen)
    BY DEF WorkInv, AskedIsKnown, PastOnly, CheckOwnsStatus, WaitsForDownload,
       DownloadIsAwaited, RunsAreCurrent, OfferInv, ApplyShape
  <2>2. AskedIsKnown'
    BY <2>1, SMTT(30) DEF WorkInv, AskedIsKnown, CheckOwnsStatus, PastOnly, RunsAreCurrent
  <2>3. PastOnly'
    BY <2>1, SMTT(30) DEF WorkInv, PastOnly, CheckOwnsStatus, RunsAreCurrent
  <2>4. CheckOwnsStatus'
    BY <2>1, SMTT(30) DEF WorkInv, CheckOwnsStatus, PastOnly, RunsAreCurrent
  <2>5. WaitsForDownload'
    BY <2>1, SMTT(30) DEF WorkInv, WaitsForDownload, CheckOwnsStatus, PastOnly, RunsAreCurrent
  <2>6. DownloadIsAwaited'
    BY <2>1, SMTT(30) DEF WorkInv, DownloadIsAwaited, CheckOwnsStatus, PastOnly, RunsAreCurrent
  <2>7. RunsAreCurrent'
    BY <2>1, SMTT(30) DEF WorkInv, RunsAreCurrent, CheckOwnsStatus, PastOnly
  <2>8. QED  BY <2>2, <2>3, <2>4, <2>5, <2>6, <2>7 DEF WorkInv
<1>3. OfferInv'
    BY SMTT(30) DEF WorkInv, PastOnly, CheckOwnsStatus, WaitsForDownload, DownloadIsAwaited,
       RunsAreCurrent, OfferInv, ApplyShape, OfferIsCurrent, ReadyIsOnOffer,
       ApplyKeepsItsOffer, StopIsForAnInstall, FailureIsAboutTheOffer
<1>4. QED  BY <1>1, <1>2, <1>3

\* Velopack answers a check.
LEMMA VelopackAnswersKeepsInv ==
    ASSUME Inv, NEW c \in Checks, VelopackAnswers(c)
    PROVE  Inv'
<1>1. CASE checks[c].mgr # Own /\ Offered(c, checks[c].mgr) /\ ~Overtaken(checks[c].gen)
  <2>1. checks[c].mgr \in Releases
    BY <1>1 DEF Inv, WorkInv, AskedIsKnown, VelopackAnswers
  <2>2. QED  BY <1>1, <2>1, OfferedKeepsInv, OfferedDownloadsKeepsInv DEF VelopackAnswers, Overtaken
<1>2. CASE \/ Overtaken(checks[c].gen) /\ CheckIsDropped(c)
           \/ ~Overtaken(checks[c].gen) /\ (CheckFails(c) \/ NothingOffered(c))
    BY <1>2, DroppedKeepsInv DEF VelopackAnswers
<1>3. QED  BY <1>1, <1>2 DEF VelopackAnswers

\* A check that waited for a download goes on.
LEMMA CheckGoesOnKeepsInv ==
    ASSUME Inv, NEW c \in Checks, CheckGoesOn(c)
    PROVE  Inv'
<1> USE DEF Inv, Turn, Runnable, CheckGoesOn, CheckIsDropped, EndCheck, Overtaken,
        JoinOrDownload, MustWait, AwaitOf, LockFree
<1>1. TypeOK'
    BY SMTT(30) DEF WorkInv, AskedIsKnown, PastOnly, CheckOwnsStatus, WaitsForDownload,
       DownloadIsAwaited, RunsAreCurrent, OfferInv, ApplyShape, ReadyIsOnOffer, ApplyKeepsItsOffer
<1>2. WorkInv'
    BY SMTT(30) DEF WorkInv, AskedIsKnown, PastOnly, CheckOwnsStatus, WaitsForDownload,
       DownloadIsAwaited, RunsAreCurrent, OfferInv, ApplyShape, ReadyIsOnOffer, ApplyKeepsItsOffer
<1>3. OfferInv'
    BY SMTT(30) DEF WorkInv, PastOnly, CheckOwnsStatus, WaitsForDownload, DownloadIsAwaited,
       RunsAreCurrent, OfferInv, ApplyShape, OfferIsCurrent, ReadyIsOnOffer,
       ApplyKeepsItsOffer, StopIsForAnInstall, FailureIsAboutTheOffer
<1>4. QED  BY <1>1, <1>2, <1>3

\* A download given up on ends.
LEMMA StalledEndsKeepsInv ==
    ASSUME Inv, NEW d \in Downloads, StalledEnds(d)
    PROVE  Inv'
<1> USE DEF Inv, Turn, Runnable, StalledEnds
<1>1. TypeOK'
    BY DEF OfferInv, ApplyShape
<1>2. WorkInv'
    BY SMTT(30) DEF WorkInv, AskedIsKnown, PastOnly, CheckOwnsStatus, WaitsForDownload,
       DownloadIsAwaited, RunsAreCurrent, OfferInv, ApplyShape, ReadyIsOnOffer, ApplyKeepsItsOffer
<1>3. OfferInv'
    BY SMTT(30) DEF WorkInv, PastOnly, CheckOwnsStatus, WaitsForDownload, DownloadIsAwaited,
       RunsAreCurrent, OfferInv, ApplyShape, OfferIsCurrent, ReadyIsOnOffer,
       ApplyKeepsItsOffer, StopIsForAnInstall, FailureIsAboutTheOffer
<1>4. QED  BY <1>1, <1>2, <1>3

\* An install begins.
LEMMA ApplyKeepsInv ==
    ASSUME Inv, Apply
    PROVE  Inv'
<1> USE DEF Inv, Turn, Runnable, Apply, JoinOrDownload, MustWait, AwaitOf, LockFree
<1>1. TypeOK'
    BY DEF OfferInv, ApplyShape
<1>2. WorkInv'
    BY SMTT(30) DEF WorkInv, AskedIsKnown, PastOnly, CheckOwnsStatus, WaitsForDownload,
       DownloadIsAwaited, RunsAreCurrent, OfferInv, ApplyShape, ReadyIsOnOffer, ApplyKeepsItsOffer
<1>3. OfferInv'
    BY SMTT(30) DEF WorkInv, PastOnly, CheckOwnsStatus, WaitsForDownload, DownloadIsAwaited,
       RunsAreCurrent, OfferInv, ApplyShape, OfferIsCurrent, ReadyIsOnOffer,
       ApplyKeepsItsOffer, StopIsForAnInstall, FailureIsAboutTheOffer
<1>4. QED  BY <1>1, <1>2, <1>3

\* An install that waited for a download goes on.
LEMMA ApplyGoesOnKeepsInv ==
    ASSUME Inv, ApplyGoesOn
    PROVE  Inv'
<1> USE DEF Inv, Turn, Runnable, ApplyGoesOn, JoinOrDownload, MustWait, AwaitOf,
        LockFree, Overtaken, Goes, At
<1>1. TypeOK'
  <2>1. CASE Goes("downloaded")
    BY <2>1
  <2>2. CASE ~Goes("downloaded")
    <3>1. /\ downloads' \in [Downloads -> [pc : {"none", "runs", "cut"}, gen : Nat,
                                          lock : {"none", "got", "refused"}]]
          /\ download' \in Downloads \cup {None}
          /\ download' # None => downloads'[download'].pc = "runs"
      <4>1. CASE UNCHANGED <<downloads, download>>
        BY <4>1
      <4>2. CASE ~UNCHANGED <<downloads, download>>
        <5>1. PICK d \in Downloads, lock \in {"got", "refused"} :
                 /\ downloads' = [downloads EXCEPT ![d] =
                                     [pc |-> "runs", gen |-> apply.gen, lock |-> lock]]
                 /\ download' = d
          BY <2>2, <4>2
        <5>2. QED  BY <5>1
      <4>3. QED  BY <4>1, <4>2
    <3>2. apply' \in [pc : ApplyPcs, gen : Nat, update : Releases \cup {None},
                     mgr : Releases \cup {Own, None}]
      BY <2>2
    <3>3. QED  BY <2>2, <3>1, <3>2
  <2>3. QED  BY <2>1, <2>2
<1>2. WorkInv'
    BY SMTT(30) DEF WorkInv, AskedIsKnown, PastOnly, CheckOwnsStatus, WaitsForDownload,
       DownloadIsAwaited, RunsAreCurrent, OfferInv, ApplyShape, ReadyIsOnOffer, ApplyKeepsItsOffer
<1>3. OfferInv'
    BY SMTT(30) DEF WorkInv, PastOnly, CheckOwnsStatus, WaitsForDownload, DownloadIsAwaited,
       RunsAreCurrent, OfferInv, ApplyShape, OfferIsCurrent, ReadyIsOnOffer,
       ApplyKeepsItsOffer, StopIsForAnInstall, FailureIsAboutTheOffer
<1>4. QED  BY <1>1, <1>2, <1>3

\* adb is down and the markers are written.
LEMMA HygieneDoneKeepsInv ==
    ASSUME Inv, HygieneDone
    PROVE  Inv'
<1> USE DEF Inv, Turn, Runnable, HygieneDone, At
<1>1. TypeOK'
    BY DEF OfferInv, ApplyShape
<1>2. WorkInv'
    BY SMTT(30) DEF WorkInv, AskedIsKnown, PastOnly, CheckOwnsStatus, WaitsForDownload,
       DownloadIsAwaited, RunsAreCurrent, OfferInv, ApplyShape, ReadyIsOnOffer, ApplyKeepsItsOffer
<1>3. OfferInv'
    BY SMTT(30) DEF WorkInv, PastOnly, CheckOwnsStatus, WaitsForDownload, DownloadIsAwaited,
       RunsAreCurrent, OfferInv, ApplyShape, OfferIsCurrent, ReadyIsOnOffer,
       ApplyKeepsItsOffer, StopIsForAnInstall, FailureIsAboutTheOffer
<1>4. QED  BY <1>1, <1>2, <1>3

\* The swap is handed over, or not.
LEMMA HandOffKeepsInv ==
    ASSUME Inv, HandOff
    PROVE  Inv'
<1> USE DEF Inv, Turn, Runnable, HandOff, Goes, At
<1>1. TypeOK'
    BY DEF OfferInv, ApplyShape
<1>2. WorkInv'
    BY SMTT(30) DEF WorkInv, AskedIsKnown, PastOnly, CheckOwnsStatus, WaitsForDownload,
       DownloadIsAwaited, RunsAreCurrent, OfferInv, ApplyShape, ReadyIsOnOffer, ApplyKeepsItsOffer
<1>3. OfferInv'
    BY SMTT(30) DEF WorkInv, PastOnly, CheckOwnsStatus, WaitsForDownload, DownloadIsAwaited,
       RunsAreCurrent, OfferInv, ApplyShape, OfferIsCurrent, ReadyIsOnOffer,
       ApplyKeepsItsOffer, StopIsForAnInstall, FailureIsAboutTheOffer
<1>4. QED  BY <1>1, <1>2, <1>3

\* The server exits for the update.
LEMMA ExitKeepsInv ==
    ASSUME Inv, Exit
    PROVE  Inv'
<1> USE DEF Inv, Turn, Runnable, Exit
<1>1. TypeOK'
    BY DEF OfferInv, ApplyShape
<1>2. WorkInv'
    BY SMTT(30) DEF WorkInv, AskedIsKnown, PastOnly, CheckOwnsStatus, WaitsForDownload,
       DownloadIsAwaited, RunsAreCurrent, OfferInv, ApplyShape, ReadyIsOnOffer, ApplyKeepsItsOffer
<1>3. OfferInv'
    BY SMTT(30) DEF WorkInv, PastOnly, CheckOwnsStatus, WaitsForDownload, DownloadIsAwaited,
       RunsAreCurrent, OfferInv, ApplyShape, OfferIsCurrent, ReadyIsOnOffer,
       ApplyKeepsItsOffer, StopIsForAnInstall, FailureIsAboutTheOffer
<1>4. QED  BY <1>1, <1>2, <1>3

\* adb or the network ends a download.
LEMMA DownloadEndsKeepsInv ==
    ASSUME Inv, NEW d \in Downloads, DownloadDone(d) \/ DownloadFails(d) \/ DownloadStalls(d)
    PROVE  Inv'
<1>1. CASE DownloadDone(d)
    BY <1>1, DownloadSettlesKeepsInv DEF DownloadDone
<1>2. CASE DownloadFails(d)
    BY <1>2, DownloadSettlesKeepsInv DEF DownloadFails
<1>3. CASE DownloadStalls(d)
    BY <1>3, DownloadSettlesKeepsInv DEF DownloadStalls, Stalls
<1>4. QED  BY <1>1, <1>2, <1>3

\* The download of an install has ended.
LEMMA ApplyDownloadedKeepsInv ==
    ASSUME Inv, ApplyDownloaded
    PROVE  Inv'
<1>1. markers # "written" /\ server = "up" /\ apply.pc = "downloaded" /\ Applying
    BY DEF Inv, OfferInv, StopIsForAnInstall, ApplyDownloaded
<1>2. CASE UNCHANGED markers /\ \E kind \in {"changed", "record"} : ApplyFails(kind)
    BY <1>1, <1>2, ApplyFailsKeepsInv DEF Inv
<1>3. CASE UNCHANGED markers /\ ApplyFails("download") /\ pending # None
    BY <1>1, <1>3, ApplyFailsKeepsInv DEF Inv
<1>4. CASE status = "ready" /\ EnterPointOfNoReturn
    BY <1>1, <1>4, PointOfNoReturnKeepsInv
<1>5. CASE status = "ready" /\ Goes("manifest")
    BY <1>1, <1>5, GoesOnKeepsInv
<1>6. [update |-> apply.update, mgr |-> apply.mgr, gen |-> apply.gen] \in Offers
    BY <1>1 DEF Inv, OfferInv, ApplyShape
<1>7. QED  BY <1>1, <1>2, <1>3, <1>4, <1>5, <1>6 DEF ApplyDownloaded, Unrecorded

\* The stages before the point of no return; a declined password, a bad
\* checksum or a full disk end the install there.
LEMMA StageDoneKeepsInv ==
    ASSUME Inv, AssetDone \/ PkexecDone \/ ManifestWritten
    PROVE  Inv'
<1>1. /\ markers # "written" /\ server = "up" /\ Applying
      /\ apply.pc \in {"asset", "pkexec", "manifest"}
      /\ apply.gen = gen => status = "ready"
    BY DEF Inv, OfferInv, StopIsForAnInstall, ApplyKeepsItsOffer, AssetDone, PkexecDone,
           ManifestWritten, Turn
<1>2. CASE /\ UNCHANGED markers
           /\ \E kind \in {"asset", "record", "declined", "pkexec", "manifest"} : ApplyFails(kind)
    BY <1>1, <1>2, ApplyFailsKeepsInv DEF Inv
<1>3. CASE EnterPointOfNoReturn
    BY <1>1, <1>3, PointOfNoReturnKeepsInv
<1>4. CASE AssetDone /\ Goes("pkexec")
    BY <1>1, <1>4, GoesOnKeepsInv DEF AssetDone
<1>5. QED  BY <1>2, <1>3, <1>4 DEF AssetDone, PkexecDone, ManifestWritten, Unrecorded

\* In local mode the server exits although the hand-off failed.
LEMMA MarkersRemovedKeepsInv ==
    ASSUME Inv, MarkersRemoved
    PROVE  Inv'
<1>1. CASE platform = "win-service"
    BY <1>1, ApplyFailsKeepsInv DEF MarkersRemoved, Unmarked, Turn
<1>2. CASE platform # "win-service"
  <2>0. /\ platform' = platform /\ gen' = gen /\ mgr' = mgr /\ status' = status
        /\ pending' = pending /\ applyError' = applyError /\ checks' = checks
        /\ check' = check /\ downloads' = downloads /\ download' = download
        /\ streams' = streams /\ server' = server
    BY <1>2 DEF MarkersRemoved
  <2>1. TypeOK'
    <3>1. apply' \in [pc : ApplyPcs, gen : Nat, update : Releases \cup {None},
                     mgr : Releases \cup {Own, None}]
      BY <1>2 DEF Inv, MarkersRemoved, At
    <3>2. markers' \in {"none", "written", "kept"}
      BY DEF MarkersRemoved, Unmarked
    <3>3. QED  BY <2>0, <3>1, <3>2, SMTT(30) DEF Inv
  <2>2. WorkInv'
    BY <1>2 DEF Inv, MarkersRemoved, Unmarked, At, WorkInv, AskedIsKnown, PastOnly,
       CheckOwnsStatus, WaitsForDownload, DownloadIsAwaited, RunsAreCurrent
  <2>3. OfferInv'
    BY <1>2 DEF Inv, MarkersRemoved, Unmarked, At, OfferInv, ApplyShape, OfferIsCurrent,
       ReadyIsOnOffer, ApplyKeepsItsOffer, StopIsForAnInstall, FailureIsAboutTheOffer
  <2>4. QED  BY <2>1, <2>2, <2>3 DEF Inv
<1>3. QED  BY <1>1, <1>2

LEMMA InitInv == Init => Inv
<1> SUFFICES ASSUME Init PROVE Inv
    OBVIOUS
<1>1. TypeOK
  <2>1. /\ platform \in Platforms /\ gen \in Nat /\ mgr \in Releases \cup {Own}
        /\ status \in {"idle", "checking", "downloading", "ready", "error"}
        /\ pending \in Offers \cup {None} /\ applyError \in Releases \cup {None}
        /\ streams \in {"open", "stopped"} /\ markers \in {"none", "written", "kept"} /\ server \in {"up", "gone"}
        /\ check = None /\ download = None
    BY DEF Init
  <2>2. checks \in [Checks -> [pc : CheckPcs, gen : Nat, mgr : Releases \cup {Own, None}]]
    BY DEF Init
  <2>3. downloads \in [Downloads -> [pc : {"none", "runs", "cut"}, gen : Nat,
                                     lock : {"none", "got", "refused"}]]
    BY DEF Init
  <2>4. apply \in [pc : ApplyPcs, gen : Nat, update : Releases \cup {None},
                   mgr : Releases \cup {Own, None}]
    BY DEF Init
  <2>5. QED  BY <2>1, <2>2, <2>3, <2>4
<1>2. WorkInv
    BY DEF Init, WorkInv, AskedIsKnown, PastOnly, CheckOwnsStatus, WaitsForDownload,
       DownloadIsAwaited, RunsAreCurrent
<1>3. OfferInv
    BY DEF Init, OfferInv, ApplyShape, OfferIsCurrent, ReadyIsOnOffer, ApplyKeepsItsOffer,
       StopIsForAnInstall, FailureIsAboutTheOffer
<1>4. QED  BY <1>1, <1>2, <1>3 DEF Inv

LEMMA NextKeepsInv == Inv /\ [Next]_vars => Inv'
<1> SUFFICES ASSUME Inv, [Next]_vars PROVE Inv'
    OBVIOUS
<1>1. CASE CheckStep
    BY <1>1, AskCheckKeepsInv, ReconfigureKeepsInv, ResolvedKeepsInv, VelopackAnswersKeepsInv,
       CheckGoesOnKeepsInv DEF CheckStep
<1>2. CASE DownloadStep
    BY <1>2, DownloadEndsKeepsInv, StalledEndsKeepsInv DEF DownloadStep
<1>3. CASE ApplyStep
    BY <1>3, ApplyKeepsInv, ApplyGoesOnKeepsInv, ApplyDownloadedKeepsInv, StageDoneKeepsInv,
       HygieneDoneKeepsInv, HandOffKeepsInv, MarkersRemovedKeepsInv, ExitKeepsInv
    DEF ApplyStep, InstallGoesOn
<1>4. CASE UNCHANGED vars
    BY <1>4 DEF vars, Inv, WorkInv, AskedIsKnown, PastOnly, CheckOwnsStatus, WaitsForDownload,
       DownloadIsAwaited, RunsAreCurrent, OfferInv, ApplyShape, OfferIsCurrent, ReadyIsOnOffer,
       ApplyKeepsItsOffer, StopIsForAnInstall, FailureIsAboutTheOffer
<1>5. QED  BY <1>1, <1>2, <1>3, <1>4 DEF Next

-----------------------------------------------------------------------------
\* The inductive invariant holds in every state the service can be in.
THEOREM UpdateInvariant == Spec => []Inv
<1>1. QED  BY InitInv, NextKeepsInv, PTL DEF Spec

\* Every variable of the update service keeps its type, and this.check and
\* this.download only name what is in flight.
THEOREM TypeCorrect == Spec => []TypeOK
<1>1. Inv => TypeOK  BY DEF Inv
<1>2. QED  BY <1>1, UpdateInvariant, PTL

\* No answer that was under way when the channel changed is ever offered, and
\* an update is kept with the manager it was found with.
THEOREM OfferIsCurrentHolds == Spec => []OfferIsCurrent
<1>1. Inv => OfferIsCurrent  BY DEF Inv, OfferInv
<1>2. QED  BY <1>1, UpdateInvariant, PTL

\* The install button is only shown for an update that can be installed.
THEOREM ReadyIsOnOfferHolds == Spec => []ReadyIsOnOffer
<1>1. Inv => ReadyIsOnOffer  BY DEF Inv, OfferInv
<1>2. QED  BY <1>1, UpdateInvariant, PTL

\* No check or download moves an update away from under its install.
THEOREM ApplyKeepsItsOfferHolds == Spec => []ApplyKeepsItsOffer
<1>1. Inv => ApplyKeepsItsOffer  BY DEF Inv, OfferInv
<1>2. QED  BY <1>1, UpdateInvariant, PTL

\* A download is refused Velopack's lock only by one that was given up on.
THEOREM OnlyTheStalledHoldTheLockHolds == Spec => []OnlyTheStalledHoldTheLock
<1>1. Inv => OnlyTheStalledHoldTheLock
    BY DEF Inv, WorkInv, RunsAreCurrent, OnlyTheStalledHoldTheLock
<1>2. QED  BY <1>1, UpdateInvariant, PTL

\* Viewers are shut out, and the markers are on disk, only past the point of no
\* return; a marker whose removal was refused is excepted.
THEOREM StopIsForAnInstallHolds == Spec => []StopIsForAnInstall
<1>1. Inv => StopIsForAnInstall  BY DEF Inv, OfferInv
<1>2. QED  BY <1>1, UpdateInvariant, PTL

\* A failed install is reported only beside the update it is about.
THEOREM FailureIsAboutTheOfferHolds == Spec => []FailureIsAboutTheOffer
<1>1. Inv => FailureIsAboutTheOffer  BY DEF Inv, OfferInv
<1>2. QED  BY <1>1, UpdateInvariant, PTL
-----------------------------------------------------------------------------
(* The service is an Updater: every step is a step of Updater or stutters.  *)

\* A step that leaves the offer, the chosen release and the streams alone.
LEMMA Stutters ==
    ASSUME UNCHANGED <<gen, pending, streams, server>>, apply'.update = apply.update,
           apply'.pc # "none" <=> apply.pc # "none"
    PROVE  UNCHANGED Promise!uvars
  BY DEF Promise!uvars

\* A check of the current channel sets the offer while nothing is installed.
LEMMA OffersAreLooks ==
    ASSUME Inv, server = "up", NEW c \in Checks, checks[c].pc # "none", ~Overtaken(checks[c].gen),
           UNCHANGED <<gen, apply, streams, server>>,
           pending' = None \/ pending' \in Offers
    PROVE  Promise!Look
<1>1. ~Applying
    BY DEF Inv, WorkInv, CheckOwnsStatus, Overtaken
<1>2. pending' # None => pending'.update \in Releases
    OBVIOUS
<1>3. QED  BY <1>1, <1>2 DEF Promise!Look

\* A check may move the offer; nothing else that it does is seen.
LEMMA CheckSteps ==
    ASSUME Inv, CheckStep
    PROVE  [Promise!Next]_(Promise!uvars)
<1>1. CASE AskCheck
    BY <1>1, Stutters DEF AskCheck, Turn
<1>2. CASE Reconfigure
  <2>1. Promise!Switch
    BY <1>2 DEF Reconfigure, Turn, Promise!Switch, Inv
  <2>2. QED  BY <2>1 DEF Promise!Next
<1>3. ASSUME NEW c \in Checks, Resolved(c) \/ VelopackAnswers(c) \/ CheckGoesOn(c)
      PROVE  [Promise!Next]_(Promise!uvars)
  <2>1. CASE CheckIsDropped(c) \/ CheckFails(c) \/ \E r \in Releases \cup {Own} : AskVelopack(c, r)
    BY <2>1, Stutters DEF CheckIsDropped, CheckFails, AskVelopack
  <2>2. CASE CheckGoesOn(c) /\ ~CheckIsDropped(c)
    BY <2>2, Stutters DEF CheckGoesOn
  <2>3. CASE server = "up" /\ checks[c].pc # "none" /\ ~Overtaken(checks[c].gen)
             /\ NothingOffered(c)
    BY <2>3, OffersAreLooks DEF NothingOffered, Promise!Next
  <2>4. CASE VelopackAnswers(c) /\ ~Overtaken(checks[c].gen) /\ checks[c].mgr # Own
             /\ Offered(c, checks[c].mgr)
    <3>1. checks[c].mgr \in Releases /\ checks[c].gen \in Nat
      BY <2>4 DEF Inv, WorkInv, AskedIsKnown, VelopackAnswers
    <3>2. pending' \in Offers
      BY <2>4, <3>1 DEF Offered
    <3>3. QED  BY <2>4, <3>2, OffersAreLooks DEF VelopackAnswers, Turn, Offered, Promise!Next
  <2>5. QED  BY <1>3, <2>1, <2>2, <2>3, <2>4 DEF Resolved, VelopackAnswers, CheckGoesOn, Turn
<1>4. QED  BY <1>1, <1>2, <1>3 DEF CheckStep

\* A download is not seen.
LEMMA DownloadSteps ==
    ASSUME Inv, DownloadStep
    PROVE  UNCHANGED Promise!uvars
<1>1. ASSUME NEW d \in Downloads, NEW s, NEW lock, Settles(d, s, lock)
      PROVE  UNCHANGED Promise!uvars
  <2>1. /\ UNCHANGED <<gen, pending, streams, server>>
        /\ apply' = [apply EXCEPT !.pc = apply'.pc]
        /\ apply'.pc # "none" <=> apply.pc # "none"
    BY <1>1 DEF Settles, Inv
  <2>2. QED  BY <2>1, Stutters DEF Inv
<1>2. ASSUME NEW d \in Downloads, StalledEnds(d)
      PROVE  UNCHANGED Promise!uvars
    BY <1>2, Stutters DEF StalledEnds
<1>3. QED  BY <1>1, <1>2 DEF DownloadStep, DownloadDone, DownloadFails, DownloadStalls

\* Whoever fails it, an install that fails is given up.
LEMMA FailuresGiveUp ==
    ASSUME Inv, server = "up", Applying, NEW kind, ApplyFails(kind)
    PROVE  Promise!GiveUp
  BY DEF ApplyFails, StreamsAfterFailure, Promise!GiveUp

\* The viewers are told.
LEMMA PointOfNoReturnStops ==
    ASSUME Inv, server = "up", Applying, EnterPointOfNoReturn
    PROVE  Promise!StopStreams
  BY DEF EnterPointOfNoReturn, At, Promise!StopStreams, Inv

\* A stage of the install that ends in the next one is not seen.
LEMMA StagesStutter ==
    ASSUME Inv, Applying, NEW pc \in ApplyPcs \ {"none"}, At(pc),
           UNCHANGED <<gen, pending, streams, server>>
    PROVE  UNCHANGED Promise!uvars
<1>1. apply'.update = apply.update /\ apply'.pc = pc
    BY DEF At, Inv
<1>2. QED  BY <1>1, Stutters

\* An install begins with what is on offer and ends given up or committed.
LEMMA ApplySteps ==
    ASSUME Inv, ApplyStep
    PROVE  [Promise!Next]_(Promise!uvars)
<1> USE DEF Turn
<1>1. CASE Apply
  <2>1. Promise!Install
    BY <1>1 DEF Apply, AwaitOf, Promise!Install, Inv
  <2>2. QED  BY <2>1 DEF Promise!Next
<1>2. CASE /\ server = "up" /\ Applying
           /\ \E kind \in {"changed", "record", "download", "asset", "declined", "pkexec",
                          "manifest", "handoff"} : ApplyFails(kind)
    BY <1>2, FailuresGiveUp DEF Promise!Next
<1>3. CASE server = "up" /\ Applying /\ EnterPointOfNoReturn
    BY <1>3, PointOfNoReturnStops DEF Promise!Next
<1>4. CASE Applying /\ \E pc \in ApplyPcs \ {"none"} : Goes(pc)
    BY <1>4, StagesStutter DEF Goes
<1>5. CASE ApplyGoesOn /\ ~Goes("downloaded")
  <2>1. At(AwaitOf(apply.gen)) /\ AwaitOf(apply.gen) \in ApplyPcs \ {"none"} /\ Applying
    BY <1>5 DEF ApplyGoesOn, AwaitOf
  <2>2. QED  BY <1>5, <2>1, StagesStutter DEF ApplyGoesOn
<1>6. CASE HygieneDone
    BY <1>6, StagesStutter DEF HygieneDone
<1>7. CASE MarkersRemoved /\ platform # "win-service"
    BY <1>7, StagesStutter DEF MarkersRemoved
<1>8. CASE Exit
  <2>1. streams = "stopped"
    BY <1>8 DEF Exit, Inv, OfferInv, ApplyShape
  <2>2. Promise!Commit
    BY <1>8, <2>1 DEF Exit, Promise!Commit
  <2>3. QED  BY <2>2 DEF Promise!Next
<1>9. QED
    BY <1>1, <1>2, <1>3, <1>4, <1>5, <1>6, <1>7, <1>8
    DEF ApplyStep, InstallGoesOn, ApplyGoesOn, ApplyDownloaded, AssetDone, PkexecDone,
        ManifestWritten, HandOff, MarkersRemoved, Unrecorded

\* An install takes what is on offer, keeps to it, and takes the server down
\* only after its viewers were told.
THEOREM ServiceIsAnUpdater == Spec => ImplementsUpdater
<1>1. Init => Promise!Init
    BY DEF Init, Promise!Init
<1>2. Inv /\ [Next]_vars => [Promise!Next]_(Promise!uvars)
  <2>1. ASSUME UNCHANGED vars PROVE UNCHANGED Promise!uvars
    BY <2>1 DEF vars, Promise!uvars
  <2>2. QED  BY <2>1, CheckSteps, DownloadSteps, ApplySteps DEF Next
<1>3. QED  BY <1>1, <1>2, UpdateInvariant, PTL DEF Spec, ImplementsUpdater, Promise!Spec
======================================================================================
