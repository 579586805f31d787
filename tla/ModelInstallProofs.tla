--------------------------- MODULE ModelInstallProofs ---------------------------
(***************************************************************************)
(* What holds of an install and of the downloads that it makes, however    *)
(* requests, workers, the install thread and the end of the process fall   *)
(* among each other.                                                       *)
(***************************************************************************)
EXTENDS ModelInstall, DownloadQueueProofs

InstallStatus == {"none", "waiting", "downloading", "downloads_done", "running", "paused",
                  "completed", "error", "cancelled"}
Ways == {"actsEarly", "pausesWaiting", "pausesDone", "cancelsLate",
         "restartsFailed", "restartsFile", "killsInRename", "killsInInstall", "stops"}
Installs == [status : InstallStatus, multi : Multis \cup {0}, shown : Multis \cup {0},
             asked : BOOLEAN, stuck : BOOLEAN, did : Ways \cup {"nothing"}]
Fetchings == [kind : {"fetching"}, files : (SUBSET Files) \ {{}}, clears : BOOLEAN]

InstallShapes ==
    /\ install \in Installs
    /\ cache \in SUBSET Multis
    /\ marker \in {"none", "waiting", "downloading", "paused", "downloads_done", "running"}
    /\ installer \in [at : {"idle", "marked", "moving", "finish", "stopped"}, queued : Nat]
    /\ call \in {NoCall, [kind |-> "pausing"], [kind |-> "cancelling"]} \cup Fetchings
    /\ restoring \in BOOLEAN

fetching == call.kind = "fetching"

\* A request began when the service was up and restored what there was.
Calls ==
    /\ call # NoCall => installer.at # "stopped" /\ ~restoring /\ install.status # "none"
    /\ call.kind = "cancelling" => install.asked

\* The multi-file jobs that came to be and are not heard any more.
Unheard == {m \in Multis : multi[m].parts # {} /\ m \notin cache}

\* The callbacks of what is under way are heard, and tell the install that waits for
\* them; the install is queued once for each of those that are over.
Heard == installer.at # "stopped" => \A m \in Multis : Served(m) => m \in cache
CachedGoOn == \A m \in cache : ~in_terminal_state(multi[m]) /\ multi[m].parts # {}
StopsLast == service # "up" => installer.at = "stopped"
WillBeTold ==
    install.status \in {"waiting", "downloading"}
        => \/ restoring \/ install.stuck \/ fetching
           \/ \E m \in cache : m = install.multi \/ install.did = "actsEarly"
QueuedOnce == installer.queued <= 1 + Cardinality(Unheard)

Listens == Heard /\ CachedGoOn /\ StopsLast /\ WillBeTold /\ QueuedOnce

\* Of the install's multi-file jobs only the latest is under way.
Sole ==
    /\ \A m \in Multis : Served(m) => m = install.multi
    /\ cache \subseteq {install.multi}
    /\ fetching \/ restoring \/ install.status = "none" => NoneUnderWay /\ cache = {}

idle == installer.at = "idle" /\ installer.queued = 0

\* The install thread has the job when there is nothing to fetch for it, and is done
\* with it before it is fetched anew.
Phases ==
    /\ installer.queued \in {0, 1}
    /\ installer.queued = 1
           => installer.at \in {"idle", "stopped"} /\ install.status \in {"downloads_done", "cancelled"}
    /\ installer.at \in {"marked", "moving"} => install.status \in {"running", "cancelled"}
    /\ install.status = "running" => installer.at \in {"marked", "moving"}
    /\ installer.at = "finish" => over
    /\ installer.queued = 1 \/ installer.at \in {"marked", "moving", "finish"}
           => NoneUnderWay /\ ~fetching /\ ~restoring
    /\ install.status \in {"completed", "error"} => NoneUnderWay
    /\ fetching => install.status = "waiting"
    /\ restoring => install.multi = 0 /\ install.status \in {"waiting", "cancelled"}
    /\ over /\ NoneUnderWay /\ call.kind # "cancelling" /\ idle
           => disk = Wiped /\ marker \in {"none", "paused"}

ServiceInv ==
    /\ QueueInv /\ InstallShapes /\ Calls /\ Listens
    /\ install.did # "actsEarly" => Sole
    /\ install.did \notin {"actsEarly", "pausesDone"} => Phases
    /\ CrashRecoverable

-------------------------------------------------------------------------------
(* Most steps only ask something of the download service.                  *)

AsksOnly ==
    \/ PauseBegins \/ PauseEnds \/ resume_job \/ restart_failed \/ restart_file \/ FetchFails
    \/ CancelBegins \/ CancelEnds \/ cancel_all_jobs \/ InstallThread \/ InstallStops \/ RestoreFails

FileShapes == [Files -> [partial : Seq(Nat), done : Seq(Nat)]]

LEMMA WipedIs == Wiped \in FileShapes
BY EmptySeq DEF Wiped, FileShapes

\* A directory is removed.
LEMMA RemovedShape ==
    Shapes /\ _safe_rmtree => /\ work' \in [Workers -> Places] /\ StandStill /\ disk' = Wiped
                              /\ disk' \in FileShapes
<1> SUFFICES ASSUME Shapes, _safe_rmtree
             PROVE  /\ work' \in [Workers -> Places] /\ StandStill /\ disk' = Wiped
                    /\ disk' \in FileShapes
  OBVIOUS
<1>1. work' = unlinked(work, Files) /\ disk' = Wiped /\ work \in [Workers -> Places]
  BY DEF _safe_rmtree, Shapes
<1>2. QED BY <1>1, UnlinkedIs, WipedIs DEF StandStill

\* Parts that are paused or canceled as they were found.
LEMMA PausedAsks ==
    ASSUME QueueInv, job' = pausedParts \/ job' = cancelListed
    PROVE  JobsAsked /\ job' \in [Parts -> Jobs]
<1>1. \A p \in Parts : job[p] \in Jobs /\ job'[p] \in {job[p], pause_job(job[p]), cancel_job(job[p])}
  BY DEF pausedParts, cancelListed, QueueInv, Shapes
<1>2. \A p \in Parts : /\ job'[p] \in Jobs /\ job'[p].status = job[p].status
                       /\ job'[p].resume_required = job[p].resume_required
                       /\ job[p].cancelled => job'[p].cancelled
  BY <1>1, AskedJob
<1>3. job' \in [Parts -> Jobs]
  BY <1>2 DEF pausedParts, cancelListed
<1>4. ASSUME NEW m \in Multis, NEW f \in Files, f \notin multi[m].parts PROVE job'[<<m, f>>] = job[<<m, f>>]
  <2>1. CASE job' = pausedParts
    <3>1. <<m, f>> \in Parts /\ parent(<<m, f>>) = m /\ file(<<m, f>>) = f
      BY PartsArePairs
    <3>2. QED BY <1>4, <2>1, <3>1 DEF pausedParts
  <2>2. CASE job' = cancelListed
    <3>1. <<m, f>> \in Parts /\ <<m, f>> # None
      BY PartsArePairs
    <3>2. <<m, f>> \notin queue
      BY <1>4 DEF QueueInv, MultiOK, QueuedOK, TurnOK
    <3>3. \A w \in Workers : P(w) # <<m, f>>
      BY <1>4 DEF QueueInv, WorkerOK
    <3>4. QED BY <2>2, <3>1, <3>2, <3>3 DEF cancelListed, Listed
  <2>3. QED BY <2>1, <2>2
<1>5. QED BY <1>2, <1>3, <1>4, PartsArePairs DEF JobsAsked

LEMMA AsksOnlyIs ==
    QueueInv /\ AsksOnly => OnlyAsked
<1> SUFFICES ASSUME QueueInv, AsksOnly PROVE OnlyAsked
  OBVIOUS
<1>1. Shapes
  BY DEF QueueInv
<1>2. /\ queue' = queue /\ service' = service
      /\ UNCHANGED job \/ job' = pausedParts \/ job' = cancelListed
      /\ \/ UNCHANGED multi
         \/ multi' = [m \in Multis |-> IF m = install.multi THEN cancel_job(multi[m]) ELSE multi[m]]
      /\ UNCHANGED work \/ _safe_rmtree
      /\ UNCHANGED disk \/ _safe_rmtree \/ disk' = [f \in Files |-> [disk[f] EXCEPT !.done = <<>>]]
  BY DEF AsksOnly, PauseBegins, Pauses, PauseEnds, resume_job, restart_failed, restart_file, Fetches,
         FetchFails, CancelBegins, CancelEnds, cancel_all_jobs, InstallThread, InstallTakes,
         InstallUnmarks, InstallMoves, InstallFails, InstallFinishes, InstallStops, RestoreFails,
         downloadVars
<1>3. JobsAsked /\ job' \in [Parts -> Jobs]
  <2>1. CASE UNCHANGED job
    BY <1>1, <2>1 DEF JobsAsked, Shapes
  <2>2. QED BY <1>2, <2>1, PausedAsks
<1>4. MultisAsked /\ multi' \in [Multis -> MultiJobs]
  <2>1. CASE UNCHANGED multi
    BY <1>1, <2>1 DEF MultisAsked, Shapes
  <2>2. CASE multi' = [m \in Multis |-> IF m = install.multi THEN cancel_job(multi[m]) ELSE multi[m]]
    <3>1. \A m \in Multis : multi[m] \in MultiJobs
      BY <1>1 DEF Shapes
    <3>2. QED BY <2>2, <3>1, AskedMulti DEF MultisAsked
  <2>3. QED BY <1>2, <2>1, <2>2
<1>5. StandStill /\ work' \in [Workers -> Places]
  <2>1. CASE UNCHANGED work
    BY <1>1, <2>1 DEF StandStill, Shapes
  <2>2. QED BY <1>1, <1>2, <2>1, RemovedShape
<1>6. disk' \in FileShapes
  <2>1. CASE UNCHANGED disk
    BY <1>1, <2>1 DEF Shapes, FileShapes
  <2>2. CASE disk' = [f \in Files |-> [disk[f] EXCEPT !.done = <<>>]]
    <3>1. \A f \in Files : [disk[f] EXCEPT !.done = <<>>] \in [partial : Seq(Nat), done : Seq(Nat)]
      BY <1>1, EmptySeq DEF Shapes
    <3>2. QED BY <2>2, <3>1 DEF FileShapes
  <2>3. QED BY <1>1, <1>2, <2>1, <2>2, RemovedShape
<1>7. QED BY <1>1, <1>2, <1>3, <1>4, <1>5, <1>6 DEF OnlyAsked, Shapes, FileShapes

\* A new multi-file job m, of files of which what there is may be removed first.
Begun(m, files, cleared, changed) ==
    /\ QueueInv' /\ service = "up" /\ multi[m].parts = {} /\ ~Served(m)
    /\ multi'[m].parts = files /\ multi'[m].status = "waiting" /\ ~multi'[m].cancelled
    /\ \A p \in queue' : p \in queue \/ parent(p) = m
    /\ \A n \in Multis : n # m => multi'[n] = multi[n] /\ (Served(n)' <=> Served(n))
    /\ service' = service /\ cache' = cache \cup {m} /\ install' = [changed EXCEPT !.multi = m]
    /\ marker' = "waiting" /\ UNCHANGED <<job, installer, models, restarts>>
    /\ disk' = [f \in Files |-> IF f \in cleared THEN Wiped[f] ELSE disk[f]]
    /\ work' = unlinked(work, cleared)
    /\ submit_multifile_download(m, files)

LEMMA EnqueueIs ==
    ASSUME QueueInv, NEW files \in SUBSET Files, files # {}, NEW cleared \in SUBSET Files, NEW changed,
           enqueue(files, cleared, changed)
    PROVE  \E m \in Multis : Begun(m, files, cleared, changed)
<1>1. Min(Unused) \in Multis
  <2>1. Unused \in SUBSET Nat /\ Unused # {} /\ Unused \subseteq Multis
    BY DownloadAssumption DEF DownloadAssumption, Unused, enqueue
  <2>2. QED BY <2>1, MinIs
<1>2. PICK m \in Multis :
         /\ submit_multifile_download(m, files)
         /\ disk' = [f \in Files |-> IF f \in cleared THEN Wiped[f] ELSE disk[f]]
         /\ work' = unlinked(work, cleared)
         /\ cache' = cache \cup {m}
         /\ install' = [changed EXCEPT !.multi = m]
         /\ marker' = "waiting"
         /\ UNCHANGED <<job, service, installer, models, restarts>>
  BY <1>1 DEF enqueue
<1>3. work' \in [Workers -> Places] /\ StandStill
  <2>1. work \in [Workers -> Places]
    BY DEF QueueInv, Shapes
  <2>2. QED BY <1>2, <2>1, UnlinkedIs DEF StandStill
<1>4. disk' \in FileShapes
  BY <1>2, WipedIs DEF QueueInv, Shapes, FileShapes
<1>5. QED BY <1>2, <1>3, <1>4, SubmitKeeps DEF FileShapes, Begun

\* What such steps leave as it was.
SameService ==
    /\ QueueInv' /\ service' = service
    /\ NoneUnderWay' <=> NoneUnderWay
    /\ \A m \in Multis : /\ Served(m)' <=> Served(m)
                         /\ in_terminal_state(multi'[m]) <=> in_terminal_state(multi[m])
                         /\ multi'[m].parts = multi[m].parts
    /\ cache' = cache => Unheard' = Unheard

LEMMA AskedSame ==
    QueueInv /\ AsksOnly => SameService
<1> SUFFICES ASSUME QueueInv, AsksOnly PROVE SameService
  OBVIOUS
<1>1. OnlyAsked
  BY AsksOnlyIs
<1>2. /\ QueueInv'
      /\ \A m \in Multis : /\ Served(m)' <=> Served(m)
                           /\ in_terminal_state(multi'[m]) <=> in_terminal_state(multi[m])
                           /\ multi'[m].parts = multi[m].parts
  BY <1>1, OnlyAskedKeeps
<1>3. service' = service
  BY <1>1 DEF OnlyAsked
<1>4. QED BY <1>2, <1>3 DEF SameService, NoneUnderWay, Unheard

\* They keep Listens if they leave the downloads that are heard.
LEMMA ListensOn ==
    InstallShapes /\ Listens /\ SameService /\ cache' = cache
      /\ (installer'.at = "stopped" <=> installer.at = "stopped")
      /\ installer'.queued \in Nat /\ installer'.queued <= installer.queued /\ WillBeTold'
        => Listens'
<1> SUFFICES ASSUME InstallShapes, Listens, SameService, cache' = cache,
                    installer'.at = "stopped" <=> installer.at = "stopped",
                    installer'.queued \in Nat, installer'.queued <= installer.queued, WillBeTold'
             PROVE  Listens'
  OBVIOUS
<1>1. Heard'
  BY DEF Listens, Heard, SameService
<1>2. CachedGoOn'
  BY DEF Listens, CachedGoOn, SameService, InstallShapes
<1>3. StopsLast'
  BY DEF Listens, StopsLast, SameService
<1>4. Cardinality(Unheard) \in Nat
  BY DownloadAssumption, FS_Subset, FS_CardinalityType DEF DownloadAssumption, Unheard
<1>5. QueuedOnce'
  BY <1>4 DEF Listens, QueuedOnce, SameService, InstallShapes
<1>6. QED BY <1>1, <1>2, <1>3, <1>5 DEF Listens

-------------------------------------------------------------------------------
(* Requests.                                                               *)

LEMMA PauseKeeps ==
    ServiceInv /\ (PauseBegins \/ PauseEnds) => ServiceInv'
<1> SUFFICES ASSUME ServiceInv, PauseBegins \/ PauseEnds PROVE ServiceInv'
  OBVIOUS
<1>1. SameService
  BY AskedSame DEF ServiceInv, AsksOnly
<1>2. InstallShapes /\ Calls /\ Listens
  BY DEF ServiceInv
<1>3. CASE PauseBegins
  <2>1. /\ install' \in Installs /\ install'.status = "paused" /\ install'.multi = install.multi
        /\ install'.asked = install.asked
        /\ \/ install'.did = install.did
           \/ install.did \in {"nothing", install'.did} /\ install'.did \in {"pausesWaiting", "pausesDone"}
        /\ install.status \in {"downloads_done", "running"} => install'.did = "pausesDone"
        /\ install.status \in {"waiting", "downloading", "downloads_done", "running"}
    BY <1>2, <1>3, ZenonT(40) DEF PauseBegins, Pauses, Departs, departed, InstallShapes, Installs, InstallStatus, Ways
  <2>2. /\ call = NoCall /\ installer.at # "stopped" /\ ~restoring /\ call'.kind = "pausing" /\ call' # NoCall
        /\ call' = [kind |-> "pausing"]
        /\ UNCHANGED <<downloadVars, cache, marker, installer, models, restoring, restarts>>
    BY <1>3 DEF PauseBegins, Pauses, Ready, NoCall
  <2>3. InstallShapes' /\ Calls'
    BY <1>2, <2>1, <2>2 DEF InstallShapes, Calls
  <2>4. Listens'
    <3>1. WillBeTold'
      BY <2>1 DEF WillBeTold
    <3>2. QED BY <1>1, <1>2, <2>2, <3>1, ListensOn DEF InstallShapes
  <2>5. install'.did # "actsEarly" => Sole'
    BY <1>1, <2>1, <2>2 DEF ServiceInv, Sole, SameService, fetching
  <2>6. install'.did \notin {"actsEarly", "pausesDone"} => Phases'
    BY <1>1, <2>1, <2>2 DEF ServiceInv, Phases, SameService, fetching, over, idle
  <2>7. CrashRecoverable'
    BY <2>1, <2>2 DEF ServiceInv, CrashRecoverable
  <2>8. QED BY <1>1, <2>3, <2>4, <2>5, <2>6, <2>7 DEF ServiceInv, SameService
<1>4. CASE PauseEnds
  <2>1. /\ call.kind = "pausing" /\ call' = NoCall /\ call'.kind = "none" /\ marker' = "paused"
        /\ UNCHANGED <<disk, install, cache, installer, restoring>>
    BY <1>4 DEF PauseEnds, NoCall
  <2>2. InstallShapes' /\ Calls'
    BY <1>2, <2>1 DEF InstallShapes, Calls
  <2>3. Listens'
    <3>1. WillBeTold'
      BY <1>2, <2>1 DEF Listens, WillBeTold, fetching
    <3>2. QED BY <1>1, <1>2, <2>1, <3>1, ListensOn DEF InstallShapes
  <2>4. install'.did # "actsEarly" => Sole'
    BY <1>1, <2>1 DEF ServiceInv, Sole, SameService, fetching
  <2>5. install'.did \notin {"actsEarly", "pausesDone"} => Phases'
    BY <1>1, <2>1 DEF ServiceInv, Phases, SameService, fetching, over, idle
  <2>6. CrashRecoverable'
    BY <2>1 DEF ServiceInv, CrashRecoverable
  <2>7. QED BY <1>1, <2>2, <2>3, <2>4, <2>5, <2>6 DEF ServiceInv, SameService
<1>5. QED BY <1>3, <1>4

\* When the download service has nothing to do while it is up, no callback will come.
LEMMA QuietIsDone ==
    QueueInv /\ InstallShapes /\ Listens /\ Quiet
        => /\ NoneUnderWay
           /\ installer.at # "stopped" => cache = {}
<1> SUFFICES ASSUME QueueInv, InstallShapes, Listens, Quiet
             PROVE  NoneUnderWay /\ (installer.at # "stopped" => cache = {})
  OBVIOUS
<1>1. NoneUnderWay
  BY DEF Quiet, NoneUnderWay, Served, Turn, At, Holding
<1>2. ASSUME installer.at # "stopped", NEW m \in cache PROVE FALSE
  <2>1. m \in Multis /\ ~in_terminal_state(multi[m]) /\ multi[m].parts # {} /\ service = "up"
    BY <1>2 DEF InstallShapes, Listens, CachedGoOn, StopsLast
  <2>2. QED BY <1>1, <2>1, ServedIs DEF NoneUnderWay
<1>3. QED BY <1>1, <1>2

\* What is to be fetched again are files of the download that was shown.
LEMMA RestartableIs ==
    QueueInv /\ InstallShapes
        => /\ Restartable \subseteq Files
           /\ \A f \in Restartable : /\ install.shown \in Multis /\ f \in multi[install.shown].parts
                                     /\ job[<<install.shown, f>>].status # "completed"
           /\ install.shown \in Multis => multi[install.shown].parts \subseteq Files
<1> SUFFICES ASSUME QueueInv, InstallShapes
             PROVE  /\ Restartable \subseteq Files
                    /\ \A f \in Restartable : /\ install.shown \in Multis /\ f \in multi[install.shown].parts
                                              /\ job[<<install.shown, f>>].status # "completed"
                    /\ install.shown \in Multis => multi[install.shown].parts \subseteq Files
  OBVIOUS
<1>1. install.shown \in Multis \cup {0}
  BY DEF InstallShapes, Installs
<1>2. install.shown \in Multis => PartsOK(install.shown) /\ multi[install.shown].parts \subseteq Files
  BY DEF QueueInv, MultiOK, Shapes, MultiJobs
<1>3. QED BY <1>1, <1>2 DEF Restartable, PartsOK

LEMMA FetchesKeeps ==
    ASSUME ServiceInv, AsksOnly, Ready, install.status \in {"paused", "error"},
           NEW now \in {install} \cup {departed(way) : way \in {"actsEarly", "restartsFailed", "restartsFile"}},
           now = install \/ Departs(now.did),
           NEW files \in SUBSET Files, files # {}, NEW clears \in BOOLEAN,
           Fetches(now, files, clears),
           now.did # "actsEarly" => Quiet,
           now.did \notin {"actsEarly", "pausesDone"} => installer.at # "finish",
           now.did \notin {"actsEarly", "restartsFailed", "restartsFile"} => install.status = "paused"
    PROVE  ServiceInv'
<1>1. SameService
  BY AskedSame DEF ServiceInv
<1>2. QueueInv /\ InstallShapes /\ Calls /\ Listens
  BY DEF ServiceInv
<1>3. /\ now \in Installs /\ now.multi = install.multi /\ now.asked = install.asked /\ now.stuck = install.stuck
      /\ now.shown = install.shown
      /\ \/ now.did = install.did /\ now = install
         \/ install.did \in {"nothing", now.did} /\ now.did \in {"actsEarly", "restartsFailed", "restartsFile"}
  BY <1>2 DEF departed, Departs, InstallShapes, Installs, Ways
<1>4. /\ install' \in Installs /\ install'.status = "waiting" /\ install'.multi = install.multi
      /\ install'.asked = install.asked /\ install'.did = now.did
  BY <1>3 DEF Fetches, Installs, InstallStatus
<1>5. /\ call = NoCall /\ call.kind = "none" /\ installer.at # "stopped" /\ ~restoring
      /\ call' = [kind |-> "fetching", files |-> files, clears |-> clears]
      /\ call' \in Fetchings /\ fetching' /\ call' # NoCall /\ call'.kind = "fetching"
      /\ UNCHANGED <<cache, marker, installer, restoring>>
  <2>1. call' = [kind |-> "fetching", files |-> files, clears |-> clears]
    BY DEF Fetches
  <2>2. call' \in Fetchings /\ call'.kind = "fetching"
    BY <2>1 DEF Fetchings
  <2>3. NoCall.kind = "none"
    BY DEF NoCall
  <2>4. QED BY <2>1, <2>2, <2>3 DEF Fetches, Ready, fetching
<1>6. InstallShapes' /\ Calls'
  BY <1>2, <1>4, <1>5 DEF InstallShapes, Calls
<1>7. Listens'
  <2>1. WillBeTold'
    BY <1>5 DEF WillBeTold
  <2>2. QED BY <1>1, <1>2, <1>5, <2>1, ListensOn DEF InstallShapes
<1>8. install'.did # "actsEarly" => NoneUnderWay /\ cache = {}
  BY <1>2, <1>4, <1>5, QuietIsDone
<1>9. install'.did # "actsEarly" => Sole'
  BY <1>1, <1>3, <1>4, <1>5, <1>8 DEF ServiceInv, Sole, SameService, NoneUnderWay
<1>10. install'.did \notin {"actsEarly", "pausesDone"} => Phases'
  BY <1>1, <1>2, <1>3, <1>4, <1>5, <1>8 DEF ServiceInv, Phases, SameService, over, InstallShapes
<1>11. CrashRecoverable'
  BY <1>3, <1>4, <1>5 DEF ServiceInv, CrashRecoverable
<1>12. QED BY <1>1, <1>6, <1>7, <1>9, <1>10, <1>11 DEF ServiceInv, SameService

LEMMA ResumeKeeps ==
    ServiceInv /\ (resume_job \/ restart_failed \/ restart_file) => ServiceInv'
<1> SUFFICES ASSUME ServiceInv, resume_job \/ restart_failed \/ restart_file PROVE ServiceInv'
  OBVIOUS
<1>1. QueueInv /\ InstallShapes /\ AsksOnly
  BY DEF ServiceInv, AsksOnly
<1>2. CASE resume_job
  <2>1. Files \in SUBSET Files /\ Files # {} /\ FALSE \in BOOLEAN
    BY DownloadAssumption DEF DownloadAssumption
  <2>2. CASE Quiet
    <3>1. Fetches(install, Files, FALSE) /\ Ready /\ install.status = "paused"
      BY <1>2, <2>2 DEF resume_job, after
    <3>2. install.did \notin {"actsEarly", "pausesDone"} => installer.at # "finish"
      BY <3>1 DEF ServiceInv, Phases, over
    <3>3. QED BY <1>1, <2>1, <2>2, <3>1, <3>2, FetchesKeeps
  <2>3. CASE ~Quiet
    <3>1. /\ Fetches(departed("actsEarly"), Files, FALSE) /\ Departs("actsEarly") /\ Ready
          /\ install.status = "paused"
      BY <1>2, <2>3 DEF resume_job, after, Unless
    <3>2. departed("actsEarly").did = "actsEarly"
      BY <1>1 DEF departed, InstallShapes, Installs
    <3>3. QED BY <1>1, <2>1, <3>1, <3>2, FetchesKeeps
  <2>4. QED BY <2>2, <2>3
<1>3. CASE restart_failed \/ restart_file
  <2>1. PICK way \in {"actsEarly", "restartsFailed", "restartsFile"}, files \in (SUBSET Files) \ {{}} :
           /\ Fetches(departed(way), files, TRUE) /\ Departs(way)
           /\ Ready /\ install.status \in {"paused", "error"}
           /\ way # "actsEarly" => LetGo
    <3>1. CASE restart_failed
      <4> DEFINE files == {f \in multi[install.shown].parts : job[<<install.shown, f>>].status # "completed"}
      <4>1. files \in (SUBSET Files) \ {{}}
        BY <1>1, <3>1, RestartableIs DEF restart_failed
      <4>2. /\ Fetches(departed(early("restartsFailed")), files, TRUE) /\ Departs(early("restartsFailed"))
            /\ Ready /\ install.status \in {"paused", "error"}
        BY <3>1 DEF restart_failed
      <4> HIDE DEF files
      <4>3. early("restartsFailed") \in {"actsEarly", "restartsFailed", "restartsFile"}
            /\ (early("restartsFailed") # "actsEarly" => LetGo)
        BY DEF early
      <4>4. QED BY <4>1, <4>2, <4>3
    <3>2. CASE restart_file
      <4>1. PICK f \in Restartable : Fetches(departed(early("restartsFile")), {f}, TRUE)
        BY <3>2 DEF restart_file
      <4>2. Departs(early("restartsFile")) /\ Ready /\ install.status \in {"paused", "error"}
        BY <3>2 DEF restart_file
      <4>3. {f} \in (SUBSET Files) \ {{}}
        BY <1>1, RestartableIs
      <4>4. early("restartsFile") \in {"actsEarly", "restartsFailed", "restartsFile"}
            /\ (early("restartsFile") # "actsEarly" => LetGo)
        BY DEF early
      <4>5. QED BY <4>1, <4>2, <4>3, <4>4
    <3>3. QED BY <1>3, <3>1, <3>2
  <2>2. departed(way).did = way
    BY <1>1 DEF departed, InstallShapes, Installs
  <2>3. way # "actsEarly" => Quiet /\ installer.at # "finish"
    BY <2>1 DEF LetGo
  <2>4. QED BY <1>1, <2>1, <2>2, <2>3, FetchesKeeps
<1>4. QED BY <1>2, <1>3

LEMMA FetchFailsKeeps ==
    ServiceInv /\ FetchFails => ServiceInv'
<1> SUFFICES ASSUME ServiceInv, FetchFails PROVE ServiceInv'
  OBVIOUS
<1>1. SameService
  BY AskedSame DEF ServiceInv, AsksOnly
<1>2. InstallShapes /\ Calls /\ Listens
  BY DEF ServiceInv
<1>3. /\ fetching /\ call # NoCall /\ ~restoring /\ call' = NoCall /\ call'.kind = "none"
      /\ UNCHANGED <<disk, cache, marker, installer, restoring>>
      /\ install' = [install EXCEPT !.stuck = TRUE]
  BY <1>2 DEF FetchFails, NoCall, Calls, fetching, downloadVars
<1>4. /\ install' \in Installs /\ install'.status = install.status /\ install'.multi = install.multi
      /\ install'.asked = install.asked /\ install'.did = install.did /\ install'.stuck
  BY <1>2, <1>3 DEF InstallShapes, Installs
<1>5. InstallShapes' /\ Calls'
  BY <1>2, <1>3, <1>4 DEF InstallShapes, Calls
<1>6. Listens'
  <2>1. WillBeTold'
    BY <1>4 DEF WillBeTold
  <2>2. QED BY <1>1, <1>2, <1>3, <2>1, ListensOn DEF InstallShapes
<1>7. install'.did # "actsEarly" => Sole'
  BY <1>1, <1>3, <1>4 DEF ServiceInv, Sole, SameService, fetching
<1>8. install'.did \notin {"actsEarly", "pausesDone"} => Phases'
  BY <1>1, <1>3, <1>4 DEF ServiceInv, Phases, SameService, fetching, over, idle
<1>9. CrashRecoverable'
  BY <1>3, <1>4 DEF ServiceInv, CrashRecoverable
<1>10. QED BY <1>1, <1>5, <1>6, <1>7, <1>8, <1>9 DEF ServiceInv, SameService

LEMMA CancelKeeps ==
    ServiceInv /\ (CancelBegins \/ CancelEnds \/ cancel_all_jobs) => ServiceInv'
<1> SUFFICES ASSUME ServiceInv, CancelBegins \/ CancelEnds \/ cancel_all_jobs PROVE ServiceInv'
  OBVIOUS
<1>1. SameService
  BY AskedSame DEF ServiceInv, AsksOnly
<1>2. InstallShapes /\ Calls /\ Listens
  BY DEF ServiceInv
<1>3. /\ install' \in Installs /\ install'.multi = install.multi
      /\ \/ install'.did = install.did
         \/ install.did \in {"nothing", install'.did} /\ install'.did = "cancelsLate"
      /\ install'.stuck = install.stuck
      /\ UNCHANGED <<cache, installer, restoring>>
  BY <1>2, ZenonT(40) DEF CancelBegins, CancelEnds, cancel_all_jobs, after, departed, Unless, Departs, InstallShapes,
              Installs, InstallStatus, Ways
<1>4. /\ ~fetching'
      /\ call' # NoCall => installer.at # "stopped" /\ ~restoring /\ install'.status # "none"
      /\ call' \in {NoCall, [kind |-> "pausing"], [kind |-> "cancelling"]} \cup Fetchings \/ call' = call
  <2>1. CASE CancelBegins
    <3>1. call' = [kind |-> "cancelling"] /\ call'.kind = "cancelling" /\ installer.at # "stopped" /\ ~restoring
      BY <2>1 DEF CancelBegins, Ready
    <3>2. install'.status = "cancelled"
      BY <1>2, <2>1 DEF CancelBegins, after, departed, InstallShapes, Installs
    <3>3. QED BY <3>1, <3>2 DEF fetching
  <2>2. CASE CancelEnds \/ cancel_all_jobs
    <3>1. call' = NoCall /\ call'.kind = "none"
      BY <2>2 DEF CancelEnds, cancel_all_jobs, Ready, NoCall
    <3>2. QED BY <3>1 DEF fetching
  <2>3. QED BY <2>1, <2>2
<1>5. install'.asked
  <2>1. CASE CancelBegins \/ cancel_all_jobs
    BY <1>2, <2>1 DEF CancelBegins, cancel_all_jobs, after, departed, InstallShapes, Installs
  <2>2. CASE CancelEnds
    BY <1>2, <2>2 DEF CancelEnds, Calls
  <2>3. QED BY <2>1, <2>2
<1>6. \/ install'.status = "cancelled" /\ call'.kind = "cancelling" /\ marker' = marker
         /\ install.status # "none" /\ ~over
      \/ install'.status = install.status /\ call'.kind = "none" /\ disk' = Wiped /\ marker' = "none"
      \/ install'.status = install.status /\ call'.kind = "none" /\ UNCHANGED <<call, disk, marker>>
  <2>1. CASE CancelBegins
    BY <1>2, <2>1 DEF CancelBegins, after, departed, InstallShapes, Installs
  <2>2. CASE CancelEnds
    BY <1>2, <2>2 DEF CancelEnds, NoCall, _safe_rmtree
  <2>3. CASE cancel_all_jobs
    BY <1>2, <2>3 DEF cancel_all_jobs, Ready, NoCall, InstallShapes, Installs
  <2>4. QED BY <2>1, <2>2, <2>3
<1>7. InstallShapes' /\ Calls'
  BY <1>2, <1>3, <1>4, <1>5, <1>6 DEF InstallShapes, Calls
<1>8. Listens'
  <2>1. ~fetching
    BY DEF CancelBegins, CancelEnds, cancel_all_jobs, Ready, NoCall, fetching
  <2>2. WillBeTold'
    BY <1>2, <1>3, <1>6, <2>1 DEF Listens, WillBeTold
  <2>3. QED BY <1>1, <1>2, <1>3, <2>2, ListensOn DEF InstallShapes
<1>9. ASSUME install'.did # "actsEarly" PROVE Sole'
  <2>1. Sole /\ (install'.status = "none" => install.status = "none")
    BY <1>3, <1>6, <1>9 DEF ServiceInv
  <2>2. QED BY <1>1, <1>3, <1>4, <2>1 DEF Sole, SameService
<1>10. ASSUME install'.did \notin {"actsEarly", "pausesDone"} PROVE Phases'
  <2>1. Phases
    BY <1>3, <1>10 DEF ServiceInv
  <2>2. QED BY <1>1, <1>3, <1>4, <1>6, <2>1 DEF Phases, SameService, over, idle
<1>11. CrashRecoverable'
  BY <1>5 DEF CrashRecoverable
<1>12. QED BY <1>1, <1>7, <1>8, <1>9, <1>10, <1>11 DEF ServiceInv, SameService

-------------------------------------------------------------------------------
(* The install thread and the end of the process.                          *)

LEMMA InstallThreadKeeps ==
    ServiceInv /\ InstallThread => ServiceInv'
<1> SUFFICES ASSUME ServiceInv, InstallThread PROVE ServiceInv'
  OBVIOUS
<1>1. SameService
  BY AskedSame DEF ServiceInv, AsksOnly
<1>2. InstallShapes /\ Calls /\ Listens
  BY DEF ServiceInv
<1>3. /\ UNCHANGED <<cache, call, restoring>>
      /\ installer.at # "stopped" /\ installer'.at # "stopped"
      /\ installer' \in [at : {"idle", "marked", "moving", "finish", "stopped"}, queued : Nat]
      /\ installer'.queued <= installer.queued
      /\ install' \in Installs /\ install'.multi = install.multi /\ install'.did = install.did
      /\ install'.asked = install.asked /\ install'.stuck = install.stuck
      /\ install'.status \in {install.status, "running", "completed", "error"}
      /\ marker' \in {"none", "running", marker}
  <2>1. CASE InstallTakes
    BY <1>2, <2>1 DEF InstallTakes, InstallShapes, Installs, InstallStatus
  <2>2. CASE InstallUnmarks
    BY <1>2, <2>2 DEF InstallUnmarks, InstallShapes, Installs, InstallStatus
  <2>3. CASE InstallMoves
    BY <1>2, <2>3, SMTT(30) DEF InstallMoves, InstallShapes, Installs, InstallStatus
  <2>4. CASE InstallFails
    BY <1>2, <2>4 DEF InstallFails, InstallShapes, Installs, InstallStatus
  <2>5. CASE InstallFinishes
    BY <1>2, <2>5 DEF InstallFinishes, InstallShapes, Installs, InstallStatus
  <2>6. QED BY <2>1, <2>2, <2>3, <2>4, <2>5 DEF InstallThread
<1>4. InstallShapes' /\ Calls'
  BY <1>2, <1>3 DEF InstallShapes, Calls
<1>5. Listens'
  <2>1. WillBeTold'
    BY <1>2, <1>3 DEF Listens, WillBeTold, fetching
  <2>2. QED BY <1>1, <1>2, <1>3, <2>1, ListensOn DEF InstallShapes
<1>6. ASSUME install'.did # "actsEarly" PROVE Sole'
  <2>1. Sole
    BY <1>3, <1>6 DEF ServiceInv
  <2>2. QED BY <1>1, <1>3, <2>1 DEF Sole, SameService, fetching
<1>7. ASSUME Phases PROVE Phases' /\ CrashRecoverable'
  <2>1. CASE InstallTakes
    <3>1. /\ installer.at = "idle" /\ installer.queued > 0 /\ UNCHANGED <<disk, cache, call, restoring>>
          /\ installer'.queued = installer.queued - 1
          /\ \/ install'.status = "running" /\ marker' = "running" /\ installer'.at = "marked"
             \/ /\ install' = install /\ installer'.at = "finish"
                /\ install.status \notin {"waiting", "downloads_done"}
                /\ marker' = IF install.status \in {"cancelled", "error"} THEN "none" ELSE marker
      BY <1>2, <2>1 DEF InstallTakes, InstallShapes, Installs, downloadVars
    <3>2. QED BY <1>1, <1>2, <1>3, <1>7, <3>1
              DEF ServiceInv, Phases, CrashRecoverable, SameService, fetching, over, idle, InstallShapes
  <2>2. CASE InstallUnmarks
    <3>1. /\ installer.at = "marked" /\ installer'.at = "moving" /\ installer'.queued = installer.queued
          /\ install' = install /\ UNCHANGED <<disk, cache, call, restoring>> /\ marker' = "none"
      BY <1>2, <2>2 DEF InstallUnmarks, InstallShapes, downloadVars
    <3>2. QED BY <1>1, <1>7, <3>1 DEF Phases, CrashRecoverable, SameService, fetching, over, idle
  <2>3. CASE InstallMoves \/ InstallFails
    <3>1. /\ installer.at \in {"marked", "moving"} /\ installer'.at = "finish"
          /\ installer'.queued = installer.queued
          /\ install'.status \in {"completed", "error"} /\ UNCHANGED <<cache, call, restoring>> /\ marker' = "none"
      BY <1>2, <2>3 DEF InstallMoves, InstallFails, InstallShapes, Installs, downloadVars
    <3>2. QED BY <1>1, <1>3, <1>7, <3>1 DEF Phases, CrashRecoverable, SameService, fetching, over, idle
  <2>4. CASE InstallFinishes
    <3>1. /\ installer.at = "finish" /\ installer'.at = "idle" /\ installer'.queued = installer.queued
          /\ install' = install /\ UNCHANGED <<cache, call, restoring>> /\ marker' = "none" /\ disk' = Wiped
      BY <1>2, <2>4 DEF InstallFinishes, InstallShapes, _safe_rmtree
    <3>2. QED BY <1>1, <1>7, <3>1 DEF Phases, CrashRecoverable, SameService, fetching, over, idle
  <2>5. QED BY <2>1, <2>2, <2>3, <2>4 DEF InstallThread
<1>8. install'.did \notin {"actsEarly", "pausesDone"} => Phases'
  BY <1>3, <1>7 DEF ServiceInv
<1>9. CrashRecoverable'
  <2>1. CASE install.did \in {"actsEarly", "pausesDone"}
    BY <1>3, <2>1 DEF CrashRecoverable
  <2>2. CASE install.did \notin {"actsEarly", "pausesDone"}
    BY <1>7, <2>2 DEF ServiceInv
  <2>3. QED BY <2>1, <2>2
<1>10. QED BY <1>1, <1>4, <1>5, <1>6, <1>8, <1>9 DEF ServiceInv, SameService

LEMMA RestoreFailsKeeps ==
    ServiceInv /\ RestoreFails => ServiceInv'
<1> SUFFICES ASSUME ServiceInv, RestoreFails PROVE ServiceInv'
  OBVIOUS
<1>1. SameService
  BY AskedSame DEF ServiceInv, AsksOnly
<1>2. InstallShapes /\ Calls /\ Listens
  BY DEF ServiceInv
<1>3. /\ restoring /\ ~restoring' /\ call = NoCall /\ call.kind = "none"
      /\ marker' = "none" /\ disk' = Wiped /\ UNCHANGED <<cache, installer, call>>
      /\ install' \in Installs /\ install'.status = "error" /\ install'.multi = install.multi
      /\ install'.did = install.did
  BY <1>2 DEF RestoreFails, _safe_rmtree, InstallShapes, Installs, InstallStatus, Calls, NoCall
<1>4. InstallShapes' /\ Calls'
  BY <1>2, <1>3 DEF InstallShapes, Calls, RestoreFails
<1>5. Listens'
  <2>1. WillBeTold'
    BY <1>3 DEF WillBeTold
  <2>2. QED BY <1>1, <1>2, <1>3, <2>1, ListensOn DEF InstallShapes
<1>6. ASSUME install'.did # "actsEarly" PROVE Sole' /\ NoneUnderWay
  <2>1. Sole
    BY <1>3, <1>6 DEF ServiceInv
  <2>2. QED BY <1>1, <1>3, <2>1 DEF Sole, SameService, fetching
<1>7. ASSUME install'.did \notin {"actsEarly", "pausesDone"} PROVE Phases'
  <2>1. Phases
    BY <1>3, <1>7 DEF ServiceInv
  <2>2. QED BY <1>1, <1>3, <1>6, <1>7, <2>1 DEF Phases, SameService, fetching, over, idle
<1>8. CrashRecoverable'
  BY <1>3 DEF CrashRecoverable
<1>9. QED BY <1>1, <1>4, <1>5, <1>6, <1>7, <1>8 DEF ServiceInv, SameService

\* The process stops, the install service first.
LEMMA UnheardIsFinite ==
    /\ Cardinality(Unheard) \in Nat
    /\ Cardinality(Unheard)' \in Nat
BY DownloadAssumption, FS_Subset, FS_CardinalityType DEF DownloadAssumption, Unheard

LEMMA InstallStopsKeeps ==
    ServiceInv /\ InstallStops => ServiceInv'
<1> SUFFICES ASSUME ServiceInv, InstallStops PROVE ServiceInv'
  OBVIOUS
<1>1. SameService
  BY AskedSame DEF ServiceInv, AsksOnly
<1>2. InstallShapes /\ Calls /\ Listens
  BY DEF ServiceInv
<1>3. /\ call = NoCall /\ call.kind = "none" /\ call' = call /\ restoring' = restoring
      /\ cache' = {} /\ installer.at = "idle" /\ installer'.at = "stopped" /\ installer'.queued = 0
      /\ installer' \in [at : {"idle", "marked", "moving", "finish", "stopped"}, queued : Nat]
      /\ install.did \in {"nothing", "stops"}
  BY DEF InstallStops, Departs, NoCall
<1>4. /\ install' \in Installs /\ install'.multi = install.multi /\ install'.did = "stops"
      /\ \/ (over \/ install.status = "none") /\ install'.status = install.status /\ marker' = marker
         \/ install.multi # 0 /\ install'.status = "paused" /\ marker' = "paused"
         \/ install.multi = 0 /\ install'.status = "cancelled" /\ marker' = "none"
  BY <1>2, ZenonT(40) DEF InstallStops, departed, InstallShapes, Installs, InstallStatus, Ways
<1>5. InstallShapes' /\ Calls'
  BY <1>2, <1>3, <1>4 DEF InstallShapes, Calls
<1>6. Listens'
  <2>1. WillBeTold'
    BY <1>4 DEF WillBeTold, over
  <2>2. QED BY <1>3, <2>1, UnheardIsFinite DEF Listens, Heard, CachedGoOn, StopsLast, QueuedOnce
<1>7. Sole /\ Phases
  BY <1>3 DEF ServiceInv
<1>8. Sole'
  BY <1>1, <1>3, <1>4, <1>7 DEF Sole, SameService, fetching
<1>9. Phases'
  BY <1>1, <1>3, <1>4, <1>7 DEF Phases, SameService, fetching, over, idle
<1>10. CrashRecoverable'
  BY <1>4 DEF CrashRecoverable, over
<1>11. QED BY <1>1, <1>5, <1>6, <1>8, <1>9, <1>10 DEF ServiceInv, SameService

LEMMA StopsKeeps ==
    ServiceInv /\ Stops => ServiceInv'
<1> SUFFICES ASSUME ServiceInv, Stops PROVE ServiceInv'
  OBVIOUS
<1>1. QueueInv /\ Shapes /\ InstallShapes /\ Calls /\ Listens
  BY DEF ServiceInv, QueueInv
<1>2. /\ installer.at = "stopped" /\ UNCHANGED <<install, cache, marker, installer, call, restoring>>
      /\ UNCHANGED <<multi, work, disk>> /\ service' \in {"stopping", "stopped"}
      /\ queue' \in {queue, {}} /\ job' \in {job, cancelListed}
  BY DEF Stops, StopBegins, StopReturns, installVars
<1>3. JobsAsked /\ job' \in [Parts -> Jobs]
  BY <1>1, <1>2, PausedAsks DEF JobsAsked, Shapes
<1>4. Shapes' /\ StandStill /\ MultisAsked
  BY <1>1, <1>2, <1>3 DEF Shapes, StandStill, MultisAsked
<1>5. QueueInv'
  BY <1>1, <1>2, <1>3, <1>4, AskingKeeps
<1>6. \A m \in Multis : Served(m)' => Served(m)
  BY <1>2 DEF Served, Turn, At, P
<1>7. InstallShapes' /\ Calls'
  BY <1>1, <1>2 DEF InstallShapes, Calls
<1>8. Listens'
  <2>1. Heard' /\ StopsLast'
    BY <1>2 DEF Heard, StopsLast
  <2>2. CachedGoOn'
    BY <1>1, <1>2 DEF Listens, CachedGoOn
  <2>3. WillBeTold'
    BY <1>1, <1>2 DEF Listens, WillBeTold, fetching
  <2>4. QueuedOnce'
    BY <1>1, <1>2 DEF Listens, QueuedOnce, Unheard
  <2>5. QED BY <2>1, <2>2, <2>3, <2>4 DEF Listens
<1>9. NoneUnderWay => NoneUnderWay'
  BY <1>6 DEF NoneUnderWay
<1>10. install'.did # "actsEarly" => Sole'
  BY <1>2, <1>6, <1>9 DEF ServiceInv, Sole, fetching
<1>11. install'.did \notin {"actsEarly", "pausesDone"} => Phases'
  BY <1>2, <1>9 DEF ServiceInv, Phases, fetching, over, idle
<1>12. CrashRecoverable'
  BY <1>2 DEF ServiceInv, CrashRecoverable
<1>13. QED BY <1>5, <1>7, <1>8, <1>10, <1>11, <1>12 DEF ServiceInv

\* It starts again.
LEMMA RestartKeeps ==
    ServiceInv /\ Restart => ServiceInv'
<1> SUFFICES ASSUME ServiceInv, Restart PROVE ServiceInv'
  OBVIOUS
<1>1. Shapes /\ InstallShapes
  BY DEF ServiceInv, QueueInv
<1>2. Blank'
  <2>1. disk \in FileShapes /\ Wiped \in FileShapes
    BY <1>1, WipedIs DEF Shapes, FileShapes
  <2>2. QED BY <2>1 DEF Restart, Blank, FileShapes
<1>3. QueueInv'
  BY <1>2, BlankIsFine, PTL
<1>4. NoneUnderWay' /\ \A m \in Multis : multi'[m].parts = {}
  BY <1>2 DEF Blank, NoneUnderWay, Served, Turn, At, P, AtTop, NewMulti, Holding
<1>5. /\ cache' = {} /\ call' = NoCall /\ call'.kind = "none" /\ marker' = marker
      /\ service' = "up" /\ restoring' = (marker \in {"waiting", "downloading"})
      /\ installer' \in [at : {"idle"}, queued : {0, 1}]
      /\ installer'.queued = 1 => marker \in {"downloads_done", "running"}
  BY DEF Restart, NoCall
<1>6. /\ install' \in Installs /\ install'.multi = 0 /\ ~install'.stuck
      /\ install'.status = IF marker \in {"downloads_done", "running"} THEN "downloads_done"
                           ELSE IF marker = "downloading" THEN "waiting" ELSE marker
  <2>1. after(NoneLose, kills).did \in Ways \cup {"nothing"}
    BY <1>1 DEF after, departed, kills, InstallShapes, Installs, Ways
  <2>2. PICK did \in Ways \cup {"nothing"} :
           install' = [NoInstall EXCEPT !.asked = install.asked, !.did = did, !.status =
                          IF marker \in {"downloads_done", "running"} THEN "downloads_done"
                          ELSE IF marker = "downloading" THEN "waiting" ELSE marker]
    BY <2>1 DEF Restart
  <2>3. PICK status \in InstallStatus :
           status = IF marker \in {"downloads_done", "running"} THEN "downloads_done"
                    ELSE IF marker = "downloading" THEN "waiting" ELSE marker
    BY <1>1 DEF InstallShapes, InstallStatus
  <2>4. install' = [NoInstall EXCEPT !.asked = install.asked, !.did = did, !.status = status]
    BY <2>2, <2>3
  <2>5. NoInstall \in Installs /\ NoInstall.multi = 0 /\ ~NoInstall.stuck
    BY DEF NoInstall, Installs, InstallStatus
  <2>6. install.asked \in BOOLEAN
    BY <1>1 DEF InstallShapes, Installs
  <2>7. QED BY <2>3, <2>4, <2>5, <2>6 DEF Installs
<1>7. InstallShapes' /\ Calls'
  BY <1>1, <1>5, <1>6 DEF InstallShapes, Calls
<1>8. Listens'
  <2>1. WillBeTold'
    BY <1>1, <1>5, <1>6 DEF WillBeTold, InstallShapes
  <2>2. Heard' /\ CachedGoOn' /\ StopsLast'
    BY <1>4, <1>5 DEF Heard, CachedGoOn, StopsLast, NoneUnderWay
  <2>3. QueuedOnce'
    BY <1>5, UnheardIsFinite DEF QueuedOnce
  <2>4. QED BY <2>1, <2>2, <2>3 DEF Listens
<1>9. Sole'
  BY <1>4, <1>5 DEF Sole, NoneUnderWay, fetching
<1>10. Phases'
  BY <1>1, <1>4, <1>5, <1>6 DEF Phases, fetching, over, idle, InstallShapes
<1>11. CrashRecoverable'
  BY <1>5, <1>6 DEF CrashRecoverable
<1>12. QED BY <1>3, <1>7, <1>8, <1>9, <1>10, <1>11 DEF ServiceInv

LEMMA InitIsFine ==
    Init => ServiceInv
<1> SUFFICES ASSUME Init PROVE ServiceInv
  OBVIOUS
<1>1. Blank
  BY EmptySeq DEF Init, DownloadInit, Blank
<1>2. QueueInv
  BY <1>1, BlankIsFine
<1>3. NoneUnderWay
  BY <1>1 DEF Blank, NoneUnderWay, Served, Turn, At, P, AtTop, Holding
<1>4. /\ cache = {} /\ call = NoCall /\ call.kind = "none" /\ marker = "none" /\ ~restoring /\ restoring \in BOOLEAN
      /\ service = "up" /\ installer = [at |-> "idle", queued |-> 0]
      /\ install \in Installs /\ install.multi = 0 /\ install.status = "none"
  BY DEF Init, DownloadInit, NoCall, NoInstall, Installs, InstallStatus
<1>5. InstallShapes /\ Calls
  BY <1>4 DEF InstallShapes, Calls
<1>6. Listens
  BY <1>3, <1>4, UnheardIsFinite DEF Listens, Heard, CachedGoOn, StopsLast, WillBeTold, QueuedOnce, NoneUnderWay
<1>7. Sole /\ Phases /\ CrashRecoverable
  BY <1>3, <1>4 DEF Sole, Phases, CrashRecoverable, NoneUnderWay, fetching, over, idle
<1>8. QED BY <1>2, <1>5, <1>6, <1>7 DEF ServiceInv

-------------------------------------------------------------------------------
(* New downloads.                                                          *)

LEMMA EnqueueKeeps ==
    ASSUME ServiceInv, NEW files \in SUBSET Files, files # {}, NEW cleared \in SUBSET Files,
           NEW changed \in Installs, enqueue(files, cleared, changed),
           changed.status # "none", changed.did = install.did,
           call' = NoCall, restoring' = FALSE,
           install.did # "actsEarly" => NoneUnderWay /\ cache = {},
           install.did \notin {"actsEarly", "pausesDone"}
               => installer.queued = 0 /\ installer.at \in {"idle", "stopped"} /\ changed.status = "waiting"
    PROVE  ServiceInv'
<1>1. QueueInv /\ InstallShapes /\ Listens
  BY DEF ServiceInv
<1>a. \E m \in Multis : Begun(m, files, cleared, changed)
  BY <1>1, EnqueueIs
<1>b. PICK m \in Multis : Begun(m, files, cleared, changed)
  BY <1>a
<1>2. /\ QueueInv' /\ service = "up" /\ multi[m].parts = {} /\ ~Served(m)
      /\ multi'[m].parts = files /\ multi'[m].status = "waiting"
      /\ \A n \in Multis : n # m => multi'[n] = multi[n] /\ (Served(n)' <=> Served(n))
      /\ service' = service /\ cache' = cache \cup {m} /\ install' = [changed EXCEPT !.multi = m]
      /\ marker' = "waiting" /\ installer' = installer
  BY <1>b DEF Begun
<1>3. /\ install' \in Installs /\ install'.status = changed.status /\ install'.did = install.did
      /\ install'.multi = m
  BY <1>2 DEF Installs
<1>4. ~fetching' /\ call'.kind = "none"
  BY DEF fetching, NoCall
<1>5. InstallShapes' /\ Calls'
  BY <1>1, <1>2, <1>3, <1>4 DEF InstallShapes, Calls
<1>6. Listens'
  <2>1. Heard'
    BY <1>1, <1>2 DEF Listens, Heard
  <2>2. CachedGoOn'
    BY <1>1, <1>2 DEF Listens, CachedGoOn, in_terminal_state, InstallShapes
  <2>3. StopsLast'
    BY <1>2 DEF StopsLast
  <2>4. WillBeTold'
    BY <1>2, <1>3 DEF WillBeTold
  <2>5. Unheard' = Unheard
    BY <1>2 DEF Unheard
  <2>6. QueuedOnce'
    BY <1>1, <1>2, <2>5 DEF Listens, QueuedOnce
  <2>7. QED BY <2>1, <2>2, <2>3, <2>4, <2>6 DEF Listens
<1>7. install'.did # "actsEarly" => Sole'
  BY <1>2, <1>3, <1>4 DEF Sole, NoneUnderWay
<1>8. install'.did \notin {"actsEarly", "pausesDone"} => Phases'
  BY <1>2, <1>3, <1>4 DEF Phases, over
<1>9. CrashRecoverable'
  BY <1>2 DEF CrashRecoverable
<1>10. QED BY <1>2, <1>5, <1>6, <1>7, <1>8, <1>9 DEF ServiceInv

LEMMA BeginKeeps ==
    ServiceInv /\ (import_model \/ Fetched \/ Restored) => ServiceInv'
<1> SUFFICES ASSUME ServiceInv, import_model \/ Fetched \/ Restored PROVE ServiceInv'
  OBVIOUS
<1>1. InstallShapes /\ Calls
  BY DEF ServiceInv
<1>2. Files \in SUBSET Files /\ Files # {} /\ {} \in SUBSET Files
  BY DownloadAssumption DEF DownloadAssumption
<1>3. CASE import_model
  <2>1. enqueue(Files, {}, [NoInstall EXCEPT !.status = "waiting", !.did = install.did])
    BY <1>3 DEF import_model
  <2>2. call' = NoCall /\ restoring' = FALSE /\ install.status = "none" /\ installer.at # "stopped"
    BY <1>1, <1>3 DEF import_model, Ready, InstallShapes
  <2> DEFINE changed == [NoInstall EXCEPT !.status = "waiting", !.did = install.did]
  <2>3. changed \in Installs /\ changed.status = "waiting" /\ changed.did = install.did
    <3>1. NoInstall \in Installs /\ install.did \in Ways \cup {"nothing"}
      BY <1>1 DEF NoInstall, Installs, InstallStatus, InstallShapes
    <3>2. QED BY <3>1 DEF Installs, InstallStatus
  <2> HIDE DEF changed
  <2>4. install.did # "actsEarly" => NoneUnderWay /\ cache = {}
    BY <2>2 DEF ServiceInv, Sole
  <2>5. install.did \notin {"actsEarly", "pausesDone"}
            => installer.queued = 0 /\ installer.at \in {"idle", "stopped"}
    BY <1>1, <2>2 DEF ServiceInv, Phases, over, InstallShapes
  <2>6. enqueue(Files, {}, changed)
    BY <2>1 DEF changed
  <2>7. QED BY <1>2, <2>2, <2>3, <2>4, <2>5, <2>6, EnqueueKeeps
<1>4. CASE Fetched
  <2>1. call \in Fetchings /\ fetching
    BY <1>1, <1>4 DEF Fetched, InstallShapes, NoCall, fetching
  <2>2. call.files \in SUBSET Files /\ call.files # {}
    BY <2>1 DEF Fetchings
  <2>3. PICK cleared \in SUBSET Files : enqueue(call.files, cleared, install)
    BY <1>2, <1>4, <2>2 DEF Fetched
  <2>4. call # NoCall /\ ~restoring /\ installer.at # "stopped" /\ install.status # "none"
    BY <1>1, <2>1 DEF NoCall, fetching, Calls
  <2>5. call' = NoCall /\ restoring' = FALSE
    BY <1>1, <1>4, <2>4 DEF Fetched, InstallShapes
  <2>6. install.did # "actsEarly" => NoneUnderWay /\ cache = {}
    BY <2>1 DEF ServiceInv, Sole
  <2>7. install.did \notin {"actsEarly", "pausesDone"}
            => installer.queued = 0 /\ installer.at \in {"idle", "stopped"} /\ install.status = "waiting"
    BY <1>1, <2>1 DEF ServiceInv, Phases, InstallShapes
  <2>8. install \in Installs
    BY <1>1 DEF InstallShapes
  <2>9. QED BY <2>2, <2>3, <2>4, <2>5, <2>6, <2>7, <2>8, EnqueueKeeps
<1>5. CASE Restored
  <2> DEFINE changed == [install EXCEPT !.status = "waiting"]
  <2>1. enqueue(Files, {}, changed)
    BY <1>5 DEF Restored
  <2>2. restoring /\ call' = NoCall /\ restoring' = FALSE
    BY <1>1, <1>5 DEF Restored, Calls
  <2>3. changed \in Installs /\ changed.status = "waiting" /\ changed.did = install.did
    BY <1>1 DEF InstallShapes, Installs, InstallStatus
  <2> HIDE DEF changed
  <2>4. install.did # "actsEarly" => NoneUnderWay /\ cache = {}
    BY <2>2 DEF ServiceInv, Sole
  <2>5. install.did \notin {"actsEarly", "pausesDone"}
            => installer.queued = 0 /\ installer.at \in {"idle", "stopped"}
    BY <1>1, <2>2 DEF ServiceInv, Phases, InstallShapes
  <2>6. QED BY <1>2, <2>1, <2>2, <2>3, <2>4, <2>5, EnqueueKeeps
<1>6. QED BY <1>3, <1>4, <1>5

-------------------------------------------------------------------------------
(* Workers, and what they call back.                                       *)

LEMMA WorkerIsStep ==
    ASSUME NEW w \in Workers, Worker(w)
    PROVE  WorkerStep(w)
<1>1. (parent(P(w)) \in cache /\ install.status = "cancelled") \in BOOLEAN
  OBVIOUS
<1>2. (EndsMulti(w) /\ Cancels(parent(P(w)))) \in BOOLEAN /\ (EndsMulti(w) /\ parent(P(w)) \in cache) \in BOOLEAN
  OBVIOUS
<1>3. QED BY <1>1, <1>2 DEF Worker, WorkerStep

\* A step of a worker that the install service does not hear of.
LEMMA UnheardKeeps ==
    ASSUME ServiceInv, NEW w \in Workers, WorkerStep(w), UNCHANGED installVars,
           \A m \in cache : in_terminal_state(multi'[m]) <=> in_terminal_state(multi[m])
    PROVE  ServiceInv'
<1>1. QueueInv /\ InstallShapes /\ Calls /\ Listens
  BY DEF ServiceInv
<1>2. QueueInv' /\ SameParts /\ service' = service
  BY <1>1, WorkerKeeps, WorkerTouches
<1>3. \A m \in Multis : Served(m)' => Served(m)
  BY <1>1, WorkerServes
<1>4. UNCHANGED <<install, cache, marker, installer, call, restoring>>
  BY DEF installVars
<1>5. InstallShapes' /\ Calls'
  BY <1>1, <1>4 DEF InstallShapes, Calls
<1>6. Heard' /\ CachedGoOn' /\ StopsLast' /\ WillBeTold' /\ QueuedOnce'
  <2>1. Heard'
    BY <1>1, <1>3, <1>4 DEF Listens, Heard
  <2>2. CachedGoOn'
    BY <1>1, <1>2, <1>4 DEF Listens, CachedGoOn, SameParts, InstallShapes
  <2>3. StopsLast' /\ WillBeTold'
    BY <1>1, <1>2, <1>4 DEF Listens, StopsLast, WillBeTold, fetching
  <2>4. QueuedOnce'
    BY <1>1, <1>2, <1>4 DEF Listens, QueuedOnce, Unheard, SameParts
  <2>5. QED BY <2>1, <2>2, <2>3, <2>4
<1>7. NoneUnderWay => NoneUnderWay' /\ disk' = disk
  BY <1>1, <1>3, NothingToDo DEF NoneUnderWay
<1>8. NoneUnderWay' /\ installer.at # "stopped" => NoneUnderWay
  <2> SUFFICES ASSUME NoneUnderWay', installer.at # "stopped", NEW m \in Multis, Served(m) PROVE FALSE
    BY DEF NoneUnderWay
  <2>1. m \in cache'
    BY <1>1, <1>4 DEF Listens, Heard
  <2>2. service' = "up"
    BY <1>4, <1>6 DEF StopsLast
  <2>3. MultiOK(m)'
    BY <1>2 DEF QueueInv
  <2>4. Served(m)'
    BY <1>6, <2>1, <2>2, <2>3 DEF MultiOK, GoesOn, CachedGoOn
  <2>5. QED BY <2>4 DEF NoneUnderWay
<1>9. install'.did # "actsEarly" => Sole'
  BY <1>3, <1>4, <1>7 DEF ServiceInv, Sole, fetching
<1>10. install'.did \notin {"actsEarly", "pausesDone"} => Phases'
  BY <1>4, <1>7, <1>8 DEF ServiceInv, Phases, fetching, over, idle
<1>11. CrashRecoverable'
  BY <1>4 DEF ServiceInv, CrashRecoverable
<1>12. QED BY <1>2, <1>5, <1>6, <1>9, <1>10, <1>11 DEF ServiceInv, Listens

\* The first part of a multi-file job that is heard starts.
LEMMA StartedKeeps ==
    ASSUME ServiceInv, NEW w \in Workers, Start(w), StartsMulti(w), parent(P(w)) \in cache,
           _download_started_callback(parent(P(w)))
    PROVE  ServiceInv'
<1>1. QueueInv /\ InstallShapes /\ Calls /\ Listens /\ WorkerStep(w) /\ work[w].at \in Holding
  BY DEF ServiceInv, WorkerStep, Start, Holding
<1>2. PICK m \in Multis : m = parent(P(w)) /\ m \in cache /\ Served(m)
  BY <1>1, HeldIsServed
<1>3. QueueInv' /\ SameParts /\ service' = service
  BY <1>1, WorkerKeeps, WorkerTouches
<1>4. \A n \in Multis : Served(n)' => Served(n)
  BY <1>1, WorkerServes
<1>5. multi'[m].status = "running" /\ \A n \in Multis : n # m => multi'[n] = multi[n]
  BY <1>1, <1>2, WorkerStatus DEF Becomes, StartsMulti
<1>6. /\ UNCHANGED <<cache, installer, call, restoring>> /\ marker' = "downloading"
      /\ install' = [install EXCEPT !.status = "downloading", !.shown = m]
  BY <1>2 DEF _download_started_callback
<1>7. /\ install' \in Installs /\ install'.status = "downloading" /\ install'.multi = install.multi
      /\ install'.did = install.did /\ install'.asked = install.asked
  BY <1>1, <1>6 DEF InstallShapes, Installs, InstallStatus
<1>8. InstallShapes' /\ Calls'
  BY <1>1, <1>6, <1>7 DEF InstallShapes, Calls
<1>9. install.did # "actsEarly" => m = install.multi /\ ~fetching /\ ~restoring /\ ~NoneUnderWay
  BY <1>2 DEF ServiceInv, Sole, NoneUnderWay
<1>10. Listens'
  <2>1. Heard'
    BY <1>1, <1>4, <1>6 DEF Listens, Heard
  <2>2. CachedGoOn'
    BY <1>1, <1>3, <1>5, <1>6 DEF Listens, CachedGoOn, SameParts, InstallShapes, in_terminal_state
  <2>3. StopsLast'
    BY <1>1, <1>3, <1>6 DEF Listens, StopsLast
  <2>4. WillBeTold'
    BY <1>2, <1>6, <1>7, <1>9 DEF WillBeTold
  <2>5. QueuedOnce'
    BY <1>1, <1>3, <1>6 DEF Listens, QueuedOnce, Unheard, SameParts
  <2>6. QED BY <2>1, <2>2, <2>3, <2>4, <2>5 DEF Listens
<1>11. install'.did # "actsEarly" => Sole'
  BY <1>4, <1>6, <1>7, <1>9 DEF ServiceInv, Sole, fetching
<1>12. install'.did \notin {"actsEarly", "pausesDone"} => Phases'
  BY <1>6, <1>7, <1>9 DEF ServiceInv, Phases, fetching, over
<1>13. CrashRecoverable'
  BY <1>6 DEF CrashRecoverable
<1>14. QED BY <1>3, <1>8, <1>10, <1>11, <1>12, <1>13 DEF ServiceInv

\* The last of a multi-file job that is heard, and what became of the install.
EndsHeard(w, m) ==
    /\ w \in Workers /\ WorkerStep(w) /\ work[w].at \in Holding
    /\ m = parent(P(w)) /\ m \in cache /\ in_terminal_state(multi'[m])
    /\ \A n \in Multis : n # m => multi'[n] = multi[n]
    /\ cache' = cache \ {m} /\ UNCHANGED <<call, restoring>>
    /\ install' \in Installs /\ install'.multi = install.multi /\ install'.did = install.did
    /\ install'.asked = install.asked

Queues(n) ==
    /\ installer' \in [at : {"idle", "marked", "moving", "finish", "stopped"}, queued : Nat]
    /\ installer'.at = installer.at /\ installer'.queued = installer.queued + n

LEMMA EndedIs ==
    ASSUME ServiceInv, NEW w, NEW m, EndsHeard(w, m)
    PROVE  /\ QueueInv' /\ m \in Multis /\ Served(m) /\ ~Served(m)'
           /\ service' = service /\ SameParts
           /\ \A n \in Multis : Served(n)' => Served(n)
           /\ install.did # "actsEarly" => Sole' /\ m = install.multi /\ ~NoneUnderWay /\ NoneUnderWay'
                                            /\ ~fetching /\ ~restoring /\ install.status # "none"
           /\ Unheard' = Unheard \cup {m} /\ Cardinality(Unheard') = Cardinality(Unheard) + 1
<1>1. QueueInv /\ InstallShapes /\ Listens /\ WorkerStep(w) /\ work[w].at \in Holding /\ w \in Workers
  BY DEF ServiceInv, EndsHeard
<1>2. m \in Multis /\ Served(m) /\ m \in cache
  BY <1>1, HeldIsServed DEF EndsHeard
<1>3. QueueInv' /\ SameParts /\ service' = service
  BY <1>1, WorkerKeeps, WorkerTouches
<1>4. \A n \in Multis : Served(n)' => Served(n)
  BY <1>1, WorkerServes
<1>5. ~Served(m)'
  <2>1. MultiOK(m)' /\ in_terminal_state(multi'[m])
    BY <1>2, <1>3 DEF QueueInv, EndsHeard
  <2>2. QED BY <2>1 DEF MultiOK, Served, Turn, QueuedOK, HeldOK, TurnOK
<1>6. /\ install.did # "actsEarly" => Sole' /\ m = install.multi /\ ~NoneUnderWay /\ NoneUnderWay'
                                       /\ ~fetching /\ ~restoring /\ install.status # "none"
  <2> SUFFICES ASSUME install.did # "actsEarly"
               PROVE  Sole' /\ m = install.multi /\ ~NoneUnderWay /\ NoneUnderWay'
                            /\ ~fetching /\ ~restoring /\ install.status # "none"
    OBVIOUS
  <2>1. Sole
    BY DEF ServiceInv
  <2>2. m = install.multi /\ ~NoneUnderWay /\ ~fetching /\ ~restoring /\ install.status # "none"
    BY <1>2, <2>1 DEF Sole, NoneUnderWay
  <2>3. NoneUnderWay'
    BY <1>4, <1>5, <2>1, <2>2 DEF Sole, NoneUnderWay
  <2>4. cache' = {}
    BY <2>1, <2>2 DEF Sole, EndsHeard
  <2>5. QED BY <2>2, <2>3, <2>4 DEF Sole, NoneUnderWay
<1>7. Unheard' = Unheard \cup {m} /\ m \notin Unheard
  <2>1. multi[m].parts # {}
    BY <1>1, <1>2 DEF Listens, CachedGoOn
  <2>2. QED BY <1>2, <1>3, <2>1 DEF Unheard, SameParts, EndsHeard
<1>8. IsFiniteSet(Unheard)
  BY DownloadAssumption, FS_Subset DEF DownloadAssumption, Unheard
<1>9. Cardinality(Unheard') = Cardinality(Unheard) + 1
  BY <1>7, <1>8, FS_AddElement
<1>10. QED BY <1>2, <1>3, <1>4, <1>5, <1>6, <1>7, <1>9

\* Once nobody waits to be told of it, the rest depends on the phase.
LEMMA EndedKeeps ==
    ASSUME ServiceInv, NEW w, NEW m, EndsHeard(w, m), NEW n \in {0, 1}, Queues(n),
           marker' \in {"none", "paused", "downloads_done", marker},
           install'.status \in {"downloads_done", "paused", "cancelled", "error"},
           CrashRecoverable',
           install.did \notin {"actsEarly", "pausesDone"} /\ Phases => Phases'
    PROVE  ServiceInv'
<1>1. QueueInv /\ InstallShapes /\ Calls /\ Listens
  BY DEF ServiceInv
<1>2. /\ QueueInv' /\ m \in Multis
      /\ service' = service /\ SameParts
      /\ \A k \in Multis : Served(k)' => Served(k)
      /\ ~Served(m)'
      /\ install.did # "actsEarly" => Sole'
      /\ Cardinality(Unheard') = Cardinality(Unheard) + 1
  BY EndedIs
<1>3. /\ cache' = cache \ {m} /\ UNCHANGED <<call, restoring>>
      /\ install' \in Installs /\ install'.did = install.did /\ install'.asked = install.asked
      /\ \A k \in Multis : k # m => multi'[k] = multi[k]
  BY DEF EndsHeard
<1>4. InstallShapes' /\ Calls'
  BY <1>1, <1>3 DEF InstallShapes, Calls, Queues
<1>5. Listens'
  <2>1. Heard'
    BY <1>1, <1>2, <1>3 DEF Listens, Heard, Queues
  <2>2. CachedGoOn'
    BY <1>1, <1>3 DEF Listens, CachedGoOn, InstallShapes
  <2>3. StopsLast'
    BY <1>1, <1>2 DEF Listens, StopsLast, Queues
  <2>4. WillBeTold'
    BY DEF WillBeTold
  <2>5. QueuedOnce'
    BY <1>1, <1>2, UnheardIsFinite DEF Listens, QueuedOnce, Queues, InstallShapes
  <2>6. QED BY <2>1, <2>2, <2>3, <2>4, <2>5 DEF Listens
<1>6. install'.did # "actsEarly" => Sole'
  BY <1>2, <1>3
<1>7. install'.did \notin {"actsEarly", "pausesDone"} => Phases'
  BY <1>3 DEF ServiceInv
<1>8. QED BY <1>2, <1>4, <1>5, <1>6, <1>7 DEF ServiceInv

LEMMA CompletedKeeps ==
    ASSUME ServiceInv, NEW w \in Workers, Complete(w), AllComplete(w), parent(P(w)) \in cache,
           _download_complete_callback(parent(P(w)))
    PROVE  ServiceInv'
<1>1. QueueInv /\ InstallShapes /\ WorkerStep(w) /\ work[w].at \in Holding
  BY DEF ServiceInv, WorkerStep, Complete, Holding
<1>2. PICK m \in Multis : m = parent(P(w)) /\ m \in cache
  BY <1>1, HeldIsServed
<1>3. multi'[m].status = "completed" /\ \A n \in Multis : n # m => multi'[n] = multi[n]
  BY <1>1, <1>2, WorkerStatus DEF Becomes
<1>4. /\ cache' = cache \ {m} /\ UNCHANGED <<call, restoring>> /\ marker' = "downloads_done"
      /\ install' = [install EXCEPT !.status = "downloads_done"]
      /\ installer' = [installer EXCEPT !.queued = @ + 1]
  BY <1>2 DEF _download_complete_callback
<1>5. /\ install' \in Installs /\ install'.status = "downloads_done" /\ install'.multi = install.multi
      /\ install'.did = install.did /\ install'.asked = install.asked
  BY <1>1, <1>4 DEF InstallShapes, Installs, InstallStatus
<1>6. EndsHeard(w, m)
  BY <1>1, <1>2, <1>3, <1>4, <1>5 DEF EndsHeard, in_terminal_state
<1>7. Queues(1)
  BY <1>1, <1>4 DEF Queues, InstallShapes
<1>8. CrashRecoverable'
  BY <1>4 DEF CrashRecoverable
<1>9. ASSUME install.did \notin {"actsEarly", "pausesDone"}, Phases PROVE Phases'
  <2>1. ~NoneUnderWay /\ NoneUnderWay' /\ ~fetching /\ ~restoring
    BY <1>6, <1>9, EndedIs
  <2>2. installer.queued = 0 /\ installer.at \in {"idle", "stopped"}
    BY <1>1, <1>9, <2>1 DEF Phases, InstallShapes
  <2>3. installer'.queued = 1 /\ installer'.at \in {"idle", "stopped"} /\ ~fetching' /\ ~restoring'
    BY <1>4, <1>7, <2>1, <2>2 DEF Queues, fetching
  <2>4. QED BY <1>5, <2>1, <2>3 DEF Phases, over, idle
<1>10. QED BY <1>4, <1>5, <1>6, <1>7, <1>8, <1>9, EndedKeeps

LEMMA FailedKeeps ==
    ASSUME ServiceInv, NEW w \in Workers, Error(w, TRUE), parent(P(w)) \in cache,
           _download_error_callback(parent(P(w)))
    PROVE  ServiceInv'
<1>1. QueueInv /\ InstallShapes /\ WorkerStep(w) /\ work[w].at \in Holding
  BY DEF ServiceInv, WorkerStep, Error, Holding
<1>2. PICK m \in Multis : m = parent(P(w)) /\ m \in cache
  BY <1>1, HeldIsServed
<1>3. multi'[m].status = "error" /\ \A n \in Multis : n # m => multi'[n] = multi[n]
  BY <1>1, <1>2, WorkerStatus DEF Becomes
<1>4. /\ cache' = cache \ {m} /\ UNCHANGED <<installer, call, restoring>> /\ marker' = "none"
      /\ install' = [install EXCEPT !.status = "error"] /\ disk' = Wiped
  BY <1>2 DEF _download_error_callback, Error
<1>5. /\ install' \in Installs /\ install'.status = "error" /\ install'.multi = install.multi
      /\ install'.did = install.did /\ install'.asked = install.asked
  BY <1>1, <1>4 DEF InstallShapes, Installs, InstallStatus
<1>6. EndsHeard(w, m)
  BY <1>1, <1>2, <1>3, <1>4, <1>5 DEF EndsHeard, in_terminal_state
<1>7. Queues(0)
  BY <1>1, <1>4 DEF Queues, InstallShapes
<1>8. CrashRecoverable'
  BY <1>5 DEF CrashRecoverable
<1>9. ASSUME install.did \notin {"actsEarly", "pausesDone"}, Phases PROVE Phases'
  <2>1. ~NoneUnderWay /\ NoneUnderWay' /\ ~fetching /\ ~restoring
    BY <1>6, <1>9, EndedIs
  <2>2. installer.queued = 0 /\ installer.at \in {"idle", "stopped"}
    BY <1>1, <1>9, <2>1 DEF Phases, InstallShapes
  <2>3. installer'.queued = 0 /\ installer'.at \in {"idle", "stopped"} /\ ~fetching' /\ ~restoring'
    BY <1>4, <2>1, <2>2 DEF fetching
  <2>4. QED BY <1>4, <1>5, <2>1, <2>3 DEF Phases, over, idle
<1>10. QED BY <1>4, <1>5, <1>6, <1>7, <1>8, <1>9, EndedKeeps

LEMMA CancelledKeeps ==
    ASSUME ServiceInv, NEW w \in Workers, parent(P(w)) \in cache, Parent(w, Cancels(parent(P(w)))),
           _download_cancelled_callback(parent(P(w)))
    PROVE  ServiceInv'
<1>1. QueueInv /\ InstallShapes /\ work[w].at \in Holding
  BY DEF ServiceInv, Parent, Holding
<1>2. PICK m \in Multis : m = parent(P(w)) /\ m \in cache
  BY <1>1, HeldIsServed
<1>3. PICK wipes \in BOOLEAN : wipes = Cancels(m) /\ Parent(w, wipes)
  BY <1>2 DEF Cancels
<1>4. WorkerStep(w)
  BY <1>3 DEF WorkerStep
<1>5. multi'[m].status = job[P(w)].status /\ \A n \in Multis : n # m => multi'[n] = multi[n]
  BY <1>1, <1>2, <1>3, WorkerStatus DEF Becomes
<1>6. job[P(w)].status \in {"paused", "cancelled"}
  <2>1. work[w].at = "parent"
    BY <1>3 DEF Parent
  <2>2. QED BY <1>1, <2>1, HeldPart, Alone DEF HeldOK, StatusAt
<1>7. /\ cache' = cache \ {m} /\ UNCHANGED <<installer, call, restoring>>
      /\ \/ install' = [install EXCEPT !.status = "cancelled"] /\ marker' = "none" /\ disk' = Wiped
         \/ install' = [install EXCEPT !.status = "paused"] /\ marker' = "paused"
         \/ install' = install /\ marker' = marker /\ install.status \in {"error", "paused"}
  <2>1. CASE Cancels(m)
    BY <1>2, <1>3, <2>1 DEF _download_cancelled_callback, Parent
  <2>2. CASE ~Cancels(m) /\ RefusedToResume(m)
    BY <1>2, <2>2 DEF _download_cancelled_callback
  <2>3. CASE ~Cancels(m) /\ ~RefusedToResume(m)
    BY <1>2, <2>3 DEF _download_cancelled_callback, Cancels
  <2>4. QED BY <2>1, <2>2, <2>3
<1>8. /\ install' \in Installs /\ install'.multi = install.multi
      /\ install'.did = install.did /\ install'.asked = install.asked
      /\ \/ install'.status = "cancelled" /\ marker' = "none" /\ disk' = Wiped
         \/ install'.status = "paused" /\ marker' = "paused"
         \/ install' = install /\ marker' = marker /\ install.status \in {"error", "paused"}
  BY <1>1, <1>7 DEF InstallShapes, Installs, InstallStatus
<1>9. EndsHeard(w, m)
  BY <1>1, <1>2, <1>4, <1>5, <1>6, <1>7, <1>8 DEF EndsHeard, in_terminal_state
<1>10. Queues(0)
  BY <1>1, <1>7 DEF Queues, InstallShapes
<1>11. CrashRecoverable'
  BY <1>7, <1>8 DEF ServiceInv, CrashRecoverable
<1>12. ASSUME install.did \notin {"actsEarly", "pausesDone"}, Phases PROVE Phases'
  <2>1. ~NoneUnderWay /\ NoneUnderWay' /\ ~fetching /\ ~restoring
    BY <1>9, <1>12, EndedIs
  <2>2. installer.queued = 0 /\ installer.at \in {"idle", "stopped"} /\ install.status # "error"
    BY <1>1, <1>12, <2>1 DEF Phases, InstallShapes
  <2>3. installer'.queued = 0 /\ installer'.at \in {"idle", "stopped"} /\ ~fetching' /\ ~restoring'
    BY <1>7, <2>1, <2>2 DEF fetching
  <2>4. QED BY <1>8, <2>1, <2>2, <2>3 DEF Phases, over, idle
<1>13. QED BY <1>8, <1>9, <1>10, <1>11, <1>12, EndedKeeps

\* A worker's step, with the callback that it makes.
LEMMA WorkersKeepService ==
    ASSUME ServiceInv, NEW w \in Workers, Worker(w)
    PROVE  ServiceInv'
<1> DEFINE m == parent(P(w))
<1>1. QueueInv /\ WorkerStep(w) /\ InstallShapes
  BY WorkerIsStep DEF ServiceInv
<1>2. CASE Step(w) /\ UNCHANGED installVars
  <2>1. \A n \in Multis : multi'[n].status = multi[n].status
    BY <1>1, <1>2, StepStatus
  <2>2. QED BY <1>1, <1>2, <2>1, UnheardKeeps DEF in_terminal_state, InstallShapes
<1>3. ASSUME work[w].at \in Holding, UNCHANGED installVars, NEW status,
             Becomes(m, status),
             m \in cache => (status = multi[m].status \/ (status = "running" /\ multi[m].status = "waiting"))
      PROVE  ServiceInv'
  <2>1. \A n \in cache : in_terminal_state(multi'[n]) <=> in_terminal_state(multi[n])
    BY <1>1, <1>3 DEF Becomes, in_terminal_state, InstallShapes
  <2>2. QED BY <1>1, <1>3, <2>1, UnheardKeeps
<1>4. ASSUME work[w].at \in Holding PROVE m \in Multis /\ EndsMulti(w)
  BY <1>1, <1>4, HeldIsServed
<1>5. CASE Start(w) /\ IF StartsMulti(w) THEN _download_started_callback(m) ELSE UNCHANGED installVars
  <2>1. work[w].at \in Holding
    BY <1>5 DEF Start, Holding
  <2>2. Becomes(m, IF multi[m].status = "waiting" THEN "running" ELSE multi[m].status)
    BY <1>1, <1>4, <1>5, <2>1, WorkerStatus
  <2>3. CASE StartsMulti(w) /\ m \in cache
    BY <1>5, <2>3, StartedKeeps
  <2>4. CASE ~(StartsMulti(w) /\ m \in cache)
    <3>1. UNCHANGED installVars
      BY <1>5, <2>4 DEF _download_started_callback
    <3>2. QED BY <1>3, <2>1, <2>2, <3>1
  <2>5. QED BY <2>3, <2>4
<1>6. CASE Progress(w, m \in cache /\ install.status = "cancelled") /\ UNCHANGED installVars
  <2>1. work[w].at \in Holding
    BY <1>6 DEF Progress, Holding
  <2>2. \E stops \in BOOLEAN : Progress(w, stops)
    BY <1>6
  <2>3. Becomes(m, multi[m].status)
    BY <1>1, <1>4, <2>1, <2>2, WorkerStatus
  <2>4. QED BY <1>3, <1>6, <2>1, <2>3
<1>7. CASE Complete(w) /\ IF AllComplete(w) THEN _download_complete_callback(m) ELSE UNCHANGED installVars
  <2>1. work[w].at \in Holding
    BY <1>7 DEF Complete, Holding
  <2>2. Becomes(m, IF AllComplete(w) THEN "completed" ELSE multi[m].status)
    BY <1>1, <1>4, <1>7, <2>1, WorkerStatus
  <2>3. CASE AllComplete(w) /\ m \in cache
    BY <1>7, <2>3, CompletedKeeps
  <2>4. CASE ~(AllComplete(w) /\ m \in cache)
    <3>1. UNCHANGED installVars
      BY <1>7, <2>4 DEF _download_complete_callback
    <3>2. QED BY <1>3, <2>1, <2>2, <2>4, <3>1
  <2>5. QED BY <2>3, <2>4
<1>8. CASE /\ Parent(w, EndsMulti(w) /\ Cancels(m))
           /\ IF EndsMulti(w) THEN _download_cancelled_callback(m) ELSE UNCHANGED installVars
  <2>1. work[w].at \in Holding
    BY <1>8 DEF Parent, Holding
  <2>2. _download_cancelled_callback(m)
    BY <1>4, <1>8, <2>1
  <2>3. \E wipes \in BOOLEAN : Parent(w, wipes)
    BY <1>8
  <2>4. Becomes(m, job[P(w)].status)
    BY <1>1, <1>4, <2>1, <2>3, WorkerStatus
  <2>5. CASE m \in cache
    <3>1. Parent(w, Cancels(m))
      <4>1. EndsMulti(w) = TRUE
        BY <1>4, <2>1 DEF EndsMulti, in_terminal_state
      <4>2. (EndsMulti(w) /\ Cancels(m)) = Cancels(m)
        BY <4>1 DEF Cancels
      <4>3. QED BY <1>8, <4>2
    <3>2. QED BY <2>2, <2>5, <3>1, CancelledKeeps
  <2>6. CASE m \notin cache
    <3>1. cache' = cache
      BY <1>1, <2>2, <2>6 DEF _download_cancelled_callback, InstallShapes
    <3>2. UNCHANGED installVars
      BY <2>2, <2>6, <3>1 DEF _download_cancelled_callback, Cancels, installVars
    <3>3. QED BY <1>3, <2>1, <2>4, <2>6, <3>2
  <2>7. QED BY <2>5, <2>6
<1>9. CASE /\ Error(w, EndsMulti(w) /\ m \in cache)
           /\ IF EndsMulti(w) THEN _download_error_callback(m) ELSE UNCHANGED installVars
  <2>1. work[w].at \in Holding
    BY <1>9 DEF Error, Holding
  <2>2. _download_error_callback(m)
    BY <1>4, <1>9, <2>1
  <2>3. \E wipes \in BOOLEAN : Error(w, wipes)
    BY <1>9
  <2>4. Becomes(m, "error")
    BY <1>1, <1>4, <2>1, <2>3, WorkerStatus
  <2>5. CASE m \in cache
    <3>1. (EndsMulti(w) /\ m \in cache) = TRUE
      BY <1>4, <2>1, <2>5
    <3>2. Error(w, TRUE)
      BY <1>9, <3>1
    <3>3. QED BY <2>2, <2>5, <3>2, FailedKeeps
  <2>6. CASE m \notin cache
    <3>1. UNCHANGED installVars
      BY <2>2, <2>6 DEF _download_error_callback
    <3>2. QED BY <1>3, <2>1, <2>4, <2>6, <3>1
  <2>7. QED BY <2>5, <2>6
<1> HIDE DEF m
<1>10. \/ Step(w) /\ UNCHANGED installVars
       \/ Start(w) /\ IF StartsMulti(w) THEN _download_started_callback(m) ELSE UNCHANGED installVars
       \/ Progress(w, m \in cache /\ install.status = "cancelled") /\ UNCHANGED installVars
       \/ Complete(w) /\ IF AllComplete(w) THEN _download_complete_callback(m) ELSE UNCHANGED installVars
       \/ /\ Parent(w, EndsMulti(w) /\ Cancels(m))
          /\ IF EndsMulti(w) THEN _download_cancelled_callback(m) ELSE UNCHANGED installVars
       \/ /\ Error(w, EndsMulti(w) /\ m \in cache)
          /\ IF EndsMulti(w) THEN _download_error_callback(m) ELSE UNCHANGED installVars
  BY DEF Worker, m
<1>11. QED BY <1>2, <1>5, <1>6, <1>7, <1>8, <1>9, <1>10

-------------------------------------------------------------------------------
(* What holds in every state.                                              *)

LEMMA UnchangedKeeps ==
    ServiceInv /\ UNCHANGED vars => ServiceInv'
<1> SUFFICES ASSUME ServiceInv, UNCHANGED vars PROVE ServiceInv'
  OBVIOUS
<1>1. /\ UNCHANGED <<job, multi, queue, work, disk, service>>
      /\ UNCHANGED <<install, cache, marker, installer, call, restoring>>
  BY DEF vars, downloadVars, installVars
<1>2. QueueInv /\ InstallShapes /\ Calls /\ Listens /\ Shapes
  BY DEF ServiceInv, QueueInv
<1>3. QueueInv'
  <2>1. Shapes' /\ StandStill /\ JobsAsked /\ MultisAsked
    BY <1>1, <1>2 DEF Shapes, StandStill, JobsAsked, MultisAsked
  <2>2. QED BY <1>1, <1>2, <2>1, AskingKeeps
<1>4. InstallShapes' /\ Calls'
  BY <1>1, <1>2 DEF InstallShapes, Calls
<1>5. \A m \in Multis : Served(m)' <=> Served(m)
  BY <1>1 DEF Served, Turn, At, P
<1>6. Listens'
  BY <1>1, <1>2, <1>5 DEF Listens, Heard, CachedGoOn, StopsLast, WillBeTold, QueuedOnce, Unheard, fetching
<1>7. install'.did # "actsEarly" => Sole'
  BY <1>1, <1>5 DEF ServiceInv, Sole, NoneUnderWay, fetching
<1>8. install'.did \notin {"actsEarly", "pausesDone"} => Phases'
  BY <1>1, <1>5 DEF ServiceInv, Phases, NoneUnderWay, fetching, over, idle
<1>9. CrashRecoverable'
  BY <1>1 DEF ServiceInv, CrashRecoverable
<1>10. QED BY <1>3, <1>4, <1>6, <1>7, <1>8, <1>9 DEF ServiceInv

\* What the callbacks, the threads and the requests of an install rely on of each other
\* holds in every state, for any number of files, chunks, workers and downloads.
THEOREM ServiceHolds == Spec => []ServiceInv
<1>1. Init => ServiceInv
  BY InitIsFine
<1>2. ServiceInv /\ [Next]_vars => ServiceInv'
  <2> SUFFICES ASSUME ServiceInv, [Next]_vars PROVE ServiceInv'
    OBVIOUS
  <2>1. CASE Requests
    BY <2>1, BeginKeeps, PauseKeeps, ResumeKeeps, FetchFailsKeeps, CancelKeeps DEF Requests
  <2>2. CASE \E w \in Workers : Worker(w)
    BY <2>2, WorkersKeepService
  <2>3. CASE InstallThread
    BY <2>3, InstallThreadKeeps
  <2>4. CASE InstallStops \/ Stops
    BY <2>4, InstallStopsKeeps, StopsKeeps
  <2>5. CASE Restart \/ Restored \/ RestoreFails
    BY <2>5, RestartKeeps, BeginKeeps, RestoreFailsKeeps
  <2>6. CASE UNCHANGED vars
    BY <2>6, UnchangedKeeps
  <2>7. QED BY <2>1, <2>2, <2>3, <2>4, <2>5, <2>6 DEF Next
<1>3. QED BY <1>1, <1>2, PTL DEF Spec

\* A multi-file job that is heard is not over: there is something of it under way while
\* the service is up.
LEMMA WaitingIsKept ==
    ServiceInv => WaitingIsServed
<1> SUFFICES ASSUME ServiceInv, install.status \in {"waiting", "downloading"}, service = "up",
                    ~restoring, ~install.stuck, ~fetching
             PROVE  \E m \in cache : underWay(m) # {} /\ (m = install.multi \/ install.did = "actsEarly")
  BY DEF WaitingIsServed, fetching
<1>1. PICK m \in cache : m = install.multi \/ install.did = "actsEarly"
  BY DEF ServiceInv, Listens, WillBeTold
<1>2. m \in Multis /\ ~in_terminal_state(multi[m]) /\ multi[m].parts # {}
  BY DEF ServiceInv, InstallShapes, Listens, CachedGoOn
<1>3. underWay(m) # {}
  BY <1>2, ServedIs, ServedIsUnderWay DEF ServiceInv
<1>4. QED BY <1>1, <1>3

\* One part at a time is fetched, an install that waits is told how its download ended, the
\* next process has the marker that it needs, unless this one ends between the marker's
\* removal and the end of the install, and an install that ended leaves nothing.
THEOREM InstallCorrect == Spec => []InstallInv
<1>1. ServiceInv => InstallInv
  <2> SUFFICES ASSUME ServiceInv PROVE InstallInv
    OBVIOUS
  <2>1. OneAtATime
    BY QueueServesOneAtATime DEF ServiceInv
  <2>2. WaitingIsServed /\ CrashRecoverable
    BY WaitingIsKept DEF ServiceInv
  <2>3. NothingLeft
    <3> SUFFICES ASSUME over, install.did \notin {"actsEarly", "pausesDone"}, Quiet, call = NoCall,
                        installer = [at |-> "idle", queued |-> 0]
                 PROVE  disk = Wiped /\ marker \in {"none", "paused"}
      BY DEF NothingLeft
    <3>1. NoneUnderWay /\ call.kind # "cancelling" /\ idle
      BY QuietIsDone DEF ServiceInv, NoCall, idle
    <3>2. QED BY <3>1 DEF ServiceInv, Phases
  <2>4. QED BY <2>1, <2>2, <2>3 DEF InstallInv
<1>2. QED BY <1>1, ServiceHolds, PTL

-------------------------------------------------------------------------------
(* Types, and the bounds of what workers fetch and write.                  *)

KeptIn == install.did # "actsEarly" => Bounded

\* The multi-file job that is under way is the only one, and a part of it is.
LEMMA SoleIsLone ==
    QueueInv /\ Sole => Lone
<1> SUFFICES ASSUME QueueInv, Sole, NEW v \in Workers, NEW w \in Workers,
                    work[v].at \in Holding, work[w].at \in Holding
             PROVE  v = w
  BY DEF Lone
<1>1. PICK m \in Multis, f \in Files : At(v, m, f)
  BY HeldPart
<1>2. PICK n \in Multis, g \in Files : At(w, n, g)
  BY HeldPart
<1>3. m = n
  BY <1>1, <1>2 DEF Sole, Served, Turn
<1>4. QED BY <1>1, <1>2, <1>3 DEF QueueInv, MultiOK, OneTurn

\* Files are removed, or stay as long as they are.
LEMMA AskedFits ==
    ASSUME ServiceInv, Bounded, AsksOnly \/ Stops \/ import_model \/ Fetched \/ Restored
    PROVE  Bounded'
<1>1. Shapes /\ QueueInv /\ InstallShapes
  BY DEF ServiceInv, QueueInv
<1>2. \A w \in Workers : work[w].at \in Holding => file(P(w)) \in Files
  BY <1>1, HeldPart
<1>3. PICK files \in SUBSET Files :
         /\ work' = work \/ work' = unlinked(work, files)
         /\ \/ disk' = disk \/ disk' = Wiped
            \/ disk' = [f \in Files |-> [disk[f] EXCEPT !.done = <<>>]]
            \/ disk' = [f \in Files |-> IF f \in files THEN Wiped[f] ELSE disk[f]]
  <2>1. CASE AsksOnly \/ Stops
    <3>1. /\ UNCHANGED work \/ _safe_rmtree
          /\ UNCHANGED disk \/ _safe_rmtree \/ disk' = [f \in Files |-> [disk[f] EXCEPT !.done = <<>>]]
      BY <2>1 DEF AsksOnly, PauseBegins, Pauses, PauseEnds, resume_job, restart_failed, restart_file,
                  Fetches, FetchFails, CancelBegins, CancelEnds, cancel_all_jobs, InstallThread,
                  InstallTakes, InstallUnmarks, InstallMoves, InstallFails, InstallFinishes,
                  InstallStops, RestoreFails, Stops, StopBegins, StopReturns, downloadVars
    <3>2. QED BY <3>1 DEF _safe_rmtree
  <2>2. CASE import_model
    BY <2>2 DEF import_model, enqueue
  <2>3. CASE Fetched
    <3>1. call \in Fetchings
      BY <1>1, <2>3 DEF Fetched, InstallShapes, NoCall
    <3>2. call.files \in SUBSET Files
      BY <3>1 DEF Fetchings
    <3>3. QED BY <2>3, <3>2 DEF Fetched, enqueue
  <2>4. CASE Restored
    BY <2>4 DEF Restored, enqueue
  <2>5. QED BY <2>1, <2>2, <2>3, <2>4
<1>4. \A g \in Files : Length(g)' \in {Length(g), 0}
  <2> SUFFICES ASSUME NEW g \in Files PROVE Length(g)' \in {Length(g), 0}
    OBVIOUS
  <2>1. disk'[g].partial \in {disk[g].partial, <<>>}
    BY <1>1, <1>3 DEF Wiped, Shapes
  <2>2. Len(<<>>) = 0
    OBVIOUS
  <2>3. QED BY <2>1, <2>2 DEF Length
<1>5. QED BY <1>1, <1>2, <1>3, <1>4, ShorterFits

\* A behaviour departs from the plain case in one way at most.
LEMMA DidStays ==
    InstallShapes /\ Next => install'.did = install.did \/ install.did = "nothing"
<1> SUFFICES ASSUME InstallShapes, Next, install.did # "nothing" PROVE install'.did = install.did
  OBVIOUS
<1>1. install \in Installs /\ \A way \in Ways : departed(way) \in Installs /\ departed(way).did = way
  BY DEF InstallShapes, Installs, departed
<1>2. \A way \in Ways : Departs(way) => way = install.did
  BY DEF Departs
<1>3. ASSUME NEW plain \in BOOLEAN, NEW way \in Ways, Unless(plain, way)
      PROVE  after(plain, way) \in Installs /\ after(plain, way).did = install.did
  BY <1>1, <1>2, <1>3 DEF after, Unless
<1>4. CASE import_model
  BY <1>1, <1>4 DEF import_model, enqueue, NoInstall, Installs
<1>5. CASE PauseBegins \/ PauseEnds
  BY <1>1, <1>2, <1>5 DEF PauseBegins, PauseEnds, Pauses, Ways, Installs
<1>6. CASE resume_job
  <2>1. Quiet \in BOOLEAN
    BY DEF Quiet
  <2>2. after(Quiet, "actsEarly") \in Installs /\ after(Quiet, "actsEarly").did = install.did
    BY <1>3, <1>6, <2>1 DEF resume_job, Ways
  <2>3. QED BY <1>6, <2>2 DEF resume_job, Fetches, Installs
<1>7. CASE restart_failed \/ restart_file
  <2>1. PICK way \in {"actsEarly", "restartsFailed", "restartsFile"} :
           Departs(way) /\ install' = [departed(way) EXCEPT !.status = "waiting"]
    BY <1>7 DEF restart_failed, restart_file, Fetches, early
  <2>2. way = install.did
    BY <1>2, <2>1 DEF Ways
  <2>3. QED BY <1>1, <2>1, <2>2 DEF Ways, Installs
<1>8. CASE FetchFails \/ Fetched \/ cancel_all_jobs
  BY <1>1, <1>8 DEF FetchFails, Fetched, cancel_all_jobs, enqueue, Installs
<1>9. CASE CancelBegins
  <2>1. WillNotice \in BOOLEAN
    BY DEF WillNotice
  <2>2. after(WillNotice, "cancelsLate") \in Installs /\ after(WillNotice, "cancelsLate").did = install.did
    BY <1>3, <1>9, <2>1 DEF CancelBegins, Ways
  <2>3. QED BY <1>9, <2>2 DEF CancelBegins, Installs
<1>10. CASE CancelEnds
  BY <1>10 DEF CancelEnds
<1>11. ASSUME NEW w \in Workers, Worker(w) PROVE install'.did = install.did
  <2>1. \/ install' = install
        \/ \E m \in Multis : install' = [install EXCEPT !.status = "downloading", !.shown = m]
        \/ \E status \in InstallStatus : install' = [install EXCEPT !.status = status]
    BY <1>11 DEF Worker, installVars, InstallShapes, InstallStatus, _download_started_callback,
                _download_complete_callback, _download_error_callback, _download_cancelled_callback
  <2>2. QED BY <1>1, <2>1 DEF Installs
<1>12. CASE InstallThread \/ RestoreFails \/ Restored
  BY <1>1, <1>12 DEF InstallThread, InstallTakes, InstallUnmarks, InstallMoves, InstallFails,
                     InstallFinishes, RestoreFails, Restored, enqueue, Installs
<1>13. CASE InstallStops
  <2>1. Departs("stops") /\ departed("stops") \in Installs /\ departed("stops").did = install.did
    BY <1>1, <1>2, <1>13 DEF InstallStops, Ways
  <2>2. QED BY <1>13, <2>1 DEF InstallStops, Installs
<1>14. CASE Restart
  <2>1. NoneLose \in BOOLEAN /\ kills \in Ways
    BY DEF NoneLose, NoneRenames, kills, Ways
  <2>2. after(NoneLose, kills).did = install.did
    BY <1>3, <1>14, <2>1 DEF Restart
  <2>3. QED BY <1>14, <2>2 DEF Restart, NoInstall
<1>15. CASE Stops
  BY <1>15 DEF Stops, installVars
<1>16. QED BY <1>4, <1>5, <1>6, <1>7, <1>8, <1>9, <1>10, <1>11, <1>12, <1>13, <1>14, <1>15 DEF Next, Requests

LEMMA KeptInHolds ==
    ServiceInv /\ KeptIn /\ [Next]_vars => KeptIn'
<1> SUFFICES ASSUME ServiceInv, KeptIn, [Next]_vars, install'.did # "actsEarly" PROVE Bounded'
  BY DEF KeptIn
<1>1. CASE UNCHANGED vars
  <2>1. UNCHANGED <<disk, work, install>>
    BY <1>1 DEF vars, downloadVars, installVars
  <2>2. QED BY <2>1 DEF KeptIn, Bounded, LengthsOK, WriterOK, Length, P
<1>2. CASE Next
  <2>1. Bounded /\ QueueInv /\ Sole
    BY <1>2, DidStays DEF KeptIn, ServiceInv
  <2>2. ASSUME NEW w \in Workers, Worker(w) PROVE Bounded'
    <3>1. WorkerStep(w)
      BY <2>2, WorkerIsStep DEF ServiceInv
    <3>2. QED BY <2>1, <3>1, SoleIsLone, WorkerStaysBounded
  <2>3. CASE Restart
    <3>1. Shapes /\ Size \in Nat \ {0}
      BY DownloadAssumption DEF ServiceInv, QueueInv, DownloadAssumption
    <3>2. work' = [w \in Workers |-> AtTop] /\ (disk' = disk \/ disk' = Wiped)
      BY <2>3 DEF Restart
    <3>3. Len(<<>>) = 0
      OBVIOUS
    <3>4. LengthsOK'
      BY <2>1, <3>1, <3>2, <3>3 DEF LengthsOK, Length, Bounded, Wiped
    <3>5. \A w \in Workers : work'[w].at = "top" /\ work'[w].next = 0
      BY <3>2 DEF AtTop
    <3>6. \A w \in Workers : WriterOK(w)'
      BY <3>1, <3>5 DEF WriterOK, Holding
    <3>7. QED BY <3>4, <3>6 DEF Bounded
  <2>4. CASE AsksOnly \/ Stops \/ import_model \/ Fetched \/ Restored
    BY <2>1, <2>4, AskedFits
  <2>5. QED BY <1>2, <2>2, <2>3, <2>4 DEF Next, Requests, AsksOnly
<1>3. QED BY <1>1, <1>2

\* The types of the state, the length of every file, and how often the install is queued:
\* at most once for each of its downloads, and once by the process's start.
THEOREM TypesHold == Spec => []TypeOK
<1>1. Init => KeptIn
  <2> SUFFICES ASSUME Init PROVE Bounded
    BY DEF KeptIn
  <2>1. /\ work = [w \in Workers |-> AtTop] /\ disk = Wiped /\ Size \in Nat \ {0}
    BY DownloadAssumption DEF Init, DownloadInit, Wiped, DownloadAssumption
  <2>2. Len(<<>>) = 0
    OBVIOUS
  <2>3. LengthsOK
    BY <2>1, <2>2 DEF LengthsOK, Length, Wiped
  <2>4. \A w \in Workers : work[w].at = "top" /\ work[w].next = 0
    BY <2>1 DEF AtTop
  <2>5. \A w \in Workers : WriterOK(w)
    BY <2>1, <2>4 DEF WriterOK, Holding
  <2>6. QED BY <2>3, <2>5 DEF Bounded
<1>2. ServiceInv /\ KeptIn => TypeOK
  <2> SUFFICES ASSUME ServiceInv, KeptIn PROVE TypeOK
    OBVIOUS
  <2>1. Shapes /\ QueueInv /\ InstallShapes
    BY DEF ServiceInv, QueueInv
  <2>2. DownloadTypeOK
    <3>1. \A p \in Parts : job[p].status \in JobStatus
      BY <2>1 DEF Shapes, Jobs
    <3>2. ASSUME NEW m \in Multis
          PROVE  /\ multi[m].pending \subseteq multi[m].parts /\ multi[m].parts \subseteq Files
                 /\ multi[m].active \in Files \cup {0}
      <4>1. multi[m] \in MultiJobs
        BY <2>1 DEF Shapes
      <4>2. multi[m].pending \subseteq multi[m].parts
        BY <2>1 DEF QueueInv, MultiOK, PartsOK
      <4>3. QED BY <4>1, <4>2 DEF MultiJobs
    <3>3. queue \subseteq Parts /\ \A w \in Workers : P(w) \in Parts \cup {None} /\ work[w].next \in Nat
      BY <2>1 DEF Shapes, Places, P
    <3>4. QED BY <3>1, <3>2, <3>3 DEF DownloadTypeOK, JobStatus
  <2>3. /\ install.status \in InstallStatus /\ cache \subseteq Multis
        /\ install.multi \in Multis \cup {0} /\ install.shown \in Multis \cup {0}
    BY <2>1 DEF InstallShapes, Installs
  <2>4. install.did # "actsEarly" => \A w \in Workers : work[w].next <= Size + 1
    BY DEF KeptIn, Bounded, WriterOK
  <2>5. installer.queued \in 0 .. Cardinality(Multis) + 1
    <3>1. IsFiniteSet(Multis) /\ Unheard \in SUBSET Multis
      BY DownloadAssumption DEF DownloadAssumption, Unheard
    <3>2. Cardinality(Unheard) \in Nat /\ Cardinality(Multis) \in Nat /\ Cardinality(Unheard) <= Cardinality(Multis)
      BY <3>1, FS_Subset, FS_CardinalityType
    <3>3. installer.queued \in Nat /\ installer.queued <= 1 + Cardinality(Unheard)
      BY <2>1 DEF InstallShapes, ServiceInv, Listens, QueuedOnce
    <3>4. QED BY <3>2, <3>3
  <2>6. QED BY <2>2, <2>3, <2>4, <2>5 DEF TypeOK, InstallStatus
<1>3. QED BY <1>1, <1>2, KeptInHolds, ServiceHolds, PTL DEF Spec

-------------------------------------------------------------------------------
(* What the files hold, unless somebody departs from the plain case in a   *)
(* way that it does not survive.                                           *)

Plain == install.did \in {"nothing", "pausesWaiting", "killsInInstall", "stops"}

\* The chunks of a file, from its first.
Counts(chunks) == \A i \in 1 .. Len(chunks) : chunks[i] = i

\* Only a file that is about to be renamed has all of them.
FileOK(f) ==
    /\ disk[f].done \in {<<>>, Whole} /\ Counts(disk[f].partial)
    /\ Length(f) = Size => \E w \in Workers : work[w].at = "rename" /\ file(P(w)) = f

\* What the file of a worker has at a place; closed is whether the multi-file job is canceled.
Writes(at, next, open, buffer, length, done, closed) ==
    /\ at \in {"answer", "start"} => length = next - 1
    /\ at \in {"startComplete", "complete"} => done = Whole
    /\ at \in {"load", "progress"} /\ ~open => closed /\ length = 0
    /\ at \in {"load", "progress"} /\ open /\ buffer = 0 => at = "load" /\ length = next - 1 /\ next <= Size
    /\ at \in {"load", "progress"} /\ open /\ buffer # 0 => length = next - 2 /\ buffer = next - 1
    /\ at = "rename" => length = Size

\* WillLook of a worker at a place; asked is whether its part is canceled.
Looks(at, next, length, done, asked) ==
    \/ at \in {"begin", "answer", "start"} /\ Size > 1 /\ length = 0 /\ done = <<>>
    \/ at = "load" /\ next < Size
    \/ at = "load" /\ next = Size /\ asked
    \/ at = "progress" /\ next <= Size
    \/ at \in {"raise", "parent", "error"}

InHand(at, next, open, buffer, length, done, closed, asked) ==
    /\ Writes(at, next, open, buffer, length, done, closed)
    /\ closed => Looks(at, next, length, done, asked)

HandOK(w) ==
    work[w].at \in Holding =>
        InHand(work[w].at, work[w].next, work[w].open, work[w].buffer, Length(file(P(w))),
               disk[file(P(w))].done, multi[parent(P(w))].cancelled, job[P(w)].cancelled)

\* The files of the parts that are completed are whole, until the multi-file job is canceled.
DoneOK(m) ==
    Served(m) /\ ~multi[m].cancelled
        => \A f \in multi[m].parts : job[<<m, f>>].status = "completed" => disk[f].done = Whole

Content ==
    /\ \A f \in Files : FileOK(f)
    /\ \A w \in Workers : HandOK(w)
    /\ \A p \in queue : multi[parent(p)].cancelled => Fresh(file(p))
    /\ \A m \in Multis : DoneOK(m)

AllWhole == \A f \in Files : disk[f].done = Whole
NoneDone == \A f \in Files : disk[f].done = <<>>

\* The install thread has it, or will.
Installing == installer.queued = 1 \/ installer.at \in {"marked", "moving"}

\* Downloads are of all files.  Those that are there are removed only from under a
\* multi-file job that is canceled, or one that is over and canceled with the install.
Kept ==
    /\ fetching => call.files = Files /\ ~call.clears
    /\ install.multi # 0 => multi[install.multi].parts = Files
    /\ call.kind = "cancelling" \/ install.status = "cancelled"
           => \A m \in Multis : Served(m) => multi[m].cancelled
    /\ Installing => AllWhole \/ (install.status = "cancelled" /\ NoneDone)
    /\ Installing /\ call.kind = "cancelling" => install.status = "cancelled"
    /\ marker \in {"downloads_done", "running"}
           => /\ NoneUnderWay /\ AllWhole /\ ~restoring /\ ~fetching
              /\ installer.queued = 1 \/ installer.at \in {"marked", "stopped"}
    /\ models \in Seq([Files -> {Whole}])

LEMMA WholeIs ==
    /\ Whole \in Seq(Nat) /\ Len(Whole) = Size /\ Whole # <<>>
    /\ \A chunks \in Seq(Nat) : Counts(chunks) /\ Len(chunks) = Size => chunks = Whole
<1>1. Size \in Nat \ {0}
  BY DownloadAssumption DEF DownloadAssumption
<1>2. Whole \in Seq(Nat) /\ Len(Whole) = Size
  BY <1>1 DEF Whole
<1>3. Whole # <<>>
  BY <1>1, <1>2
<1>4. ASSUME NEW chunks \in Seq(Nat), Counts(chunks), Len(chunks) = Size PROVE chunks = Whole
  <2>1. chunks = [i \in 1 .. Size |-> chunks[i]]
    BY <1>1, <1>4
  <2>2. \A i \in 1 .. Size : chunks[i] = i
    BY <1>4 DEF Counts
  <2>3. QED BY <2>1, <2>2 DEF Whole
<1>5. QED BY <1>2, <1>3, <1>4

\* A file is empty if it has no chunks, and has one more as the next is appended.
LEMMA CountsOn ==
    /\ Counts(<<>>)
    /\ \A chunks \in Seq(Nat) : (Len(chunks) = 0 <=> chunks = <<>>)
    /\ \A chunks \in Seq(Nat), n \in Nat :
          Counts(chunks) /\ n = Len(chunks) + 1 => Counts(Append(chunks, n))
<1>1. Counts(<<>>)
  BY DEF Counts
<1>2. \A chunks \in Seq(Nat) : Len(chunks) = 0 <=> chunks = <<>>
  BY EmptySeq
<1>3. ASSUME NEW chunks \in Seq(Nat), NEW n \in Nat, Counts(chunks), n = Len(chunks) + 1
      PROVE  Counts(Append(chunks, n))
  <2>1. /\ Len(Append(chunks, n)) = n /\ Append(chunks, n)[n] = n
        /\ \A i \in 1 .. Len(chunks) : Append(chunks, n)[i] = chunks[i]
    BY <1>3, AppendProperties
  <2>2. \A i \in 1 .. n : i \in 1 .. Len(chunks) \/ i = n
    BY <1>3, LenProperties
  <2>3. QED BY <1>3, <2>1, <2>2 DEF Counts
<1>4. QED BY <1>1, <1>2, <1>3

\* Fresh and WillLook, as Looks has them.
LEMMA FreshIs ==
    QueueInv => \A f \in Files : Fresh(f) <=> Size > 1 /\ Length(f) = 0 /\ disk[f].done = <<>>
<1> SUFFICES ASSUME QueueInv, NEW f \in Files
             PROVE  Fresh(f) <=> Size > 1 /\ Length(f) = 0 /\ disk[f].done = <<>>
  OBVIOUS
<1>1. disk[f] \in [partial : Seq(Nat), done : Seq(Nat)]
  BY DEF QueueInv, Shapes
<1>2. Length(f) = 0 <=> disk[f].partial = <<>>
  BY <1>1, CountsOn DEF Length
<1>3. disk[f] = [partial |-> <<>>, done |-> <<>>] <=> disk[f].partial = <<>> /\ disk[f].done = <<>>
  BY <1>1
<1>4. QED BY <1>2, <1>3 DEF Fresh, Wiped

LEMMA LooksIs ==
    ASSUME QueueInv, NEW w \in Workers, work[w].at \in Holding
    PROVE  WillLook(w) <=> Looks(work[w].at, work[w].next, Length(file(P(w))),
                                 disk[file(P(w))].done, job[P(w)].cancelled)
<1>1. file(P(w)) \in Files
  BY HeldPart
<1>2. QED BY <1>1, FreshIs DEF WillLook, Looks

\* What a step of the worker w that has the only part in hand must do for the files.
LEMMA HandsOn ==
    ASSUME QueueInv, Lone, Content, NEW w \in Workers, OtherWorkers(w),
           NEW m \in Multis, NEW f \in Files, At(w, m, f), work'[w].part = work[w].part,
           \A p \in queue' : multi'[parent(p)].cancelled => Fresh(file(p))',
           \A n \in Multis : Served(n)' => n = m,
           multi[m].cancelled => multi'[m].cancelled, multi'[m].parts = multi[m].parts,
           \/ multi'[m].cancelled \/ ~Served(m)'
           \/ \A g \in Files : job'[<<m, g>>].status = "completed"
                  => job[<<m, g>>].status = "completed" \/ disk'[g].done = Whole,
           job'[<<m, f>>].status = "completed" /\ ~multi'[m].cancelled => disk'[f].done = Whole,
           \A g \in Files : g # f => disk'[g] = disk[g], FileOK(f)',
           \/ work'[w].at = "finally"
           \/ InHand(work'[w].at, work'[w].next, work'[w].open, work'[w].buffer, Length(f)',
                     disk'[f].done, multi'[m].cancelled, job'[<<m, f>>].cancelled)
    PROVE  Content'
<1>1. P(w) = <<m, f>> /\ P(w)' = <<m, f>> /\ file(<<m, f>>) = f /\ parent(<<m, f>>) = m
      /\ work[w].at \in Holding
  BY PartsArePairs DEF At, P
<1>2. ASSUME NEW g \in Files PROVE FileOK(g)'
  <2>1. CASE g # f
    <3>1. \A v \in Workers : ~(work[v].at = "rename" /\ file(P(v)) = g)
      BY <1>1, <2>1 DEF Lone, Holding
    <3>2. disk'[g] = disk[g]
      BY <2>1
    <3>3. Length(g)' = Length(g)
      BY <3>2 DEF Length
    <3>4. QED BY <3>1, <3>2, <3>3 DEF Content, FileOK
  <2>2. QED BY <2>1
<1>3. ASSUME NEW v \in Workers PROVE HandOK(v)'
  <2>1. CASE v # w
    <3>1. work'[v].at \notin Holding
      BY <1>1, <2>1 DEF Lone, OtherWorkers
    <3>2. QED BY <3>1 DEF HandOK
  <2>2. CASE v = w
    <3>1. Length(file(P(w)))' = Length(f)'
      BY <1>1 DEF Length
    <3>2. QED BY <1>1, <2>2, <3>1 DEF HandOK, Holding
  <2>3. QED BY <2>1, <2>2
<1>4. ASSUME NEW n \in Multis PROVE DoneOK(n)'
  <2> SUFFICES ASSUME Served(n)', ~multi'[n].cancelled, NEW g \in multi'[n].parts,
                      job'[<<n, g>>].status = "completed"
               PROVE  disk'[g].done = Whole
    BY DEF DoneOK
  <2>1. n = m
    OBVIOUS
  <2>2. Served(m)
    BY DEF Served, Turn
  <2>3. multi[m] \in MultiJobs
    BY DEF QueueInv, Shapes
  <2>4. g \in multi[m].parts /\ g \in Files /\ ~multi[m].cancelled
    BY <2>1, <2>3 DEF MultiJobs
  <2>5. job[<<m, g>>].status = "completed" => disk[g].done = Whole
    BY <2>2, <2>4 DEF Content, DoneOK
  <2>6. QED BY <2>1, <2>4, <2>5
<1>5. QED BY <1>2, <1>3, <1>4 DEF Content

\* Steps of a worker up to the renaming of its file.
Fetching(w) ==
    \/ Request(w) \/ RequestFails(w) \/ ResumeRefused(w) \/ NothingToFetch(w) \/ Answered(w) \/ Start(w)
    \/ Receive(w) \/ Breaks(w) \/ Received(w) \/ Rename(w)

\* They complete no part, and cancel no multi-file job.
LEMMA FetchingKeeps ==
    ASSUME QueueInv, NEW w \in Workers, NEW m \in Multis, NEW f \in Files, At(w, m, f), Fetching(w)
    PROVE  /\ queue' = queue
           /\ multi'[m].cancelled = multi[m].cancelled /\ multi'[m].parts = multi[m].parts
           /\ \A g \in Files : g # f => job'[<<m, g>>].status = job[<<m, g>>].status
           /\ job'[<<m, f>>].status # "completed"
<1>1. P(w) = <<m, f>> /\ parent(<<m, f>>) = m /\ <<m, f>> \in Parts /\ Shapes
  BY PartsArePairs DEF At, QueueInv
<1>2. job \in [Parts -> Jobs] /\ multi \in [Multis -> MultiJobs]
  BY <1>1 DEF Shapes
<1>3. job[<<m, f>>] \in Jobs /\ job[<<m, f>>].status \in StatusAt(work[w].at)
  BY <1>1, <1>2, Alone DEF HeldOK
<1>4. /\ work[w].at \in {"begin", "answer", "start", "startComplete", "load", "rename"}
      /\ queue' = queue
      /\ multi' = multi \/ multi' = [multi EXCEPT ![m].status = IF @ = "waiting" THEN "running" ELSE @]
      /\ \/ job' = job \/ job' = [job EXCEPT ![<<m, f>>].status = "running"]
         \/ job' = [job EXCEPT ![<<m, f>>] = [pause(@) EXCEPT !.resume_required = TRUE]]
  BY <1>1 DEF Fetching, Request, RequestFails, ResumeRefused, NothingToFetch, Answered, Start, Receive,
              Breaks, Received, Rename
<1>5. job[<<m, f>>].status \in {"waiting", "running"}
  BY <1>3, <1>4 DEF StatusAt
<1>6. multi'[m].cancelled = multi[m].cancelled /\ multi'[m].parts = multi[m].parts
  BY <1>2, <1>4 DEF MultiJobs
<1>7. \A g \in Files : g # f => <<m, g>> # <<m, f>> /\ <<m, g>> \in Parts
  BY PartsArePairs
<1>8. \A g \in Files : g # f => job'[<<m, g>>].status = job[<<m, g>>].status
  <2> SUFFICES ASSUME NEW g \in Files, g # f PROVE job'[<<m, g>>] = job[<<m, g>>]
    OBVIOUS
  <2>1. PICK p \in Parts : p = <<m, g>> /\ p # <<m, f>>
    BY <1>7
  <2>2. job'[p] = job[p]
    BY <1>2, <1>4, <2>1
  <2>3. QED BY <2>1, <2>2
<1>9. job'[<<m, f>>].status # "completed"
  <2>1. CASE job' = job
    BY <1>5, <2>1
  <2>2. CASE job' = [job EXCEPT ![<<m, f>>].status = "running"]
    BY <1>1, <1>2, <1>3, <2>2 DEF Jobs
  <2>3. CASE job' = [job EXCEPT ![<<m, f>>] = [pause(@) EXCEPT !.resume_required = TRUE]]
    <3>1. job'[<<m, f>>].status = job[<<m, f>>].status
      BY <1>1, <1>2, <1>3, <2>3 DEF Jobs, pause
    <3>2. QED BY <1>5, <3>1
  <2>4. QED BY <1>4, <2>1, <2>2, <2>3
<1>10. QED BY <1>4, <1>6, <1>8, <1>9

Steady == QueueInv /\ Sole /\ Bounded /\ Content

\* The part in hand is the only one.
LEMMA OnlyOne ==
    ASSUME QueueInv, Sole, NEW w \in Workers, NEW m \in Multis, NEW f \in Files, At(w, m, f)
    PROVE  queue = {} /\ Lone /\ \A n \in Multis : Served(n) => n = m
<1>1. Served(m)
  BY DEF Served, Turn
<1>2. \A n \in Multis : Served(n) => n = m
  BY <1>1 DEF Sole
<1>3. \A n \in Multis, g \in Files : <<n, g>> \notin queue
  BY <1>2, Alone DEF Served, Turn
<1>4. queue = {}
  <2>1. \A p \in queue : p \in Parts
    BY DEF QueueInv, Shapes
  <2>2. QED BY <1>3, <2>1, PartsArePairs
<1>5. QED BY <1>2, <1>4, SoleIsLone

\* The file and the place of a worker, in numbers.
LEMMA AtHand ==
    ASSUME Steady, NEW w \in Workers, work[w].at \in Holding
    PROVE  \E m \in Multis, f \in Files, n \in Nat, k \in Nat, b \in Nat, open \in BOOLEAN :
             /\ At(w, m, f) /\ P(w) = <<m, f>> /\ parent(P(w)) = m /\ file(P(w)) = f
             /\ work[w].next = n /\ Length(f) = k /\ work[w].buffer = b /\ work[w].open = open
             /\ k <= Size /\ n <= Size + 1 /\ Fits(work[w].at, n, open, b, k)
             /\ InHand(work[w].at, n, open, b, k, disk[f].done, multi[m].cancelled, job[P(w)].cancelled)
             /\ FileOK(f) /\ (k = Size => work[w].at = "rename")
<1>1. QueueInv /\ Sole /\ Bounded /\ Content /\ work[w] \in Places
  BY DEF Steady, QueueInv, Shapes
<1>2. PICK m \in Multis, f \in Files :
         At(w, m, f) /\ P(w) \in Parts /\ P(w) = <<m, f>> /\ parent(P(w)) = m /\ file(P(w)) = f
  BY <1>1, HeldPart
<1>3. Length(f) \in Nat
  BY <1>1, LengthIsNat DEF QueueInv
<1>4. Length(f) <= Size /\ work[w].next <= Size + 1
      /\ Fits(work[w].at, work[w].next, work[w].open, work[w].buffer, Length(f))
  BY <1>1, <1>2 DEF Bounded, LengthsOK, WriterOK
<1>5. InHand(work[w].at, work[w].next, work[w].open, work[w].buffer, Length(f), disk[f].done,
             multi[m].cancelled, job[P(w)].cancelled)
  BY <1>1, <1>2 DEF Content, HandOK
<1>6. FileOK(f) /\ (Length(f) = Size => work[w].at = "rename")
  <2>1. FileOK(f) /\ Lone
    BY <1>1, <1>2, OnlyOne DEF Content
  <2>2. QED BY <2>1 DEF FileOK, Lone, Holding
<1>7. work[w].next \in Nat /\ work[w].buffer \in Nat /\ work[w].open \in BOOLEAN
  BY <1>1 DEF Places
<1>8. QED BY <1>2, <1>3, <1>4, <1>5, <1>6, <1>7

LEMMA FetchingOn ==
    ASSUME Steady, NEW w \in Workers, NEW m \in Multis, NEW f \in Files, At(w, m, f), Fetching(w),
           NEW at, NEW next, NEW open, NEW buffer, Now(w, at, next, open, buffer),
           \A g \in Files : g # f => disk'[g] = disk[g], FileOK(f)',
           \A asked \in BOOLEAN :
               InHand(at, next, open, buffer, Length(f)', disk'[f].done, multi[m].cancelled, asked)
    PROVE  Content'
<1>1. QueueInv /\ Sole /\ Content
  BY DEF Steady
<1>2. queue = {} /\ Lone /\ \A n \in Multis : Served(n) => n = m
  BY <1>1, OnlyOne
<1>3. /\ queue' = queue
      /\ multi'[m].cancelled = multi[m].cancelled /\ multi'[m].parts = multi[m].parts
      /\ \A g \in Files : g # f => job'[<<m, g>>].status = job[<<m, g>>].status
      /\ job'[<<m, f>>].status # "completed"
  BY <1>1, FetchingKeeps
<1>4. WorkerStep(w)
  BY DEF Fetching, WorkerStep, Step
<1>5. \A n \in Multis : Served(n)' => n = m
  BY <1>1, <1>2, <1>4, WorkerServes
<1>6. job'[<<m, f>>].cancelled \in BOOLEAN
  <2>1. Shapes'
    BY <1>1, <1>4, WorkerKeeps DEF QueueInv
  <2>2. QED BY <2>1, PartsArePairs DEF Shapes, Jobs
<1>7. /\ OtherWorkers(w) /\ work'[w].part = work[w].part
      /\ InHand(work'[w].at, work'[w].next, work'[w].open, work'[w].buffer, Length(f)', disk'[f].done,
                multi'[m].cancelled, job'[<<m, f>>].cancelled)
  BY <1>3, <1>6 DEF Now
<1>8. \A g \in Files : job'[<<m, g>>].status = "completed" => job[<<m, g>>].status = "completed"
  BY <1>3
<1>9. QED BY <1>1, <1>2, <1>3, <1>5, <1>7, <1>8, HandsOn

LEMMA FetchContent ==
    ASSUME Steady, NEW w \in Workers,
           Request(w) \/ RequestFails(w) \/ ResumeRefused(w) \/ NothingToFetch(w) \/ Answered(w) \/ Start(w)
    PROVE  Content'
<1>1. work[w].at \in Holding /\ QueueInv /\ Fetching(w)
  BY DEF Request, RequestFails, ResumeRefused, NothingToFetch, Answered, Start, Holding, Steady, Fetching
<1>2. PICK m \in Multis, f \in Files, n \in Nat, k \in Nat, b \in Nat, open \in BOOLEAN :
         /\ At(w, m, f) /\ P(w) = <<m, f>> /\ parent(P(w)) = m /\ file(P(w)) = f
         /\ work[w].next = n /\ Length(f) = k /\ work[w].buffer = b /\ work[w].open = open
         /\ k <= Size /\ n <= Size + 1 /\ Fits(work[w].at, n, open, b, k)
         /\ InHand(work[w].at, n, open, b, k, disk[f].done, multi[m].cancelled, job[P(w)].cancelled)
         /\ FileOK(f) /\ (k = Size => work[w].at = "rename")
  BY <1>1, AtHand
<1>3. Shapes /\ Size \in Nat \ {0} /\ Whole # <<>>
  BY <1>1, WholeIs, DownloadAssumption DEF QueueInv, DownloadAssumption
<1>4. disk \in FileShapes /\ multi[m].cancelled \in BOOLEAN
  BY <1>3 DEF Shapes, FileShapes, MultiJobs
<1>5. ASSUME NEW at, NEW next \in Nat, NEW opened \in BOOLEAN, Now(w, at, next, opened, 0), disk' = disk,
             \A asked \in BOOLEAN : InHand(at, next, opened, 0, k, disk[f].done, multi[m].cancelled, asked),
             work[w].at # "rename"
      PROVE  Content'
  <2>1. Length(f)' = k /\ Counts(disk[f].partial)'
    BY <1>2, <1>5 DEF Length, Counts, FileOK
  <2>2. FileOK(f)'
    BY <1>2, <1>5, <2>1 DEF FileOK
  <2>3. QED BY <1>1, <1>2, <1>5, <2>1, <2>2, FetchingOn
<1>6. CASE Request(w)
  <2>1. disk' = disk /\ (Now(w, "raise", n, open, 0) \/ Now(w, "answer", k + 1, open, 0)) /\ work[w].at = "begin"
    BY <1>1, <1>2, <1>6, FetchEffects DEF Length, Request
  <2>2. multi[m].cancelled => Size > 1 /\ k = 0 /\ disk[f].done = <<>>
    BY <1>2, <2>1 DEF InHand, Looks
  <2>3. k + 1 \in Nat
    OBVIOUS
  <2>4. \A asked \in BOOLEAN : /\ InHand("raise", n, open, 0, k, disk[f].done, multi[m].cancelled, asked)
                               /\ InHand("answer", k + 1, open, 0, k, disk[f].done, multi[m].cancelled, asked)
    BY <2>2 DEF InHand, Looks, Writes
  <2>5. QED BY <1>5, <2>1, <2>3, <2>4
<1>7. CASE RequestFails(w) \/ ResumeRefused(w)
  <2>1. disk' = disk /\ (\E at \in {"error", "raise"} : Now(w, at, n, open, 0)) /\ work[w].at = "answer"
    BY <1>1, <1>2, <1>7, FetchEffects DEF RequestFails, ResumeRefused
  <2>2. \A at \in {"error", "raise"}, asked \in BOOLEAN :
            InHand(at, n, open, 0, k, disk[f].done, multi[m].cancelled, asked)
    BY DEF InHand, Looks, Writes
  <2>3. QED BY <1>5, <2>1, <2>2
<1>8. CASE NothingToFetch(w)
  <2>1. disk' = disk /\ Now(w, "startComplete", n, open, 0) /\ work[w].at = "answer"
        /\ ((n = 1 /\ disk[f].done = Whole) \/ n > Size)
    BY <1>1, <1>2, <1>8, FetchEffects DEF NothingToFetch
  <2>2. k = n - 1 /\ k # Size
    BY <1>2, <2>1 DEF InHand, Writes
  <2>3. disk[f].done = Whole
    BY <1>2, <1>3, <2>1, <2>2
  <2>4. ~multi[m].cancelled
    BY <1>2, <1>3, <2>1, <2>3 DEF InHand, Looks
  <2>5. \A asked \in BOOLEAN : InHand("startComplete", n, open, 0, k, disk[f].done, multi[m].cancelled, asked)
    BY <2>3, <2>4 DEF InHand, Writes
  <2>6. QED BY <1>5, <2>1, <2>5
<1>9. CASE Answered(w)
  <2>1. /\ Now(w, "start", n, open, 0) /\ work[w].at = "answer" /\ n <= Size /\ n >= 1
        /\ (n = 1 /\ DoneGone(f)) \/ (n # 1 /\ disk' = disk)
    <3>1. Now(w, "start", n, open, 0) /\ ((n = 1 /\ DoneGone(f)) \/ (n # 1 /\ disk' = disk))
      BY <1>1, <1>2, <1>9, FetchEffects
    <3>2. work[w].at = "answer" /\ n <= Size /\ n >= 1
      BY <1>2, <1>3, <1>9 DEF Answered
    <3>3. QED BY <3>1, <3>2
  <2>2. k = n - 1 /\ (multi[m].cancelled => Size > 1 /\ k = 0 /\ disk[f].done = <<>>)
    BY <1>2, <2>1 DEF InHand, Writes, Looks
  <2>3. /\ \A g \in Files : g # f => disk'[g] = disk[g]
        /\ disk'[f].partial = disk[f].partial /\ disk'[f].done \in {disk[f].done, <<>>}
    BY <1>4, <2>1 DEF DoneGone, FileShapes
  <2>4. Length(f)' = k /\ Counts(disk'[f].partial)
    BY <1>2, <2>3 DEF Length, FileOK
  <2>5. FileOK(f)'
    BY <1>2, <2>1, <2>3, <2>4 DEF FileOK
  <2>6. \A asked \in BOOLEAN : InHand("start", n, open, 0, Length(f)', disk'[f].done, multi[m].cancelled, asked)
    BY <2>2, <2>3, <2>4 DEF InHand, Writes, Looks
  <2>7. QED BY <1>1, <1>2, <2>1, <2>3, <2>5, <2>6, FetchingOn
<1>10. CASE Start(w)
  <2>1. \/ work[w].at = "startComplete" /\ disk' = disk /\ Now(w, "complete", n, open, 0)
        \/ /\ work[w].at = "start" /\ Now(w, "load", n, TRUE, 0)
           /\ (n = 1 /\ PartialGone(f)) \/ (n # 1 /\ disk' = disk)
    BY <1>1, <1>2, <1>10, FetchEffects
  <2>2. CASE work[w].at = "startComplete" /\ disk' = disk /\ Now(w, "complete", n, open, 0)
    <3>1. \A asked \in BOOLEAN : InHand("complete", n, open, 0, k, disk[f].done, multi[m].cancelled, asked)
      BY <1>2, <2>2 DEF InHand, Writes, Looks
    <3>2. QED BY <1>5, <2>2, <3>1
  <2>3. CASE work[w].at = "start" /\ Now(w, "load", n, TRUE, 0) /\ ((n = 1 /\ PartialGone(f)) \/ (n # 1 /\ disk' = disk))
    <3>1. n <= Size /\ k = n - 1 /\ (multi[m].cancelled => n < Size)
      BY <1>2, <2>3 DEF InHand, Writes, Looks, Fits
    <3>2. \A g \in Files : g # f => disk'[g] = disk[g]
      BY <1>4, <2>3 DEF PartialGone, FileShapes
    <3>3. disk'[f].done = disk[f].done /\ disk'[f].partial \in {disk[f].partial, <<>>}
      BY <1>4, <2>3 DEF PartialGone, FileShapes
    <3>4. Length(f)' = k
      BY <1>3, <1>2, <2>3, <3>1, Lengths
    <3>5. FileOK(f)'
      BY <1>2, <2>3, <3>3, <3>4, CountsOn DEF FileOK
    <3>6. \A asked \in BOOLEAN : InHand("load", n, TRUE, 0, Length(f)', disk'[f].done, multi[m].cancelled, asked)
      BY <3>1, <3>4 DEF InHand, Writes, Looks
    <3>7. QED BY <1>1, <1>2, <2>3, <3>2, <3>5, <3>6, FetchingOn, ZenonT(40)
  <2>4. QED BY <2>1, <2>2, <2>3
<1>11. QED BY <1>6, <1>7, <1>8, <1>9, <1>10

\* What is written follows on what was.
LEMMA FlushedCounts ==
    ASSUME Shapes, NEW w \in Workers, NEW f \in Files, file(P(w)) = f, disk' = flushed(w),
           Counts(disk[f].partial), work[w].open /\ work[w].buffer # 0 => work[w].buffer = Length(f) + 1
    PROVE  /\ Counts(disk'[f].partial) /\ disk'[f].done = disk[f].done
           /\ \A g \in Files : g # f => disk'[g] = disk[g]
<1>1. disk \in FileShapes /\ work[w].buffer \in Nat /\ disk[f].partial \in Seq(Nat)
  BY DEF Shapes, FileShapes, Places
<1>2. CASE work[w].open /\ work[w].buffer # 0
  <2>1. disk' = [disk EXCEPT ![f].partial = Append(@, work[w].buffer)]
    BY <1>2 DEF flushed
  <2>2. Counts(Append(disk[f].partial, work[w].buffer))
    BY <1>1, <1>2, CountsOn DEF Length
  <2>3. /\ disk'[f].partial = Append(disk[f].partial, work[w].buffer) /\ disk'[f].done = disk[f].done
        /\ \A g \in Files : g # f => disk'[g] = disk[g]
    BY <1>1, <2>1 DEF FileShapes
  <2>4. QED BY <2>2, <2>3
<1>3. CASE ~(work[w].open /\ work[w].buffer # 0)
  BY <1>3 DEF flushed
<1>4. QED BY <1>2, <1>3

LEMMA ChunkContent ==
    ASSUME Steady, NEW w \in Workers, Receive(w) \/ Breaks(w) \/ Received(w) \/ Rename(w)
    PROVE  Content'
<1>1. work[w].at \in Holding /\ QueueInv /\ Fetching(w)
  BY DEF Receive, Breaks, Received, Rename, Holding, Steady, Fetching
<1>2. PICK m \in Multis, f \in Files, n \in Nat, k \in Nat, b \in Nat, open \in BOOLEAN :
         /\ At(w, m, f) /\ P(w) = <<m, f>> /\ parent(P(w)) = m /\ file(P(w)) = f
         /\ work[w].next = n /\ Length(f) = k /\ work[w].buffer = b /\ work[w].open = open
         /\ k <= Size /\ n <= Size + 1 /\ Fits(work[w].at, n, open, b, k)
         /\ InHand(work[w].at, n, open, b, k, disk[f].done, multi[m].cancelled, job[P(w)].cancelled)
         /\ FileOK(f) /\ (k = Size => work[w].at = "rename")
  BY <1>1, AtHand
<1>3. Shapes /\ Size \in Nat \ {0} /\ Whole # <<>>
  BY <1>1, WholeIs, DownloadAssumption DEF QueueInv, DownloadAssumption
<1>4. disk \in FileShapes /\ multi[m].cancelled \in BOOLEAN
  BY <1>3 DEF Shapes, FileShapes, MultiJobs
<1>5. CASE Receive(w) \/ Breaks(w) \/ Received(w)
  <2>1. disk' = flushed(w) /\ work[w].at = "load"
    BY <1>1, <1>5, ChunkEffects DEF Receive, Breaks, Received
  <2>2. /\ n > 0
        /\ ~open => multi[m].cancelled /\ k = 0
        /\ open /\ b = 0 => k = n - 1 /\ n <= Size
        /\ open /\ b # 0 => k = n - 2 /\ b = n - 1
    BY <1>2, <2>1 DEF InHand, Writes, Fits
  <2>3. /\ Counts(disk'[f].partial) /\ disk'[f].done = disk[f].done
        /\ \A g \in Files : g # f => disk'[g] = disk[g]
    <3>1. open /\ b # 0 => b = k + 1
      BY <2>2
    <3>2. QED BY <1>2, <1>3, <2>1, <3>1, FlushedCounts DEF FileOK
  <2>4. Length(f)' = k + (IF open /\ b # 0 THEN 1 ELSE 0)
    BY <1>2, <1>3, <2>1, FlushedLength
  <2>5. PICK h \in Nat : h = Length(f)' /\ h = IF open THEN n - 1 ELSE 0
    <3>1. CASE open
      BY <2>2, <2>4, <3>1
    <3>2. CASE ~open
      BY <2>2, <2>4, <3>2
    <3>3. QED BY <3>1, <3>2
  <2>6. ASSUME NEW at, NEW next \in Nat, NEW buffer \in Nat, Now(w, at, next, open, buffer),
               h = Size => at = "rename",
               \A asked \in BOOLEAN : InHand(at, next, open, buffer, h, disk[f].done, multi[m].cancelled, asked)
        PROVE  Content'
    <3>1. work'[w].at = at /\ P(w)' = <<m, f>>
      BY <1>2, <2>6 DEF Now, P
    <3>2. file(P(w)') = f
      BY <3>1 DEF file
    <3>3. FileOK(f)'
      BY <1>2, <2>3, <2>5, <2>6, <3>1, <3>2 DEF FileOK
    <3>4. QED BY <1>1, <1>2, <2>3, <2>5, <2>6, <3>3, FetchingOn, ZenonT(40)
  <2>7. CASE Received(w)
    <3>1. Now(w, "rename", n, open, 0) /\ n > Size
      BY <1>1, <1>2, <2>7, ChunkEffects DEF Received
    <3>2. ~multi[m].cancelled
      BY <1>2, <1>3, <2>1, <3>1 DEF InHand, Looks
    <3>3. open /\ n = Size + 1 /\ h = Size
      BY <1>2, <1>3, <2>2, <2>5, <3>1, <3>2
    <3>4. \A asked \in BOOLEAN : InHand("rename", n, open, 0, h, disk[f].done, multi[m].cancelled, asked)
      BY <3>2, <3>3 DEF InHand, Writes
    <3>5. QED BY <2>6, <3>1, <3>4
  <2>8. CASE Breaks(w) \/ Receive(w)
    <3>1. n <= Size /\ h # Size
      BY <1>2, <1>3, <2>2, <2>5, <2>8 DEF Breaks, Receive
    <3>2. \/ \E at \in {"raise", "error"} : Now(w, at, n, open, 0)
          \/ ~job[P(w)].cancelled /\ Now(w, "progress", n + 1, open, n)
      BY <1>1, <1>2, <2>8, ChunkEffects
    <3>3. CASE \E at \in {"raise", "error"} : Now(w, at, n, open, 0)
      <4>1. \A at \in {"raise", "error"}, asked \in BOOLEAN :
                InHand(at, n, open, 0, h, disk[f].done, multi[m].cancelled, asked)
        BY DEF InHand, Writes, Looks
      <4>2. QED BY <2>6, <3>1, <3>3, <4>1
    <3>4. CASE ~job[P(w)].cancelled /\ Now(w, "progress", n + 1, open, n)
      <4>1. multi[m].cancelled => n + 1 <= Size
        BY <1>2, <1>3, <2>1, <3>1, <3>4 DEF InHand, Looks
      <4>2. \A asked \in BOOLEAN :
                InHand("progress", n + 1, open, n, h, disk[f].done, multi[m].cancelled, asked)
        BY <2>2, <2>5, <4>1 DEF InHand, Writes, Looks
      <4>3. n + 1 \in Nat
        OBVIOUS
      <4>4. QED BY <2>6, <3>1, <3>4, <4>2, <4>3
    <3>5. QED BY <3>2, <3>3, <3>4
  <2>9. QED BY <1>5, <2>7, <2>8
<1>6. CASE Rename(w)
  <2>1. work[w].at = "rename"
    BY <1>6 DEF Rename
  <2>2. k = Size /\ ~multi[m].cancelled
    BY <1>2, <2>1 DEF InHand, Writes, Looks
  <2>3. disk[f].partial \in Seq(Nat) /\ disk[f].partial = Whole
    <3>1. disk[f].partial \in Seq(Nat)
      BY <1>4 DEF FileShapes
    <3>2. QED BY <1>2, <2>2, <3>1, WholeIs DEF FileOK, Length
  <2>4. Moved(f) /\ Now(w, "complete", n, open, 0)
    BY <1>1, <1>2, <1>3, <1>6, <2>3, ChunkEffects
  <2>5. /\ disk'[f].partial = <<>> /\ disk'[f].done = Whole
        /\ \A g \in Files : g # f => disk'[g] = disk[g]
    BY <1>4, <2>3, <2>4 DEF Moved, FileShapes
  <2>6. Length(f)' = 0
    BY <1>3, <2>4, Lengths
  <2>7. FileOK(f)'
    BY <1>3, <2>5, <2>6, CountsOn DEF FileOK
  <2>8. \A asked \in BOOLEAN :
            InHand("complete", n, open, 0, Length(f)', disk'[f].done, multi[m].cancelled, asked)
    BY <2>2, <2>5 DEF InHand, Writes
  <2>9. QED BY <1>1, <1>2, <2>4, <2>5, <2>7, <2>8, FetchingOn
<1>7. QED BY <1>5, <1>6

LEMMA ProgressContent ==
    ASSUME Steady, NEW w \in Workers, NEW stops \in BOOLEAN, Progress(w, stops),
           stops => multi[parent(P(w))].cancelled
    PROVE  Content'
<1>1. work[w].at = "progress" /\ work[w].at \in Holding /\ QueueInv /\ Sole /\ Content /\ WorkerStep(w)
  BY DEF Progress, Holding, Steady, WorkerStep
<1>2. PICK m \in Multis, f \in Files, n \in Nat, k \in Nat, b \in Nat, open \in BOOLEAN :
         /\ At(w, m, f) /\ P(w) = <<m, f>> /\ parent(P(w)) = m /\ file(P(w)) = f
         /\ work[w].next = n /\ Length(f) = k /\ work[w].buffer = b /\ work[w].open = open
         /\ k <= Size /\ n <= Size + 1 /\ Fits(work[w].at, n, open, b, k)
         /\ InHand(work[w].at, n, open, b, k, disk[f].done, multi[m].cancelled, job[P(w)].cancelled)
         /\ FileOK(f) /\ (k = Size => work[w].at = "rename")
  BY <1>1, AtHand
<1>3. Shapes /\ job \in [Parts -> Jobs] /\ Size \in Nat
  BY <1>1, DownloadAssumption DEF QueueInv, Shapes, DownloadAssumption
<1>4. disk' = disk /\ Now(w, "load", n, open, b)
  BY <1>1, <1>2, ChunkEffects
<1>5. /\ queue' = queue /\ multi' = multi
      /\ job' = IF multi[m].cancelled THEN cancelParts(job, m) ELSE job
  BY <1>2 DEF Progress
<1>6. queue = {} /\ Lone /\ \A l \in Multis : Served(l) => l = m
  BY <1>1, <1>2, OnlyOne
<1>7. \A l \in Multis : Served(l)' => l = m
  BY <1>1, <1>6, WorkerServes
<1>8. \A g \in Files : job'[<<m, g>>].status = job[<<m, g>>].status
  BY <1>3, <1>5, CancelPartsAsks
<1>9. f \in multi[m].parts /\ job[<<m, f>>].status = "running"
  BY <1>1, <1>2, Alone DEF HeldOK, TurnOK, StatusAt
<1>10. multi[m].cancelled => job'[<<m, f>>].cancelled
  <2>1. job[<<m, f>>] \in Jobs
    BY <1>3, PartsArePairs
  <2>2. cancel_job(job[<<m, f>>]).cancelled
    BY <1>9, <2>1 DEF cancel_job, in_terminal_state, cancel, Jobs
  <2>3. QED BY <1>3, <1>5, <1>9, <2>2, CancelPartsAsks
<1>11. InHand("load", n, open, b, k, disk[f].done, multi[m].cancelled, job'[<<m, f>>].cancelled)
  <2>1. Writes("load", n, open, b, k, disk[f].done, multi[m].cancelled)
    BY <1>1, <1>2 DEF InHand, Writes
  <2>2. multi[m].cancelled => n <= Size
    BY <1>1, <1>2 DEF InHand, Looks
  <2>3. multi[m].cancelled => Looks("load", n, k, disk[f].done, job'[<<m, f>>].cancelled)
    BY <1>3, <1>10, <2>2 DEF Looks
  <2>4. QED BY <2>1, <2>3 DEF InHand
<1>12. Length(f)' = k /\ FileOK(f)'
  <2>1. Length(f)' = k /\ k # Size
    BY <1>1, <1>2, <1>4 DEF Length
  <2>2. QED BY <1>2, <1>4, <2>1 DEF FileOK
<1>13. QED BY <1>1, <1>2, <1>4, <1>5, <1>6, <1>7, <1>8, <1>9, <1>11, <1>12, HandsOn DEF Now

\* When nothing is left under way, only the files matter.
LEMMA NothingLeftContent ==
    ASSUME QueueInv', NoneUnderWay',
           \A f \in Files : /\ disk'[f].done \in {<<>>, Whole} /\ Counts(disk'[f].partial)
                            /\ Length(f)' # Size
    PROVE  Content'
<1>1. queue' = {} /\ \A w \in Workers : work'[w].at \notin Holding
  <2>1. QueueInv /\ NoneUnderWay => queue = {} /\ \A w \in Workers : work[w].at \notin Holding
    BY NothingToDo
  <2>2. (QueueInv /\ NoneUnderWay)' => (queue = {} /\ \A w \in Workers : work[w].at \notin Holding)'
    BY <2>1, NothingToDo, PTL
  <2>3. QED BY <2>2
<1>2. \A w \in Workers : HandOK(w)'
  BY <1>1 DEF HandOK
<1>3. \A m \in Multis : DoneOK(m)'
  BY DEF NoneUnderWay, DoneOK
<1>4. QED BY <1>1, <1>2, <1>3 DEF Content, FileOK

LEMMA EndContent ==
    ASSUME Steady, NEW w \in Workers,
           \/ Complete(w) \/ SubmitNext(w) \/ Raise(w)
           \/ \E wipes \in BOOLEAN : Parent(w, wipes) \/ Error(w, wipes)
    PROVE  Content'
<1>1. /\ work[w].at \in {"complete", "submit", "raise", "parent", "error"} /\ work[w].at \in Holding
      /\ QueueInv /\ Sole /\ Content /\ WorkerStep(w)
  BY DEF Complete, SubmitNext, Raise, Parent, Error, Holding, Steady, WorkerStep, Step
<1>2. PICK m \in Multis, f \in Files, n \in Nat, k \in Nat, b \in Nat, open \in BOOLEAN :
         /\ At(w, m, f) /\ P(w) = <<m, f>> /\ parent(P(w)) = m /\ file(P(w)) = f
         /\ work[w].next = n /\ Length(f) = k /\ work[w].buffer = b /\ work[w].open = open
         /\ k <= Size /\ n <= Size + 1 /\ Fits(work[w].at, n, open, b, k)
         /\ InHand(work[w].at, n, open, b, k, disk[f].done, multi[m].cancelled, job[P(w)].cancelled)
         /\ FileOK(f) /\ (k = Size => work[w].at = "rename")
  BY <1>1, AtHand
<1>3. Shapes /\ Shapes' /\ QueueInv' /\ Size \in Nat \ {0}
  BY <1>1, WorkerKeeps, DownloadAssumption DEF QueueInv, DownloadAssumption
<1>4. /\ job \in [Parts -> Jobs] /\ multi \in [Multis -> MultiJobs] /\ disk \in FileShapes
      /\ <<m, f>> \in Parts /\ job[<<m, f>>] \in Jobs /\ multi[m] \in MultiJobs
  BY <1>3, PartsArePairs DEF Shapes, FileShapes
<1>5. queue = {} /\ Lone /\ \A l \in Multis : Served(l) => l = m
  BY <1>1, <1>2, OnlyOne
<1>6. \A l \in Multis : Served(l)' => l = m
  BY <1>1, <1>5, WorkerServes
<1>7. HeldOK(w, m, f) /\ PartsOK(m)
  BY <1>1, <1>2, Alone
<1>8. disk' = disk => Length(f)' = k /\ FileOK(f)'
  <2>1. disk' = disk => Length(f)' = k /\ k # Size
    BY <1>1, <1>2 DEF Length
  <2>2. QED BY <1>2, <2>1 DEF FileOK
<1>9. CASE Complete(w)
  <2>1. disk' = disk /\ \E at \in {"submit", "finally"} : Now(w, at, n, open, 0)
    BY <1>1, <1>2, <1>9, EndEffects
  <2>2. disk[f].done = Whole /\ ~multi[m].cancelled
    BY <1>2, <1>9 DEF Complete, InHand, Writes, Looks
  <2>3. queue' = queue /\ multi'[m].cancelled = multi[m].cancelled /\ multi'[m].parts = multi[m].parts
    BY <1>2, <1>4, <1>9 DEF Complete, MultiJobs
  <2>4. \A g \in Files : job'[<<m, g>>].status = "completed" => job[<<m, g>>].status = "completed" \/ g = f
    <3>1. job' = [job EXCEPT ![<<m, f>>].status = "completed"]
      BY <1>2, <1>9 DEF Complete
    <3>2. ASSUME NEW g \in Files, g # f PROVE job'[<<m, g>>] = job[<<m, g>>]
      <4>1. PICK p \in Parts : p = <<m, g>> /\ p # <<m, f>>
        BY <3>2, PartsArePairs
      <4>2. job'[p] = job[p]
        BY <1>4, <3>1, <4>1
      <4>3. QED BY <4>1, <4>2
    <3>3. QED BY <3>2
  <2>5. InHand("submit", n, open, 0, k, disk[f].done, multi'[m].cancelled, job'[<<m, f>>].cancelled)
    BY <2>2, <2>3 DEF InHand, Writes
  <2>6. QED BY <1>1, <1>2, <1>5, <1>6, <1>8, <2>1, <2>2, <2>3, <2>4, <2>5, HandsOn DEF Now
<1>10. CASE SubmitNext(w)
  <2>1. disk' = disk /\ Now(w, "finally", n, open, 0) /\ job' = job
    BY <1>1, <1>2, <1>10, EndEffects DEF SubmitNext
  <2>2. ~multi[m].cancelled
    BY <1>2, <1>10 DEF SubmitNext, InHand, Looks
  <2>3. /\ multi'[m].cancelled = multi[m].cancelled /\ multi'[m].parts = multi[m].parts
        /\ \A p \in queue' : parent(p) = m
    <3>1. /\ multi'[m].cancelled = multi[m].cancelled /\ multi'[m].parts = multi[m].parts
          /\ \A p \in queue' : p \in queue \/ \E g : p = <<m, g>>
      BY <1>2, <1>4, <1>10, ZenonT(40) DEF SubmitNext, _submit_next_mfd_part, MultiJobs
    <3>2. QED BY <1>5, <3>1 DEF parent
  <2>4. job'[<<m, f>>].status = "completed" => disk'[f].done = Whole
    <3>1. job[<<m, f>>].status = "completed" => disk[f].done = Whole
      BY <1>1, <1>2, <1>7, <2>2 DEF Content, DoneOK, Served, Turn, HeldOK, TurnOK
    <3>2. QED BY <2>1, <3>1
  <2>5. QED BY <1>1, <1>2, <1>5, <1>6, <1>8, <2>1, <2>2, <2>3, <2>4, HandsOn DEF Now
<1>11. CASE Raise(w)
  <2>1. disk' = disk /\ Now(w, "parent", n, open, 0) /\ queue' = queue
    BY <1>1, <1>2, <1>11, EndEffects DEF Raise
  <2>2. multi'[m].cancelled /\ multi'[m].parts = multi[m].parts
    <3>1. ~in_terminal_state(multi[m])
      BY <1>7 DEF HeldOK, TurnOK
    <3>2. PICK mf \in {pause(multi[m]), cancel(multi[m])} :
             \/ multi' = [multi EXCEPT ![m] = [mf EXCEPT !.active = 0]]
             \/ multi' = [multi EXCEPT ![m] = [mf EXCEPT !.active = 0, !.pending = {}]]
      BY <1>2, <1>11, <3>1 DEF Raise
    <3>3. mf.cancelled /\ mf.parts = multi[m].parts /\ mf \in MultiJobs
      BY <1>4, <3>2 DEF pause, cancel, MultiJobs
    <3>4. QED BY <1>4, <3>2, <3>3 DEF MultiJobs
  <2>3. InHand("parent", n, open, 0, k, disk[f].done, multi'[m].cancelled, job'[<<m, f>>].cancelled)
    BY DEF InHand, Writes, Looks
  <2>4. QED BY <1>1, <1>2, <1>5, <1>6, <1>8, <2>1, <2>2, <2>3, HandsOn DEF Now
<1>12. CASE \E wipes \in BOOLEAN : Parent(w, wipes) \/ Error(w, wipes)
  <2>1. NoneUnderWay'
    <3>1. in_terminal_state(multi'[m])
      <4>1. CASE \E wipes \in BOOLEAN : Parent(w, wipes)
        <5>1. Becomes(m, job[P(w)].status) /\ work[w].at = "parent"
          BY <1>1, <1>2, <4>1, WorkerStatus DEF Parent
        <5>2. job[P(w)].status \in {"paused", "cancelled"}
          BY <1>2, <1>7, <5>1 DEF HeldOK, StatusAt
        <5>3. QED BY <5>1, <5>2 DEF Becomes, in_terminal_state
      <4>2. CASE \E wipes \in BOOLEAN : Error(w, wipes)
        <5>1. Becomes(m, "error")
          BY <1>1, <1>2, <4>2, WorkerStatus
        <5>2. QED BY <5>1 DEF Becomes, in_terminal_state
      <4>3. QED BY <1>12, <4>1, <4>2
    <3>2. ~Served(m)'
      <4>1. QueueInv' /\ Served(m)' => ~in_terminal_state(multi'[m])
        BY DEF QueueInv, MultiOK, Served, Turn, QueuedOK, HeldOK, TurnOK
      <4>2. QED BY <1>3, <3>1, <4>1
    <3>3. QED BY <1>6, <3>2 DEF NoneUnderWay
  <2>2. disk' = Wiped \/ disk' = disk \/ PartialGone(f)
    BY <1>1, <1>2, <1>12, EndEffects
  <2>3. ASSUME NEW g \in Files
        PROVE  disk'[g].done \in {<<>>, Whole} /\ Counts(disk'[g].partial) /\ Length(g)' # Size
    <3>1. FileOK(g) /\ Length(g) # Size
      BY <1>1, <1>5 DEF Content, FileOK, Lone, Holding
    <3>2. disk'[g].done \in {disk[g].done, <<>>} /\ disk'[g].partial \in {disk[g].partial, <<>>}
      <4>1. CASE disk' = Wiped
        BY <4>1 DEF Wiped
      <4>2. CASE disk' = disk
        BY <4>2
      <4>3. CASE PartialGone(f)
        <5>1. disk[f] \in [partial : Seq(Nat), done : Seq(Nat)] /\ disk' = [disk EXCEPT ![f].partial = <<>>]
          BY <1>4, <4>3 DEF PartialGone, FileShapes
        <5>2. disk'[g] = IF g = f THEN [disk[f] EXCEPT !.partial = <<>>] ELSE disk[g]
          BY <1>4, <5>1 DEF FileShapes
        <5>3. QED BY <5>1, <5>2
      <4>4. QED BY <2>2, <4>1, <4>2, <4>3
    <3>3. Length(g)' \in {Length(g), 0}
      BY <1>2, <1>3, <2>2, Lengths
    <3>4. QED BY <1>3, <3>1, <3>2, <3>3, CountsOn DEF FileOK
  <2>4. QED BY <1>3, <2>1, <2>3, NothingLeftContent
<1>13. QED BY <1>9, <1>10, <1>11, <1>12

LEMMA TopContent ==
    ASSUME QueueInv, Content, NEW w \in Workers, GetJob(w) \/ Exit(w) \/ Finally(w)
    PROVE  Content'
<1>1. work \in [Workers -> Places] /\ disk' = disk /\ job' = job /\ multi' = multi
      /\ work[w].at \in {"top", "finally"} /\ queue' \subseteq queue
  BY DEF QueueInv, Shapes, GetJob, Exit, Finally
<1>2. WorkerStep(w)
  BY DEF WorkerStep, Step
<1>3. /\ \A v \in Workers : v # w => work'[v] = work[v]
      /\ \/ work'[w].at \notin Holding
         \/ /\ work'[w].at = "begin" /\ P(w)' \in queue
            /\ work'[w] = [work[w] EXCEPT !.at = "begin", !.part = P(w)']
  <2>1. CASE GetJob(w)
    <3>1. PICK p \in queue : work' = [work EXCEPT ![w].at = "begin", ![w].part = p]
      BY <2>1 DEF GetJob
    <3>2. work'[w] = [work[w] EXCEPT !.at = "begin", !.part = p]
      BY <1>1, <3>1
    <3>3. work'[w].at = "begin" /\ P(w)' = p
      BY <1>1, <3>2 DEF P, Places
    <3>4. QED BY <1>1, <3>1, <3>2, <3>3
  <2>2. CASE Exit(w) \/ Finally(w)
    BY <1>1, <2>2 DEF Exit, Finally, Goes, AtTop, Holding, Places
  <2>3. QED BY <2>1, <2>2
<1>4. \A g \in Files : Length(g)' = Length(g) /\ (Fresh(g)' <=> Fresh(g))
  BY <1>1 DEF Length, Fresh, Wiped
<1>5. ASSUME NEW v \in Workers, v # w
      PROVE  P(v)' = P(v) /\ Length(file(P(v)))' = Length(file(P(v)))
  <2>1. P(v)' = P(v)
    BY <1>3, <1>5 DEF P
  <2>2. QED BY <1>1, <2>1 DEF Length
<1>6. ASSUME NEW g \in Files PROVE FileOK(g)'
  BY <1>1, <1>3, <1>4, <1>5 DEF Content, FileOK
<1>7. ASSUME NEW v \in Workers PROVE HandOK(v)'
  <2>1. CASE v # w
    BY <1>1, <1>3, <1>5, <2>1 DEF Content, HandOK
  <2>2. CASE v = w /\ work'[w].at \notin Holding
    BY <2>2 DEF HandOK
  <2>3. CASE v = w /\ work'[w].at = "begin" /\ P(w)' \in queue
    <3>1. PICK p \in queue : P(w)' = p
      BY <2>3
    <3>2. file(p) \in Files /\ parent(p) \in Multis
      BY PartsArePairs DEF QueueInv, Shapes
    <3>3. multi[parent(p)].cancelled => Size > 1 /\ Length(file(p)) = 0 /\ disk[file(p)].done = <<>>
      BY <3>2, FreshIs DEF Content
    <3>4. Length(file(P(w)))' = Length(file(p))
      BY <1>1, <3>1 DEF Length
    <3>5. QED BY <1>1, <2>3, <3>1, <3>3, <3>4 DEF HandOK, InHand, Writes, Looks
  <2>4. QED BY <1>3, <2>1, <2>2, <2>3
<1>8. \A p \in queue' : multi'[parent(p)].cancelled => Fresh(file(p))'
  <2>1. \A p \in queue : file(p) \in Files
    BY PartsArePairs DEF QueueInv, Shapes
  <2>2. QED BY <1>1, <1>4, <2>1 DEF Content
<1>9. ASSUME NEW m \in Multis PROVE DoneOK(m)'
  BY <1>1, <1>2, WorkerServes DEF Content, DoneOK
<1>10. QED BY <1>6, <1>7, <1>8, <1>9 DEF Content

\* A worker keeps what the files hold.
LEMMA WorkerContent ==
    ASSUME Steady, NEW w \in Workers, NEW stops \in BOOLEAN, stops => multi[parent(P(w))].cancelled,
           \/ Step(w) \/ Start(w) \/ Complete(w) \/ Progress(w, stops)
           \/ \E wipes \in BOOLEAN : Parent(w, wipes) \/ Error(w, wipes)
    PROVE  Content'
<1>1. CASE Step(w)
  BY <1>1, TopContent, FetchContent, ChunkContent, EndContent DEF Step, Steady
<1>2. QED BY <1>1, FetchContent, ProgressContent, EndContent

\* Flags are set, or the queue is emptied, and files are as they were.
LEMMA AskedContent ==
    ASSUME QueueInv, Content, disk' = disk, work' = work, queue' \subseteq queue, JobsAsked,
           \A m \in Multis : /\ multi'[m].parts = multi[m].parts
                             /\ multi[m].cancelled => multi'[m].cancelled,
           \A p \in queue : multi'[parent(p)].cancelled => Fresh(file(p)),
           \A w \in Workers : work[w].at \in Holding /\ multi'[parent(P(w))].cancelled => WillLook(w)
    PROVE  Content'
<1>1. \A g \in Files : Length(g)' = Length(g)
  BY DEF Length
<1>2. \A w \in Workers : P(w)' = P(w)
  BY DEF P
<1>3. ASSUME NEW g \in Files PROVE FileOK(g)'
  BY <1>1, <1>2 DEF Content, FileOK
<1>4. ASSUME NEW w \in Workers, work[w].at \in Holding PROVE HandOK(w)'
  <2>1. PICK m \in Multis, f \in Files : P(w) = <<m, f>> /\ parent(P(w)) = m /\ file(P(w)) = f
    BY <1>4, HeldPart
  <2>2. Length(file(P(w)))' = Length(f)
    BY <1>1, <1>2, <2>1 DEF Length
  <2>3. job[<<m, f>>].cancelled => job'[<<m, f>>].cancelled
    BY DEF JobsAsked
  <2>4. Writes(work[w].at, work[w].next, work[w].open, work[w].buffer, Length(f), disk[f].done, multi[m].cancelled)
    BY <1>4, <2>1 DEF Content, HandOK, InHand
  <2>5. Writes(work[w].at, work[w].next, work[w].open, work[w].buffer, Length(f), disk[f].done, multi'[m].cancelled)
    BY <2>4 DEF Writes
  <2>6. multi'[m].cancelled => Looks(work[w].at, work[w].next, Length(f), disk[f].done, job[<<m, f>>].cancelled)
    BY <1>4, <2>1, LooksIs
  <2>7. multi'[m].cancelled => Looks(work[w].at, work[w].next, Length(f), disk[f].done, job'[<<m, f>>].cancelled)
    BY <2>3, <2>6 DEF Looks
  <2>8. QED BY <1>2, <2>1, <2>2, <2>5, <2>7 DEF HandOK, InHand
<1>5. ASSUME NEW w \in Workers PROVE HandOK(w)'
  <2>1. CASE work[w].at \notin Holding
    BY <2>1 DEF HandOK
  <2>2. QED BY <1>4, <2>1
<1>6. \A p \in queue' : multi'[parent(p)].cancelled => Fresh(file(p))'
  BY DEF Fresh, Wiped
<1>7. ASSUME NEW m \in Multis PROVE DoneOK(m)'
  <2>1. Served(m)' => Served(m)
    BY <1>2 DEF Served, Turn, At
  <2>2. \A g \in multi[m].parts : job'[<<m, g>>].status = job[<<m, g>>].status
    BY DEF JobsAsked, QueueInv, Shapes, MultiJobs
  <2>3. QED BY <2>1, <2>2 DEF Content, DoneOK
<1>8. QED BY <1>3, <1>5, <1>6, <1>7 DEF Content

\* The directory is removed from under multi-file jobs that are canceled.
LEMMA RemovedContent ==
    ASSUME QueueInv, Content, _safe_rmtree, job' = job, multi' = multi, queue' = queue,
           \A m \in Multis : Served(m) => multi[m].cancelled
    PROVE  Content'
<1>1. disk' = Wiped /\ work' = unlinked(work, Files) /\ work \in [Workers -> Places] /\ Size \in Nat \ {0}
  BY DownloadAssumption DEF _safe_rmtree, QueueInv, Shapes, DownloadAssumption
<1>2. \A g \in Files : disk'[g] = Wiped[g] /\ Wiped[g].done = <<>> /\ Wiped[g].partial = <<>>
  BY <1>1 DEF Wiped
<1>3. \A g \in Files : Length(g)' = 0
  <2>1. Len(<<>>) = 0
    OBVIOUS
  <2>2. QED BY <1>2, <2>1 DEF Length
<1>4. ASSUME NEW w \in Workers
      PROVE  /\ work'[w].at = work[w].at /\ work'[w].part = work[w].part
             /\ work'[w].next = work[w].next /\ work'[w].buffer = work[w].buffer
             /\ file(P(w)) \in Files => ~work'[w].open
  <2>1. /\ work'[w].at = work[w].at /\ work'[w].part = work[w].part
        /\ work'[w].next = work[w].next /\ work'[w].buffer = work[w].buffer
    BY <1>1, UnlinkedIs
  <2>2. work'[w] = [work[w] EXCEPT !.open = @ /\ file(work[w].part) \notin Files] /\ work[w] \in Places
    BY <1>1 DEF unlinked
  <2>3. file(P(w)) \in Files => ~work'[w].open
    BY <2>2 DEF Places, P
  <2>4. QED BY <2>1, <2>3
<1>5. \A w \in Workers : P(w)' = P(w)
  BY <1>4 DEF P
<1>6. \A g \in Files : FileOK(g)'
  BY <1>1, <1>2, <1>3, CountsOn DEF FileOK
<1>7. ASSUME NEW w \in Workers, work[w].at \in Holding PROVE HandOK(w)'
  <2>1. PICK m \in Multis, f \in Files : /\ P(w) = <<m, f>> /\ parent(P(w)) = m /\ file(P(w)) = f
                                         /\ At(w, m, f)
    BY <1>7, HeldPart
  <2>2. multi[m].cancelled
    BY <2>1 DEF Served, Turn
  <2>3. Length(file(P(w)))' = 0
    BY <1>3, <1>5, <2>1 DEF Length
  <2>4. InHand(work[w].at, work[w].next, work[w].open, work[w].buffer, Length(f), disk[f].done,
               multi[m].cancelled, job[<<m, f>>].cancelled)
    BY <1>7, <2>1 DEF Content, HandOK
  <2>5. Looks(work[w].at, work[w].next, 0, <<>>, job[<<m, f>>].cancelled)
    BY <2>2, <2>4 DEF InHand, Looks
  <2>6. Writes(work[w].at, work[w].next, FALSE, work[w].buffer, 0, <<>>, TRUE)
    BY <2>2, <2>4 DEF InHand, Looks, Writes
  <2>7. work'[w].open = FALSE
    <3>1. work'[w].open \in BOOLEAN
      BY <1>1, UnlinkedIs DEF Places
    <3>2. QED BY <1>4, <2>1, <3>1
  <2>8. multi[m].cancelled = TRUE
    BY <2>2 DEF QueueInv, Shapes, MultiJobs
  <2>9. QED BY <1>2, <1>4, <1>5, <2>1, <2>3, <2>5, <2>6, <2>7, <2>8 DEF HandOK, InHand
<1>8. ASSUME NEW w \in Workers PROVE HandOK(w)'
  <2>1. CASE work[w].at \notin Holding
    BY <1>4, <2>1 DEF HandOK
  <2>2. QED BY <1>7, <2>1
<1>9. \A p \in queue' : multi'[parent(p)].cancelled => Fresh(file(p))'
  <2>1. \A p \in queue : file(p) \in Files
    BY PartsArePairs DEF QueueInv, Shapes
  <2>2. QED BY <1>1, <2>1 DEF Content, Fresh, Wiped
<1>10. ASSUME NEW m \in Multis PROVE DoneOK(m)'
  <2>1. Served(m)' => Served(m)
    BY <1>4, <1>5 DEF Served, Turn, At
  <2>2. QED BY <2>1 DEF DoneOK
<1>11. QED BY <1>6, <1>8, <1>9, <1>10 DEF Content

\* Flags of parts are set, or the queue is emptied.
LEMMA FlagsContent ==
    ASSUME QueueInv, Content, disk' = disk, work' = work, queue' \subseteq queue, JobsAsked,
           multi' = multi
    PROVE  Content'
<1>1. \A p \in queue : multi'[parent(p)].cancelled => Fresh(file(p))
  BY DEF Content
<1>2. ASSUME NEW w \in Workers, work[w].at \in Holding, multi'[parent(P(w))].cancelled PROVE WillLook(w)
  BY <1>2, LooksIs DEF Content, HandOK, InHand
<1>3. QED BY <1>1, <1>2, AskedContent

\* A download begins where there is none, with the files as they are.
LEMMA BegunContent ==
    ASSUME QueueInv, Content, NoneUnderWay, NEW m \in Multis, NEW changed, Begun(m, Files, {}, changed)
    PROVE  Content' /\ disk' = disk
<1>1. disk' = disk /\ job' = job /\ work' = unlinked(work, {}) /\ Shapes
  BY DEF Begun, QueueInv, Shapes
<1>2. queue = {} /\ \A w \in Workers : work[w].at \notin Holding
  BY NothingToDo
<1>3. \A w \in Workers : work'[w].at \notin Holding
  BY <1>1, <1>2, UnlinkedIs DEF Shapes
<1>4. ASSUME NEW f \in Files PROVE FileOK(f)'
  <2>1. Length(f)' = Length(f)
    BY <1>1 DEF Length
  <2>2. Length(f) # Size
    BY <1>2 DEF Content, FileOK, Holding
  <2>3. QED BY <1>1, <2>1, <2>2 DEF Content, FileOK
<1>5. \A w \in Workers : HandOK(w)'
  BY <1>3 DEF HandOK
<1>6. \A p \in queue' : ~multi'[parent(p)].cancelled
  BY <1>2 DEF Begun
<1>7. ASSUME NEW n \in Multis PROVE DoneOK(n)'
  <2>1. CASE n # m
    BY <2>1 DEF Begun, NoneUnderWay, DoneOK
  <2>2. CASE n = m
    <3>1. \A g \in Files : job[<<m, g>>] = NewJob
      BY DEF QueueInv, MultiOK, PartsOK, Begun
    <3>2. \A g \in Files : job'[<<m, g>>].status = "waiting"
      BY <1>1, <3>1 DEF NewJob
    <3>3. multi'[m].parts = Files
      BY DEF Begun
    <3>4. QED BY <2>2, <3>2, <3>3 DEF DoneOK
  <2>3. QED BY <2>1, <2>2
<1>8. QED BY <1>1, <1>4, <1>5, <1>6, <1>7 DEF Content

\* What holds of an install whose user did not depart from the plain case, or not far.
Sound == ServiceInv /\ Bounded /\ Plain /\ Content /\ Kept

LEMMA SoundIs ==
    Sound => /\ QueueInv /\ Shapes /\ InstallShapes /\ Calls /\ Sole /\ Phases /\ Content /\ Kept
             /\ Steady
BY DEF Sound, ServiceInv, Plain, Steady, QueueInv

\* The install thread has nothing to do with what is under way, canceled or not.
LEMMA KeptOn ==
    ASSUME Sound, ~fetching', install'.multi = install.multi,
           \A m \in Multis : multi'[m].parts = multi[m].parts,
           call'.kind = "cancelling" \/ install'.status = "cancelled"
               => \A m \in Multis : Served(m)' => multi'[m].cancelled,
           Installing' => Installing /\ disk' = disk,
           Installing' /\ call'.kind = "cancelling" => install'.status = "cancelled",
           Installing' /\ install.status = "cancelled" => install'.status = "cancelled",
           marker' \in {"downloads_done", "running"}
               => /\ marker \in {"downloads_done", "running"}
                  /\ disk' = disk /\ NoneUnderWay' /\ ~restoring'
                  /\ installer'.queued = 1 \/ installer'.at \in {"marked", "stopped"},
           models' = models
    PROVE  Kept'
<1>1. Kept /\ InstallShapes
  BY SoundIs
<1>2. install'.multi # 0 => multi'[install'.multi].parts = Files
  BY <1>1 DEF Kept, InstallShapes, Installs
<1>3. Installing' => AllWhole' \/ (install'.status = "cancelled" /\ NoneDone')
  BY <1>1 DEF Kept, AllWhole, NoneDone
<1>4. marker' \in {"downloads_done", "running"} => AllWhole'
  BY <1>1 DEF Kept, AllWhole
<1>5. models' \in Seq([Files -> {Whole}])
  BY <1>1 DEF Kept
<1>6. QED BY <1>2, <1>3, <1>4, <1>5 DEF Kept

\* Requests that only set flags.
LEMMA PauseSound ==
    ASSUME Sound, Plain', PauseBegins \/ PauseEnds
    PROVE  Content' /\ Kept'
<1>1. /\ QueueInv /\ Shapes /\ InstallShapes /\ Calls /\ Sole /\ Phases /\ Content /\ Kept
  BY SoundIs
<1>2. SameService
  BY <1>1, AskedSame DEF AsksOnly
<1>3. CASE PauseBegins
  <2>1. install.status \in {"waiting", "downloading"} /\ install' = [install EXCEPT !.status = "paused", !.did = install'.did]
    BY <1>1, <1>3 DEF PauseBegins, Pauses, departed, Plain, Departs, InstallShapes, Installs, Ways
  <2>2. /\ UNCHANGED <<downloadVars, cache, marker, installer, models, restoring>>
        /\ call' = [kind |-> "pausing"] /\ call'.kind = "pausing" /\ call = NoCall /\ ~restoring
    BY <1>3 DEF PauseBegins, Pauses, Ready
  <2>3. Content'
    BY <1>1, <2>2, FlagsContent DEF downloadVars, JobsAsked
  <2>4. install'.status = "paused" /\ install'.multi = install.multi
    BY <1>1, <2>1 DEF InstallShapes, Installs
  <2>5. ~Installing
    BY <1>1, <2>1 DEF Installing, Phases
  <2>6. Kept'
    BY <1>1, <1>2, <2>2, <2>4, <2>5, KeptOn DEF downloadVars, Installing, fetching, Kept, SameService
  <2>7. QED BY <2>3, <2>6
<1>4. CASE PauseEnds
  <2>1. /\ call' = NoCall /\ call'.kind = "none" /\ marker' = "paused" /\ job' = pausedParts
        /\ UNCHANGED <<multi, queue, work, disk, service, install, cache, installer, models, restoring>>
    BY <1>4 DEF PauseEnds, NoCall
  <2>2. Content'
    BY <1>1, <2>1, PausedAsks, FlagsContent
  <2>3. Kept'
    BY <1>1, <1>2, <2>1, KeptOn DEF Installing, fetching, Kept, SameService
  <2>4. QED BY <2>2, <2>3
<1>5. QED BY <1>3, <1>4

LEMMA ResumeSound ==
    ASSUME Sound, Plain', resume_job
    PROVE  Content' /\ Kept'
<1>1. /\ QueueInv /\ Shapes /\ InstallShapes /\ Calls /\ Sole /\ Phases /\ Content /\ Kept
  BY SoundIs
<1>2. SameService
  BY <1>1, AskedSame DEF AsksOnly
<1>3. Quiet
  <2> SUFFICES ASSUME ~Quiet PROVE FALSE
    OBVIOUS
  <2>1. install' = [departed("actsEarly") EXCEPT !.status = "waiting"]
    BY DEF resume_job, Fetches, after
  <2>2. install'.did = "actsEarly"
    BY <1>1, <2>1 DEF departed, InstallShapes, Installs
  <2>3. QED BY <2>2 DEF Plain
<1>4. /\ install' = [install EXCEPT !.status = "waiting"] /\ install.status = "paused"
      /\ call' = [kind |-> "fetching", files |-> Files, clears |-> FALSE]
      /\ UNCHANGED <<downloadVars, cache, marker, installer, models, restoring>>
      /\ installer.at # "stopped"
  BY <1>3 DEF resume_job, Fetches, after, Ready
<1>5. call'.kind = "fetching" /\ call'.files = Files /\ ~call'.clears /\ install'.multi = install.multi
      /\ install'.status = "waiting"
  BY <1>1, <1>4 DEF InstallShapes, Installs
<1>6. ~Installing
  BY <1>1, <1>4 DEF Installing, Phases
<1>7. marker \notin {"downloads_done", "running"}
  BY <1>1, <1>4, <1>6 DEF Kept, Installing
<1>8. Content'
  BY <1>1, <1>4, FlagsContent DEF downloadVars, JobsAsked
<1>9. Kept'
  BY <1>1, <1>2, <1>4, <1>5, <1>6, <1>7 DEF Kept, fetching, Installing, SameService, InstallShapes, Installs
<1>10. QED BY <1>8, <1>9

LEMMA AskSound ==
    ASSUME Sound, FetchFails \/ cancel_all_jobs
    PROVE  Content' /\ Kept'
<1>1. /\ QueueInv /\ Shapes /\ InstallShapes /\ Calls /\ Sole /\ Phases /\ Content /\ Kept
  BY SoundIs
<1>2. SameService
  BY <1>1, AskedSame DEF AsksOnly
<1>3. /\ call' = NoCall /\ call'.kind = "none" /\ marker' = marker
      /\ UNCHANGED <<multi, queue, work, disk, cache, installer, models, restoring>>
      /\ UNCHANGED job \/ job' = cancelListed
      /\ install' \in {[install EXCEPT !.stuck = TRUE], [install EXCEPT !.asked = TRUE]}
  BY DEF FetchFails, cancel_all_jobs, NoCall, downloadVars, Ready
<1>4. install'.multi = install.multi /\ install'.status = install.status
  BY <1>1, <1>3 DEF InstallShapes, Installs
<1>5. JobsAsked
  BY <1>1, <1>3, PausedAsks DEF JobsAsked
<1>6. Content'
  BY <1>1, <1>3, <1>5, FlagsContent
<1>7. Kept'
  BY <1>1, <1>2, <1>3, <1>4, KeptOn DEF Installing, fetching, Kept, SameService
<1>8. QED BY <1>6, <1>7

\* A cancellation that the download will notice.
LEMMA CancelSound ==
    ASSUME Sound, Plain', CancelBegins
    PROVE  Content' /\ Kept'
<1>1. /\ QueueInv /\ Shapes /\ InstallShapes /\ Calls /\ Sole /\ Phases /\ Content /\ Kept
  BY SoundIs
<1>2. SameService /\ multi \in [Multis -> MultiJobs]
  BY <1>1, AskedSame DEF AsksOnly, Shapes
<1>3. WillNotice
  <2> SUFFICES ASSUME ~WillNotice PROVE FALSE
    OBVIOUS
  <2>1. install' = [departed("cancelsLate") EXCEPT !.status = "cancelled", !.asked = TRUE]
    BY DEF CancelBegins, after
  <2>2. install'.did = "cancelsLate"
    BY <1>1, <2>1 DEF departed, InstallShapes, Installs
  <2>3. QED BY <2>2 DEF Plain
<1>4. /\ install' = [install EXCEPT !.status = "cancelled", !.asked = TRUE] /\ ~over
      /\ multi' = [m \in Multis |-> IF m = install.multi THEN cancel_job(multi[m]) ELSE multi[m]]
      /\ call' = [kind |-> "cancelling"] /\ call'.kind = "cancelling"
      /\ UNCHANGED <<job, queue, work, disk, service, cache, marker, installer, models, restoring>>
  BY <1>3 DEF CancelBegins, after
<1>5. install'.multi = install.multi /\ install'.status = "cancelled"
  BY <1>1, <1>4 DEF InstallShapes, Installs
<1>6. \A m \in Multis : /\ multi'[m].parts = multi[m].parts
                        /\ multi[m].cancelled => multi'[m].cancelled
                        /\ m # install.multi => multi'[m] = multi[m]
                        /\ m = install.multi /\ ~in_terminal_state(multi[m]) => multi'[m].cancelled
  BY <1>2, <1>4 DEF cancel_job, cancel, MultiJobs
<1>7. \A m \in Multis : Served(m) => m = install.multi /\ ~in_terminal_state(multi[m])
  BY <1>1, ServedIs DEF Sole
<1>8. ASSUME NEW p \in queue PROVE Fresh(file(p))
  <2>1. p \in Parts
    BY <1>1 DEF Shapes
  <2>2. parent(p) \in Multis /\ file(p) \in Files /\ p = <<parent(p), file(p)>>
    BY <2>1, PartsArePairs
  <2>3. Served(parent(p))
    BY <2>2 DEF Served, Turn
  <2>4. parent(p) = install.multi /\ ~in_terminal_state(multi[install.multi]) /\ install.multi # 0
    BY <1>7, <2>2, <2>3, DownloadAssumption DEF DownloadAssumption
  <2>5. \A w \in Workers : work[w].at \notin Holding
    BY <1>1, HeldPart, OnlyOne
  <2>6. \A w \in Workers : ~WillLook(w)
    BY <2>5 DEF WillLook, Holding
  <2>7. PICK q \in queue : parent(q) = install.multi /\ Fresh(file(q))
    BY <1>3, <2>4, <2>6 DEF WillNotice
  <2>8. q \in Parts /\ file(q) \in Files /\ q = <<install.multi, file(q)>>
    BY <1>1, <2>7, PartsArePairs DEF Shapes
  <2>9. file(p) = file(q)
    BY <1>1, <2>2, <2>4, <2>8 DEF QueueInv, MultiOK, OneTurn
  <2>10. QED BY <2>7, <2>9
<1>9. ASSUME NEW w \in Workers, work[w].at \in Holding PROVE WillLook(w)
  <2>1. PICK m \in Multis, f \in Files : At(w, m, f)
    BY <1>1, <1>9, HeldPart
  <2>2. queue = {} /\ Lone
    BY <1>1, <2>1, OnlyOne
  <2>3. m = install.multi /\ ~in_terminal_state(multi[install.multi]) /\ install.multi # 0
    BY <1>7, <2>1, DownloadAssumption DEF DownloadAssumption, Served, Turn
  <2>4. PICK v \in Workers : WillLook(v)
    BY <1>3, <2>2, <2>3 DEF WillNotice
  <2>5. work[v].at \in Holding
    BY <2>4 DEF WillLook, Holding
  <2>6. QED BY <1>9, <2>2, <2>4, <2>5 DEF Lone
<1>10. Content'
  BY <1>1, <1>4, <1>6, <1>8, <1>9, AskedContent DEF JobsAsked
<1>11. Kept'
  <2>1. \A m \in Multis : Served(m)' => multi'[m].cancelled
    BY <1>2, <1>6, <1>7 DEF SameService
  <2>2. QED BY <1>1, <1>2, <1>4, <1>5, <1>6, <2>1, KeptOn DEF Installing, fetching, Kept, SameService
<1>12. QED BY <1>10, <1>11

\* The directory is removed.
LEMMA RemoveSound ==
    ASSUME Sound, CancelEnds \/ InstallFinishes \/ RestoreFails
    PROVE  Content' /\ Kept'
<1>1. /\ QueueInv /\ Shapes /\ InstallShapes /\ Calls /\ Sole /\ Phases /\ Content /\ Kept
  BY SoundIs
<1>2. SameService
  BY <1>1, AskedSame DEF AsksOnly, InstallThread
<1>3. /\ _safe_rmtree /\ UNCHANGED <<job, multi, queue, models>> /\ marker' = "none"
      /\ install'.multi = install.multi /\ disk' = Wiped
  <2>1. install' \in {install, [install EXCEPT !.status = "error"]}
    BY DEF CancelEnds, InstallFinishes, RestoreFails
  <2>2. QED BY <1>1, <2>1 DEF CancelEnds, InstallFinishes, RestoreFails, InstallShapes, Installs, _safe_rmtree
<1>4. \A m \in Multis : Served(m) => multi[m].cancelled
  <2>1. CASE CancelEnds
    BY <1>1, <2>1 DEF CancelEnds, Kept
  <2>2. CASE InstallFinishes
    BY <1>1, <2>2 DEF InstallFinishes, Phases, NoneUnderWay
  <2>3. CASE RestoreFails
    BY <1>1, <2>3 DEF RestoreFails, Sole, NoneUnderWay
  <2>4. QED BY <2>1, <2>2, <2>3
<1>5. Content'
  BY <1>1, <1>3, <1>4, RemovedContent
<1>6. NoneDone'
  BY <1>3 DEF NoneDone, Wiped
<1>7. CASE CancelEnds
  <2>1. call' = NoCall /\ call'.kind = "none" /\ UNCHANGED <<install, installer, restoring>> /\ call.kind = "cancelling"
    BY <1>7 DEF CancelEnds, NoCall
  <2>2. Installing' => install'.status = "cancelled"
    BY <1>1, <2>1 DEF Kept, Installing
  <2>3. QED BY <1>1, <1>2, <1>3, <1>4, <1>5, <1>6, <2>1, <2>2 DEF Kept, fetching, SameService
<1>8. CASE InstallFinishes
  <2>1. /\ installer.at = "finish" /\ installer' = [installer EXCEPT !.at = "idle"]
        /\ UNCHANGED <<install, call, restoring>>
    BY <1>8 DEF InstallFinishes
  <2>2. ~Installing' /\ ~fetching'
    BY <1>1, <2>1 DEF Installing, Phases, InstallShapes, fetching
  <2>3. QED BY <1>1, <1>2, <1>3, <1>4, <1>5, <2>1, <2>2 DEF Kept, fetching, SameService
<1>9. CASE RestoreFails
  <2>1. /\ restoring /\ call' = call /\ installer' = installer
    BY <1>9 DEF RestoreFails
  <2>2. ~Installing' /\ ~fetching'
    BY <1>1, <2>1 DEF Installing, Phases, fetching, Calls, NoCall
  <2>3. QED BY <1>1, <1>2, <1>3, <1>4, <1>5, <2>1, <2>2 DEF Kept, fetching, SameService
<1>10. QED BY <1>7, <1>8, <1>9

\* A download of all files begins.
LEMMA BeginSound ==
    ASSUME Sound, import_model \/ Fetched \/ Restored
    PROVE  Content' /\ Kept'
<1>1. /\ QueueInv /\ Shapes /\ InstallShapes /\ Calls /\ Sole /\ Phases /\ Content /\ Kept
  BY SoundIs
<1>2. PICK changed \in Installs :
         /\ enqueue(Files, {}, changed) /\ changed.status = "waiting"
         /\ NoneUnderWay /\ ~Installing
         /\ call' = NoCall
  <2>1. CASE import_model
    <3>1. PICK changed \in Installs : enqueue(Files, {}, changed) /\ changed.status = "waiting"
      <4>1. [NoInstall EXCEPT !.status = "waiting", !.did = install.did] \in Installs
            /\ [NoInstall EXCEPT !.status = "waiting", !.did = install.did].status = "waiting"
        BY <1>1 DEF NoInstall, Installs, InstallStatus, InstallShapes
      <4>2. QED BY <2>1, <4>1 DEF import_model
    <3>2. NoneUnderWay /\ ~Installing /\ call' = NoCall
      BY <1>1, <2>1 DEF import_model, Ready, Sole, Phases, Installing
    <3>3. QED BY <3>1, <3>2
  <2>2. CASE Fetched
    <3>1. enqueue(Files, {}, install) /\ install.status = "waiting"
      BY <1>1, <2>2 DEF Fetched, Kept, Phases, fetching
    <3>2. NoneUnderWay /\ ~Installing /\ call' = NoCall
      BY <1>1, <2>2 DEF Fetched, Sole, Phases, Installing, fetching
    <3>3. QED BY <1>1, <3>1, <3>2 DEF InstallShapes
  <2>3. CASE Restored
    <3>1. [install EXCEPT !.status = "waiting"] \in Installs
          /\ [install EXCEPT !.status = "waiting"].status = "waiting"
      BY <1>1 DEF InstallShapes, Installs, InstallStatus
    <3>2. NoneUnderWay /\ ~Installing /\ call' = NoCall
      BY <1>1, <2>3 DEF Restored, Sole, Phases, Installing, Calls
    <3>3. QED BY <2>3, <3>1, <3>2 DEF Restored
  <2>4. QED BY <2>1, <2>2, <2>3
<1>3. PICK m \in Multis : Begun(m, Files, {}, changed)
  BY <1>1, <1>2, EnqueueIs, DownloadAssumption DEF DownloadAssumption
<1>4. Content' /\ disk' = disk
  BY <1>1, <1>2, <1>3, BegunContent
<1>5. /\ install'.multi = m /\ install'.status = "waiting" /\ multi'[m].parts = Files
      /\ marker' = "waiting" /\ models' = models /\ installer' = installer /\ call'.kind = "none"
  BY <1>2, <1>3 DEF Begun, Installs, NoCall
<1>6. Kept'
  BY <1>1, <1>2, <1>5 DEF Kept, fetching, Installing
<1>7. QED BY <1>4, <1>6

\* The install thread finds all files, or none of an install that was canceled.
LEMMA InstallSound ==
    ASSUME Sound, InstallTakes \/ InstallUnmarks \/ InstallFails
    PROVE  Content' /\ Kept'
<1>1. /\ QueueInv /\ Shapes /\ InstallShapes /\ Calls /\ Sole /\ Phases /\ Content /\ Kept
  BY SoundIs
<1>2. SameService
  BY <1>1, AskedSame DEF AsksOnly, InstallThread
<1>3. /\ UNCHANGED downloadVars /\ UNCHANGED <<models, call, restoring>>
      /\ installer \in [at : {"idle", "marked", "moving", "finish", "stopped"}, queued : Nat]
      /\ install \in Installs
  BY <1>1 DEF InstallTakes, InstallUnmarks, InstallFails, InstallShapes
<1>4. Content'
  BY <1>1, <1>3, FlagsContent DEF downloadVars, JobsAsked
<1>5. ~fetching'
  BY <1>1, <1>3 DEF InstallTakes, InstallUnmarks, InstallFails, Phases, fetching
<1>6. CASE InstallTakes
  <2>1. installer.at = "idle" /\ installer.queued = 1 /\ install.status \in {"downloads_done", "cancelled"}
    BY <1>1, <1>6 DEF InstallTakes, Phases
  <2>2. CASE install.status = "downloads_done"
    <3>1. /\ install' = [install EXCEPT !.status = "running"] /\ marker' = "running"
          /\ installer' = [at |-> "marked", queued |-> installer.queued - 1]
      BY <1>6, <2>2 DEF InstallTakes
    <3>2. /\ install'.status = "running" /\ install'.multi = install.multi
          /\ installer'.at = "marked"
      BY <1>3, <3>1 DEF Installs
    <3>3. call.kind # "cancelling" /\ AllWhole /\ NoneUnderWay /\ ~restoring
      BY <1>1, <2>1, <2>2 DEF Kept, Installing, Phases
    <3>4. AllWhole'
      BY <1>3, <3>3 DEF AllWhole, downloadVars
    <3>5. QED BY <1>1, <1>2, <1>3, <1>4, <1>5, <3>2, <3>3, <3>4 DEF Kept, SameService, downloadVars
  <2>3. CASE install.status = "cancelled"
    <3>1. /\ install' = install /\ marker' = "none"
          /\ installer' = [at |-> "finish", queued |-> installer.queued - 1]
      BY <1>6, <2>3 DEF InstallTakes
    <3>2. ~Installing'
      BY <2>1, <3>1 DEF Installing
    <3>3. Kept'
      BY <1>1, <1>2, <1>3, <1>5, <3>1, <3>2, KeptOn DEF Kept, SameService, downloadVars
    <3>4. QED BY <1>4, <3>3
  <2>4. QED BY <2>1, <2>2, <2>3
<1>7. CASE InstallUnmarks
  <2>1. /\ marker' = "none" /\ install' = install /\ installer.at = "marked"
    BY <1>7 DEF InstallUnmarks
  <2>2. Installing
    BY <2>1 DEF Installing
  <2>3. QED BY <1>1, <1>2, <1>3, <1>4, <1>5, <2>1, <2>2, KeptOn DEF Kept, SameService, downloadVars
<1>8. CASE InstallFails
  <2>1. /\ install' = [install EXCEPT !.status = "error"] /\ marker' = "none"
        /\ installer' = [installer EXCEPT !.at = "finish"] /\ installer.at \in {"marked", "moving"}
    BY <1>8 DEF InstallFails
  <2>2. ~Installing'
    BY <1>1, <1>3, <2>1 DEF Installing, Phases
  <2>3. install'.status = "error" /\ install'.multi = install.multi
    BY <1>3, <2>1 DEF Installs
  <2>4. \A m \in Multis : ~Served(m)'
    BY <1>1, <1>2, <2>1 DEF Phases, SameService, NoneUnderWay
  <2>5. QED BY <1>1, <1>2, <1>3, <1>4, <1>5, <2>1, <2>2, <2>3, <2>4, KeptOn DEF Kept, SameService
<1>9. QED BY <1>6, <1>7, <1>8

\* What it registers is whole.
LEMMA MovesSound ==
    ASSUME Sound, InstallMoves
    PROVE  Content' /\ Kept'
<1>1. /\ QueueInv /\ Shapes /\ InstallShapes /\ Calls /\ Sole /\ Phases /\ Content /\ Kept
  BY SoundIs
<1>2. SameService
  BY <1>1, AskedSame DEF AsksOnly, InstallThread
<1>3. /\ installer.at = "moving" /\ installer' = [installer EXCEPT !.at = "finish"] /\ marker' = "none"
      /\ install' = [install EXCEPT !.status = "completed"] /\ call' = call /\ multi' = multi
      /\ models' = Append(models, [f \in Files |-> disk[f].done])
      /\ disk' = [f \in Files |-> [disk[f] EXCEPT !.done = <<>>]]
      /\ \E f \in Files : disk[f].done # <<>>
  BY DEF InstallMoves
<1>4. NoneUnderWay /\ NoneUnderWay' /\ ~fetching /\ Installing
  BY <1>1, <1>2, <1>3 DEF Phases, SameService, Installing
<1>5. AllWhole
  BY <1>1, <1>3, <1>4 DEF Kept, NoneDone
<1>6. \A w \in Workers : work[w].at # "rename"
  BY <1>1, <1>4, NothingToDo DEF Holding
<1>7. ASSUME NEW f \in Files
      PROVE  disk'[f].done \in {<<>>, Whole} /\ Counts(disk'[f].partial) /\ Length(f)' # Size
  <2>1. disk'[f].partial = disk[f].partial /\ disk'[f].done = <<>>
    BY <1>1, <1>3 DEF Shapes
  <2>2. QED BY <1>1, <1>6, <2>1 DEF Content, FileOK, Length
<1>8. Content'
  BY <1>2, <1>4, <1>7, NothingLeftContent DEF SameService
<1>9. ~Installing'
  BY <1>1, <1>3 DEF Installing, Phases, InstallShapes
<1>10. install'.multi = install.multi /\ install'.status = "completed"
  BY <1>1, <1>3 DEF InstallShapes, Installs
<1>11. models' \in Seq([Files -> {Whole}])
  <2>1. [f \in Files |-> disk[f].done] \in [Files -> {Whole}]
    BY <1>5 DEF AllWhole
  <2>2. QED BY <1>1, <1>3, <2>1, AppendProperties DEF Kept
<1>12. Kept'
  BY <1>1, <1>2, <1>3, <1>4, <1>9, <1>10, <1>11 DEF Kept, fetching, SameService, NoneUnderWay
<1>13. QED BY <1>8, <1>12

\* The services stop.
LEMMA StopSound ==
    ASSUME Sound, InstallStops \/ Stops
    PROVE  Content' /\ Kept'
<1>1. /\ QueueInv /\ Shapes /\ InstallShapes /\ Calls /\ Sole /\ Phases /\ Content /\ Kept
  BY SoundIs
<1>2. CASE InstallStops
  <2>1. SameService
    BY <1>1, <1>2, AskedSame DEF AsksOnly
  <2>2. /\ installer' = [at |-> "stopped", queued |-> 0] /\ call = NoCall
        /\ UNCHANGED <<multi, queue, models, call, restoring>>
    BY <1>2 DEF InstallStops
  <2>3. ~Installing' /\ call'.kind = "none" /\ ~fetching'
    BY <2>2 DEF Installing, NoCall, fetching
  <2>4. CASE over \/ install.status = "none"
    <3>1. install' = departed("stops") /\ UNCHANGED <<job, disk, work, marker>>
      BY <1>2, <2>4 DEF InstallStops
    <3>2. install'.multi = install.multi /\ install'.status = install.status
      BY <1>1, <3>1 DEF departed, InstallShapes, Installs
    <3>3. Content'
      BY <1>1, <2>2, <3>1, FlagsContent DEF JobsAsked
    <3>4. Kept'
      BY <1>1, <2>1, <2>2, <2>3, <3>1, <3>2, KeptOn DEF Kept, SameService
    <3>5. QED BY <3>3, <3>4
  <2>5. CASE ~(over \/ install.status = "none") /\ install.multi # 0
    <3>1. /\ job' = pausedParts /\ UNCHANGED <<disk, work>> /\ marker' = "paused"
          /\ install' = [departed("stops") EXCEPT !.status = "paused"]
      BY <1>2, <2>5 DEF InstallStops
    <3>2. install'.multi = install.multi /\ install'.status = "paused"
      BY <1>1, <3>1 DEF departed, InstallShapes, Installs
    <3>3. Content'
      BY <1>1, <2>2, <3>1, PausedAsks, FlagsContent
    <3>4. Kept'
      BY <1>1, <2>1, <2>2, <2>3, <3>1, <3>2, KeptOn DEF Kept, SameService
    <3>5. QED BY <3>3, <3>4
  <2>6. CASE ~(over \/ install.status = "none") /\ install.multi = 0
    <3>1. /\ _safe_rmtree /\ UNCHANGED job /\ marker' = "none"
          /\ install' = [departed("stops") EXCEPT !.status = "cancelled"]
      BY <1>2, <2>6 DEF InstallStops
    <3>2. install'.multi = install.multi
      BY <1>1, <3>1 DEF departed, InstallShapes, Installs
    <3>3. \A m \in Multis : ~Served(m)
      BY <1>1, <2>6, DownloadAssumption DEF DownloadAssumption, Sole
    <3>4. Content'
      BY <1>1, <2>2, <3>1, <3>3, RemovedContent
    <3>5. \A m \in Multis : ~Served(m)'
      BY <2>1, <3>3 DEF SameService
    <3>6. Kept'
      BY <1>1, <2>1, <2>2, <2>3, <3>1, <3>2, <3>5, KeptOn DEF Kept, SameService
    <3>7. QED BY <3>4, <3>6
  <2>7. QED BY <2>4, <2>5, <2>6
<1>3. CASE Stops
  <2>1. /\ UNCHANGED installVars /\ multi' = multi /\ work' = work /\ disk' = disk
        /\ queue' \subseteq queue /\ (job' = job \/ job' = cancelListed)
    BY <1>3 DEF Stops, StopBegins, StopReturns
  <2>2. JobsAsked
    BY <1>1, <2>1, PausedAsks DEF JobsAsked
  <2>3. Content'
    BY <1>1, <2>1, <2>2, FlagsContent
  <2>4. \A m \in Multis : Served(m)' => Served(m)
    BY <2>1 DEF Served, Turn, At, P
  <2>5. Kept'
    <3>1. UNCHANGED <<install, call, marker, installer, models, restoring>>
      BY <2>1 DEF installVars
    <3>2. (Installing' <=> Installing) /\ (fetching' <=> fetching) /\ (AllWhole' <=> AllWhole) /\ (NoneDone' <=> NoneDone)
      BY <2>1, <3>1 DEF Installing, fetching, AllWhole, NoneDone
    <3>3. QED BY <1>1, <2>1, <2>4, <3>1, <3>2 DEF Kept, NoneUnderWay
  <2>6. QED BY <2>3, <2>5
<1>4. QED BY <1>2, <1>3

\* The process ends, and the next one finds what the marker says.
LEMMA RestartSound ==
    ASSUME Sound, Plain', Restart
    PROVE  Content' /\ Kept'
<1>1. /\ QueueInv /\ Shapes /\ InstallShapes /\ Calls /\ Sole /\ Phases /\ Content /\ Kept
  BY SoundIs
<1>2. NoneRenames
  <2> SUFFICES ASSUME ~NoneRenames PROVE FALSE
    OBVIOUS
  <2>1. after(NoneLose, kills).did = "killsInRename"
    BY <1>1 DEF after, departed, NoneLose, kills, InstallShapes, Installs
  <2>2. install'.did = "killsInRename"
    BY <2>1 DEF Restart, NoInstall
  <2>3. QED BY <2>2 DEF Plain
<1>3. /\ disk' = Wiped \/ disk' = disk
      /\ marker \in {"downloads_done", "running"} => disk' = disk
      /\ marker' = marker /\ models' = models /\ call' = NoCall /\ call'.kind = "none"
      /\ restoring' = (marker \in {"waiting", "downloading"})
      /\ installer' = [at |-> "idle", queued |-> IF marker \in {"downloads_done", "running"} THEN 1 ELSE 0]
  BY DEF Restart, NoCall
<1>4. Blank'
  <2>1. disk \in FileShapes /\ Wiped \in FileShapes
    BY <1>1, WipedIs DEF Shapes, FileShapes
  <2>2. QED BY <2>1 DEF Restart, Blank, FileShapes
<1>5. QueueInv'
  BY <1>4, BlankIsFine, PTL
<1>6. NoneUnderWay'
  BY <1>4 DEF Blank, NoneUnderWay, Served, Turn, At, P, AtTop, Holding
<1>7. ASSUME NEW f \in Files
      PROVE  disk'[f].done \in {<<>>, Whole} /\ Counts(disk'[f].partial) /\ Length(f)' # Size
  <2>1. CASE disk' = disk
    BY <1>1, <1>2, <2>1 DEF Content, FileOK, NoneRenames, Length
  <2>2. CASE disk' = Wiped
    <3>1. disk'[f].done = <<>> /\ disk'[f].partial = <<>> /\ Len(<<>>) = 0 /\ Size # 0
      BY <2>2, DownloadAssumption DEF Wiped, DownloadAssumption
    <3>2. QED BY <3>1, CountsOn DEF Length
  <2>3. QED BY <1>3, <2>1, <2>2
<1>8. Content'
  BY <1>5, <1>6, <1>7, NothingLeftContent
<1>9. install'.multi = 0
  BY DEF Restart, NoInstall
<1>10. Installing' <=> marker \in {"downloads_done", "running"}
  BY <1>3 DEF Installing
<1>11. marker \in {"downloads_done", "running"} => AllWhole'
  BY <1>1, <1>3 DEF Kept, AllWhole
<1>12. Kept'
  BY <1>1, <1>3, <1>6, <1>9, <1>10, <1>11 DEF Kept, fetching, NoneUnderWay
<1>13. QED BY <1>8, <1>12

\* A multi-file job that is canceled stays so.
LEMMA CancelStays ==
    ASSUME QueueInv, NEW w \in Workers, WorkerStep(w), NEW m \in Multis, multi[m].cancelled
    PROVE  multi'[m].cancelled
<1>1. multi \in [Multis -> MultiJobs] /\ multi[m] \in MultiJobs
  BY DEF QueueInv, Shapes
<1>2. /\ multi[m] = multi[m] /\ pause(multi[m]).cancelled /\ cancel(multi[m]).cancelled
      /\ pause(multi[m]) \in MultiJobs /\ cancel(multi[m]) \in MultiJobs
      /\ cancel_job(multi[m]).cancelled
  BY <1>1 DEF pause, cancel, cancel_job, MultiJobs
<1>3. ASSUME NEW n, NEW then, multi' = [multi EXCEPT ![n] = then], n = m => then.cancelled
      PROVE  multi'[m].cancelled
  BY <1>1, <1>3
<1>4. CASE Raise(w)
  <2>1. PICK n, mf, then :
           /\ n = parent(P(w)) /\ mf \in {multi[n], pause(multi[n]), cancel(multi[n])}
           /\ then \in {[mf EXCEPT !.active = 0], [mf EXCEPT !.active = 0, !.pending = {}]}
           /\ multi' = [multi EXCEPT ![n] = then]
    BY <1>4, ZenonT(40) DEF Raise
  <2>2. n = m => mf \in {multi[m], pause(multi[m]), cancel(multi[m])}
    BY <2>1
  <2>3. n = m => mf \in MultiJobs /\ mf.cancelled
    BY <1>1, <1>2, <2>2
  <2>4. n = m => then.cancelled
    BY <2>1, <2>3 DEF MultiJobs
  <2>5. QED BY <1>3, <2>1, <2>4
<1>5. CASE SubmitNext(w)
  BY <1>1, <1>5 DEF SubmitNext, _submit_next_mfd_part, MultiJobs
<1>6. CASE Start(w)
  <2>1. PICK n, status : n = parent(P(w)) /\ multi' = [multi EXCEPT ![n].status = status]
    BY <1>6 DEF Start
  <2>2. QED BY <1>1, <2>1 DEF MultiJobs
<1>7. CASE Complete(w)
  <2>1. PICK n, status : n = parent(P(w)) /\ multi' = [multi EXCEPT ![n].active = 0, ![n].status = status]
    BY <1>7 DEF Complete
  <2>2. QED BY <1>1, <2>1 DEF MultiJobs
<1>8. ASSUME NEW stops \in BOOLEAN, Progress(w, stops) PROVE multi'[m].cancelled
  <2>1. PICK n : multi' = multi \/ multi' = [multi EXCEPT ![n] = cancel_job(multi[n])]
    BY <1>8 DEF Progress
  <2>2. QED BY <1>1, <1>2, <1>3, <2>1
<1>9. ASSUME NEW wipes \in BOOLEAN, Parent(w, wipes) PROVE multi'[m].cancelled
  <2>1. PICK n, status : multi' = multi \/ multi' = [multi EXCEPT ![n].status = status]
    BY <1>9 DEF Parent
  <2>2. QED BY <1>1, <2>1 DEF MultiJobs
<1>10. ASSUME NEW wipes \in BOOLEAN, Error(w, wipes) PROVE multi'[m].cancelled
  <2>1. PICK n, mf, then : /\ mf = [multi[n] EXCEPT !.active = 0]
                           /\ then \in {mf, [mf EXCEPT !.status = "error", !.pending = {}]}
                           /\ multi' = [multi EXCEPT ![n] = then]
    BY <1>10 DEF Error
  <2>2. n = m => then.cancelled
    <3>1. n = m => mf = [multi[m] EXCEPT !.active = 0]
      BY <2>1
    <3>2. n = m => mf.cancelled /\ mf \in MultiJobs
      BY <1>1, <3>1 DEF MultiJobs
    <3>3. QED BY <2>1, <3>2 DEF MultiJobs
  <2>3. QED BY <1>3, <2>1, <2>2
<1>11. CASE Step(w) /\ ~Raise(w) /\ ~SubmitNext(w)
  BY <1>11 DEF Step, GetJob, Exit, Finally, Request, RequestFails, ResumeRefused, NothingToFetch, Answered,
               Receive, Breaks, Received, Rename
<1>12. QED BY <1>4, <1>5, <1>6, <1>7, <1>8, <1>9, <1>10, <1>11 DEF WorkerStep

\* One that ended with the callback of a part that was paused, canceled or failed.
LEMMA EndedIsNotServed ==
    ASSUME QueueInv, NEW w \in Workers, NEW wipes \in BOOLEAN, Parent(w, wipes) \/ Error(w, wipes)
    PROVE  \E m \in Multis : m = parent(P(w)) /\ ~Served(m)'
<1>1. work[w].at \in Holding /\ WorkerStep(w)
  BY DEF Parent, Error, Holding, WorkerStep
<1>2. PICK m \in Multis, f \in Files :
         At(w, m, f) /\ P(w) \in Parts /\ P(w) = <<m, f>> /\ parent(P(w)) = m /\ file(P(w)) = f
  BY <1>1, HeldPart
<1>3. in_terminal_state(multi'[m])
  <2>1. CASE Parent(w, wipes)
    <3>1. Becomes(m, job[P(w)].status) /\ work[w].at = "parent"
      BY <1>1, <1>2, <2>1, WorkerStatus DEF Parent
    <3>2. job[P(w)].status \in {"paused", "cancelled"}
      BY <1>2, <3>1, Alone DEF HeldOK, StatusAt
    <3>3. QED BY <3>1, <3>2 DEF Becomes, in_terminal_state
  <2>2. CASE Error(w, wipes)
    BY <1>1, <1>2, <2>2, WorkerStatus DEF Becomes, in_terminal_state
  <2>3. QED BY <2>1, <2>2
<1>4. QueueInv' /\ parent(P(w)) = m
  BY <1>1, <1>2, WorkerKeeps
<1>5. ~Served(m)'
  BY <1>3, <1>4 DEF QueueInv, MultiOK, Served, Turn, QueuedOK, HeldOK, TurnOK
<1>6. QED BY <1>5, <1>4

\* What a worker's callbacks make of the install.
Tells(w) ==
    \/ UNCHANGED installVars
    \/ /\ install'.status # "cancelled" \/ install'.status = install.status
       /\ installer' = installer /\ marker' \in {"downloading", "none", "paused", marker}
    \/ /\ \E wipes \in BOOLEAN : Parent(w, wipes)
       /\ installer' = installer /\ marker' \in {"none", "paused", marker}
    \/ /\ Complete(w) /\ AllComplete(w) /\ parent(P(w)) \in cache
       /\ install'.status = "downloads_done" /\ marker' = "downloads_done"
       /\ installer' = [installer EXCEPT !.queued = @ + 1]

LEMMA WorkerTells ==
    ASSUME InstallShapes, NEW w \in Workers, Worker(w)
    PROVE  /\ Tells(w) /\ UNCHANGED <<models, call, restoring>> /\ install'.multi = install.multi
           /\ \E stops \in BOOLEAN :
                /\ stops => install.status = "cancelled" /\ work[w].at \in Holding
                /\ \/ Step(w) \/ Start(w) \/ Complete(w) \/ Progress(w, stops)
                   \/ \E wipes \in BOOLEAN : Parent(w, wipes) \/ Error(w, wipes)
           /\ work[w].at \notin Holding => UNCHANGED installVars
<1> DEFINE m == parent(P(w))
<1>1. install \in Installs
  BY DEF InstallShapes
<1>2. CASE Step(w) /\ UNCHANGED installVars
  BY <1>2 DEF Tells, installVars
<1>3. CASE Start(w) /\ IF StartsMulti(w) THEN _download_started_callback(m) ELSE UNCHANGED installVars
  BY <1>1, <1>3 DEF Tells, installVars, _download_started_callback, Installs, Start, Holding
<1>4. CASE Progress(w, m \in cache /\ install.status = "cancelled") /\ UNCHANGED installVars
  <2>1. PICK stops \in BOOLEAN : stops = (m \in cache /\ install.status = "cancelled")
    OBVIOUS
  <2>2. work[w].at \in Holding /\ Progress(w, stops)
    BY <1>4, <2>1 DEF Progress, Holding
  <2>3. QED BY <1>4, <2>1, <2>2 DEF Tells, installVars
<1>5. CASE Complete(w) /\ IF AllComplete(w) THEN _download_complete_callback(m) ELSE UNCHANGED installVars
  BY <1>1, <1>5 DEF Tells, installVars, _download_complete_callback, Installs, Complete, Holding
<1>6. CASE /\ Parent(w, EndsMulti(w) /\ Cancels(m))
           /\ IF EndsMulti(w) THEN _download_cancelled_callback(m) ELSE UNCHANGED installVars
  <2>1. PICK wipes \in BOOLEAN : Parent(w, wipes)
    BY <1>6
  <2>2. work[w].at \in Holding
    BY <2>1 DEF Parent, Holding
  <2>3. QED BY <1>1, <1>6, <2>1, <2>2 DEF Tells, installVars, _download_cancelled_callback, Installs
<1>7. CASE /\ Error(w, EndsMulti(w) /\ m \in cache)
           /\ IF EndsMulti(w) THEN _download_error_callback(m) ELSE UNCHANGED installVars
  <2>1. PICK wipes \in BOOLEAN : Error(w, wipes)
    BY <1>7
  <2>2. work[w].at \in Holding
    BY <2>1 DEF Error, Holding
  <2>3. QED BY <1>1, <1>7, <2>1, <2>2 DEF Tells, installVars, _download_error_callback, Installs
<1>8. QED BY <1>2, <1>3, <1>4, <1>5, <1>6, <1>7 DEF Worker

\* The last part's callback queues the install when all files are there.
LEMMA CompletedIsWhole ==
    ASSUME Sound, NEW w \in Workers, Complete(w), AllComplete(w), parent(P(w)) \in cache
    PROVE  AllWhole' /\ call.kind # "cancelling"
<1>1. /\ QueueInv /\ Shapes /\ InstallShapes /\ Sole /\ Content /\ Kept /\ work[w].at = "complete"
      /\ work[w].at \in Holding
  BY SoundIs DEF Complete, Holding
<1>2. PICK m \in Multis, f \in Files :
         At(w, m, f) /\ P(w) \in Parts /\ P(w) = <<m, f>> /\ parent(P(w)) = m /\ file(P(w)) = f
  BY <1>1, HeldPart
<1>3. disk[f].done = Whole /\ ~multi[m].cancelled
  BY <1>1, <1>2 DEF Content, HandOK, InHand, Writes, Looks
<1>4. Served(m) /\ m = install.multi /\ m # 0
  BY <1>1, <1>2, DownloadAssumption DEF DownloadAssumption, Sole, Served, Turn
<1>5. multi[m].parts = Files
  BY <1>1, <1>4 DEF Kept
<1>6. \A g \in Files : disk[g].done = Whole
  BY <1>1, <1>2, <1>3, <1>4, <1>5 DEF AllComplete, Content, DoneOK
<1>7. disk' = disk
  BY DEF Complete
<1>8. QED BY <1>1, <1>3, <1>4, <1>6, <1>7 DEF AllWhole, Kept

LEMMA WorkerSound ==
    ASSUME Sound, ServiceInv', NEW w \in Workers, Worker(w), Plain'
    PROVE  Content' /\ Kept'
<1> DEFINE m == parent(P(w))
<1>1. /\ QueueInv /\ Shapes /\ InstallShapes /\ Calls /\ Sole /\ Phases /\ Content /\ Kept
      /\ Steady /\ WorkerStep(w)
  BY SoundIs, WorkerIsStep
<1>2. /\ Tells(w) /\ UNCHANGED <<models, call, restoring>> /\ install'.multi = install.multi
      /\ work[w].at \notin Holding => UNCHANGED installVars
  BY <1>1, WorkerTells
<1>3. Content'
  <2>1. PICK stops \in BOOLEAN :
          /\ stops => install.status = "cancelled" /\ work[w].at \in Holding
          /\ \/ Step(w) \/ Start(w) \/ Complete(w) \/ Progress(w, stops)
             \/ \E wipes \in BOOLEAN : Parent(w, wipes) \/ Error(w, wipes)
    BY <1>1, WorkerTells
  <2>2. stops => multi[m].cancelled
    BY <1>1, <2>1, HeldIsServed DEF Kept
  <2>3. QED BY <1>1, <2>1, <2>2, WorkerContent
<1>4. /\ \A n \in Multis : multi'[n].parts = multi[n].parts
      /\ \A n \in Multis : Served(n)' => Served(n)
      /\ \A n \in Multis : multi[n].cancelled => multi'[n].cancelled
  BY <1>1, WorkerTouches, WorkerServes, CancelStays DEF SameParts
<1>5. call'.kind = "cancelling" \/ install.status = "cancelled"
          => \A n \in Multis : Served(n)' => multi'[n].cancelled
  BY <1>1, <1>2, <1>4 DEF Kept
<1>6. CASE NoneUnderWay
  <2>1. disk' = disk /\ work[w].at \notin Holding
    BY <1>1, <1>6, NothingToDo
  <2>2. UNCHANGED <<install, marker, installer>>
    BY <1>2, <2>1 DEF installVars
  <2>3. (Installing' <=> Installing) /\ (fetching' <=> fetching) /\ (AllWhole' <=> AllWhole) /\ (NoneDone' <=> NoneDone)
    BY <1>2, <2>1, <2>2 DEF Installing, fetching, AllWhole, NoneDone
  <2>4. (~fetching' /\ Kept') \/ fetching
    <3>1. \A n \in Multis : ~Served(n)'
      BY <1>4, <1>6 DEF NoneUnderWay
    <3>2. QED BY <1>1, <1>2, <1>4, <2>1, <2>2, <2>3, <3>1, KeptOn DEF Kept, NoneUnderWay
  <2>5. CASE fetching
    <3>1. \A n \in Multis : ~Served(n)'
      BY <1>4, <1>6 DEF NoneUnderWay
    <3>2. install'.multi # 0 => multi'[install'.multi].parts = Files
      BY <1>1, <1>4, <2>2 DEF Kept, InstallShapes, Installs
    <3>3. ~Installing' /\ marker' \notin {"downloads_done", "running"}
      BY <1>1, <2>2, <2>3, <2>5 DEF Phases, Installing, Kept
    <3>4. Kept'
      BY <1>1, <1>2, <2>3, <3>1, <3>2, <3>3 DEF Kept
    <3>5. QED BY <1>3, <3>4
  <2>6. QED BY <1>3, <2>4, <2>5
<1>7. CASE ~NoneUnderWay
  <2>1. ~fetching /\ ~Installing /\ marker \notin {"downloads_done", "running"} /\ ~fetching'
    BY <1>1, <1>2, <1>7 DEF Sole, Phases, Installing, Kept, fetching
  <2>2. CASE /\ Complete(w) /\ AllComplete(w) /\ parent(P(w)) \in cache
             /\ install'.status = "downloads_done" /\ marker' = "downloads_done"
             /\ installer' = [installer EXCEPT !.queued = @ + 1]
    <3>1. AllWhole' /\ call'.kind # "cancelling"
      BY <1>2, <2>2, CompletedIsWhole
    <3>2. Phases' /\ installer \in [at : {"idle", "marked", "moving", "finish", "stopped"}, queued : Nat]
      BY <1>1 DEF ServiceInv, Plain, InstallShapes
    <3>3. installer'.queued = 1
      <4>1. PICK k \in Nat : k = installer.queued
        BY <3>2
      <4>2. installer'.queued = k + 1
        BY <2>2, <3>2, <4>1
      <4>3. QED BY <3>2, <4>2 DEF Phases
    <3>4. NoneUnderWay' /\ ~restoring'
      BY <3>2, <3>3 DEF Phases
    <3>5. QED BY <1>1, <1>2, <1>3, <1>4, <2>1, <2>2, <3>1, <3>3, <3>4 DEF Kept, InstallShapes, Installs
  <2>3. CASE /\ installer' = installer /\ marker' \in {"downloading", "none", "paused", marker}
             /\ install'.status = "cancelled" => \A n \in Multis : Served(n)' => multi'[n].cancelled
    <3>1. ~Installing' /\ marker' \notin {"downloads_done", "running"}
      BY <2>1, <2>3 DEF Installing
    <3>2. Kept'
      BY <1>2, <1>4, <1>5, <2>1, <2>3, <3>1, KeptOn
    <3>3. QED BY <1>3, <3>2
  <2>4. CASE UNCHANGED installVars
    BY <1>5, <2>3, <2>4 DEF installVars
  <2>5. CASE /\ install'.status # "cancelled" \/ install'.status = install.status
             /\ installer' = installer /\ marker' \in {"downloading", "none", "paused", marker}
    BY <1>5, <2>3, <2>5
  <2>6. CASE /\ \E wipes \in BOOLEAN : Parent(w, wipes)
             /\ installer' = installer /\ marker' \in {"none", "paused", marker}
    <3>1. work[w].at \in Holding
      BY <2>6 DEF Parent, Holding
    <3>2. PICK k \in Multis : k = m /\ ~Served(k)'
      BY <1>1, <2>6, EndedIsNotServed
    <3>3. k = install.multi
      BY <1>1, <3>1, <3>2, HeldIsServed DEF Sole
    <3>4. \A n \in Multis : Served(n)' => n = k
      BY <1>1, <1>4, <3>3 DEF Sole
    <3>5. \A n \in Multis : ~Served(n)'
      BY <3>2, <3>4
    <3>6. QED BY <2>3, <2>6, <3>5
  <2>7. QED BY <1>2, <2>2, <2>4, <2>5, <2>6 DEF Tells
<1>8. QED BY <1>6, <1>7

WholeKept == Plain => Content /\ Kept

LEMMA WholeKeptHolds ==
    ServiceInv /\ ServiceInv' /\ KeptIn /\ WholeKept /\ [Next]_vars => WholeKept'
<1> SUFFICES ASSUME ServiceInv, ServiceInv', KeptIn, WholeKept, [Next]_vars, Plain'
             PROVE  Content' /\ Kept'
  BY DEF WholeKept
<1>1. CASE UNCHANGED vars
  <2>1. /\ UNCHANGED <<job, multi, queue, work, disk>>
        /\ UNCHANGED <<install, call, marker, installer, models, restoring>>
    BY <1>1 DEF vars, downloadVars, installVars
  <2>2. Content /\ Kept /\ QueueInv
    BY <2>1 DEF WholeKept, Plain, ServiceInv
  <2>3. Content'
    BY <2>1, <2>2, FlagsContent DEF JobsAsked
  <2>4. Kept'
    BY <2>1, <2>2 DEF Kept, Installing, fetching, AllWhole, NoneDone, NoneUnderWay, Served, Turn, At, P
  <2>5. QED BY <2>3, <2>4
<1>2. CASE Next
  <2>1. Plain
    BY <1>2, DidStays DEF ServiceInv, Plain
  <2>2. Sound
    BY <2>1 DEF Sound, WholeKept, KeptIn, Plain
  <2>3. ~restart_failed /\ ~restart_file
    <3>1. ASSUME NEW way \in {"restartsFailed", "restartsFile"}, NEW S,
                 install' = [departed(early(way)) EXCEPT !.status = S]
          PROVE  FALSE
      <4>1. early(way) \in {way, "actsEarly"}
        BY DEF early
      <4>2. install'.did = early(way)
        BY <3>1 DEF departed, ServiceInv, InstallShapes, Installs
      <4>3. QED BY <4>1, <4>2 DEF Plain
    <3>2. QED BY <3>1 DEF restart_failed, restart_file, Fetches
  <2>4. ASSUME NEW w \in Workers, Worker(w) PROVE Content' /\ Kept'
    BY <2>2, <2>4, WorkerSound
  <2>5. QED BY <1>2, <2>2, <2>3, <2>4, PauseSound, ResumeSound, AskSound, CancelSound, RemoveSound,
               BeginSound, InstallSound, MovesSound, StopSound, RestartSound
            DEF Next, Requests, InstallThread
<1>3. QED BY <1>1, <1>2

LEMMA InitIsKept ==
    Init => KeptIn /\ WholeKept
<1> SUFFICES ASSUME Init PROVE KeptIn /\ Content /\ Kept
  BY DEF WholeKept
<1>1. QueueInv /\ ServiceInv
  BY InitIsFine DEF ServiceInv
<1>2. /\ work = [w \in Workers |-> AtTop] /\ disk = Wiped /\ Size \in Nat \ {0} /\ queue = {}
      /\ marker = "none" /\ call = NoCall /\ call.kind = "none" /\ models = <<>>
      /\ installer = [at |-> "idle", queued |-> 0] /\ install.multi = 0 /\ install.status = "none"
  BY DownloadAssumption DEF Init, DownloadInit, Wiped, DownloadAssumption, NoCall, NoInstall
<1>3. \A w \in Workers : work[w].at = "top" /\ work[w].next = 0 /\ work[w].at \notin Holding
  BY <1>2 DEF AtTop, Holding
<1>4. Len(<<>>) = 0 /\ \A f \in Files : disk[f].partial = <<>> /\ disk[f].done = <<>>
  BY <1>2 DEF Wiped
<1>5. \A f \in Files : Length(f) = 0
  BY <1>4 DEF Length
<1>6. KeptIn
  BY <1>2, <1>3, <1>5 DEF KeptIn, Bounded, LengthsOK, WriterOK
<1>7. NoneUnderWay
  BY <1>2, <1>3 DEF NoneUnderWay, Served, Turn, At
<1>8. Content
  <2>1. \A f \in Files : FileOK(f)
    BY <1>2, <1>4, <1>5, CountsOn DEF FileOK
  <2>2. (\A w \in Workers : HandOK(w)) /\ \A m \in Multis : DoneOK(m)
    BY <1>3, <1>7 DEF HandOK, DoneOK, NoneUnderWay
  <2>3. QED BY <1>2, <2>1, <2>2 DEF Content
<1>9. Kept
  <2>1. models \in Seq([Files -> {Whole}])
    BY <1>2
  <2>2. QED BY <1>2, <2>1 DEF Kept, Installing, fetching
<1>10. QED BY <1>6, <1>8, <1>9

\* What is registered as a model is all of it: however often its download was paused,
\* refused, resumed, cut off with the process, or canceled, and however these fall among
\* the steps of the workers and the install thread, the files that the install thread
\* moves are whole, because the download that queued it completed each of them since the
\* directory was last removed.
THEOREM ModelsWhole == Spec => []InstalledWhole
<1>1. Init => KeptIn /\ WholeKept
  BY InitIsKept
<1>2. WholeKept => InstalledWhole
  BY DEF WholeKept, InstalledWhole, Plain, Kept
<1>3. QED BY <1>1, <1>2, KeptInHolds, WholeKeptHolds, ServiceHolds, PTL DEF Spec

-------------------------------------------------------------------------------
(* Downloads of which nobody asked anything but to pause and to go on.     *)

LeftAlone == install.did = "nothing" /\ ~install.asked

\* A part is stopped only by a pause, or as the server refuses to resume it.
FlagsOK(m) ==
    /\ \A f \in multi[m].parts : job[<<m, f>>].cancelled
           => /\ job[<<m, f>>].paused
              /\ job[<<m, f>>].resume_required \/ install.status = "paused"
    /\ install.status \in {"downloading", "paused"} => multi[m].status # "waiting"
    /\ call.kind = "pausing" => install.status = "paused"

Unasked ==
    /\ install.status # "cancelled" /\ installer.at # "stopped"
    /\ \A m \in Multis : Served(m) => FlagsOK(m)
    /\ \A p \in queue : ~multi[parent(p)].cancelled
    /\ \A w \in Workers : work[w].at \in Holding /\ work[w].at # "parent" => ~multi[parent(P(w))].cancelled

\* When nothing is left under way, only the phase matters.
LEMMA NothingUnasked ==
    ASSUME QueueInv', NoneUnderWay', install'.status # "cancelled", installer'.at # "stopped"
    PROVE  Unasked'
<1>1. queue' = {} /\ \A w \in Workers : work'[w].at \notin Holding
  <2>1. QueueInv /\ NoneUnderWay => queue = {} /\ \A w \in Workers : work[w].at \notin Holding
    BY NothingToDo
  <2>2. (QueueInv /\ NoneUnderWay)' => (queue = {} /\ \A w \in Workers : work[w].at \notin Holding)'
    BY <2>1, NothingToDo, PTL
  <2>3. QED BY <2>2
<1>2. QED BY <1>1 DEF Unasked, NoneUnderWay

\* A pause, up to its end.
LEMMA PauseUnasked ==
    ASSUME Sound, Unasked, LeftAlone', PauseBegins \/ PauseEnds
    PROVE  Unasked'
<1>1. QueueInv /\ Shapes /\ InstallShapes /\ Calls
  BY SoundIs
<1>2. SameService
  BY <1>1, AskedSame DEF AsksOnly
<1>3. /\ UNCHANGED <<multi, queue, work, installer>>
      /\ \A w \in Workers : P(w)' = P(w)
  BY DEF PauseBegins, Pauses, PauseEnds, downloadVars, P
<1>4. CASE PauseBegins
  <2>1. install.status = "downloading" /\ install'.status = "paused" /\ job' = job
    BY <1>1, <1>4 DEF PauseBegins, Pauses, departed, LeftAlone, InstallShapes, Installs, downloadVars
  <2>2. ASSUME NEW m \in Multis, Served(m)' PROVE FlagsOK(m)'
    <3>1. FlagsOK(m)
      BY <1>2, <2>2 DEF SameService, Unasked
    <3>2. QED BY <1>3, <2>1, <3>1 DEF FlagsOK
  <2>3. QED BY <1>3, <2>1, <2>2 DEF Unasked
<1>5. CASE PauseEnds
  <2>1. /\ job' = pausedParts /\ call.kind = "pausing" /\ call'.kind = "none" /\ install' = install
    BY <1>5 DEF PauseEnds, NoCall
  <2>2. ASSUME NEW m \in Multis, Served(m)' PROVE FlagsOK(m)'
    <3>1. FlagsOK(m) /\ install.status = "paused"
      BY <1>2, <2>1, <2>2 DEF SameService, Unasked, FlagsOK
    <3>2. ASSUME NEW f \in multi[m].parts, job'[<<m, f>>].cancelled PROVE job'[<<m, f>>].paused
      <4>1. PICK p \in Parts : p = <<m, f>>
        BY <1>1, PartsArePairs DEF Shapes, MultiJobs
      <4>2. job[p] \in Jobs /\ job'[p] \in {job[p], pause_job(job[p])}
        BY <1>1, <2>1 DEF Shapes, pausedParts
      <4>3. job[p].cancelled => job[p].paused
        BY <3>1, <4>1 DEF FlagsOK
      <4>4. job'[p].cancelled => job'[p].paused
        BY <4>2, <4>3 DEF pause_job, pause, Jobs
      <4>5. QED BY <3>2, <4>1, <4>4
    <3>3. QED BY <1>3, <2>1, <3>1, <3>2 DEF FlagsOK
  <2>3. QED BY <1>3, <2>1, <2>2 DEF Unasked
<1>6. QED BY <1>4, <1>5

\* A new download.
LEMMA BeginUnasked ==
    ASSUME Sound, Unasked, import_model \/ Fetched \/ Restored
    PROVE  Unasked'
<1>1. /\ QueueInv /\ Shapes /\ InstallShapes /\ Calls /\ Sole /\ Phases /\ Kept
  BY SoundIs
<1>2. PICK changed \in Installs :
         /\ enqueue(Files, {}, changed) /\ changed.status = "waiting" /\ NoneUnderWay /\ call' = NoCall
  <2>1. CASE import_model
    <3>1. [NoInstall EXCEPT !.status = "waiting", !.did = install.did] \in Installs
          /\ [NoInstall EXCEPT !.status = "waiting", !.did = install.did].status = "waiting"
      BY <1>1 DEF NoInstall, Installs, InstallStatus, InstallShapes
    <3>2. NoneUnderWay /\ call' = NoCall
      BY <1>1, <2>1 DEF import_model, Ready, Sole
    <3>3. QED BY <2>1, <3>1, <3>2 DEF import_model
  <2>2. CASE Fetched
    <3>1. enqueue(Files, {}, install) /\ install.status = "waiting" /\ NoneUnderWay /\ call' = NoCall
      BY <1>1, <2>2 DEF Fetched, Kept, Phases, fetching, Sole
    <3>2. QED BY <1>1, <3>1 DEF InstallShapes
  <2>3. CASE Restored
    <3>1. [install EXCEPT !.status = "waiting"] \in Installs
          /\ [install EXCEPT !.status = "waiting"].status = "waiting"
      BY <1>1 DEF InstallShapes, Installs, InstallStatus
    <3>2. NoneUnderWay /\ call' = NoCall
      BY <1>1, <2>3 DEF Restored, Sole, Calls
    <3>3. QED BY <2>3, <3>1, <3>2 DEF Restored
  <2>4. QED BY <2>1, <2>2, <2>3
<1>3. PICK m \in Multis : Begun(m, Files, {}, changed)
  BY <1>1, <1>2, EnqueueIs, DownloadAssumption DEF DownloadAssumption
<1>4. queue = {} /\ \A w \in Workers : work[w].at \notin Holding
  BY <1>1, <1>2, NothingToDo
<1>5. /\ install'.status = "waiting" /\ installer' = installer /\ call'.kind = "none" /\ job' = job
      /\ work' = unlinked(work, {}) /\ multi[m].parts = {} /\ ~multi'[m].cancelled /\ multi'[m].parts = Files
      /\ \A p \in queue' : parent(p) = m
      /\ \A n \in Multis : n # m => ~Served(n)'
  BY <1>2, <1>3, <1>4 DEF Begun, Installs, NoCall, NoneUnderWay
<1>6. \A w \in Workers : work'[w].at \notin Holding
  BY <1>1, <1>4, <1>5, UnlinkedIs DEF Shapes
<1>7. \A f \in Files : job[<<m, f>>] = NewJob
  BY <1>1, <1>5 DEF QueueInv, MultiOK, PartsOK
<1>8. \A f \in Files : ~job'[<<m, f>>].cancelled
  BY <1>5, <1>7 DEF NewJob
<1>9. FlagsOK(m)'
  BY <1>5, <1>8 DEF FlagsOK
<1>10. QED BY <1>5, <1>6, <1>9 DEF Unasked


\* Steps that find nothing under way.
LEMMA RestUnasked ==
    ASSUME Sound, Unasked, LeftAlone', resume_job \/ FetchFails \/ InstallThread \/ RestoreFails
    PROVE  Unasked'
<1>1. /\ QueueInv /\ InstallShapes /\ Calls /\ Listens /\ Sole /\ Phases
      /\ install.status # "cancelled" /\ installer.at # "stopped"
  BY SoundIs DEF Sound, ServiceInv, Unasked
<1>2. SameService
  BY <1>1, AskedSame DEF AsksOnly
<1>3. CASE resume_job
  <2>1. Quiet
    <3> SUFFICES ASSUME ~Quiet PROVE FALSE
      OBVIOUS
    <3>1. install' = [departed("actsEarly") EXCEPT !.status = "waiting"]
      BY <1>3 DEF resume_job, Fetches, after
    <3>2. install'.did = "actsEarly"
      BY <1>1, <3>1 DEF departed, InstallShapes, Installs
    <3>3. QED BY <3>2 DEF LeftAlone
  <2>2. NoneUnderWay
    BY <1>1, <2>1, QuietIsDone
  <2>3. install' = [install EXCEPT !.status = "waiting"] /\ installer' = installer
    BY <1>3, <2>1 DEF resume_job, Fetches, after
  <2>4. install'.status = "waiting"
    BY <1>1, <2>3 DEF InstallShapes, Installs
  <2>5. QED BY <1>1, <1>2, <2>2, <2>3, <2>4, NothingUnasked DEF SameService
<1>4. CASE FetchFails \/ RestoreFails
  <2>1. NoneUnderWay
    BY <1>1, <1>4 DEF FetchFails, RestoreFails, Sole, fetching
  <2>2. installer' = installer /\ install'.status \in {install.status, "error"}
    BY <1>1, <1>4 DEF FetchFails, RestoreFails, InstallShapes, Installs
  <2>3. QED BY <1>1, <1>2, <2>1, <2>2, NothingUnasked DEF SameService
<1>5. CASE InstallThread
  <2>1. NoneUnderWay
    BY <1>1, <1>5 DEF InstallThread, InstallTakes, InstallUnmarks, InstallMoves, InstallFails,
                      InstallFinishes, Phases
  <2>2. installer'.at # "stopped" /\ install'.status \in {install.status, "running", "completed", "error"}
    BY <1>1, <1>5 DEF InstallThread, InstallTakes, InstallUnmarks, InstallMoves, InstallFails,
                      InstallFinishes, InstallShapes, Installs
  <2>3. QED BY <1>1, <1>2, <2>1, <2>2, NothingUnasked DEF SameService
<1>6. QED BY <1>3, <1>4, <1>5

LEMMA RestartUnasked ==
    ASSUME Sound, QueueInv', LeftAlone', Restart
    PROVE  Unasked'
<1>1. InstallShapes
  BY SoundIs
<1>2. queue' = {} /\ work' = [w \in Workers |-> AtTop] /\ installer'.at = "idle"
  BY DEF Restart
<1>3. \A w \in Workers : work'[w].at \notin Holding
  BY <1>2 DEF AtTop, Holding
<1>4. NoneUnderWay'
  BY <1>2, <1>3 DEF NoneUnderWay, Served, Turn, At
<1>5. install'.status # "cancelled"
  BY <1>1 DEF Restart, InstallShapes, NoInstall, after, departed
<1>6. QED BY <1>2, <1>4, <1>5, NothingUnasked

\* Steps of the worker w that has the only part in hand.
LEMMA UnaskedOn ==
    ASSUME Sound, Unasked, NEW w \in Workers, NEW m \in Multis, NEW f \in Files, At(w, m, f),
           WorkerStep(w), FlagsOK(m)', install'.status # "cancelled", installer' = installer,
           ~multi'[m].cancelled \/ (work'[w].at = "parent" /\ queue' = {})
    PROVE  Unasked'
<1>1. QueueInv /\ Sole
  BY SoundIs
<1>2. queue = {} /\ Lone /\ \A n \in Multis : Served(n) => n = m
  BY <1>1, OnlyOne
<1>3. /\ OtherWorkers(w)
      /\ \A n \in Multis, g \in Files :
             <<n, g>> \in queue' => <<n, g>> \in queue \/ \E h \in Files : At(w, n, h)
      /\ \A n \in Multis, g \in Files : At(w, n, g)' => <<n, g>> \in queue \/ At(w, n, g)
  BY <1>1, WorkerTouches
<1>4. QueueInv' /\ P(w) = <<m, f>> /\ work[w].at \in Holding
  BY <1>1, WorkerKeeps DEF At
<1>5. \A n \in Multis : Served(n)' => n = m
  BY <1>1, <1>2, WorkerServes
<1>6. ASSUME NEW p \in queue' PROVE ~multi'[parent(p)].cancelled
  <2>1. p \in Parts
    BY <1>4 DEF QueueInv, Shapes
  <2>2. PICK n \in Multis, g \in Files : p = <<n, g>> /\ parent(p) = n
    BY <2>1, PartsArePairs
  <2>3. n = m
    BY <1>2, <1>3, <1>4, <2>2 DEF At
  <2>4. QED BY <1>6, <2>2, <2>3
<1>7. ASSUME NEW v \in Workers, work'[v].at \in Holding, work'[v].at # "parent"
      PROVE  \E p \in Parts : p = P(v)' /\ ~multi'[parent(p)].cancelled
  <2>1. v = w
    BY <1>2, <1>3, <1>4, <1>7 DEF Lone, OtherWorkers
  <2>2. PICK n \in Multis, g \in Files : At(v, n, g)' /\ P(v)' = <<n, g>>
    <3>1. QueueInv' /\ work'[v].at \in Holding
               => \E n \in Multis, g \in Files : At(v, n, g)' /\ P(v)' = <<n, g>>
      <4>1. QueueInv' => P(v)' \in Parts \cup {None}
        BY DEF QueueInv, Shapes, Places, P
      <4>2. QueueInv' /\ work'[v].at \in Holding => P(v)' # None
        BY DEF QueueInv, WorkerOK, Holding
      <4>3. QED BY <4>1, <4>2, PartsArePairs DEF At
    <3>2. QED BY <1>4, <1>7, <3>1
  <2>3. n = m
    BY <1>2, <1>3, <1>4, <2>1, <2>2 DEF At
  <2>4. QED BY <1>7, <2>1, <2>2, <2>3, PartsArePairs
<1>8. QED BY <1>5, <1>6, <1>7 DEF Unasked


\* What such steps make of the flags of the parts, if the multi-file job is not canceled.
GoesOrRefused(m) ==
    \A g \in Files :
        \/ /\ job'[<<m, g>>].cancelled = job[<<m, g>>].cancelled
           /\ job'[<<m, g>>].paused = job[<<m, g>>].paused
           /\ job'[<<m, g>>].resume_required = job[<<m, g>>].resume_required
        \/ job'[<<m, g>>].paused /\ job'[<<m, g>>].resume_required

LEMMA FlagsGoOn ==
    ASSUME QueueInv, NEW w \in Workers, NEW m \in Multis, NEW f \in Files, At(w, m, f),
           FlagsOK(m), ~multi[m].cancelled \/ work[w].at = "parent",
           \/ Step(w) \/ Start(w) \/ Complete(w)
           \/ \E stops \in BOOLEAN : Progress(w, stops)
    PROVE  GoesOrRefused(m)
<1>1. P(w) = <<m, f>> /\ parent(P(w)) = m /\ <<m, f>> \in Parts /\ job \in [Parts -> Jobs] /\ work[w].at \in Holding
  BY PartsArePairs DEF At, QueueInv, Shapes
<1>2. HeldOK(w, m, f)
  BY Alone
<1>3. ASSUME job' = job PROVE GoesOrRefused(m)
  BY <1>3 DEF GoesOrRefused
<1>4. ASSUME NEW status, job' = [job EXCEPT ![<<m, f>>].status = status] PROVE GoesOrRefused(m)
  <2>1. \A p \in Parts : /\ job'[p].cancelled = job[p].cancelled /\ job'[p].paused = job[p].paused
                         /\ job'[p].resume_required = job[p].resume_required
    BY <1>1, <1>4 DEF Jobs
  <2>2. QED BY <2>1, PartsArePairs DEF GoesOrRefused
<1>5. ASSUME job' = [job EXCEPT ![<<m, f>>] = [pause(@) EXCEPT !.resume_required = TRUE]]
      PROVE  GoesOrRefused(m)
  <2>1. \A p \in Parts : job'[p] = job[p] \/ (job'[p].paused /\ job'[p].resume_required)
    BY <1>1, <1>5 DEF Jobs, pause
  <2>2. QED BY <2>1, PartsArePairs DEF GoesOrRefused
<1>6. CASE Raise(w)
  <2>1. job[<<m, f>>].paused
    <3>1. job[<<m, f>>].cancelled /\ f \in multi[m].parts
      BY <1>2, <1>6 DEF Raise, HeldOK, TurnOK
    <3>2. QED BY <3>1 DEF FlagsOK
  <2>2. job' = [job EXCEPT ![<<m, f>>].status = "paused"]
    BY <1>1, <1>6, <2>1 DEF Raise
  <2>3. QED BY <1>4, <2>2
<1>7. CASE ResumeRefused(w) \/ Breaks(w)
  <2>1. job' = job \/ job' = [job EXCEPT ![<<m, f>>] = [pause(@) EXCEPT !.resume_required = TRUE]]
    BY <1>1, <1>7 DEF ResumeRefused, Breaks
  <2>2. QED BY <1>3, <1>5, <2>1
<1>8. CASE Start(w) \/ Complete(w)
  BY <1>1, <1>4, <1>8 DEF Start, Complete
<1>9. CASE \E stops \in BOOLEAN : Progress(w, stops)
  <2>1. job' = job
    BY <1>1, <1>9 DEF Progress
  <2>2. QED BY <1>3, <2>1
<1>10. CASE Step(w) /\ ~Raise(w) /\ ~ResumeRefused(w) /\ ~Breaks(w)
  <2>1. job' = job
    BY <1>10 DEF Step, GetJob, Exit, Finally, Request, RequestFails, NothingToFetch, Answered, Receive,
                 Received, Rename, SubmitNext
  <2>2. QED BY <1>3, <2>1
<1>11. QED BY <1>6, <1>7, <1>8, <1>9, <1>10

\* A multi-file job of which nobody asked anything is canceled only with its part.
LEMMA NotCancelledOn ==
    ASSUME QueueInv, NEW w \in Workers, NEW m \in Multis, NEW f \in Files, At(w, m, f),
           ~multi[m].cancelled, Step(w) \/ Start(w) \/ Complete(w) \/ Progress(w, FALSE)
    PROVE  /\ ~multi'[m].cancelled \/ (work'[w].at = "parent" /\ queue' = queue)
           /\ multi'[m].parts = multi[m].parts
           /\ multi[m].status # "waiting" => multi'[m].status # "waiting"
<1>1. P(w) = <<m, f>> /\ parent(P(w)) = m /\ multi \in [Multis -> MultiJobs] /\ multi[m] \in MultiJobs
      /\ work \in [Workers -> Places] /\ work[w].at \in Holding
  BY PartsArePairs DEF At, QueueInv, Shapes
<1>2. ~multi'[m].cancelled \/ (work'[w].at = "parent" /\ queue' = queue)
  <2>1. CASE Raise(w)
    BY <1>1, <2>1 DEF Raise, Goes, Places
  <2>2. CASE SubmitNext(w)
    BY <1>1, <2>2 DEF SubmitNext, _submit_next_mfd_part, MultiJobs
  <2>3. CASE Start(w) \/ Complete(w)
    <3>1. PICK status : \/ multi' = [multi EXCEPT ![m].status = status]
                        \/ multi' = [multi EXCEPT ![m].active = 0, ![m].status = status]
      BY <1>1, <2>3 DEF Start, Complete
    <3>2. QED BY <1>1, <3>1 DEF MultiJobs
  <2>4. CASE \/ Progress(w, FALSE)
             \/ Step(w) /\ ~Raise(w) /\ ~SubmitNext(w)
    BY <2>4 DEF Step, GetJob, Exit, Finally, Request, RequestFails, ResumeRefused, NothingToFetch,
                Answered, Receive, Breaks, Received, Rename, Progress
  <2>5. QED BY <2>1, <2>2, <2>3, <2>4
<1>3. multi[m].status # "waiting" => multi'[m].status # "waiting"
  <2>1. Step(w) => multi'[m].status = multi[m].status
    BY StepStatus
  <2>2. Start(w) \/ Complete(w) => multi'[m].status \in {multi[m].status, "running", "completed"}
    BY <1>1, WorkerStatus DEF Becomes
  <2>3. Progress(w, FALSE) => multi' = multi
    BY DEF Progress
  <2>4. QED BY <2>1, <2>2, <2>3
<1>4. multi'[m].parts = multi[m].parts
  BY WorkerTouches DEF SameParts, WorkerStep
<1>5. QED BY <1>2, <1>3, <1>4


\* A pause, or a server that refuses to resume, does not cancel the install.
LEMMA ParentSpares ==
    ASSUME Sound, Unasked, NEW w \in Workers, NEW wipes \in BOOLEAN, Parent(w, wipes)
    PROVE  ~Cancels(parent(P(w))) /\ job[P(w)].paused
<1>1. QueueInv /\ Shapes /\ work[w].at \in Holding /\ work[w].at = "parent"
  BY SoundIs DEF Parent, Holding
<1>2. PICK m \in Multis, f \in Files :
         At(w, m, f) /\ P(w) \in Parts /\ P(w) = <<m, f>> /\ parent(P(w)) = m /\ file(P(w)) = f
  BY <1>1, HeldPart
<1>3. HeldOK(w, m, f) /\ Served(m)
  BY <1>1, <1>2, Alone DEF Served, Turn
<1>4. f \in multi[m].parts /\ job[<<m, f>>].cancelled
  BY <1>1, <1>3 DEF HeldOK, TurnOK
<1>5. job[<<m, f>>].paused /\ (job[<<m, f>>].resume_required \/ install.status = "paused")
  BY <1>3, <1>4 DEF Unasked, FlagsOK
<1>6. QED BY <1>2, <1>4, <1>5 DEF Cancels, RefusedToResume

LEMMA WorkerUnasked ==
    ASSUME Sound, Unasked, LeftAlone, NEW w \in Workers, Worker(w)
    PROVE  Unasked'
<1>1. /\ QueueInv /\ Shapes /\ InstallShapes /\ Calls /\ Listens /\ Sole /\ install \in Installs
      /\ install.status # "cancelled" /\ installer.at # "stopped" /\ WorkerStep(w)
  BY SoundIs, WorkerIsStep DEF Sound, ServiceInv, Unasked, InstallShapes
<1>2. QueueInv'
  BY <1>1, WorkerKeeps
<1>3. CASE work[w].at \notin Holding
  <2>1. UNCHANGED installVars /\ (GetJob(w) \/ Exit(w) \/ Finally(w))
    <3>1. UNCHANGED installVars
      BY <1>1, <1>3, WorkerTells
    <3>2. GetJob(w) \/ Exit(w) \/ Finally(w)
      BY <1>1, <1>3 DEF WorkerStep, Step, Start, Complete, Progress, Parent, Error, Request, RequestFails,
                        ResumeRefused, NothingToFetch, Answered, Receive, Breaks, Received, Rename,
                        SubmitNext, Raise, Holding
    <3>3. QED BY <3>1, <3>2
  <2>2. UNCHANGED <<job, multi>> /\ queue' \in SUBSET queue
    BY <2>1 DEF GetJob, Exit, Finally
  <2>3. \A n \in Multis : Served(n)' => FlagsOK(n)'
    <3>1. ASSUME NEW n \in Multis, Served(n)' PROVE FlagsOK(n)'
      <4>1. FlagsOK(n)
        BY <1>1, <3>1, WorkerServes DEF Unasked
      <4>2. QED BY <2>1, <2>2, <4>1 DEF FlagsOK, installVars
    <3>2. QED BY <3>1
  <2>4. ASSUME NEW v \in Workers, work'[v].at \in Holding
        PROVE  \E p \in queue \cup {P(v)} :
                   p = P(v)' /\ (p \in queue \/ (work[v].at \in Holding /\ work[v].at = work'[v].at))
    <3>1. CASE v # w
      <4>1. OtherWorkers(w)
        BY <1>1, WorkerTouches
      <4>2. QED BY <2>4, <3>1, <4>1 DEF OtherWorkers, P
    <3>2. CASE v = w
      <4>1. CASE Exit(w) \/ Finally(w)
        BY <1>1, <2>4, <3>2, <4>1 DEF Exit, Finally, Goes, AtTop, Holding, Shapes, Places
      <4>2. CASE GetJob(w)
        <5>1. PICK p \in queue : work' = [work EXCEPT ![w].at = "begin", ![w].part = p]
          BY <4>2 DEF GetJob
        <5>2. QED BY <1>1, <3>2, <5>1 DEF Shapes, Places, P
      <4>3. QED BY <2>1, <4>1, <4>2
    <3>3. QED BY <3>1, <3>2
  <2>5. ASSUME NEW v \in Workers, work'[v].at \in Holding, work'[v].at # "parent"
        PROVE  \E p \in Parts \cup {None} : p = P(v)' /\ ~multi'[parent(p)].cancelled
    <3>1. PICK p : p \in queue \cup {P(v)} /\ p = P(v)'
                   /\ (p \in queue \/ (p = P(v) /\ work[v].at \in Holding /\ work[v].at = work'[v].at))
      BY <2>4, <2>5
    <3>2. p \in Parts \cup {None}
      BY <1>1, <3>1 DEF Shapes, Places, P
    <3>3. ~multi[parent(p)].cancelled
      BY <2>5, <3>1 DEF Unasked
    <3>4. QED BY <2>2, <3>1, <3>2, <3>3
  <2>6. QED BY <1>1, <2>1, <2>2, <2>3, <2>5 DEF Unasked, installVars
<1>4. CASE work[w].at \in Holding
  <2>1. PICK m \in Multis, f \in Files :
           At(w, m, f) /\ P(w) \in Parts /\ P(w) = <<m, f>> /\ parent(P(w)) = m /\ file(P(w)) = f
    BY <1>1, <1>4, HeldPart
  <2>2. Served(m) /\ FlagsOK(m) /\ EndsMulti(w) /\ m \in cache /\ queue = {} /\ \A n \in Multis : Served(n) => n = m
    BY <1>1, <1>4, <2>1, HeldIsServed, OnlyOne DEF Unasked, Listens, Heard
  <2>3. \A n \in Multis : Served(n)' => n = m
    BY <1>1, <2>2, WorkerServes
  <2>4. work[w].at # "parent" => ~multi[m].cancelled
    BY <1>4, <2>1 DEF Unasked
  <2>5. ASSUME ~Served(m)', install'.status # "cancelled", installer'.at = installer.at PROVE Unasked'
    BY <1>1, <1>2, <2>3, <2>5, NothingUnasked DEF NoneUnderWay
  <2>6. ASSUME Step(w) \/ Start(w) \/ Complete(w) \/ Progress(w, FALSE),
               call' = call, installer' = installer,
               \/ install' = install
               \/ /\ install'.status = "downloading" /\ multi[m].status = "waiting" /\ multi'[m].status # "waiting"
        PROVE  Unasked'
    <3>1. work[w].at # "parent"
      BY <1>4, <2>6 DEF Step, GetJob, Exit, Finally, Request, RequestFails, ResumeRefused, NothingToFetch,
                        Answered, Receive, Breaks, Received, Rename, SubmitNext, Raise, Start, Complete,
                        Progress, Holding
    <3>2. GoesOrRefused(m)
      BY <1>1, <2>1, <2>2, <2>4, <2>6, <3>1, FlagsGoOn
    <3>3. /\ ~multi'[m].cancelled \/ (work'[w].at = "parent" /\ queue' = queue)
          /\ multi'[m].parts = multi[m].parts
          /\ multi[m].status # "waiting" => multi'[m].status # "waiting"
      BY <1>1, <2>1, <2>4, <2>6, <3>1, NotCancelledOn
    <3>4. multi[m].status = "waiting" => install.status # "paused"
      BY <2>2 DEF FlagsOK
    <3>5. multi[m].parts \in SUBSET Files
      BY <1>1 DEF Shapes, MultiJobs
    <3>6. \A g \in multi[m].parts : job'[<<m, g>>].cancelled
              => /\ job'[<<m, g>>].paused
                 /\ job'[<<m, g>>].resume_required \/ install'.status = "paused"
      BY <2>2, <2>6, <3>2, <3>4, <3>5 DEF GoesOrRefused, FlagsOK
    <3>7. FlagsOK(m)'
      BY <2>2, <2>6, <3>3, <3>4, <3>6 DEF FlagsOK
    <3>8. install'.status # "cancelled"
      BY <1>1, <2>6
    <3>9. QED BY <1>1, <2>1, <2>2, <2>6, <3>3, <3>7, <3>8, UnaskedOn
  <2>7. CASE (Step(w) \/ (Complete(w) /\ ~AllComplete(w))) /\ UNCHANGED installVars
    BY <2>6, <2>7 DEF installVars
  <2>8. CASE Start(w) /\ IF StartsMulti(w) THEN _download_started_callback(m) ELSE UNCHANGED installVars
    <3>1. CASE ~StartsMulti(w)
      BY <2>6, <2>8, <3>1 DEF installVars
    <3>2. CASE StartsMulti(w)
      <4>1. install'.status = "downloading" /\ UNCHANGED <<call, installer>>
        BY <1>1, <2>2, <2>8, <3>2 DEF _download_started_callback, Installs
      <4>2. multi[m].status = "waiting" /\ multi'[m].status = "running"
        BY <1>1, <1>4, <2>1, <2>8, <3>2, WorkerStatus DEF StartsMulti, Becomes
      <4>3. QED BY <2>6, <2>8, <4>1, <4>2
    <3>3. QED BY <3>1, <3>2
  <2>9. CASE Progress(w, m \in cache /\ install.status = "cancelled") /\ UNCHANGED installVars
    <3>1. Progress(w, FALSE)
      <4>1. PICK stops \in BOOLEAN : stops = (m \in cache /\ install.status = "cancelled") /\ Progress(w, stops)
        BY <2>9
      <4>2. stops = FALSE
        BY <1>1, <4>1
      <4>3. QED BY <4>1, <4>2
    <3>2. QED BY <2>6, <2>9, <3>1 DEF installVars
  <2>10. CASE Complete(w) /\ AllComplete(w) /\ _download_complete_callback(m)
    <3>1. in_terminal_state(multi'[m])
      BY <1>1, <1>4, <2>1, <2>10, WorkerStatus DEF Becomes, in_terminal_state
    <3>2. ~Served(m)'
      <4>1. MultiOK(m)'
        BY <1>2 DEF QueueInv
      <4>2. QED BY <3>1, <4>1 DEF MultiOK, Served, Turn, QueuedOK, HeldOK, TurnOK
    <3>3. install'.status = "downloads_done" /\ installer'.at = installer.at
      BY <1>1, <2>2, <2>10 DEF _download_complete_callback, Installs, InstallShapes
    <3>4. QED BY <2>5, <3>2, <3>3
  <2>11. CASE Parent(w, EndsMulti(w) /\ Cancels(m)) /\ _download_cancelled_callback(m)
    <3>1. PICK wipes \in BOOLEAN : Parent(w, wipes)
      BY <2>11
    <3>2. ~Served(m)'
      BY <1>1, <2>1, <3>1, EndedIsNotServed
    <3>3. ~Cancels(m)
      BY <2>1, <3>1, ParentSpares
    <3>4. install'.status # "cancelled" /\ installer' = installer
      BY <1>1, <2>11, <3>3 DEF _download_cancelled_callback, Installs
    <3>5. QED BY <2>5, <3>2, <3>4
  <2>12. CASE Error(w, EndsMulti(w) /\ m \in cache) /\ _download_error_callback(m)
    <3>1. PICK wipes \in BOOLEAN : Error(w, wipes)
      BY <2>12
    <3>2. ~Served(m)'
      BY <1>1, <2>1, <3>1, EndedIsNotServed
    <3>3. install'.status = "error" /\ installer' = installer
      BY <1>1, <2>2, <2>12 DEF _download_error_callback, Installs
    <3>4. QED BY <2>5, <3>2, <3>3
  <2>13. QED BY <2>1, <2>2, <2>7, <2>8, <2>9, <2>10, <2>11, <2>12 DEF Worker
<1>5. QED BY <1>3, <1>4


\* Only requests to cancel, and a new import, change what was asked.
LEMMA AskedStays ==
    ASSUME install \in Installs, Next, ~import_model, ~CancelBegins, ~cancel_all_jobs
    PROVE  install'.asked = install.asked
<1>1. \A way, plain : /\ departed(way).asked = install.asked
                     /\ after(plain, way).asked = install.asked
  BY DEF departed, after, Installs
<1>2. CASE PauseBegins \/ PauseEnds \/ resume_job \/ restart_failed \/ restart_file \/ FetchFails
  <2>1. install' = install \/ \E now \in {install} \cup {departed(way) : way \in Ways} :
           \/ install' = [now EXCEPT !.status = "paused"]
           \/ install' = [now EXCEPT !.status = "waiting"]
           \/ install' = [now EXCEPT !.stuck = TRUE]
    BY <1>2 DEF PauseBegins, PauseEnds, resume_job, restart_failed, restart_file, FetchFails, Pauses,
                Fetches, after, early, Ways
  <2>2. QED BY <2>1 DEF departed, Installs
<1>3. CASE Fetched \/ Restored \/ CancelEnds
  BY <1>3 DEF Fetched, Restored, enqueue, CancelEnds, Installs
<1>4. ASSUME NEW w \in Workers, Worker(w) PROVE install'.asked = install.asked
  BY <1>4 DEF Worker, installVars, _download_started_callback, _download_complete_callback,
              _download_error_callback, _download_cancelled_callback, Installs
<1>5. CASE InstallThread \/ InstallStops \/ Stops \/ RestoreFails
  BY <1>5 DEF InstallThread, InstallTakes, InstallUnmarks, InstallMoves, InstallFails, InstallFinishes,
              InstallStops, Stops, RestoreFails, installVars, departed, Installs
<1>6. CASE Restart
  BY <1>6 DEF Restart, NoInstall
<1>7. QED BY <1>2, <1>3, <1>4, <1>5, <1>6 DEF Next, Requests

NobodyAsked == LeftAlone => Unasked

LEMMA NobodyAskedHolds ==
    ServiceInv /\ ServiceInv' /\ KeptIn /\ WholeKept /\ NobodyAsked /\ [Next]_vars => NobodyAsked'
<1> SUFFICES ASSUME ServiceInv, ServiceInv', KeptIn, WholeKept, NobodyAsked, [Next]_vars, LeftAlone'
             PROVE  Unasked'
  BY DEF NobodyAsked
<1>1. CASE UNCHANGED vars
  <2>1. /\ UNCHANGED <<job, multi, queue, work, install, installer, call>>
        /\ \A w \in Workers : P(w)' = P(w)
    BY <1>1 DEF vars, downloadVars, installVars, P
  <2>2. \A m \in Multis : Served(m)' <=> Served(m)
    BY <2>1 DEF Served, Turn, At
  <2>3. Unasked
    BY <2>1 DEF NobodyAsked, LeftAlone
  <2>4. QED BY <2>1, <2>2, <2>3 DEF Unasked, FlagsOK
<1>2. CASE Next
  <2>1. install \in Installs /\ install.did = "nothing"
    BY <1>2, DidStays DEF ServiceInv, LeftAlone, InstallShapes
  <2>2. Sound
    BY <2>1 DEF Sound, WholeKept, KeptIn, Plain
  <2>3. CASE import_model
    <3>1. \A m \in Multis : ~Served(m)
      BY <2>2, <2>3, SoundIs DEF import_model, Sole, NoneUnderWay
    <3>2. install.status # "cancelled" /\ installer.at # "stopped"
      BY <2>3 DEF import_model, Ready
    <3>3. queue = {} /\ \A w \in Workers : work[w].at \notin Holding
      BY <2>2, <3>1, SoundIs, NothingToDo DEF NoneUnderWay
    <3>4. Unasked
      BY <3>1, <3>2, <3>3 DEF Unasked
    <3>5. QED BY <2>2, <2>3, <3>4, BeginUnasked
  <2>4. CASE ~import_model
    <3>1. ~install.asked
      <4>1. CASE CancelBegins \/ cancel_all_jobs
        <5>1. install'.asked
          BY <2>1, <4>1 DEF CancelBegins, cancel_all_jobs, after, departed, Installs
        <5>2. QED BY <5>1 DEF LeftAlone
      <4>2. CASE ~(CancelBegins \/ cancel_all_jobs)
        <5>1. install'.asked = install.asked
          BY <1>2, <2>1, <2>4, <4>2, AskedStays
        <5>2. QED BY <5>1 DEF LeftAlone
      <4>3. QED BY <4>1, <4>2
    <3>2. Unasked /\ LeftAlone
      BY <2>1, <3>1 DEF NobodyAsked, LeftAlone
    <3>3. ~restart_failed /\ ~restart_file
      <4>1. ASSUME NEW way \in {"restartsFailed", "restartsFile"}, NEW S,
                   install' = [departed(early(way)) EXCEPT !.status = S]
            PROVE  FALSE
        <5>1. early(way) \in {way, "actsEarly"}
          BY DEF early
        <5>2. install'.did = early(way)
          BY <2>1, <4>1 DEF departed, Installs
        <5>3. QED BY <5>1, <5>2 DEF LeftAlone
      <4>2. QED BY <4>1 DEF restart_failed, restart_file, Fetches
    <3>4. ~CancelBegins /\ ~cancel_all_jobs /\ ~CancelEnds
      <4>1. CancelBegins \/ cancel_all_jobs => install'.asked
        BY <2>1 DEF CancelBegins, cancel_all_jobs, after, departed, Installs
      <4>2. CancelEnds => install.asked
        BY DEF CancelEnds, ServiceInv, Calls
      <4>3. QED BY <3>2, <4>1, <4>2 DEF LeftAlone
    <3>5. ~InstallStops /\ ~Stops
      <4>1. InstallStops => install'.did = "stops"
        BY <2>1 DEF InstallStops, departed, Installs
      <4>2. QED BY <3>2, <4>1 DEF LeftAlone, Stops, Unasked
    <3>6. QueueInv'
      BY DEF ServiceInv
    <3>7. ASSUME NEW w \in Workers, Worker(w) PROVE Unasked'
      BY <2>2, <3>2, <3>7, WorkerUnasked
    <3>8. QED BY <1>2, <2>2, <2>4, <3>2, <3>3, <3>4, <3>5, <3>6, <3>7, PauseUnasked, BeginUnasked,
                 RestUnasked, RestartUnasked DEF Next, Requests
  <2>5. QED BY <2>3, <2>4
<1>3. QED BY <1>1, <1>2


\* What a worker does to its file before the ends of its part loses nothing.
LEMMA FetchLosesNothing ==
    ASSUME Sound, NEW w \in Workers, Step(w) \/ Start(w) \/ Complete(w) \/ \E stops \in BOOLEAN : Progress(w, stops)
    PROVE  ~Lost
<1>1. /\ QueueInv /\ Shapes /\ Steady /\ Content
      /\ disk \in [Files -> [partial : Seq(Nat), done : Seq(Nat)]]
      /\ \A g \in Files : Wiped[g] = [partial |-> <<>>, done |-> <<>>]
  BY SoundIs DEF Shapes, Wiped
<1>2. ASSUME disk' = disk PROVE ~Lost
  BY <1>2 DEF Lost
<1>3. CASE work[w].at \notin Holding
  <2>1. disk' = disk
    BY <1>3 DEF Step, GetJob, Exit, Finally, Start, Complete, Progress, Request, RequestFails,
                ResumeRefused, NothingToFetch, Answered, Receive, Breaks, Received, Rename, SubmitNext,
                Raise, Holding
  <2>2. QED BY <1>2, <2>1
<1>4. CASE work[w].at \in Holding
  <2>1. PICK m \in Multis, f \in Files, n \in Nat, k \in Nat, b \in Nat, open \in BOOLEAN :
           /\ At(w, m, f) /\ P(w) = <<m, f>> /\ parent(P(w)) = m /\ file(P(w)) = f
           /\ work[w].next = n /\ Length(f) = k /\ work[w].buffer = b /\ work[w].open = open
           /\ InHand(work[w].at, n, open, b, k, disk[f].done, multi[m].cancelled, job[P(w)].cancelled)
           /\ FileOK(f)
    BY <1>1, <1>4, AtHand
  <2>2. disk[f] \in [partial : Seq(Nat), done : Seq(Nat)]
    BY <1>1
  <2>3. k = 0 => disk[f].partial = <<>>
    BY <2>1, <2>2, CountsOn DEF Length
  <2>4. ASSUME disk'[f] # Wiped[f] \/ disk[f] = Wiped[f], \A g \in Files : g # f => disk'[g] = disk[g]
        PROVE  ~Lost
    BY <2>4 DEF Lost
  <2>5. CASE Answered(w)
    <3>1. CASE n = 1
      <4>1. disk[f].partial = <<>> /\ disk[f].done = <<>>
        BY <2>1, <2>3, <2>5, <3>1 DEF Answered, InHand, Writes, FileOK
      <4>2. disk[f] = Wiped[f]
        BY <1>1, <2>2, <4>1
      <4>3. \A g \in Files : g # f => disk'[g] = disk[g]
        BY <1>1, <2>1, <2>5, <3>1 DEF Answered
      <4>4. QED BY <2>4, <4>2, <4>3
    <3>2. CASE n # 1
      BY <1>2, <2>1, <2>5, <3>2 DEF Answered
    <3>3. QED BY <3>1, <3>2
  <2>6. CASE Start(w)
    <3>1. CASE work[w].at = "start" /\ n = 1
      <4>1. disk' = [disk EXCEPT ![f].partial = <<>>] /\ disk[f].partial = <<>>
        BY <2>1, <2>3, <2>6, <3>1 DEF Start, InHand, Writes
      <4>2. disk'[f] = disk[f] /\ \A g \in Files : g # f => disk'[g] = disk[g]
        BY <1>1, <2>2, <4>1
      <4>3. QED BY <2>4, <4>2
    <3>2. CASE ~(work[w].at = "start" /\ n = 1)
      BY <1>2, <2>1, <2>6, <3>2 DEF Start
    <3>3. QED BY <3>1, <3>2
  <2>7. ASSUME disk' = flushed(w) PROVE ~Lost
    <3>1. CASE open /\ b # 0
      <4>1. disk' = [disk EXCEPT ![f].partial = Append(@, b)]
        BY <2>1, <2>7, <3>1 DEF flushed
      <4>2. disk'[f].partial = Append(disk[f].partial, b) /\ \A g \in Files : g # f => disk'[g] = disk[g]
        BY <1>1, <2>2, <4>1
      <4>3. Append(disk[f].partial, b) # <<>>
        <5>1. Len(disk[f].partial) = k /\ disk[f].partial \in Seq(Nat)
          BY <2>1, <2>2 DEF Length
        <5>2. Append(disk[f].partial, b) \in Seq(Nat) /\ Len(Append(disk[f].partial, b)) = k + 1
          BY <2>1, <5>1, AppendProperties
        <5>3. Len(<<>>) = 0 /\ k + 1 # 0
          BY <2>1
        <5>4. QED BY <5>2, <5>3
      <4>4. disk'[f] # Wiped[f]
        BY <1>1, <4>2, <4>3
      <4>5. QED BY <2>4, <4>2, <4>4
    <3>2. CASE ~(open /\ b # 0)
      BY <1>2, <2>1, <2>7, <3>2 DEF flushed
    <3>3. QED BY <3>1, <3>2
  <2>8. CASE Rename(w)
    <3>1. CASE disk[f].partial # <<>>
      <4>1. disk' = [disk EXCEPT ![f] = [partial |-> <<>>, done |-> disk[f].partial]]
        BY <2>1, <2>8, <3>1 DEF Rename
      <4>2. disk'[f] # Wiped[f] /\ \A g \in Files : g # f => disk'[g] = disk[g]
        BY <1>1, <3>1, <4>1
      <4>3. QED BY <2>4, <4>2
    <3>2. CASE disk[f].partial = <<>>
      BY <1>2, <2>1, <2>8, <3>2 DEF Rename
    <3>3. QED BY <3>1, <3>2
  <2>9. CASE Receive(w) \/ Breaks(w) \/ Received(w)
    BY <2>7, <2>9 DEF Receive, Breaks, Received, Leaves
  <2>10. CASE ~(Answered(w) \/ Start(w) \/ Rename(w) \/ Receive(w) \/ Breaks(w) \/ Received(w))
    BY <1>2, <2>10 DEF Step, GetJob, Exit, Finally, Complete, Progress, Request, RequestFails,
                       ResumeRefused, NothingToFetch, SubmitNext, Raise
  <2>11. QED BY <2>5, <2>6, <2>8, <2>9, <2>10
<1>5. QED BY <1>3, <1>4

\* Nor does a part that was paused; one that fails ends the install.
LEMMA WorkerKeepsFiles ==
    ASSUME Sound, Unasked, NEW w \in Workers, Worker(w), Lost
    PROVE  install'.status = "error"
<1>1. install \in Installs /\ Shapes
  BY SoundIs DEF InstallShapes
<1>2. PICK stops \in BOOLEAN : stops = (parent(P(w)) \in cache /\ install.status = "cancelled")
  OBVIOUS
<1>3. ~(Step(w) \/ Start(w) \/ Complete(w) \/ Progress(w, stops))
  BY FetchLosesNothing
<1>4. CASE /\ Parent(w, EndsMulti(w) /\ Cancels(parent(P(w))))
           /\ IF EndsMulti(w) THEN _download_cancelled_callback(parent(P(w))) ELSE UNCHANGED installVars
  <2>1. PICK wipes \in BOOLEAN : wipes = (EndsMulti(w) /\ Cancels(parent(P(w)))) /\ Parent(w, wipes)
    BY <1>4
  <2>2. ~wipes /\ job[P(w)].paused
    BY <2>1, ParentSpares
  <2>3. disk' = [f \in Files |-> IF f \in {} THEN [disk[f] EXCEPT !.partial = <<>>] ELSE disk[f]]
    BY <2>1, <2>2 DEF Parent
  <2>4. \A f \in Files : disk'[f] = disk[f]
    BY <2>3
  <2>5. QED BY <2>4 DEF Lost
<1>5. CASE /\ Error(w, EndsMulti(w) /\ parent(P(w)) \in cache)
           /\ IF EndsMulti(w) THEN _download_error_callback(parent(P(w))) ELSE UNCHANGED installVars
  <2>1. PICK wipes \in BOOLEAN : wipes = (EndsMulti(w) /\ parent(P(w)) \in cache) /\ Error(w, wipes)
    BY <1>5
  <2>2. CASE wipes
    BY <1>1, <1>5, <2>1, <2>2 DEF _download_error_callback, Installs
  <2>3. CASE ~wipes
    BY <2>1, <2>3 DEF Error, Lost
  <2>4. QED BY <2>2, <2>3
<1>6. QED BY <1>2, <1>3, <1>4, <1>5 DEF Worker

\* An install that did not begin, or of which the process left nothing to go on with, has
\* no files.
NothingYet == install.status = "none" => disk = Wiped /\ install.did \in Endings \cup {"nothing"}

LEMMA NothingYetHolds ==
    ServiceInv /\ NothingYet /\ [Next]_vars => NothingYet'
<1> SUFFICES ASSUME ServiceInv, NothingYet, [Next]_vars, install'.status = "none"
             PROVE  disk' = Wiped /\ install'.did \in Endings \cup {"nothing"}
  BY DEF NothingYet
<1>1. QueueInv /\ InstallShapes /\ install \in Installs /\ Calls
  BY DEF ServiceInv, InstallShapes
<1>2. CASE UNCHANGED vars
  BY <1>2 DEF vars, downloadVars, installVars, NothingYet
<1>3. CASE Restart
  <2>1. marker = "none" /\ disk' = Wiped
    BY <1>1, <1>3 DEF Restart, NoInstall, InstallShapes
  <2>2. after(NoneLose, kills).did \in Endings \cup {"nothing"}
    BY <1>1, <1>3 DEF Restart, after, departed, kills, Endings, Installs
  <2>3. QED BY <1>3, <2>1, <2>2 DEF Restart, NoInstall
<1>4. ASSUME install.status = "none"
      PROVE  /\ NoneUnderWay /\ cache = {} /\ ~(installer.at \in {"marked", "moving", "finish"})
             /\ disk = Wiped /\ install.did \in Endings \cup {"nothing"} /\ call.kind # "cancelling"
  <2>1. disk = Wiped /\ install.did \in Endings \cup {"nothing"}
    BY <1>4 DEF NothingYet
  <2>2. Sole /\ Phases
    BY <2>1 DEF ServiceInv, Endings
  <2>3. QED BY <1>1, <1>4, <2>1, <2>2 DEF Sole, Phases, over, Calls, NoCall
<1>5. ASSUME NEW w \in Workers, Worker(w)
      PROVE  disk' = Wiped /\ install'.did \in Endings \cup {"nothing"}
  <2>1. install.status = "none"
    BY <1>1, <1>5 DEF Worker, installVars, _download_started_callback, _download_complete_callback,
                _download_error_callback, _download_cancelled_callback, Installs
  <2>2. work[w].at \notin Holding
    BY <1>1, <1>4, <2>1, NothingToDo
  <2>3. disk' = disk /\ UNCHANGED installVars
    BY <1>5, <2>2 DEF Worker, Step, GetJob, Exit, Finally, Start, Complete, Progress, Parent, Error, Request,
                      RequestFails, ResumeRefused, NothingToFetch, Answered, Receive, Breaks, Received,
                      Rename, SubmitNext, Raise, Holding
  <2>4. QED BY <1>4, <2>1, <2>3 DEF installVars
<1>6. CASE PauseEnds \/ CancelEnds \/ cancel_all_jobs \/ InstallThread \/ InstallStops \/ Stops
  <2>1. install.status = "none"
    BY <1>1, <1>6 DEF PauseEnds, CancelEnds, cancel_all_jobs, InstallThread, InstallTakes, InstallUnmarks,
                      InstallMoves, InstallFails, InstallFinishes, InstallStops, Stops, installVars, departed,
                      over, Installs
  <2>2. CASE PauseEnds \/ CancelEnds \/ cancel_all_jobs
    BY <1>1, <1>4, <2>1, <2>2 DEF PauseEnds, CancelEnds, cancel_all_jobs, Installs
  <2>3. CASE InstallThread
    BY <1>1, <1>4, <2>1, <2>3 DEF InstallThread, InstallTakes, InstallUnmarks, InstallMoves, InstallFails,
                                  InstallFinishes, downloadVars, Installs
  <2>4. CASE InstallStops
    BY <1>1, <1>4, <2>1, <2>4 DEF InstallStops, departed, Endings, Installs
  <2>5. CASE Stops
    BY <1>4, <2>1, <2>5 DEF Stops, StopBegins, StopReturns, installVars
  <2>6. QED BY <1>6, <2>2, <2>3, <2>4, <2>5
<1>7. ~import_model /\ ~Fetched /\ ~Restored /\ ~PauseBegins /\ ~resume_job /\ ~restart_failed
      /\ ~restart_file /\ ~CancelBegins /\ ~RestoreFails
  <2>1. ~PauseBegins /\ ~resume_job /\ ~restart_failed /\ ~restart_file
    <3>1. PauseBegins \/ resume_job \/ restart_failed \/ restart_file
             => \E now \in {install} \cup {departed(way) : way \in Ways} :
                   \/ install' = [now EXCEPT !.status = "paused"]
                   \/ install' = [now EXCEPT !.status = "waiting"]
      BY DEF PauseBegins, Pauses, resume_job, restart_failed, restart_file, Fetches, after, early, Ways
    <3>2. QED BY <1>1, <3>1 DEF departed, Installs
  <2>2. ~CancelBegins /\ ~RestoreFails
    <3>1. CancelBegins => \E now \in {install, departed("cancelsLate")} :
                              install' = [now EXCEPT !.status = "cancelled", !.asked = TRUE]
      BY DEF CancelBegins, after
    <3>2. QED BY <1>1, <3>1 DEF RestoreFails, departed, Installs
  <2>3. ~import_model
    BY DEF import_model, enqueue, NoInstall
  <2>4. ~Restored
    BY <1>1 DEF Restored, enqueue, Installs
  <2>5. ~Fetched
    <3> SUFFICES ASSUME Fetched PROVE FALSE
      OBVIOUS
    <3>1. install'.status = install.status
      BY <1>1 DEF Fetched, enqueue, Installs
    <3>2. call # NoCall
      BY DEF Fetched, NoCall
    <3>3. QED BY <1>1, <3>1, <3>2 DEF Calls
  <2>6. QED BY <2>1, <2>2, <2>3, <2>4, <2>5
<1>8. CASE FetchFails
  BY <1>1, <1>4, <1>8 DEF FetchFails, downloadVars, Installs
<1>9. QED BY <1>2, <1>3, <1>5, <1>6, <1>7, <1>8 DEF Next, Requests

\* In the plain case downloads are kept, paused or not, restarted or not: what a worker, a
\* request, the install thread or the next process removes is that of an install that is
\* completed, failed or was canceled.  A pause never becomes a cancellation on its way
\* through the parts, although both are told by the same flags, and the next process finds
\* a marker, if the last one did not end between the marker's removal and the end of the
\* install.
THEOREM FilesKept == Spec => DownloadsKept
<1> DEFINE Allowed == install.asked \/ {install.status, install'.status} \cap {"completed", "error"} # {}
<1>1. Init => KeptIn /\ WholeKept /\ NobodyAsked /\ NothingYet
  <2>1. Init => KeptIn /\ WholeKept
    BY InitIsKept
  <2>2. Init => NobodyAsked
    <3> SUFFICES ASSUME Init PROVE Unasked
      BY DEF NobodyAsked
    <3>1. /\ work = [w \in Workers |-> AtTop] /\ queue = {} /\ install.status = "none"
          /\ installer.at = "idle"
      BY DEF Init, DownloadInit, NoInstall
    <3>2. \A w \in Workers : work[w].at \notin Holding
      BY <3>1 DEF AtTop, Holding
    <3>3. QED BY <3>1, <3>2 DEF Unasked, Served, Turn, At
  <2>3. Init => NothingYet
    BY DEF Init, DownloadInit, Wiped, NoInstall, NothingYet
  <2>4. QED BY <2>1, <2>2, <2>3
<1>2. /\ ServiceInv /\ ServiceInv' /\ KeptIn /\ WholeKept /\ NobodyAsked /\ NothingYet /\ [Next]_vars
      => [Lost /\ install'.did = "nothing" => Allowed]_vars
  <2> SUFFICES ASSUME ServiceInv, KeptIn, WholeKept, NobodyAsked, NothingYet, Next, Lost,
                      install'.did = "nothing", ~install.asked,
                      install.status \notin {"completed", "error"}, install'.status \notin {"completed", "error"}
               PROVE  FALSE
    OBVIOUS
  <2>1. install \in Installs /\ install.did = "nothing" /\ LeftAlone
    BY DidStays DEF ServiceInv, InstallShapes, LeftAlone
  <2>2. Sound /\ Unasked
    BY <2>1 DEF Sound, WholeKept, KeptIn, NobodyAsked, Plain
  <2>3. Kept /\ Phases /\ Calls /\ (\E f \in Files : disk'[f] # disk[f])
    BY <2>2, SoundIs DEF Lost
  <2>4. CASE Requests
    <3>1. ASSUME NEW cleared, cleared = {}, disk' = [f \in Files |-> IF f \in cleared THEN Wiped[f] ELSE disk[f]]
          PROVE  FALSE
      BY <2>3, <3>1
    <3>2. CASE import_model \/ Fetched
      BY <2>3, <3>1, <3>2 DEF import_model, Fetched, enqueue, Kept, fetching
    <3>3. CASE CancelEnds
      BY <2>3, <3>3 DEF CancelEnds, Calls
    <3>4. disk' = disk \/ import_model \/ Fetched \/ CancelEnds
      BY <2>4 DEF Requests, PauseBegins, Pauses, PauseEnds, resume_job, restart_failed, restart_file,
                  Fetches, FetchFails, CancelBegins, cancel_all_jobs, downloadVars
    <3>5. QED BY <2>3, <3>2, <3>3, <3>4
  <2>5. ASSUME NEW w \in Workers, Worker(w) PROVE FALSE
    BY <2>2, <2>5, WorkerKeepsFiles
  <2>6. CASE InstallThread
    <3>1. CASE InstallMoves
      BY <2>1, <3>1 DEF InstallMoves, Installs
    <3>2. CASE InstallFinishes
      BY <2>2, <2>3, <3>2 DEF InstallFinishes, Phases, over, Unasked
    <3>3. disk' = disk \/ InstallMoves \/ InstallFinishes
      BY <2>6 DEF InstallThread, InstallTakes, InstallUnmarks, InstallFails, downloadVars
    <3>4. QED BY <2>3, <3>1, <3>2, <3>3
  <2>7. CASE InstallStops \/ Stops
    <3>1. InstallStops => install'.did = "stops"
      BY <2>1 DEF InstallStops, departed, Installs
    <3>2. QED BY <2>2, <2>7, <3>1 DEF Stops, Unasked
  <2>8. CASE Restart
    <3>1. marker = "none"
      BY <2>3, <2>8 DEF Restart
    <3>2. installer.at # "moving"
      <4>1. NoneLose
        BY <2>1, <2>8 DEF Restart, NoInstall, after, departed, kills, Installs
      <4>2. QED BY <4>1 DEF NoneLose
    <3>3. install.status \notin {"waiting", "downloading", "paused", "downloads_done", "running"}
      BY <2>1, <3>1, <3>2 DEF ServiceInv, CrashRecoverable
    <3>4. install.status # "none"
      BY DEF NothingYet, Lost
    <3>5. install.status # "cancelled"
      BY <2>2 DEF Unasked
    <3>6. QED BY <2>1, <3>3, <3>4, <3>5 DEF Installs, InstallStatus
  <2>9. CASE Restored
    <3>1. disk' = [f \in Files |-> IF f \in {} THEN Wiped[f] ELSE disk[f]]
      BY <2>9 DEF Restored, enqueue
    <3>2. QED BY <2>3, <3>1
  <2>10. CASE RestoreFails
    BY <2>1, <2>10 DEF RestoreFails, Installs
  <2>11. QED BY <2>4, <2>5, <2>6, <2>7, <2>8, <2>9, <2>10 DEF Next
<1>3. QED BY <1>1, <1>2, KeptInHolds, WholeKeptHolds, NobodyAskedHolds, NothingYetHolds, ServiceHolds, PTL
         DEF Spec, DownloadsKept

===============================================================================
