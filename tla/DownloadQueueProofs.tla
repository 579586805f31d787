-------------------------- MODULE DownloadQueueProofs --------------------------
(***************************************************************************)
(* What the download service keeps true of its multi-file jobs, their      *)
(* parts and its workers, whatever those who use it ask of it.             *)
(***************************************************************************)
EXTENDS DownloadQueue, FiniteSetTheorems, SequenceTheorems, WellFoundedInduction,
        NaturalsInduction, TLAPS

JobStatus == {"waiting", "running", "paused", "completed", "cancelled", "error"}

\* Where a worker has the part in hand.
Holding == {"begin", "answer", "start", "startComplete", "load", "progress", "rename",
            "complete", "submit", "raise", "parent", "error"}

Jobs == [status : JobStatus, cancelled : BOOLEAN, paused : BOOLEAN, resume_required : BOOLEAN]
MultiJobs == [status : JobStatus, cancelled : BOOLEAN, paused : BOOLEAN,
              parts : SUBSET Files, pending : SUBSET Files, active : Files \cup {0}]
Places == [at : Holding \cup {"top", "exited", "finally"}, part : Parts \cup {None},
           next : Nat, open : BOOLEAN, buffer : Nat]

Shapes ==
    /\ job \in [Parts -> Jobs]
    /\ multi \in [Multis -> MultiJobs]
    /\ queue \in SUBSET Parts
    /\ work \in [Workers -> Places]
    /\ disk \in [Files -> [partial : Seq(Nat), done : Seq(Nat)]]
    /\ service \in {"up", "stopping", "stopped"}

\* A worker has no part at the top of its loop, and else one of a job's own.
WorkerOK(w) ==
    /\ work[w].at \in {"top", "exited"} <=> P(w) = None
    /\ work[w].at \notin {"load", "progress"} => work[w].buffer = 0
    /\ \A m \in Multis, f \in Files : P(w) = <<m, f>> => f \in multi[m].parts

-------------------------------------------------------------------------------
(* Whose turn it is in the multi-file job m.                               *)

\* w has the file f of m in hand.
At(w, m, f) == work[w].at \in Holding /\ P(w) = <<m, f>>

Turn(m, f) == <<m, f>> \in queue \/ \E w \in Workers : At(w, m, f)
Served(m) == \E f \in Files : Turn(m, f)

\* What the status of a part may be while a worker is there with it.
StatusAt(at) ==
    IF at \in {"begin", "answer", "start", "startComplete"} THEN {"waiting"}
    ELSE IF at \in {"load", "progress", "rename", "complete"} THEN {"running"}
    ELSE IF at = "submit" THEN {"completed"}
    ELSE IF at = "parent" THEN {"paused", "cancelled"}
    ELSE {"waiting", "running"}

\* The parts that are neither pending nor f have been completed.
OthersDone(m, f) == \A g \in multi[m].parts \ multi[m].pending : g = f \/ job[<<m, g>>].status = "completed"

TurnOK(m, f) ==
    /\ ~in_terminal_state(multi[m])
    /\ f \in multi[m].parts /\ f \notin multi[m].pending

QueuedOK(m, f) ==
    /\ TurnOK(m, f) /\ OthersDone(m, f)
    /\ multi[m].active = f /\ ~multi[m].paused
    /\ job[<<m, f>>].status = "waiting" /\ ~job[<<m, f>>].resume_required

HeldOK(w, m, f) ==
    /\ TurnOK(m, f)
    /\ work[w].at # "parent" => OthersDone(m, f)
    /\ multi[m].active = IF work[w].at \in {"submit", "parent"} THEN 0 ELSE f
    /\ multi[m].paused => work[w].at = "parent"
    /\ job[<<m, f>>].status \in StatusAt(work[w].at)
    /\ job[<<m, f>>].resume_required => work[w].at \in {"raise", "parent"}
    /\ work[w].at \in {"raise", "parent"} => job[<<m, f>>].cancelled
    /\ work[w].at = "submit" => multi[m].pending # {}

OneTurn(m) ==
    /\ \A f, g \in Files : <<m, f>> \in queue /\ <<m, g>> \in queue => f = g
    /\ \A w \in Workers : \A f, g \in Files : ~(<<m, f>> \in queue /\ At(w, m, g))
    /\ \A v, w \in Workers : \A f, g \in Files : At(v, m, f) /\ At(w, m, g) => v = w

PartsOK(m) ==
    /\ multi[m].pending \subseteq multi[m].parts
    /\ multi[m].parts = {} => multi[m].status = "waiting"
    /\ \A f \in Files : f \notin multi[m].parts => job[<<m, f>>] = NewJob
    /\ \A f \in multi[m].pending : job[<<m, f>>].status = "waiting" /\ ~job[<<m, f>>].resume_required
    /\ \A f \in Files : job[<<m, f>>].resume_required => job[<<m, f>>].status # "completed"

\* While the service is up, a multi-file job that is not over is under way.
GoesOn(m) == ~in_terminal_state(multi[m]) /\ multi[m].parts # {} /\ service = "up" => Served(m)

MultiOK(m) ==
    /\ PartsOK(m) /\ OneTurn(m) /\ GoesOn(m)
    /\ \A f \in Files : <<m, f>> \in queue => QueuedOK(m, f)
    /\ \A w \in Workers, f \in Files : At(w, m, f) => HeldOK(w, m, f)

QueueInv ==
    /\ Shapes
    /\ \A w \in Workers : WorkerOK(w)
    /\ \A m \in Multis : MultiOK(m)

-------------------------------------------------------------------------------
(* Numbers.                                                                *)

LEMMA MinIs ==
    ASSUME NEW S \in SUBSET Nat, S # {}
    PROVE  Min(S) \in S /\ \A x \in S : Min(S) <= x
<1> DEFINE Less == {ss \in Nat \X Nat : ss[1] < ss[2]}
<1>1. IsWellFoundedOn(Less, Nat)
  BY NatLessThanWellFounded DEF OpToRel
<1>2. \E x \in S : \A y \in S : ~(<<y, x>> \in Less)
  BY <1>1, WFMin
<1>3. \A x, y \in Nat : ~(<<y, x>> \in Less) => x <= y
  OBVIOUS
<1>4. \E x \in S : \A y \in S : x <= y
  <2> HIDE DEF Less
  <2> QED BY <1>2, <1>3
<1>5. QED BY <1>4 DEF Min

\* A part is a pair of its job and its file; None is none.
LEMMA PartsArePairs ==
    /\ \A p \in Parts : parent(p) \in Multis /\ file(p) \in Files /\ p = <<parent(p), file(p)>>
    /\ \A m \in Multis, f \in Files : <<m, f>> \in Parts /\ parent(<<m, f>>) = m /\ file(<<m, f>>) = f
    /\ None \notin Parts
BY DownloadAssumption DEF DownloadAssumption, Parts, parent, file, None

-------------------------------------------------------------------------------
(* Steps that ask something of jobs: they change flags, or take the queue  *)
(* away as the service stops.                                              *)

\* Where the workers are, and with what.
StandStill ==
    \A w \in Workers : /\ work'[w].at = work[w].at /\ work'[w].part = work[w].part
                       /\ work'[w].buffer = work[w].buffer

JobsAsked ==
    \A m \in Multis, f \in Files :
        /\ job'[<<m, f>>].status = job[<<m, f>>].status
        /\ job'[<<m, f>>].resume_required = job[<<m, f>>].resume_required
        /\ job[<<m, f>>].cancelled => job'[<<m, f>>].cancelled
        /\ f \notin multi[m].parts => job'[<<m, f>>] = job[<<m, f>>]

MultisAsked ==
    \A m \in Multis :
        /\ multi'[m].status = multi[m].status
        /\ multi'[m].parts = multi[m].parts /\ multi'[m].pending = multi[m].pending
        /\ multi'[m].active = multi[m].active
        /\ multi'[m].paused => multi[m].paused

LEMMA AskingKeeps ==
    QueueInv /\ Shapes' /\ StandStill /\ JobsAsked /\ MultisAsked
      /\ ((queue' = queue /\ service' = service) \/ (queue' \in {queue, {}} /\ service' # "up"))
        => QueueInv'
<1> SUFFICES ASSUME QueueInv, Shapes', StandStill, JobsAsked, MultisAsked,
                    (queue' = queue /\ service' = service) \/ (queue' \in {queue, {}} /\ service' # "up")
             PROVE  QueueInv'
  OBVIOUS
<1>1. \A w \in Workers : WorkerOK(w)'
  BY ZenonT(40) DEF QueueInv, WorkerOK, StandStill, MultisAsked, P, Shapes
<1>2. ASSUME NEW m \in Multis PROVE MultiOK(m)'
  <2>1. \A w \in Workers, f \in Files : At(w, m, f)' <=> At(w, m, f)
    BY DEF StandStill, At, P
  <2>2. \A f \in Files : <<m, f>> \in queue' => <<m, f>> \in queue
    OBVIOUS
  <2>3. MultiOK(m)
    BY DEF QueueInv
  <2>4. PartsOK(m)'
    BY <2>3, ZenonT(40) DEF MultiOK, PartsOK, JobsAsked, MultisAsked, Shapes, MultiJobs
  <2>5. OneTurn(m)'
    BY <2>1, <2>2, <2>3 DEF MultiOK, OneTurn
  <2>6. GoesOn(m)'
    BY <2>1, <2>3 DEF MultiOK, GoesOn, MultisAsked, in_terminal_state, Served, Turn
  <2>7. \A f \in Files : OthersDone(m, f)' <=> OthersDone(m, f)
    BY DEF OthersDone, MultisAsked, JobsAsked, Shapes, MultiJobs
  <2>8. \A f \in Files : TurnOK(m, f)' <=> TurnOK(m, f)
    BY DEF TurnOK, MultisAsked, in_terminal_state
  <2>9. ASSUME NEW f \in Files, <<m, f>> \in queue' PROVE QueuedOK(m, f)'
    BY <2>2, <2>3, <2>7, <2>8, <2>9 DEF MultiOK, QueuedOK, MultisAsked, JobsAsked
  <2>10. ASSUME NEW w \in Workers, NEW f \in Files, At(w, m, f)' PROVE HeldOK(w, m, f)'
    BY <2>1, <2>3, <2>7, <2>8, <2>10 DEF MultiOK, HeldOK, MultisAsked, JobsAsked, StandStill
  <2>11. QED BY <2>4, <2>5, <2>6, <2>9, <2>10 DEF MultiOK
<1>3. QED BY <1>1, <1>2 DEF QueueInv

-------------------------------------------------------------------------------
(* Steps of a worker w with the multi-file job m of its part.              *)

OtherMultis(m) ==
    \A n \in Multis : n # m =>
        /\ multi'[n] = multi[n]
        /\ \A f \in Files : /\ job'[<<n, f>>] = job[<<n, f>>]
                            /\ <<n, f>> \in queue' <=> <<n, f>> \in queue

OtherWorkers(w) ==
    \A v \in Workers : v # w => /\ work'[v].at = work[v].at /\ work'[v].part = work[v].part
                                /\ work'[v].buffer = work[v].buffer /\ work'[v].next = work[v].next

SameParts == \A m \in Multis : multi'[m].parts = multi[m].parts

LEMMA WorkersKeep ==
    ASSUME QueueInv, NEW w \in Workers, OtherWorkers(w), SameParts, WorkerOK(w)'
    PROVE  \A v \in Workers : WorkerOK(v)'
<1> SUFFICES ASSUME NEW v \in Workers, v # w PROVE WorkerOK(v)'
  OBVIOUS
<1> QED BY DEF QueueInv, WorkerOK, OtherWorkers, SameParts, P

\* Nothing changes for the multi-file job n if w has nothing to do with it.
LEMMA UntouchedKeeps ==
    ASSUME QueueInv, NEW w \in Workers, OtherWorkers(w), service' = service, NEW n \in Multis,
           multi'[n] = multi[n],
           \A f \in Files : job'[<<n, f>>] = job[<<n, f>>] /\ (<<n, f>> \in queue' <=> <<n, f>> \in queue),
           \A f \in Files : ~At(w, n, f) /\ ~At(w, n, f)'
    PROVE  MultiOK(n)'
<1>1. MultiOK(n)
  BY DEF QueueInv
<1>2. \A v \in Workers, f \in Files : At(v, n, f)' <=> At(v, n, f)
  BY DEF OtherWorkers, At, P
<1>3. PartsOK(n)'
  BY <1>1 DEF MultiOK, PartsOK, QueueInv, Shapes, MultiJobs
<1>4. OneTurn(n)'
  BY <1>1, <1>2 DEF MultiOK, OneTurn
<1>5. GoesOn(n)'
  BY <1>1, <1>2 DEF MultiOK, GoesOn, Served, Turn, in_terminal_state
<1>6. \A f \in Files : (OthersDone(n, f)' <=> OthersDone(n, f)) /\ (TurnOK(n, f)' <=> TurnOK(n, f))
  BY DEF OthersDone, TurnOK, in_terminal_state, QueueInv, Shapes, MultiJobs
<1>7. ASSUME NEW f \in Files, <<n, f>> \in queue' PROVE QueuedOK(n, f)'
  BY <1>1, <1>6, <1>7 DEF MultiOK, QueuedOK
<1>8. ASSUME NEW v \in Workers, NEW f \in Files, At(v, n, f)' PROVE HeldOK(v, n, f)'
  <2>1. work'[v].at = work[v].at
    BY <1>8 DEF OtherWorkers
  <2>2. QED BY <1>1, <1>2, <1>6, <1>8, <2>1 DEF MultiOK, HeldOK
<1>9. QED BY <1>3, <1>4, <1>5, <1>7, <1>8 DEF MultiOK

LEMMA OthersKeep ==
    ASSUME QueueInv, NEW w \in Workers, NEW m \in Multis, OtherMultis(m), OtherWorkers(w),
           \A n \in Multis, f \in Files : n # m => ~At(w, n, f) /\ ~At(w, n, f)',
           service' = service
    PROVE  \A n \in Multis : n # m => MultiOK(n)'
BY UntouchedKeeps DEF OtherMultis

\* The multi-file job's own part is with w alone.
LEMMA Alone ==
    ASSUME QueueInv, NEW w \in Workers, NEW m \in Multis, NEW f \in Files, At(w, m, f)
    PROVE  /\ \A g \in Files : <<m, g>> \notin queue
           /\ \A v \in Workers, g \in Files : At(v, m, g) => v = w /\ g = f
           /\ HeldOK(w, m, f) /\ PartsOK(m)
<1>1. MultiOK(m)
  BY DEF QueueInv
<1>2. \A g \in Files : At(w, m, g) => g = f
  BY DEF At
<1>3. QED BY <1>1, <1>2 DEF MultiOK, OneTurn

\* w goes on with its part.
LEMMA HolderMoves ==
    ASSUME QueueInv, Shapes', NEW w \in Workers, NEW m \in Multis, NEW f \in Files,
           At(w, m, f), At(w, m, f)', OtherWorkers(w), OtherMultis(m), SameParts,
           work'[w].at \in {"load", "progress"} \/ work'[w].buffer = 0,
           \A g \in Files : <<m, g>> \notin queue',
           PartsOK(m)', HeldOK(w, m, f)', service' = service
    PROVE  QueueInv'
<1>1. /\ \A v \in Workers, g \in Files : At(v, m, g) => v = w /\ g = f
      /\ HeldOK(w, m, f)
  BY Alone
<1>2. \A n \in Multis, g \in Files : n # m => ~At(w, n, g) /\ ~At(w, n, g)'
  BY DEF At
<1>3. \A v \in Workers, g \in Files : At(v, m, g)' => v = w /\ g = f
  BY <1>1 DEF At, OtherWorkers, P
<1>4. WorkerOK(w)'
  BY DEF QueueInv, WorkerOK, At, Holding, P, SameParts, Shapes
<1>5. Served(m)'
  BY DEF Served, Turn
<1>6. MultiOK(m)'
  BY <1>3, <1>5 DEF MultiOK, OneTurn, GoesOn
<1>7. QED BY <1>2, <1>4, <1>6, WorkersKeep, OthersKeep DEF QueueInv

\* w lets go of the part with which the multi-file job ended, or of which it submitted
\* the next one, unless the service stops.
LEMMA HolderLetsGo ==
    ASSUME QueueInv, Shapes', NEW w \in Workers, NEW m \in Multis, NEW f \in Files,
           At(w, m, f), work'[w].at = "finally", work'[w].part = <<m, f>>, work'[w].buffer = 0,
           OtherWorkers(w), OtherMultis(m), SameParts, PartsOK(m)', service' = service,
           \/ in_terminal_state(multi[m])' /\ \A g \in Files : <<m, g>> \notin queue'
           \/ service # "up" /\ \A g \in Files : <<m, g>> \notin queue'
           \/ \E h \in Files : QueuedOK(m, h)' /\ \A g \in Files : <<m, g>> \in queue' <=> g = h
    PROVE  QueueInv'
<1>1. \A v \in Workers, g \in Files : At(v, m, g) => v = w /\ g = f
  BY Alone
<1>2. \A n \in Multis, g \in Files : (n # m => ~At(w, n, g)) /\ ~At(w, n, g)'
  BY DEF At, Holding
<1>3. \A v \in Workers, g \in Files : ~At(v, m, g)'
  BY <1>1, <1>2 DEF At, OtherWorkers, P
<1>4. WorkerOK(w)'
  BY DEF QueueInv, WorkerOK, At, Holding, P, SameParts, Shapes
<1>5. GoesOn(m)'
  BY DEF GoesOn, Served, Turn
<1>6. MultiOK(m)'
  BY <1>3, <1>5 DEF MultiOK, OneTurn
<1>7. QED BY <1>2, <1>4, <1>6, WorkersKeep, OthersKeep DEF QueueInv

\* The part that a worker has in hand.
LEMMA HeldPart ==
    ASSUME QueueInv, NEW w \in Workers, work[w].at \in Holding
    PROVE  \E m \in Multis, f \in Files :
               At(w, m, f) /\ P(w) \in Parts /\ P(w) = <<m, f>> /\ parent(P(w)) = m /\ file(P(w)) = f
<1>1. P(w) \in Parts \cup {None} /\ P(w) # None
  BY DEF QueueInv, Shapes, Places, WorkerOK, Holding, P
<1>2. QED BY <1>1, PartsArePairs DEF At

\* It goes on with it, and nothing else changes.
LEMMA HolderGoes ==
    ASSUME QueueInv, Shapes', NEW w \in Workers, NEW m \in Multis, NEW f \in Files,
           At(w, m, f), OtherWorkers(w), UNCHANGED <<job, multi, queue, service>>,
           work[w].at \notin {"submit", "raise", "parent"}, work'[w].part = work[w].part,
           work'[w].at \in Holding \ {"submit", "parent"},
           work'[w].at \in {"load", "progress"} \/ work'[w].buffer = 0,
           job[<<m, f>>].status \in StatusAt(work[w].at) => job[<<m, f>>].status \in StatusAt(work'[w].at),
           work'[w].at = "raise" => job[<<m, f>>].cancelled
    PROVE  QueueInv'
<1>1. /\ \A g \in Files : <<m, g>> \notin queue
      /\ HeldOK(w, m, f) /\ PartsOK(m)
  BY Alone
<1>2. At(w, m, f)' /\ OtherMultis(m) /\ SameParts
  BY DEF At, P, OtherMultis, SameParts
<1>3. PartsOK(m)'
  BY <1>1 DEF PartsOK
<1>4. HeldOK(w, m, f)'
  BY <1>1 DEF HeldOK, TurnOK, OthersDone, in_terminal_state
<1>5. QED BY <1>1, <1>2, <1>3, <1>4, HolderMoves

\* A step that only moves the worker.
LEMMA GoesThere ==
    ASSUME Shapes, NEW w \in Workers, NEW place \in Holding \cup {"top", "exited", "finally"},
           Goes(w, place)
    PROVE  /\ work' \in [Workers -> Places] /\ OtherWorkers(w)
           /\ work'[w].at = place /\ work'[w].part = work[w].part /\ work'[w].next = work[w].next
           /\ work'[w].open = work[w].open /\ work'[w].buffer = work[w].buffer
<1>1. work[w] \in Places
  BY DEF Shapes
<1>2. work' = [work EXCEPT ![w] = [work[w] EXCEPT !.at = place]]
  BY DEF Goes
<1>3. [work[w] EXCEPT !.at = place] \in Places
  BY <1>1 DEF Places
<1>4. QED BY <1>1, <1>2, <1>3 DEF Shapes, OtherWorkers, Places

LEMMA FlushedShape ==
    ASSUME Shapes, NEW w \in Workers, P(w) \in Parts
    PROVE  flushed(w) \in [Files -> [partial : Seq(Nat), done : Seq(Nat)]]
<1>1. file(P(w)) \in Files
  BY PartsArePairs
<1>2. disk[file(P(w))] \in [partial : Seq(Nat), done : Seq(Nat)] /\ work[w].buffer \in Nat
  BY <1>1 DEF Shapes, Places
<1>3. Append(disk[file(P(w))].partial, work[w].buffer) \in Seq(Nat)
  BY <1>2, AppendProperties
<1>4. QED BY <1>1, <1>2, <1>3 DEF flushed, Shapes

LEMMA RequestKeeps ==
    ASSUME QueueInv, NEW w \in Workers,
           Request(w) \/ RequestFails(w) \/ NothingToFetch(w) \/ Answered(w)
    PROVE  QueueInv'
<1>1. work[w].at \in {"begin", "answer"}
  BY DEF Request, RequestFails, NothingToFetch, Answered
<1>2. PICK m \in Multis, f \in Files :
         At(w, m, f) /\ P(w) \in Parts /\ P(w) = <<m, f>> /\ parent(P(w)) = m /\ file(P(w)) = f
  BY <1>1, HeldPart DEF Holding
<1>3. Shapes
  BY DEF QueueInv
<1>4. work[w] \in Places /\ disk[f] \in [partial : Seq(Nat), done : Seq(Nat)] /\ work[w].buffer = 0
  BY <1>1, <1>2, <1>3 DEF Shapes, QueueInv, WorkerOK
<1>5. Len(disk[file(P(w))].partial) + 1 \in Nat
  BY <1>2, <1>4, LenProperties
<1>6. disk' \in [Files -> [partial : Seq(Nat), done : Seq(Nat)]]
  <2>1. CASE UNCHANGED disk
    BY <2>1, <1>3 DEF Shapes
  <2>2. CASE disk' = [disk EXCEPT ![file(P(w))].done = <<>>]
    BY <2>2, <1>2, <1>3, EmptySeq DEF Shapes
  <2>3. QED BY <2>1, <2>2 DEF Request, RequestFails, NothingToFetch, Answered
<1>7. /\ work' \in [Workers -> Places] /\ OtherWorkers(w)
      /\ work'[w].part = work[w].part /\ work'[w].buffer = 0
      /\ work'[w].at \in {"raise", "answer", "error", "startComplete", "start"}
      /\ work'[w].at = "raise" => job[P(w)].cancelled
  <2>1. CASE Request(w)
    <3>1. PICK k \in Nat : work' = IF job[P(w)].cancelled
                                  THEN [work EXCEPT ![w].at = "raise"]
                                  ELSE [work EXCEPT ![w].at = "answer", ![w].next = k]
      BY <2>1, <1>5 DEF Request
    <3>2. CASE job[P(w)].cancelled
      BY <3>1, <3>2, <1>3, <1>4 DEF Shapes, Places, OtherWorkers, Holding
    <3>3. CASE ~job[P(w)].cancelled
      BY <3>1, <3>3, <1>3, <1>4 DEF Shapes, Places, OtherWorkers, Holding
    <3>4. QED BY <3>2, <3>3
  <2>2. CASE RequestFails(w) \/ NothingToFetch(w) \/ Answered(w)
    <3>1. PICK place \in {"answer", "error", "startComplete", "start"} : Goes(w, place)
      BY <2>2 DEF RequestFails, NothingToFetch, Answered
    <3>2. QED BY <3>1, <1>3, <1>4, GoesThere DEF Holding
  <2>3. QED BY <2>1, <2>2
<1>8. UNCHANGED <<job, multi, queue, service>>
  BY DEF Request, RequestFails, NothingToFetch, Answered
<1>9. Shapes'
  BY <1>3, <1>6, <1>7, <1>8 DEF Shapes
<1>10. QED BY <1>1, <1>2, <1>7, <1>8, <1>9, HolderGoes DEF Holding, StatusAt

\* A step that closes the file.
LEMMA LeavesThere ==
    ASSUME Shapes, NEW w \in Workers, NEW place \in Holding, P(w) \in Parts, Leaves(w, place)
    PROVE  /\ work' \in [Workers -> Places] /\ OtherWorkers(w)
           /\ work'[w].at = place /\ work'[w].part = work[w].part /\ work'[w].next = work[w].next
           /\ work'[w].open = work[w].open /\ work'[w].buffer = 0
           /\ disk' \in [Files -> [partial : Seq(Nat), done : Seq(Nat)]]
<1>1. work[w] \in Places
  BY DEF Shapes
<1>2. work' = [work EXCEPT ![w] = [work[w] EXCEPT !.at = place, !.buffer = 0]]
  BY <1>1 DEF Leaves, Shapes, Places
<1>3. [work[w] EXCEPT !.at = place, !.buffer = 0] \in Places
  BY <1>1 DEF Places
<1>4. QED BY <1>1, <1>2, <1>3, FlushedShape DEF Shapes, OtherWorkers, Places, Leaves

\* It receives a chunk.
LEMMA ReceivesIt ==
    ASSUME Shapes, NEW w \in Workers, P(w) \in Parts, Receive(w), ~job[P(w)].cancelled
    PROVE  /\ work' \in [Workers -> Places] /\ OtherWorkers(w)
           /\ work'[w].at = "progress" /\ work'[w].part = work[w].part
           /\ work'[w].next = work[w].next + 1
           /\ work'[w].open = work[w].open /\ work'[w].buffer = work[w].next
           /\ disk' = flushed(w) /\ disk' \in [Files -> [partial : Seq(Nat), done : Seq(Nat)]]
<1>1. work[w] \in Places
  BY DEF Shapes
<1> DEFINE then == [at |-> "progress", part |-> work[w].part, next |-> work[w].next + 1,
                    open |-> work[w].open, buffer |-> work[w].next]
<1>2. work' = [work EXCEPT ![w] = then]
  BY <1>1 DEF Receive, Shapes, Places
<1>3. then \in Places
  BY <1>1 DEF Places, Holding
<1>4. QED BY <1>1, <1>2, <1>3, FlushedShape DEF Shapes, OtherWorkers, Places, Receive

LEMMA ChunkKeeps ==
    ASSUME QueueInv, NEW w \in Workers, Receive(w) \/ Received(w)
    PROVE  QueueInv'
<1>1. work[w].at = "load"
  BY DEF Receive, Received
<1>2. PICK m \in Multis, f \in Files :
         At(w, m, f) /\ P(w) \in Parts /\ P(w) = <<m, f>> /\ parent(P(w)) = m /\ file(P(w)) = f
  BY <1>1, HeldPart DEF Holding
<1>3. Shapes
  BY DEF QueueInv
<1>4. /\ work' \in [Workers -> Places] /\ OtherWorkers(w)
      /\ work'[w].part = work[w].part
      /\ \/ work'[w].at = "progress"
         \/ work'[w].buffer = 0 /\ work'[w].at = "rename"
         \/ work'[w].buffer = 0 /\ work'[w].at = "raise" /\ job[P(w)].cancelled
      /\ disk' \in [Files -> [partial : Seq(Nat), done : Seq(Nat)]]
  <2>1. CASE Receive(w) /\ job[P(w)].cancelled
    BY <2>1, <1>2, <1>3, LeavesThere DEF Receive, Holding
  <2>2. CASE Receive(w) /\ ~job[P(w)].cancelled
    BY <2>2, <1>2, <1>3, ReceivesIt
  <2>3. CASE Received(w)
    BY <2>3, <1>2, <1>3, LeavesThere DEF Received, Holding
  <2>4. QED BY <2>1, <2>2, <2>3
<1>5. UNCHANGED <<job, multi, queue, service>>
  BY DEF Receive, Received
<1>6. Shapes'
  BY <1>3, <1>4, <1>5 DEF Shapes
<1>7. QED BY <1>1, <1>2, <1>4, <1>5, <1>6, HolderGoes DEF Holding, StatusAt

LEMMA RenameKeeps ==
    ASSUME QueueInv, NEW w \in Workers, Rename(w)
    PROVE  QueueInv'
<1>1. work[w].at = "rename"
  BY DEF Rename
<1>2. PICK m \in Multis, f \in Files :
         At(w, m, f) /\ P(w) \in Parts /\ P(w) = <<m, f>> /\ parent(P(w)) = m /\ file(P(w)) = f
  BY <1>1, HeldPart DEF Holding
<1>3. Shapes
  BY DEF QueueInv
<1>4. work[w].buffer = 0
  BY <1>1 DEF QueueInv, WorkerOK
<1>5. PICK place \in {"complete", "error"} : Goes(w, place)
  BY DEF Rename
<1>6. /\ work' \in [Workers -> Places] /\ OtherWorkers(w) /\ work'[w].part = work[w].part
      /\ work'[w].buffer = 0 /\ work'[w].at \in {"complete", "error"}
  BY <1>3, <1>4, <1>5, GoesThere DEF Holding
<1>7. disk' \in [Files -> [partial : Seq(Nat), done : Seq(Nat)]]
  <2>1. disk[f] \in [partial : Seq(Nat), done : Seq(Nat)]
    BY <1>2, <1>3 DEF Shapes
  <2>2. [partial |-> <<>>, done |-> disk[f].partial] \in [partial : Seq(Nat), done : Seq(Nat)]
    BY <2>1, EmptySeq
  <2>3. QED BY <1>2, <1>3, <2>2 DEF Rename, Shapes
<1>8. UNCHANGED <<job, multi, queue, service>>
  BY DEF Rename
<1>9. Shapes'
  BY <1>3, <1>6, <1>7, <1>8 DEF Shapes
<1>10. QED BY <1>1, <1>2, <1>6, <1>8, <1>9, HolderGoes DEF Holding, StatusAt

\* Its part is paused, to be fetched from the first chunk again.
LEMMA RefusedKeeps ==
    ASSUME QueueInv, NEW w \in Workers, work[w].at \in {"answer", "load"},
           job' = [job EXCEPT ![P(w)] = [pause(@) EXCEPT !.resume_required = TRUE]],
           work' \in [Workers -> Places], OtherWorkers(w),
           work'[w].at = "raise", work'[w].part = work[w].part, work'[w].buffer = 0,
           disk' \in [Files -> [partial : Seq(Nat), done : Seq(Nat)]],
           UNCHANGED <<multi, queue, service>>
    PROVE  QueueInv'
<1> DEFINE refused == [pause(job[P(w)]) EXCEPT !.resume_required = TRUE]
<1>1. PICK m \in Multis, f \in Files :
         At(w, m, f) /\ P(w) \in Parts /\ P(w) = <<m, f>> /\ parent(P(w)) = m /\ file(P(w)) = f
  BY HeldPart DEF Holding
<1>2. Shapes
  BY DEF QueueInv
<1>3. /\ refused \in Jobs /\ refused.status = job[P(w)].status /\ refused.cancelled /\ refused.resume_required
      /\ job' = [job EXCEPT ![P(w)] = refused]
  BY <1>1, <1>2 DEF pause, Shapes, Jobs
<1>4. /\ job' \in [Parts -> Jobs] /\ job'[P(w)] = refused
      /\ \A n \in Multis, g \in Files : n # m \/ g # f => job'[<<n, g>>] = job[<<n, g>>]
  <2> HIDE DEF refused
  <2>1. /\ job' \in [Parts -> Jobs] /\ job'[P(w)] = refused
        /\ \A p \in Parts : p # P(w) => job'[p] = job[p]
    BY <1>1, <1>2, <1>3 DEF Shapes
  <2>2. \A n \in Multis, g \in Files : n # m \/ g # f => <<n, g>> \in Parts /\ <<n, g>> # P(w)
    BY <1>1, PartsArePairs
  <2>3. QED BY <2>1, <2>2
<1> HIDE DEF refused
<1>5. Shapes'
  BY <1>2, <1>4 DEF Shapes
<1>6. HeldOK(w, m, f) /\ PartsOK(m) /\ \A g \in Files : <<m, g>> \notin queue
  BY <1>1, Alone
<1>7. At(w, m, f)' /\ OtherMultis(m) /\ SameParts
  BY <1>1, <1>4 DEF At, Holding, P, OtherMultis, SameParts
<1>8. /\ job'[<<m, f>>].status = job[<<m, f>>].status /\ job[<<m, f>>].status \in {"waiting", "running"}
      /\ job'[<<m, f>>].cancelled /\ multi'[m] = multi[m]
      /\ \A g \in Files : g # f => job'[<<m, g>>] = job[<<m, g>>]
  BY <1>1, <1>3, <1>4, <1>6 DEF HeldOK, StatusAt
<1>9. multi[m].parts \subseteq Files /\ multi[m].pending \subseteq Files
  BY <1>2 DEF Shapes, MultiJobs
<1>10. PartsOK(m)'
  BY <1>6, <1>8, <1>9, ZenonT(40) DEF PartsOK, HeldOK, TurnOK
<1>11. HeldOK(w, m, f)'
  BY <1>6, <1>8, <1>9 DEF HeldOK, TurnOK, StatusAt, OthersDone, in_terminal_state
<1>12. QED BY <1>1, <1>5, <1>6, <1>7, <1>10, <1>11, HolderMoves

LEMMA BreaksKeeps ==
    ASSUME QueueInv, NEW w \in Workers, ResumeRefused(w) \/ Breaks(w)
    PROVE  QueueInv'
<1>1. work[w].at \in {"answer", "load"}
  BY DEF ResumeRefused, Breaks
<1>2. PICK m \in Multis, f \in Files :
         At(w, m, f) /\ P(w) \in Parts /\ P(w) = <<m, f>> /\ parent(P(w)) = m /\ file(P(w)) = f
  BY <1>1, HeldPart DEF Holding
<1>3. Shapes
  BY DEF QueueInv
<1>4. CASE ResumeRefused(w)
  <2>1. Goes(w, "raise") /\ UNCHANGED <<multi, queue, disk, service>>
    BY <1>4 DEF ResumeRefused
  <2>2. work[w].buffer = 0
    BY <1>4 DEF ResumeRefused, QueueInv, WorkerOK
  <2>3. disk' \in [Files -> [partial : Seq(Nat), done : Seq(Nat)]]
    BY <1>3, <2>1 DEF Shapes
  <2>4. QED BY <1>1, <1>3, <1>4, <2>1, <2>2, <2>3, GoesThere, RefusedKeeps DEF ResumeRefused, Holding
<1>6. CASE Breaks(w) /\ Leaves(w, "error") /\ UNCHANGED job
  <2>1. UNCHANGED <<job, multi, queue, service>> /\ work[w].at = "load"
    BY <1>6 DEF Breaks
  <2>2. /\ work' \in [Workers -> Places] /\ OtherWorkers(w) /\ work'[w].part = work[w].part
        /\ work'[w].buffer = 0 /\ work'[w].at = "error"
        /\ disk' \in [Files -> [partial : Seq(Nat), done : Seq(Nat)]]
    BY <1>2, <1>3, <1>6, LeavesThere DEF Holding
  <2>3. Shapes'
    BY <1>3, <2>1, <2>2 DEF Shapes
  <2>4. QED BY <1>2, <2>1, <2>2, <2>3, HolderGoes DEF Holding, StatusAt
<1>5. CASE Breaks(w) /\ Leaves(w, "raise") /\ job' = [job EXCEPT ![P(w)] = [pause(@) EXCEPT !.resume_required = TRUE]]
  BY <1>1, <1>2, <1>3, <1>5, LeavesThere, RefusedKeeps DEF Breaks, Holding
<1>7. QED BY <1>4, <1>5, <1>6 DEF Breaks

\* A worker at the top of its loop takes a part, or exits, or comes back to it.
LEMMA TopKeeps ==
    ASSUME QueueInv, NEW w \in Workers, Exit(w) \/ Finally(w)
    PROVE  QueueInv'
<1>1. Shapes /\ WorkerOK(w) /\ work[w] \in Places
  BY DEF QueueInv, Shapes
<1>2. UNCHANGED <<job, multi, queue, disk, service>>
  BY DEF Exit, Finally
<1>3. /\ work' \in [Workers -> Places] /\ OtherWorkers(w)
      /\ work'[w].at \in {"top", "exited"} /\ work'[w].part = None /\ work'[w].buffer = 0
  <2>1. CASE Exit(w)
    BY <2>1, <1>1, GoesThere DEF Exit, WorkerOK, P
  <2>2. CASE Finally(w)
    <3>1. AtTop \in Places
      BY DEF AtTop, Places
    <3>2. work' = [work EXCEPT ![w] = AtTop]
      BY <2>2 DEF Finally
    <3>3. QED BY <3>1, <3>2, <1>1 DEF Shapes, AtTop, OtherWorkers
  <2>3. QED BY <2>1, <2>2
<1>4. Shapes'
  BY <1>1, <1>2, <1>3 DEF Shapes
<1>5. \A n \in Multis, f \in Files : ~At(w, n, f) /\ ~At(w, n, f)'
  BY <1>3 DEF At, Holding, Exit, Finally
<1>6. WorkerOK(w)'
  BY <1>3, PartsArePairs DEF WorkerOK, P
<1>7. \A n \in Multis : MultiOK(n)'
  BY <1>2, <1>3, <1>5, UntouchedKeeps
<1>8. QED BY <1>2, <1>3, <1>4, <1>6, <1>7, WorkersKeep DEF QueueInv, SameParts

LEMMA GetJobKeeps ==
    ASSUME QueueInv, NEW w \in Workers, GetJob(w)
    PROVE  QueueInv'
<1>1. Shapes /\ WorkerOK(w) /\ work[w] \in Places /\ work[w].at = "top"
  BY DEF QueueInv, Shapes, GetJob
<1>2. UNCHANGED <<job, multi, disk, service>>
  BY DEF GetJob
<1>3. PICK p \in queue : /\ queue' = queue \ {p}
                         /\ work' = [work EXCEPT ![w].at = "begin", ![w].part = p]
  BY DEF GetJob
<1>4. PICK m \in Multis, f \in Files : p = <<m, f>> /\ p \in Parts
  BY <1>1, <1>3, PartsArePairs DEF Shapes
<1>5. /\ work' \in [Workers -> Places] /\ OtherWorkers(w)
      /\ work'[w].at = "begin" /\ work'[w].part = p /\ work'[w].buffer = 0
  <2> DEFINE then == [work[w] EXCEPT !.at = "begin", !.part = p]
  <2>1. then \in Places /\ work' = [work EXCEPT ![w] = then]
    BY <1>1, <1>3, <1>4 DEF Places, Shapes, Holding
  <2>2. then.buffer = 0
    BY <1>1 DEF WorkerOK, Places
  <2>3. QED BY <1>1, <2>1, <2>2 DEF Shapes, OtherWorkers, Places
<1>6. Shapes'
  BY <1>1, <1>2, <1>3, <1>5 DEF Shapes
<1>7. MultiOK(m) /\ QueuedOK(m, f) /\ PartsOK(m)
  BY <1>3, <1>4 DEF QueueInv, MultiOK
<1>8. \A n \in Multis, g \in Files : ~At(w, n, g) /\ (At(w, n, g)' <=> n = m /\ g = f)
  BY <1>1, <1>4, <1>5 DEF At, Holding, P
<1>9. OtherMultis(m) /\ SameParts
  BY <1>2, <1>3, <1>4 DEF OtherMultis, SameParts
<1>10. /\ \A g \in Files : <<m, g>> \notin queue'
       /\ \A v \in Workers, g \in Files : At(v, m, g)' <=> v = w /\ g = f
  <2>1. \A g \in Files : <<m, g>> \in queue => g = f
    BY <1>3, <1>4, <1>7 DEF MultiOK, OneTurn
  <2>2. \A v \in Workers, g \in Files : ~At(v, m, g)
    BY <1>3, <1>4, <1>7 DEF MultiOK, OneTurn
  <2>3. \A v \in Workers, g \in Files : v # w => ~At(v, m, g)'
    BY <1>5, <2>2 DEF At, P, OtherWorkers
  <2>4. QED BY <1>3, <1>4, <1>8, <2>1, <2>3
<1>11. HeldOK(w, m, f)'
  BY <1>2, <1>5, <1>7 DEF HeldOK, QueuedOK, TurnOK, OthersDone, in_terminal_state, StatusAt
<1>12. PartsOK(m)' /\ GoesOn(m)'
  BY <1>2, <1>7, <1>8, <1>10 DEF PartsOK, GoesOn, Served, Turn
<1>13. MultiOK(m)'
  BY <1>10, <1>11, <1>12 DEF MultiOK, OneTurn
<1>14. WorkerOK(w)'
  BY <1>2, <1>4, <1>5, <1>7, PartsArePairs DEF WorkerOK, P, QueuedOK, TurnOK
<1>15. QED BY <1>2, <1>5, <1>6, <1>8, <1>9, <1>13, <1>14, WorkersKeep, OthersKeep DEF QueueInv

-------------------------------------------------------------------------------
(* Callbacks of the parts.                                                 *)

LEMMA AskedJob ==
    ASSUME NEW j \in Jobs
    PROVE  /\ cancel_job(j) \in Jobs /\ pause_job(j) \in Jobs
           /\ cancel_job(j).status = j.status /\ pause_job(j).status = j.status
           /\ cancel_job(j).resume_required = j.resume_required
           /\ pause_job(j).resume_required = j.resume_required
           /\ j.cancelled => cancel_job(j).cancelled /\ pause_job(j).cancelled
BY DEF Jobs, cancel_job, pause_job, cancel, pause

LEMMA AskedMulti ==
    ASSUME NEW j \in MultiJobs
    PROVE  /\ cancel_job(j) \in MultiJobs
           /\ cancel_job(j).status = j.status /\ cancel_job(j).parts = j.parts
           /\ cancel_job(j).pending = j.pending /\ cancel_job(j).active = j.active
           /\ cancel_job(j).paused => j.paused
BY DEF MultiJobs, cancel_job, cancel

\* cancelParts of a multi-file job changes flags of its parts.
LEMMA CancelPartsAsks ==
    ASSUME NEW jobs \in [Parts -> Jobs], NEW m \in Multis
    PROVE  /\ cancelParts(jobs, m) \in [Parts -> Jobs]
           /\ \A n \in Multis, f \in Files :
                /\ cancelParts(jobs, m)[<<n, f>>] = IF n = m /\ f \in multi[m].parts
                                                    THEN cancel_job(jobs[<<n, f>>]) ELSE jobs[<<n, f>>]
                /\ cancelParts(jobs, m)[<<n, f>>].status = jobs[<<n, f>>].status
                /\ cancelParts(jobs, m)[<<n, f>>].resume_required = jobs[<<n, f>>].resume_required
                /\ jobs[<<n, f>>].cancelled => cancelParts(jobs, m)[<<n, f>>].cancelled
<1>1. cancelParts(jobs, m) \in [Parts -> Jobs]
  BY AskedJob DEF cancelParts
<1>2. ASSUME NEW n \in Multis, NEW f \in Files
      PROVE  cancelParts(jobs, m)[<<n, f>>] = IF n = m /\ f \in multi[m].parts
                                              THEN cancel_job(jobs[<<n, f>>]) ELSE jobs[<<n, f>>]
  BY PartsArePairs DEF cancelParts
<1>3. \A n \in Multis, f \in Files : jobs[<<n, f>>] \in Jobs
  BY PartsArePairs
<1>4. QED BY <1>1, <1>2, <1>3, AskedJob

LEMMA StartKeeps ==
    ASSUME QueueInv, NEW w \in Workers, Start(w)
    PROVE  QueueInv'
<1>1. work[w].at \in {"start", "startComplete"} /\ UNCHANGED <<queue, service>>
  BY DEF Start
<1>2. PICK m \in Multis, f \in Files :
         At(w, m, f) /\ P(w) \in Parts /\ P(w) = <<m, f>> /\ parent(P(w)) = m /\ file(P(w)) = f
  BY <1>1, HeldPart DEF Holding
<1>3. Shapes /\ work[w] \in Places /\ job[P(w)] \in Jobs /\ multi[m] \in MultiJobs
  BY <1>2 DEF QueueInv, Shapes
<1>4. work[w].buffer = 0
  BY <1>1 DEF QueueInv, WorkerOK
<1>5. HeldOK(w, m, f) /\ PartsOK(m) /\ \A g \in Files : <<m, g>> \notin queue
  BY <1>2, Alone
<1>6. /\ work' \in [Workers -> Places] /\ OtherWorkers(w) /\ work'[w].part = work[w].part
      /\ work'[w].buffer = 0 /\ work'[w].at \in {"complete", "load"}
  <2>1. CASE work[w].at = "startComplete"
    BY <2>1, <1>3, <1>4, GoesThere DEF Start, Holding
  <2>2. CASE work[w].at # "startComplete"
    <3>1. work' = [work EXCEPT ![w] = [work[w] EXCEPT !.at = "load", !.open = TRUE]]
      BY <2>2, <1>3 DEF Start, Shapes, Places
    <3>2. [work[w] EXCEPT !.at = "load", !.open = TRUE] \in Places
      BY <1>3 DEF Places, Holding
    <3>3. QED BY <3>1, <3>2, <1>3, <1>4 DEF Shapes, OtherWorkers, Places
  <2>3. QED BY <2>1, <2>2
<1>7. disk' \in [Files -> [partial : Seq(Nat), done : Seq(Nat)]]
  <2>1. CASE UNCHANGED disk
    BY <2>1, <1>3 DEF Shapes
  <2>2. CASE disk' = [disk EXCEPT ![file(P(w))].partial = <<>>]
    BY <2>2, <1>2, <1>3, EmptySeq DEF Shapes
  <2>3. QED BY <2>1, <2>2 DEF Start
<1>8. /\ job' \in [Parts -> Jobs]
      /\ job'[P(w)] = [job[P(w)] EXCEPT !.status = "running"]
      /\ \A p \in Parts : p # P(w) => job'[p] = job[p]
  BY <1>2, <1>3 DEF Start, Shapes, Jobs, JobStatus
<1>9. \A n \in Multis, g \in Files : n # m \/ g # f => job'[<<n, g>>] = job[<<n, g>>]
  BY <1>2, <1>8, PartsArePairs
<1>10. /\ multi' \in [Multis -> MultiJobs]
       /\ \A n \in Multis : n # m => multi'[n] = multi[n]
       /\ multi'[m].status \in {multi[m].status, "running"}
       /\ multi'[m].parts = multi[m].parts /\ multi'[m].pending = multi[m].pending
       /\ multi'[m].active = multi[m].active /\ multi'[m].paused = multi[m].paused
  <2> DEFINE then == [multi[m] EXCEPT !.status = IF @ = "waiting" THEN "running" ELSE @]
  <2>1. multi' = [multi EXCEPT ![m] = then]
    BY <1>2, <1>3 DEF Start, Shapes
  <2>2. then \in MultiJobs
    BY <1>3 DEF MultiJobs, JobStatus
  <2>3. QED BY <2>1, <2>2, <1>3 DEF Shapes, MultiJobs
<1>11. Shapes'
  BY <1>1, <1>3, <1>6, <1>7, <1>8, <1>10 DEF Shapes
<1>12. At(w, m, f)' /\ OtherMultis(m) /\ SameParts
  BY <1>1, <1>2, <1>6, <1>9, <1>10 DEF At, P, Holding, OtherMultis, SameParts
<1>13. /\ job'[<<m, f>>].status = "running" /\ job'[<<m, f>>].resume_required = job[<<m, f>>].resume_required
       /\ job'[<<m, f>>].cancelled = job[<<m, f>>].cancelled
       /\ multi[m].parts \subseteq Files /\ multi[m].pending \subseteq Files
  BY <1>2, <1>3, <1>8 DEF Jobs, MultiJobs
<1>14. PartsOK(m)'
  BY <1>5, <1>9, <1>10, <1>13 DEF PartsOK, HeldOK, TurnOK
<1>15. HeldOK(w, m, f)'
  BY <1>1, <1>5, <1>6, <1>9, <1>10, <1>13 DEF HeldOK, TurnOK, StatusAt, OthersDone, in_terminal_state
<1>16. QED BY <1>1, <1>2, <1>5, <1>6, <1>11, <1>12, <1>14, <1>15, HolderMoves

LEMMA ProgressKeeps ==
    ASSUME QueueInv, NEW w \in Workers, NEW stops \in BOOLEAN, Progress(w, stops)
    PROVE  QueueInv'
<1>1. work[w].at = "progress" /\ UNCHANGED <<queue, disk, service>> /\ Goes(w, "load")
  BY DEF Progress
<1>2. PICK m \in Multis, f \in Files :
         At(w, m, f) /\ P(w) \in Parts /\ P(w) = <<m, f>> /\ parent(P(w)) = m /\ file(P(w)) = f
  BY <1>1, HeldPart DEF Holding
<1>3. Shapes /\ work[w] \in Places /\ job[P(w)] \in Jobs /\ multi[m] \in MultiJobs
  BY <1>2 DEF QueueInv, Shapes
<1>4. HeldOK(w, m, f) /\ PartsOK(m) /\ \A g \in Files : <<m, g>> \notin queue
  BY <1>2, Alone
<1>5. /\ work' \in [Workers -> Places] /\ OtherWorkers(w) /\ work'[w].part = work[w].part
      /\ work'[w].at = "load"
  BY <1>1, <1>3, GoesThere DEF Holding
<1>6. /\ job' \in [Parts -> Jobs]
      /\ \A n \in Multis, g \in Files :
            /\ job'[<<n, g>>].status = job[<<n, g>>].status
            /\ job'[<<n, g>>].resume_required = job[<<n, g>>].resume_required
            /\ n # m \/ g \notin multi[m].parts => job'[<<n, g>>] = job[<<n, g>>]
  <2>1. CASE UNCHANGED job
    BY <2>1, <1>3 DEF Shapes
  <2>2. CASE job' = cancelParts(job, m)
    <3>1. job \in [Parts -> Jobs]
      BY <1>3 DEF Shapes
    <3>2. QED BY <2>2, <3>1, CancelPartsAsks
  <2>3. QED BY <2>1, <2>2, <1>2 DEF Progress
<1>7. /\ multi' \in [Multis -> MultiJobs]
      /\ \A n \in Multis : n # m => multi'[n] = multi[n]
      /\ multi'[m].status = multi[m].status
      /\ multi'[m].parts = multi[m].parts /\ multi'[m].pending = multi[m].pending
      /\ multi'[m].active = multi[m].active /\ (multi'[m].paused => multi[m].paused)
  <2>1. CASE UNCHANGED multi
    BY <2>1, <1>3 DEF Shapes
  <2>2. CASE multi' = [multi EXCEPT ![m] = cancel_job(multi[m])]
    BY <2>2, <1>3, AskedMulti DEF Shapes
  <2>3. QED BY <2>1, <2>2, <1>2 DEF Progress
<1>8. Shapes'
  BY <1>1, <1>3, <1>5, <1>6, <1>7 DEF Shapes
<1>9. At(w, m, f)' /\ OtherMultis(m) /\ SameParts
  BY <1>1, <1>2, <1>5, <1>6, <1>7 DEF At, P, Holding, OtherMultis, SameParts
<1>10. multi[m].parts \subseteq Files /\ multi[m].pending \subseteq Files
  BY <1>3 DEF MultiJobs
<1>11. PartsOK(m)'
  BY <1>4, <1>6, <1>7, <1>10 DEF PartsOK
<1>12. HeldOK(w, m, f)'
  BY <1>1, <1>4, <1>5, <1>6, <1>7, <1>10 DEF HeldOK, TurnOK, StatusAt, OthersDone, in_terminal_state
<1>13. QED BY <1>1, <1>2, <1>4, <1>5, <1>8, <1>9, <1>11, <1>12, HolderMoves

LEMMA CompleteKeeps ==
    ASSUME QueueInv, NEW w \in Workers, Complete(w)
    PROVE  QueueInv'
<1>1. work[w].at = "complete" /\ UNCHANGED <<queue, disk, service>>
  BY DEF Complete
<1>2. PICK m \in Multis, f \in Files :
         At(w, m, f) /\ P(w) \in Parts /\ P(w) = <<m, f>> /\ parent(P(w)) = m /\ file(P(w)) = f
  BY <1>1, HeldPart DEF Holding
<1>3. Shapes /\ work[w] \in Places /\ job[P(w)] \in Jobs /\ multi[m] \in MultiJobs
  BY <1>2 DEF QueueInv, Shapes
<1>4. work[w].buffer = 0
  BY <1>1 DEF QueueInv, WorkerOK
<1>5. HeldOK(w, m, f) /\ PartsOK(m) /\ \A g \in Files : <<m, g>> \notin queue
  BY <1>2, Alone
<1>6. AllComplete(w) <=> \A g \in multi[m].parts : g = f \/ job[<<m, g>>].status = "completed"
  BY <1>2 DEF AllComplete
<1>7. PICK place \in {"submit", "finally"} :
         /\ Goes(w, place)
         /\ place = "submit" <=> ~AllComplete(w) /\ ~in_terminal_state(multi[m]) /\ ~multi[m].paused
  BY <1>2 DEF Complete
<1>8. /\ work' \in [Workers -> Places] /\ OtherWorkers(w) /\ work'[w].part = work[w].part
      /\ work'[w].buffer = 0 /\ work'[w].at = place
  BY <1>3, <1>4, <1>7, GoesThere DEF Holding
<1>9. /\ job' \in [Parts -> Jobs]
      /\ job'[P(w)] = [job[P(w)] EXCEPT !.status = "completed"]
      /\ \A p \in Parts : p # P(w) => job'[p] = job[p]
  BY <1>2, <1>3 DEF Complete, Shapes, Jobs, JobStatus
<1>10. \A n \in Multis, g \in Files : n # m \/ g # f => job'[<<n, g>>] = job[<<n, g>>]
  BY <1>2, <1>9, PartsArePairs
<1>11. /\ multi' \in [Multis -> MultiJobs]
       /\ \A n \in Multis : n # m => multi'[n] = multi[n]
       /\ multi'[m].status = IF AllComplete(w) THEN "completed" ELSE multi[m].status
       /\ multi'[m].parts = multi[m].parts /\ multi'[m].pending = multi[m].pending
       /\ multi'[m].active = 0 /\ multi'[m].paused = multi[m].paused
  <2> DEFINE then == [multi[m] EXCEPT !.active = 0, !.status = IF AllComplete(w) THEN "completed" ELSE @]
  <2>1. multi' = [multi EXCEPT ![m] = then]
    BY <1>2, <1>3 DEF Complete, Shapes
  <2>2. then \in MultiJobs
    BY <1>3 DEF MultiJobs, JobStatus
  <2>3. QED BY <2>1, <2>2, <1>3 DEF Shapes, MultiJobs
<1>12. Shapes'
  BY <1>1, <1>3, <1>8, <1>9, <1>11 DEF Shapes
<1>13. OtherMultis(m) /\ SameParts
  BY <1>1, <1>10, <1>11 DEF OtherMultis, SameParts
<1>14. /\ job'[<<m, f>>].status = "completed" /\ ~job'[<<m, f>>].resume_required
       /\ multi[m].parts \subseteq Files /\ multi[m].pending \subseteq Files
  BY <1>1, <1>2, <1>3, <1>5, <1>9 DEF Jobs, MultiJobs, HeldOK
<1>15. PartsOK(m)'
  BY <1>5, <1>10, <1>11, <1>14 DEF PartsOK, HeldOK, TurnOK
<1>16. CASE AllComplete(w)
  <2>1. in_terminal_state(multi[m])'
    BY <1>11, <1>16 DEF in_terminal_state
  <2>2. work'[w].at = "finally" /\ work'[w].part = <<m, f>>
    BY <1>2, <1>7, <1>8, <1>16 DEF P
  <2>3. QED BY <1>1, <1>2, <1>5, <1>8, <1>12, <1>13, <1>15, <2>1, <2>2, HolderLetsGo
<1>17. CASE ~AllComplete(w)
  <2>1. ~in_terminal_state(multi[m]) /\ ~multi[m].paused /\ multi[m].pending # {}
    BY <1>1, <1>5, <1>6, <1>17 DEF HeldOK, TurnOK, OthersDone
  <2>2. work'[w].at = "submit" /\ At(w, m, f)'
    BY <1>2, <1>7, <1>8, <1>17, <2>1 DEF At, P, Holding
  <2>3. HeldOK(w, m, f)'
    BY <1>1, <1>5, <1>10, <1>11, <1>14, <1>17, <2>1, <2>2
       DEF HeldOK, TurnOK, StatusAt, OthersDone, in_terminal_state
  <2>4. QED BY <1>1, <1>2, <1>5, <1>8, <1>12, <1>13, <1>15, <2>2, <2>3, HolderMoves
<1>18. QED BY <1>16, <1>17

LEMMA SubmitNextKeeps ==
    ASSUME QueueInv, NEW w \in Workers, SubmitNext(w)
    PROVE  QueueInv'
<1>1. work[w].at = "submit" /\ UNCHANGED <<job, disk, service>> /\ Goes(w, "finally")
  BY DEF SubmitNext
<1>2. PICK m \in Multis, f \in Files :
         At(w, m, f) /\ P(w) \in Parts /\ P(w) = <<m, f>> /\ parent(P(w)) = m /\ file(P(w)) = f
  BY <1>1, HeldPart DEF Holding
<1>3. Shapes /\ work[w] \in Places /\ multi[m] \in MultiJobs
  BY <1>2 DEF QueueInv, Shapes
<1>4. work[w].buffer = 0
  BY <1>1 DEF QueueInv, WorkerOK
<1>5. HeldOK(w, m, f) /\ PartsOK(m) /\ \A g \in Files : <<m, g>> \notin queue
  BY <1>2, Alone
<1>6. /\ work' \in [Workers -> Places] /\ OtherWorkers(w) /\ work'[w].part = <<m, f>>
      /\ work'[w].buffer = 0 /\ work'[w].at = "finally"
  BY <1>1, <1>2, <1>3, <1>4, GoesThere DEF P
<1>7. /\ multi[m].pending # {} /\ multi[m].active = 0 /\ ~multi[m].paused
      /\ multi[m].pending \subseteq Files /\ multi[m].parts \subseteq Files
  BY <1>1, <1>3, <1>5 DEF HeldOK, MultiJobs
<1>8. PICK h \in multi[m].pending :
         /\ multi' = [multi EXCEPT ![m] = [multi[m] EXCEPT !.pending = @ \ {h}, !.active = h]]
         /\ queue' = IF service = "up" THEN queue \cup {<<m, h>>} ELSE queue
  <2>1. Min(multi[m].pending) \in multi[m].pending
    BY <1>7, MinIs, DownloadAssumption DEF DownloadAssumption
  <2>2. QED BY <1>2, <1>7, <2>1 DEF SubmitNext, _submit_next_mfd_part
<1>9. h \in Files
  BY <1>7
<1>10. /\ multi' \in [Multis -> MultiJobs]
       /\ \A n \in Multis : n # m => multi'[n] = multi[n]
       /\ multi'[m].status = multi[m].status /\ multi'[m].parts = multi[m].parts
       /\ multi'[m].pending = multi[m].pending \ {h}
       /\ multi'[m].active = h /\ multi'[m].paused = multi[m].paused
  <2> DEFINE then == [multi[m] EXCEPT !.pending = @ \ {h}, !.active = h]
  <2>1. then \in MultiJobs
    BY <1>3, <1>9 DEF MultiJobs
  <2>2. QED BY <2>1, <1>3, <1>8 DEF Shapes, MultiJobs
<1>11. queue' \in SUBSET Parts /\ \A n \in Multis, g \in Files : n # m => (<<n, g>> \in queue' <=> <<n, g>> \in queue)
  BY <1>3, <1>8, <1>9, PartsArePairs DEF Shapes
<1>12. Shapes'
  BY <1>1, <1>3, <1>6, <1>10, <1>11 DEF Shapes
<1>13. OtherMultis(m) /\ SameParts
  BY <1>1, <1>10, <1>11 DEF OtherMultis, SameParts
<1>14. PartsOK(m)'
  BY <1>1, <1>5, <1>10 DEF PartsOK
<1>15. QueuedOK(m, h)'
  <2>1. job[<<m, h>>].status = "waiting" /\ ~job[<<m, h>>].resume_required /\ h \in multi[m].parts
    BY <1>5, <1>8 DEF PartsOK
  <2>2. job[<<m, f>>].status = "completed"
    BY <1>1, <1>5 DEF HeldOK, StatusAt
  <2>3. QED BY <1>1, <1>5, <1>7, <1>9, <1>10, <2>1, <2>2 DEF QueuedOK, HeldOK, TurnOK, OthersDone, in_terminal_state
<1>16. service = "up" => \A g \in Files : <<m, g>> \in queue' <=> g = h
  BY <1>5, <1>8
<1>17. service # "up" => \A g \in Files : <<m, g>> \notin queue'
  BY <1>5, <1>8
<1>18. QED BY <1>1, <1>2, <1>6, <1>9, <1>12, <1>13, <1>14, <1>15, <1>16, <1>17, HolderLetsGo

LEMMA RaiseKeeps ==
    ASSUME QueueInv, NEW w \in Workers, Raise(w)
    PROVE  QueueInv'
<1>1. work[w].at = "raise" /\ UNCHANGED <<queue, disk, service>> /\ Goes(w, "parent")
  BY DEF Raise
<1>2. PICK m \in Multis, f \in Files :
         At(w, m, f) /\ P(w) \in Parts /\ P(w) = <<m, f>> /\ parent(P(w)) = m /\ file(P(w)) = f
  BY <1>1, HeldPart DEF Holding
<1>3. Shapes /\ work[w] \in Places /\ job[P(w)] \in Jobs /\ multi[m] \in MultiJobs
  BY <1>2 DEF QueueInv, Shapes
<1>4. work[w].buffer = 0
  BY <1>1 DEF QueueInv, WorkerOK
<1>5. HeldOK(w, m, f) /\ PartsOK(m) /\ \A g \in Files : <<m, g>> \notin queue
  BY <1>2, Alone
<1>6. /\ work' \in [Workers -> Places] /\ OtherWorkers(w) /\ work'[w].part = work[w].part
      /\ work'[w].buffer = 0 /\ work'[w].at = "parent"
  BY <1>1, <1>3, <1>4, GoesThere DEF Holding
<1>7. ~in_terminal_state(multi[m])
  BY <1>5 DEF HeldOK, TurnOK
<1>8. PICK mf \in MultiJobs, ended \in [Parts -> Jobs] :
         /\ mf.status = multi[m].status /\ mf.parts = multi[m].parts /\ mf.pending = multi[m].pending
         /\ ended[P(w)] = [job[P(w)] EXCEPT !.status = IF job[P(w)].paused THEN "paused" ELSE "cancelled"]
         /\ \A p \in Parts : p # P(w) => ended[p] = job[p]
         /\ IF job[P(w)].paused
            THEN job' = ended /\ multi' = [multi EXCEPT ![m] = [mf EXCEPT !.active = 0]]
            ELSE /\ job' = cancelParts(ended, m)
                 /\ multi' = [multi EXCEPT ![m] = [mf EXCEPT !.active = 0, !.pending = {}]]
  <2> DEFINE mf == IF job[P(w)].paused THEN pause(multi[m]) ELSE cancel(multi[m])
  <2> DEFINE ended == [job EXCEPT ![P(w)].status = IF job[P(w)].paused THEN "paused" ELSE "cancelled"]
  <2>1. /\ mf \in MultiJobs
        /\ mf.status = multi[m].status /\ mf.parts = multi[m].parts /\ mf.pending = multi[m].pending
    BY <1>3 DEF pause, cancel, MultiJobs
  <2>2. /\ ended \in [Parts -> Jobs]
        /\ ended[P(w)] = [job[P(w)] EXCEPT !.status = IF job[P(w)].paused THEN "paused" ELSE "cancelled"]
        /\ \A p \in Parts : p # P(w) => ended[p] = job[p]
    BY <1>2, <1>3 DEF Shapes, Jobs, JobStatus
  <2>3. IF job[P(w)].paused
        THEN job' = ended /\ multi' = [multi EXCEPT ![m] = [mf EXCEPT !.active = 0]]
        ELSE /\ job' = cancelParts(ended, m)
             /\ multi' = [multi EXCEPT ![m] = [mf EXCEPT !.active = 0, !.pending = {}]]
    BY <1>2, <1>7 DEF Raise
  <2> HIDE DEF mf, ended
  <2>4. QED BY <2>1, <2>2, <2>3
<1>9. ended[P(w)] \in Jobs /\ ended[P(w)].status \in {"paused", "cancelled"} /\ ended[P(w)].cancelled
  BY <1>1, <1>2, <1>3, <1>5, <1>8 DEF HeldOK, Jobs
<1>10. \A n \in Multis, g \in Files : n # m \/ g # f => ended[<<n, g>>] = job[<<n, g>>]
  BY <1>2, <1>8, PartsArePairs
<1>11. /\ job' \in [Parts -> Jobs]
       /\ \A n \in Multis, g \in Files :
             /\ job'[<<n, g>>].status = ended[<<n, g>>].status
             /\ job'[<<n, g>>].resume_required = ended[<<n, g>>].resume_required
             /\ ended[<<n, g>>].cancelled => job'[<<n, g>>].cancelled
             /\ n # m \/ g \notin multi[m].parts => job'[<<n, g>>] = ended[<<n, g>>]
  <2>1. CASE job' = ended
    BY <2>1
  <2>2. CASE job' = cancelParts(ended, m)
    BY <2>2, CancelPartsAsks
  <2>3. QED BY <1>8, <2>1, <2>2
<1>12. /\ multi' \in [Multis -> MultiJobs]
       /\ \A n \in Multis : n # m => multi'[n] = multi[n]
       /\ multi'[m].status = multi[m].status /\ multi'[m].parts = multi[m].parts
       /\ multi'[m].pending \in {{}, multi[m].pending} /\ multi'[m].active = 0
  <2>1. PICK then \in MultiJobs :
           /\ multi' = [multi EXCEPT ![m] = then]
           /\ then.status = multi[m].status /\ then.parts = multi[m].parts
           /\ then.pending \in {{}, multi[m].pending} /\ then.active = 0
    <3>1. CASE job[P(w)].paused
      <4>1. multi' = [multi EXCEPT ![m] = [mf EXCEPT !.active = 0]]
        BY <3>1, <1>8
      <4>2. [mf EXCEPT !.active = 0] \in MultiJobs
        BY DEF MultiJobs
      <4>3. QED BY <4>1, <4>2, <1>8 DEF MultiJobs
    <3>2. CASE ~job[P(w)].paused
      <4>1. multi' = [multi EXCEPT ![m] = [mf EXCEPT !.active = 0, !.pending = {}]]
        BY <3>2, <1>8
      <4>2. [mf EXCEPT !.active = 0, !.pending = {}] \in MultiJobs
        BY DEF MultiJobs
      <4>3. QED BY <4>1, <4>2, <1>8 DEF MultiJobs
    <3>3. QED BY <3>1, <3>2
  <2>2. QED BY <2>1, <1>3 DEF Shapes
<1>13. Shapes'
  BY <1>1, <1>3, <1>6, <1>11, <1>12 DEF Shapes
<1>14. At(w, m, f)' /\ OtherMultis(m) /\ SameParts
  BY <1>1, <1>2, <1>6, <1>10, <1>11, <1>12 DEF At, P, Holding, OtherMultis, SameParts
<1>15. /\ f \in multi[m].parts /\ f \notin multi[m].pending /\ multi[m].pending \subseteq Files
       /\ multi[m].parts \subseteq Files
  BY <1>3, <1>5 DEF HeldOK, TurnOK, MultiJobs
<1>16. \A g \in Files : g # f => /\ job'[<<m, g>>].status = job[<<m, g>>].status
                                 /\ job'[<<m, g>>].resume_required = job[<<m, g>>].resume_required
  BY <1>10, <1>11
<1>17. job'[<<m, f>>].status \in {"paused", "cancelled"} /\ job'[<<m, f>>].cancelled
  BY <1>2, <1>9, <1>11
<1>18. PartsOK(m)'
  BY <1>5, <1>10, <1>11, <1>12, <1>15, <1>16, <1>17 DEF PartsOK
<1>19. HeldOK(w, m, f)'
  BY <1>6, <1>7, <1>12, <1>15, <1>17 DEF HeldOK, TurnOK, StatusAt, in_terminal_state
<1>20. QED BY <1>1, <1>2, <1>5, <1>6, <1>13, <1>14, <1>18, <1>19, HolderMoves

\* Files that are unlinked are no longer anybody's.
LEMMA UnlinkedIs ==
    ASSUME NEW ws \in [Workers -> Places], NEW files \in SUBSET Files
    PROVE  /\ unlinked(ws, files) \in [Workers -> Places]
           /\ \A v \in Workers : /\ unlinked(ws, files)[v].at = ws[v].at
                                 /\ unlinked(ws, files)[v].part = ws[v].part
                                 /\ unlinked(ws, files)[v].next = ws[v].next
                                 /\ unlinked(ws, files)[v].buffer = ws[v].buffer
<1> SUFFICES ASSUME NEW v \in Workers
             PROVE  LET then == [ws[v] EXCEPT !.open = @ /\ file(ws[v].part) \notin files]
                    IN  /\ then \in Places
                        /\ then.at = ws[v].at /\ then.part = ws[v].part
                        /\ then.next = ws[v].next /\ then.buffer = ws[v].buffer
  BY DEF unlinked
<1> DEFINE open == ws[v].open /\ file(ws[v].part) \notin files
<1>1. open \in BOOLEAN
  BY DEF Places
<1>2. [ws[v] EXCEPT !.open = @ /\ file(ws[v].part) \notin files] = [ws[v] EXCEPT !.open = open]
  BY DEF Places
<1> HIDE DEF open
<1>3. QED BY <1>1, <1>2 DEF Places

\* Directories that are removed, or partial files that are.
LEMMA WipedShape ==
    ASSUME NEW d \in [Files -> [partial : Seq(Nat), done : Seq(Nat)]], NEW cleaned
    PROVE  /\ Wiped \in [Files -> [partial : Seq(Nat), done : Seq(Nat)]]
           /\ [f \in Files |-> IF f \in cleaned THEN [d[f] EXCEPT !.partial = <<>>] ELSE d[f]]
                \in [Files -> [partial : Seq(Nat), done : Seq(Nat)]]
<1>1. \A f \in Files : [d[f] EXCEPT !.partial = <<>>] \in [partial : Seq(Nat), done : Seq(Nat)]
  BY EmptySeq
<1>2. QED BY <1>1, EmptySeq DEF Wiped

\* The files that a worker's directory loses, and the worker at the end of its loop.
LEMMA MovedAndUnlinked ==
    ASSUME Shapes, NEW w \in Workers, NEW files \in SUBSET Files,
           \/ work' = unlinked([work EXCEPT ![w].at = "finally"], files)
           \/ work' = [work EXCEPT ![w].at = "finally"]
    PROVE  /\ work' \in [Workers -> Places] /\ OtherWorkers(w) /\ work'[w].at = "finally"
           /\ work'[w].part = work[w].part /\ work'[w].buffer = work[w].buffer
           /\ \A v \in Workers : work'[v].next = work[v].next
<1>1. PICK moved \in [Workers -> Places] :
         /\ moved = [work EXCEPT ![w].at = "finally"]
         /\ moved[w].at = "finally" /\ moved[w].part = work[w].part /\ moved[w].buffer = work[w].buffer
         /\ moved[w].next = work[w].next
         /\ \A v \in Workers : v # w => moved[v] = work[v]
  <2> DEFINE moved == [work EXCEPT ![w].at = "finally"]
  <2>1. work[w] \in Places /\ work \in [Workers -> Places]
    BY DEF Shapes
  <2>2. moved = [work EXCEPT ![w] = [work[w] EXCEPT !.at = "finally"]]
    OBVIOUS
  <2>3. [work[w] EXCEPT !.at = "finally"] \in Places
    BY <2>1 DEF Places
  <2>4. /\ moved \in [Workers -> Places]
        /\ moved[w] = [work[w] EXCEPT !.at = "finally"]
        /\ \A v \in Workers : v # w => moved[v] = work[v]
    BY <2>1, <2>2, <2>3
  <2> HIDE DEF moved
  <2>5. moved[w].at = "finally" /\ moved[w].part = work[w].part /\ moved[w].buffer = work[w].buffer
        /\ moved[w].next = work[w].next
    BY <2>1, <2>4 DEF Places
  <2>6. QED BY <2>4, <2>5 DEF moved
<1>2. CASE work' = moved
  BY <1>1, <1>2 DEF OtherWorkers
<1>3. CASE work' = unlinked(moved, files)
  <2>1. /\ work' \in [Workers -> Places]
        /\ \A v \in Workers : /\ work'[v].at = moved[v].at /\ work'[v].part = moved[v].part
                              /\ work'[v].next = moved[v].next /\ work'[v].buffer = moved[v].buffer
    BY <1>3, UnlinkedIs
  <2>2. QED BY <1>1, <2>1 DEF OtherWorkers
<1>4. QED BY <1>1, <1>2, <1>3

LEMMA ParentKeeps ==
    ASSUME QueueInv, NEW w \in Workers, NEW wipes \in BOOLEAN, Parent(w, wipes)
    PROVE  QueueInv'
<1>1. work[w].at = "parent" /\ UNCHANGED <<job, queue, service>>
  BY DEF Parent
<1>2. PICK m \in Multis, f \in Files :
         At(w, m, f) /\ P(w) \in Parts /\ P(w) = <<m, f>> /\ parent(P(w)) = m /\ file(P(w)) = f
  BY <1>1, HeldPart DEF Holding
<1>3. Shapes /\ work[w] \in Places /\ job[P(w)] \in Jobs /\ multi[m] \in MultiJobs
  BY <1>2 DEF QueueInv, Shapes
<1>4. work[w].buffer = 0
  BY <1>1 DEF QueueInv, WorkerOK
<1>5. HeldOK(w, m, f) /\ PartsOK(m) /\ \A g \in Files : <<m, g>> \notin queue
  BY <1>2, Alone
<1>6. PICK files \in SUBSET Files : work' = unlinked([work EXCEPT ![w].at = "finally"], files)
  <2>1. CASE wipes
    BY <2>1 DEF Parent
  <2>2. CASE ~wipes /\ ~job[P(w)].paused /\ work[w].next # 0
    <3>1. {file(P(w))} \in SUBSET Files
      BY <1>2
    <3>2. QED BY <2>2, <3>1 DEF Parent
  <2>3. CASE ~wipes /\ ~(~job[P(w)].paused /\ work[w].next # 0)
    BY <2>3 DEF Parent
  <2>4. QED BY <2>1, <2>2, <2>3
<1>7. /\ work' \in [Workers -> Places] /\ OtherWorkers(w) /\ work'[w].at = "finally"
      /\ work'[w].part = <<m, f>> /\ work'[w].buffer = 0
  BY <1>2, <1>3, <1>4, <1>6, MovedAndUnlinked DEF P
<1>8. disk' \in [Files -> [partial : Seq(Nat), done : Seq(Nat)]]
  <2>1. disk \in [Files -> [partial : Seq(Nat), done : Seq(Nat)]]
    BY <1>3 DEF Shapes
  <2>2. CASE wipes
    BY <2>1, <2>2, WipedShape DEF Parent
  <2>3. CASE ~wipes
    <3> DEFINE cleaned == IF ~job[P(w)].paused /\ work[w].next # 0 THEN {file(P(w))} ELSE {}
    <3>1. disk' = [g \in Files |-> IF g \in cleaned THEN [disk[g] EXCEPT !.partial = <<>>] ELSE disk[g]]
      BY <2>3 DEF Parent
    <3> HIDE DEF cleaned
    <3>2. QED BY <2>1, <3>1, WipedShape, ZenonT(40)
  <2>4. QED BY <2>2, <2>3
<1>9. /\ multi' \in [Multis -> MultiJobs]
      /\ \A n \in Multis : n # m => multi'[n] = multi[n]
      /\ multi'[m].status \in {"paused", "cancelled"} /\ multi'[m].parts = multi[m].parts
      /\ multi'[m].pending = multi[m].pending
  <2>1. job[P(w)].status \in {"paused", "cancelled"} /\ EndsMulti(w)
    BY <1>1, <1>2, <1>5 DEF HeldOK, TurnOK, StatusAt, EndsMulti
  <2>2. multi' = [multi EXCEPT ![m] = [multi[m] EXCEPT !.status = job[P(w)].status]]
    BY <1>2, <1>3, <2>1 DEF Parent, Shapes
  <2>3. [multi[m] EXCEPT !.status = job[P(w)].status] \in MultiJobs
    BY <1>3, <2>1 DEF MultiJobs, Jobs
  <2>4. QED BY <1>3, <2>1, <2>2, <2>3 DEF Shapes, MultiJobs
<1>10. Shapes'
  BY <1>1, <1>3, <1>7, <1>8, <1>9 DEF Shapes
<1>11. OtherMultis(m) /\ SameParts
  BY <1>1, <1>9 DEF OtherMultis, SameParts
<1>12. PartsOK(m)'
  BY <1>1, <1>5, <1>9 DEF PartsOK, HeldOK, TurnOK
<1>13. in_terminal_state(multi[m])' /\ \A g \in Files : <<m, g>> \notin queue'
  BY <1>1, <1>5, <1>9 DEF in_terminal_state
<1>14. QED BY <1>1, <1>2, <1>7, <1>10, <1>11, <1>12, <1>13, HolderLetsGo

LEMMA ErrorKeeps ==
    ASSUME QueueInv, NEW w \in Workers, NEW wipes \in BOOLEAN, Error(w, wipes)
    PROVE  QueueInv'
<1>1. work[w].at = "error" /\ UNCHANGED <<queue, service>>
  BY DEF Error
<1>2. PICK m \in Multis, f \in Files :
         At(w, m, f) /\ P(w) \in Parts /\ P(w) = <<m, f>> /\ parent(P(w)) = m /\ file(P(w)) = f
  BY <1>1, HeldPart DEF Holding
<1>3. Shapes /\ work[w] \in Places /\ job[P(w)] \in Jobs /\ multi[m] \in MultiJobs
  BY <1>2 DEF QueueInv, Shapes
<1>4. work[w].buffer = 0
  BY <1>1 DEF QueueInv, WorkerOK
<1>5. HeldOK(w, m, f) /\ PartsOK(m) /\ \A g \in Files : <<m, g>> \notin queue
  BY <1>2, Alone
<1>6. EndsMulti(w)
  BY <1>2, <1>5 DEF EndsMulti, HeldOK, TurnOK
<1>7. /\ work' \in [Workers -> Places] /\ OtherWorkers(w) /\ work'[w].at = "finally"
      /\ work'[w].part = <<m, f>> /\ work'[w].buffer = 0
  BY <1>2, <1>3, <1>4, MovedAndUnlinked DEF P, Error
<1>8. disk' \in [Files -> [partial : Seq(Nat), done : Seq(Nat)]]
  <2>1. disk \in [Files -> [partial : Seq(Nat), done : Seq(Nat)]]
    BY <1>3 DEF Shapes
  <2>2. QED BY <2>1, WipedShape DEF Error
<1>9. /\ job' \in [Parts -> Jobs]
      /\ job'[P(w)] = [job[P(w)] EXCEPT !.status = "error"]
      /\ \A p \in Parts : p # P(w) =>
            job'[p] = IF parent(p) = m /\ job[p].status = "running" THEN cancel(job[p]) ELSE job[p]
  <2>1. \A p \in Parts : job[p] \in Jobs /\ cancel(job[p]) \in Jobs /\ [job[p] EXCEPT !.status = "error"] \in Jobs
    BY <1>3 DEF Shapes, Jobs, JobStatus, cancel
  <2>2. QED BY <1>2, <1>6, <2>1 DEF Error
<1>10. \A n \in Multis, g \in Files : n # m \/ g # f =>
          /\ job'[<<n, g>>] = IF n = m /\ job[<<n, g>>].status = "running"
                              THEN cancel(job[<<n, g>>]) ELSE job[<<n, g>>]
          /\ job'[<<n, g>>].status = job[<<n, g>>].status
          /\ job'[<<n, g>>].resume_required = job[<<n, g>>].resume_required
  <2> SUFFICES ASSUME NEW n \in Multis, NEW g \in Files, n # m \/ g # f
               PROVE  /\ job'[<<n, g>>] = IF n = m /\ job[<<n, g>>].status = "running"
                                          THEN cancel(job[<<n, g>>]) ELSE job[<<n, g>>]
                      /\ job'[<<n, g>>].status = job[<<n, g>>].status
                      /\ job'[<<n, g>>].resume_required = job[<<n, g>>].resume_required
    OBVIOUS
  <2>1. job'[<<n, g>>] = IF n = m /\ job[<<n, g>>].status = "running"
                         THEN cancel(job[<<n, g>>]) ELSE job[<<n, g>>]
    BY <1>2, <1>9, PartsArePairs
  <2>2. job[<<n, g>>] \in Jobs
    BY <1>3, PartsArePairs DEF Shapes
  <2>3. QED BY <2>1, <2>2 DEF Jobs, cancel
<1>11. /\ multi' \in [Multis -> MultiJobs]
       /\ \A n \in Multis : n # m => multi'[n] = multi[n]
       /\ multi'[m].status = "error" /\ multi'[m].parts = multi[m].parts /\ multi'[m].pending = {}
  <2> DEFINE then == [multi[m] EXCEPT !.active = 0, !.status = "error", !.pending = {}]
  <2>1. multi' = [multi EXCEPT ![m] = then]
    BY <1>2, <1>3, <1>6 DEF Error, Shapes
  <2>2. then \in MultiJobs
    BY <1>3 DEF MultiJobs, JobStatus
  <2>3. QED BY <2>1, <2>2, <1>3 DEF Shapes, MultiJobs
<1>12. Shapes'
  BY <1>1, <1>3, <1>7, <1>8, <1>9, <1>11 DEF Shapes
<1>13. OtherMultis(m) /\ SameParts
  BY <1>1, <1>10, <1>11 DEF OtherMultis, SameParts
<1>14. /\ f \in multi[m].parts
       /\ \A g \in Files : g \notin multi[m].parts => job[<<m, g>>].status = "waiting"
       /\ \A g \in Files : job[<<m, g>>].resume_required => job[<<m, g>>].status # "completed"
  BY <1>5 DEF HeldOK, TurnOK, PartsOK, NewJob
<1>15. job'[<<m, f>>].status = "error"
  BY <1>2, <1>3, <1>9 DEF Jobs
<1>16. PartsOK(m)'
  BY <1>5, <1>10, <1>11, <1>14, <1>15 DEF PartsOK
<1>17. in_terminal_state(multi[m])' /\ \A g \in Files : <<m, g>> \notin queue'
  BY <1>1, <1>5, <1>11 DEF in_terminal_state
<1>18. QED BY <1>1, <1>2, <1>7, <1>12, <1>13, <1>16, <1>17, HolderLetsGo

-------------------------------------------------------------------------------
(* The steps of the service.                                               *)

\* Whether or not w calls the multi-file job's owner back.
WorkerStep(w) ==
    \/ Step(w) \/ Start(w) \/ Complete(w)
    \/ \E stops \in BOOLEAN : Progress(w, stops)
    \/ \E wipes \in BOOLEAN : Parent(w, wipes) \/ Error(w, wipes)

THEOREM WorkerKeeps ==
    ASSUME QueueInv, NEW w \in Workers, WorkerStep(w)
    PROVE  QueueInv'
<1>1. CASE Step(w)
  <2>1. CASE GetJob(w)
    BY <2>1, GetJobKeeps
  <2>2. CASE Exit(w) \/ Finally(w)
    BY <2>2, TopKeeps
  <2>3. CASE Request(w) \/ RequestFails(w) \/ NothingToFetch(w) \/ Answered(w)
    BY <2>3, RequestKeeps
  <2>4. CASE ResumeRefused(w) \/ Breaks(w)
    BY <2>4, RefusedKeeps, BreaksKeeps
  <2>5. CASE Receive(w) \/ Received(w)
    BY <2>5, ChunkKeeps
  <2>6. CASE Rename(w)
    BY <2>6, RenameKeeps
  <2>7. CASE SubmitNext(w)
    BY <2>7, SubmitNextKeeps
  <2>8. CASE Raise(w)
    BY <2>8, RaiseKeeps
  <2>9. QED BY <1>1, <2>1, <2>2, <2>3, <2>4, <2>5, <2>6, <2>7, <2>8 DEF Step
<1>2. CASE Start(w)
  BY <1>2, StartKeeps
<1>3. CASE Complete(w)
  BY <1>3, CompleteKeeps
<1>4. CASE \E stops \in BOOLEAN : Progress(w, stops)
  BY <1>4, ProgressKeeps
<1>5. CASE \E wipes \in BOOLEAN : Parent(w, wipes) \/ Error(w, wipes)
  BY <1>5, ParentKeeps, ErrorKeeps
<1>6. QED BY <1>1, <1>2, <1>3, <1>4, <1>5 DEF WorkerStep

\* A new multi-file job, for which some of the files may have been removed.
LEMMA SubmitKeeps ==
    ASSUME QueueInv, NEW m \in Multis, NEW files \in SUBSET Files, files # {},
           submit_multifile_download(m, files), UNCHANGED <<job, service>>, StandStill,
           work' \in [Workers -> Places],
           disk' \in [Files -> [partial : Seq(Nat), done : Seq(Nat)]]
    PROVE  /\ QueueInv'
           /\ service = "up" /\ multi[m].parts = {} /\ ~Served(m)
           /\ multi'[m].parts = files /\ multi'[m].status = "waiting" /\ ~multi'[m].cancelled
           /\ \A p \in queue' : p \in queue \/ parent(p) = m
           /\ \A n \in Multis : n # m => multi'[n] = multi[n] /\ (Served(n)' <=> Served(n))
<1>1. Shapes /\ service = "up" /\ multi[m].parts = {} /\ multi[m] \in MultiJobs /\ MultiOK(m)
  BY DEF QueueInv, Shapes, submit_multifile_download
<1>2. PICK h \in files, then \in MultiJobs :
         /\ multi' = [multi EXCEPT ![m] = then]
         /\ queue' = queue \cup {<<m, h>>}
         /\ then.status = "waiting" /\ then.parts = files /\ then.pending = files \ {h}
         /\ then.active = h /\ ~then.paused /\ ~then.cancelled
  <2>1. Min(files) \in files
    BY MinIs, DownloadAssumption DEF DownloadAssumption
  <2> DEFINE mf == [NewMulti EXCEPT !.parts = files, !.pending = files]
  <2>2. NewMulti \in MultiJobs /\ NewMulti.status = "waiting" /\ ~NewMulti.paused /\ NewMulti.active = 0
        /\ ~NewMulti.cancelled
    BY DEF NewMulti, MultiJobs, JobStatus
  <2>3. /\ mf \in MultiJobs /\ mf.status = "waiting" /\ ~mf.paused /\ mf.active = 0
        /\ mf.parts = files /\ mf.pending = files /\ ~mf.cancelled
    BY <2>2 DEF MultiJobs
  <2>4. _submit_next_mfd_part(m, mf)
    BY DEF submit_multifile_download
  <2> HIDE DEF mf
  <2> DEFINE then == [mf EXCEPT !.pending = @ \ {Min(files)}, !.active = Min(files)]
  <2>5. multi' = [multi EXCEPT ![m] = then] /\ queue' = queue \cup {<<m, Min(files)>>}
    BY <1>1, <2>3, <2>4 DEF _submit_next_mfd_part
  <2>6. /\ then \in MultiJobs /\ then.status = "waiting" /\ then.parts = files
        /\ then.pending = files \ {Min(files)} /\ then.active = Min(files) /\ ~then.paused
        /\ ~then.cancelled
    BY <2>1, <2>3 DEF MultiJobs
  <2> HIDE DEF then
  <2>7. QED BY <2>1, <2>5, <2>6
<1>3. /\ multi' \in [Multis -> MultiJobs]
      /\ \A n \in Multis : n # m => multi'[n] = multi[n]
      /\ multi'[m].status = "waiting" /\ multi'[m].parts = files /\ multi'[m].pending = files \ {h}
      /\ multi'[m].active = h /\ ~multi'[m].paused /\ ~multi'[m].cancelled
  BY <1>1, <1>2 DEF Shapes
<1>4. queue' \in SUBSET Parts
  BY <1>1, <1>2, PartsArePairs DEF Shapes
<1>5. Shapes'
  BY <1>1, <1>3, <1>4 DEF Shapes
<1>6. \A g \in Files : <<m, g>> \notin queue /\ \A v \in Workers : ~At(v, m, g)
  BY <1>1 DEF MultiOK, QueuedOK, HeldOK, TurnOK
<1>7. \A v \in Workers, n \in Multis, g \in Files : At(v, n, g)' <=> At(v, n, g)
  BY DEF StandStill, At, P
<1>8. \A g \in Files : /\ job[<<m, g>>].status = "waiting" /\ ~job[<<m, g>>].resume_required
                       /\ job[<<m, g>>] = NewJob
  BY <1>1 DEF MultiOK, PartsOK, NewJob
<1>9. ASSUME NEW v \in Workers PROVE WorkerOK(v)'
  <2>1. WorkerOK(v)
    BY DEF QueueInv
  <2>2. \A n \in Multis, g \in Files : P(v) = <<n, g>> => n # m
    BY <1>1, <2>1 DEF WorkerOK
  <2>3. QED BY <1>3, <2>1, <2>2 DEF WorkerOK, StandStill, P
<1>10. ASSUME NEW n \in Multis, n # m PROVE MultiOK(n)'
  <2>1. MultiOK(n) /\ multi'[n] = multi[n] /\ \A g \in Files : <<n, g>> \in queue' <=> <<n, g>> \in queue
    BY <1>2, <1>3, <1>10 DEF QueueInv
  <2>2. \A v \in Workers : work'[v].at = work[v].at
    BY DEF StandStill
  <2>3. PartsOK(n)' /\ OneTurn(n)' /\ GoesOn(n)'
    BY <1>7, <2>1 DEF MultiOK, PartsOK, OneTurn, GoesOn, Served, Turn, in_terminal_state
  <2>4. \A g \in Files : (OthersDone(n, g)' <=> OthersDone(n, g)) /\ (TurnOK(n, g)' <=> TurnOK(n, g))
    BY <2>1 DEF OthersDone, TurnOK, in_terminal_state
  <2>5. ASSUME NEW g \in Files, <<n, g>> \in queue' PROVE QueuedOK(n, g)'
    BY <2>1, <2>4, <2>5 DEF MultiOK, QueuedOK
  <2>6. ASSUME NEW v \in Workers, NEW g \in Files, At(v, n, g)' PROVE HeldOK(v, n, g)'
    BY <1>7, <2>1, <2>2, <2>4, <2>6 DEF MultiOK, HeldOK
  <2>7. QED BY <2>3, <2>5, <2>6 DEF MultiOK
<1>11. MultiOK(m)'
  <2>1. \A g \in Files : <<m, g>> \in queue' <=> g = h
    BY <1>2, <1>6
  <2>2. \A v \in Workers, g \in Files : ~At(v, m, g)'
    BY <1>6, <1>7
  <2>3. QueuedOK(m, h)'
    BY <1>3, <1>8 DEF QueuedOK, TurnOK, OthersDone, in_terminal_state
  <2>4. PartsOK(m)' /\ OneTurn(m)' /\ GoesOn(m)'
    BY <1>3, <1>8, <2>1, <2>2 DEF PartsOK, OneTurn, GoesOn, Served, Turn
  <2>5. QED BY <2>1, <2>2, <2>3, <2>4 DEF MultiOK
<1>12. QueueInv'
  BY <1>5, <1>9, <1>10, <1>11 DEF QueueInv
<1>13. \A n \in Multis : n # m => (Served(n)' <=> Served(n))
  BY <1>2, <1>7 DEF Served, Turn
<1>14. \A p \in queue' : p \in queue \/ parent(p) = m
  BY <1>2, PartsArePairs
<1>15. QED BY <1>1, <1>3, <1>6, <1>12, <1>13, <1>14 DEF Served, Turn

\* A service that starts, perhaps with files that the one before left.
Blank ==
    /\ job = [p \in Parts |-> NewJob]
    /\ multi = [m \in Multis |-> NewMulti]
    /\ queue = {}
    /\ work = [w \in Workers |-> AtTop]
    /\ disk \in [Files -> [partial : Seq(Nat), done : Seq(Nat)]]
    /\ service = "up"

LEMMA BlankIsFine == Blank => QueueInv
<1> SUFFICES ASSUME Blank PROVE QueueInv
  OBVIOUS
<1>1. NewJob \in Jobs /\ NewMulti \in MultiJobs /\ AtTop \in Places
  BY DEF NewJob, NewMulti, AtTop, Jobs, MultiJobs, JobStatus, Places
<1>2. Shapes
  BY <1>1 DEF Shapes, Blank
<1>3. \A w \in Workers : work[w].at = "top" /\ P(w) = None /\ work[w].buffer = 0
  BY DEF Blank, AtTop, P
<1>4. \A w \in Workers : WorkerOK(w)
  BY <1>3, PartsArePairs DEF WorkerOK
<1>5. \A w \in Workers, m \in Multis, f \in Files : ~At(w, m, f)
  BY <1>3 DEF At, Holding
<1>6. \A m \in Multis : multi[m] = NewMulti /\ \A f \in Files : job[<<m, f>>] = NewJob
  BY PartsArePairs DEF Blank
<1>7. \A m \in Multis : MultiOK(m)
  <2> SUFFICES ASSUME NEW m \in Multis PROVE MultiOK(m)
    OBVIOUS
  <2>1. /\ multi[m].parts = {} /\ multi[m].pending = {} /\ multi[m].status = "waiting"
        /\ \A f \in Files : /\ job[<<m, f>>] = NewJob /\ ~job[<<m, f>>].resume_required
                            /\ <<m, f>> \notin queue
    <3>1. NewMulti.parts = {} /\ NewMulti.pending = {} /\ NewMulti.status = "waiting" /\ ~NewJob.resume_required
      BY DEF NewMulti, NewJob
    <3>2. QED BY <1>6, <3>1 DEF Blank
  <2>2. PartsOK(m)
    BY <2>1 DEF PartsOK
  <2>3. QED BY <1>5, <2>1, <2>2 DEF MultiOK, OneTurn, GoesOn
<1>8. QED BY <1>2, <1>4, <1>7 DEF QueueInv

-------------------------------------------------------------------------------
(* What follows.                                                           *)

\* The parts of a multi-file job are fetched one at a time, and while it is not over and
\* the service is up there is one that is.
LEMMA QueueServesOneAtATime ==
    QueueInv => OneAtATime /\ \A m \in Multis : GoesOn(m)
<1> SUFFICES ASSUME QueueInv PROVE OneAtATime /\ \A m \in Multis : GoesOn(m)
  OBVIOUS
<1>1. ASSUME NEW m \in Multis PROVE \A f \in underWay(m) : Turn(m, f)
  <2> SUFFICES ASSUME NEW f \in underWay(m), <<m, f>> \notin queue PROVE Turn(m, f)
    BY DEF Turn
  <2>1. PICK w \in Workers : P(w) = <<m, f>> /\ work[w].at # "finally"
    BY DEF underWay
  <2>2. f \in Files /\ work[w] \in Places /\ WorkerOK(w)
    BY DEF underWay, QueueInv, Shapes, MultiJobs
  <2>3. P(w) # None
    BY <2>1, <2>2, PartsArePairs
  <2>4. work[w].at \in Holding
    BY <2>1, <2>2, <2>3 DEF Places, WorkerOK
  <2>5. QED BY <2>1, <2>2, <2>4 DEF Turn, At
<1>2. ASSUME NEW m \in Multis PROVE \A f, g \in underWay(m) : f = g
  <2>1. OneTurn(m) /\ underWay(m) \subseteq Files
    BY DEF QueueInv, MultiOK, underWay, Shapes, MultiJobs
  <2> SUFFICES ASSUME NEW f \in underWay(m), NEW g \in underWay(m) PROVE f = g
    OBVIOUS
  <2>2. f \in Files /\ g \in Files /\ Turn(m, f) /\ Turn(m, g)
    BY <1>1, <2>1
  <2>3. CASE \E v, w \in Workers : At(v, m, f) /\ At(w, m, g)
    <3>1. PICK w \in Workers : At(w, m, f) /\ At(w, m, g)
      BY <2>1, <2>2, <2>3 DEF OneTurn
    <3>2. QED BY <3>1 DEF At
  <2>4. QED BY <2>1, <2>2, <2>3 DEF Turn, OneTurn
<1>3. ASSUME NEW m \in Multis PROVE Cardinality(underWay(m)) <= 1
  <2>1. PICK e : underWay(m) \subseteq {e}
    BY <1>2
  <2>2. IsFiniteSet({e}) /\ Cardinality({e}) = 1
    BY FS_Singleton
  <2>3. QED BY <2>1, <2>2, FS_Subset
<1>4. ASSUME NEW m \in Multis, NEW f \in underWay(m) PROVE multi[m].active \in {f, 0}
  <2>1. f \in Files /\ MultiOK(m) /\ Turn(m, f)
    BY <1>1 DEF QueueInv, underWay, Shapes, MultiJobs
  <2>2. QED BY <2>1 DEF MultiOK, Turn, QueuedOK, HeldOK
<1>5. QED BY <1>3, <1>4 DEF OneAtATime, QueueInv, MultiOK

\* What is served is under way.
LEMMA ServedIsUnderWay ==
    ASSUME QueueInv, NEW m \in Multis, Served(m)
    PROVE  underWay(m) # {}
<1>1. PICK f \in Files : Turn(m, f)
  BY DEF Served
<1>2. f \in multi[m].parts
  BY <1>1 DEF QueueInv, MultiOK, Turn, QueuedOK, HeldOK, TurnOK
<1>3. QED BY <1>1, <1>2 DEF Turn, At, Holding, underWay

-------------------------------------------------------------------------------
(* What those who are called back rely on.                                 *)

NoneUnderWay == \A m \in Multis : ~Served(m)

\* What a worker's step may make of the multi-file job of its part.
Becomes(m, status) ==
    /\ multi'[m].status = status /\ multi'[m].parts = multi[m].parts
    /\ \A n \in Multis : n # m => multi'[n] = multi[n]

LEMMA WorkerStatus ==
    ASSUME QueueInv, NEW w \in Workers, work[w].at \in Holding, NEW m \in Multis, m = parent(P(w))
    PROVE  /\ SubmitNext(w) \/ Raise(w) \/ (\E stops \in BOOLEAN : Progress(w, stops)) => Becomes(m, multi[m].status)
           /\ Start(w) => Becomes(m, IF multi[m].status = "waiting" THEN "running" ELSE multi[m].status)
           /\ Complete(w) => Becomes(m, IF AllComplete(w) THEN "completed" ELSE multi[m].status)
           /\ (\E wipes \in BOOLEAN : Parent(w, wipes)) => EndsMulti(w) /\ Becomes(m, job[P(w)].status)
           /\ (\E wipes \in BOOLEAN : Error(w, wipes)) => EndsMulti(w) /\ Becomes(m, "error")
<1>1. multi \in [Multis -> MultiJobs] /\ multi[m] \in MultiJobs
  BY DEF QueueInv, Shapes
<1>2. EndsMulti(w)
  BY HeldPart, Alone DEF EndsMulti, HeldOK, TurnOK
<1>3. ASSUME SubmitNext(w) PROVE Becomes(m, multi[m].status)
  <2>1. CASE multi[m].pending = {} \/ multi[m].active # 0
    BY <1>3, <2>1, <1>1 DEF SubmitNext, _submit_next_mfd_part, Becomes
  <2>2. CASE ~(multi[m].pending = {} \/ multi[m].active # 0)
    <3>1. PICK f : multi' = [multi EXCEPT ![m] = [multi[m] EXCEPT !.pending = @ \ {f}, !.active = f]]
      BY <1>3, <2>2 DEF SubmitNext, _submit_next_mfd_part
    <3>2. QED BY <3>1, <1>1 DEF Becomes, MultiJobs
  <2>3. QED BY <2>1, <2>2
<1>4. ASSUME Raise(w) PROVE Becomes(m, multi[m].status)
  <2>1. PICK mf \in {pause(multi[m]), cancel(multi[m])} :
           \/ multi' = [multi EXCEPT ![m] = [mf EXCEPT !.active = 0]]
           \/ multi' = [multi EXCEPT ![m] = [mf EXCEPT !.active = 0, !.pending = {}]]
    BY <1>2, <1>4 DEF Raise, EndsMulti
  <2>2. mf \in MultiJobs /\ mf.status = multi[m].status /\ mf.parts = multi[m].parts
    BY <1>1 DEF pause, cancel, MultiJobs
  <2>3. CASE multi' = [multi EXCEPT ![m] = [mf EXCEPT !.active = 0]]
    BY <1>1, <2>2, <2>3 DEF Becomes, MultiJobs
  <2>4. CASE multi' = [multi EXCEPT ![m] = [mf EXCEPT !.active = 0, !.pending = {}]]
    BY <1>1, <2>2, <2>4 DEF Becomes, MultiJobs
  <2>5. QED BY <2>1, <2>3, <2>4
<1>5. ASSUME NEW stops \in BOOLEAN, Progress(w, stops) PROVE Becomes(m, multi[m].status)
  BY <1>1, <1>5 DEF Progress, Becomes, MultiJobs, cancel_job, cancel
<1>6. ASSUME Start(w) PROVE Becomes(m, IF multi[m].status = "waiting" THEN "running" ELSE multi[m].status)
  BY <1>1, <1>6 DEF Start, Becomes, MultiJobs
<1>7. ASSUME Complete(w) PROVE Becomes(m, IF AllComplete(w) THEN "completed" ELSE multi[m].status)
  <2>1. multi' = [multi EXCEPT ![m] = [multi[m] EXCEPT !.active = 0,
                                         !.status = IF AllComplete(w) THEN "completed" ELSE multi[m].status]]
    BY <1>1, <1>7 DEF Complete
  <2>2. QED BY <2>1, <1>1 DEF Becomes, MultiJobs
<1>8. ASSUME NEW wipes \in BOOLEAN, Parent(w, wipes) PROVE Becomes(m, job[P(w)].status)
  <2>1. multi' = [multi EXCEPT ![m] = [multi[m] EXCEPT !.status = job[P(w)].status]]
    BY <1>1, <1>2, <1>8 DEF Parent
  <2>2. QED BY <2>1, <1>1 DEF Becomes, MultiJobs
<1>9. ASSUME NEW wipes \in BOOLEAN, Error(w, wipes) PROVE Becomes(m, "error")
  <2>1. multi' = [multi EXCEPT ![m] = [multi[m] EXCEPT !.active = 0, !.status = "error", !.pending = {}]]
    BY <1>1, <1>2, <1>9 DEF Error
  <2>2. QED BY <2>1, <1>1 DEF Becomes, MultiJobs
<1>10. QED BY <1>2, <1>3, <1>4, <1>5, <1>6, <1>7, <1>8, <1>9

\* A worker's step has to do with its own part and multi-file job only.
LEMMA WorkerTouches ==
    ASSUME QueueInv, NEW w \in Workers, WorkerStep(w)
    PROVE  /\ OtherWorkers(w) /\ SameParts /\ service' = service
           /\ \A n \in Multis, f \in Files :
                  <<n, f>> \in queue' => <<n, f>> \in queue \/ \E g \in Files : At(w, n, g)
           /\ \A n \in Multis, f \in Files :
                  At(w, n, f)' => <<n, f>> \in queue \/ At(w, n, f)
<1>1. Shapes /\ work[w] \in Places
  BY DEF QueueInv, Shapes
<1>2. CASE GetJob(w)
  <2>1. PICK p \in queue : queue' = queue \ {p} /\ work' = [work EXCEPT ![w].at = "begin", ![w].part = p]
    BY <1>2 DEF GetJob
  <2>2. OtherWorkers(w) /\ work'[w].part = p
    BY <1>1, <2>1 DEF OtherWorkers, Shapes, Places
  <2>3. UNCHANGED <<multi, service>>
    BY <1>2 DEF GetJob
  <2>4. QED BY <2>1, <2>2, <2>3 DEF SameParts, At, P
<1>3. CASE Exit(w) \/ Finally(w)
  <2>1. work' = [work EXCEPT ![w].at = "exited"] \/ work' = [work EXCEPT ![w] = AtTop]
    BY <1>3 DEF Exit, Finally, Goes
  <2>2. OtherWorkers(w) /\ work'[w].at \notin Holding
    BY <1>1, <2>1 DEF OtherWorkers, Shapes, Places, AtTop, Holding
  <2>3. UNCHANGED <<multi, queue, service>>
    BY <1>3 DEF Exit, Finally
  <2>4. QED BY <2>2, <2>3 DEF SameParts, At
<1>4. ASSUME work[w].at \in Holding, OtherWorkers(w), work'[w].part = work[w].part, SameParts, service' = service,
             \A n \in Multis, f \in Files : <<n, f>> \in queue' => <<n, f>> \in queue \/ n = parent(P(w))
      PROVE  /\ \A n \in Multis, f \in Files :
                    <<n, f>> \in queue' => <<n, f>> \in queue \/ \E g \in Files : At(w, n, g)
             /\ \A n \in Multis, f \in Files :
                    At(w, n, f)' => <<n, f>> \in queue \/ At(w, n, f)
  <2>1. PICK m \in Multis, f \in Files :
           At(w, m, f) /\ P(w) \in Parts /\ P(w) = <<m, f>> /\ parent(P(w)) = m /\ file(P(w)) = f
    BY <1>4, HeldPart
  <2>2. QED BY <1>4, <2>1 DEF At, P
<1>5. CASE \/ Request(w) \/ RequestFails(w) \/ ResumeRefused(w) \/ NothingToFetch(w) \/ Answered(w)
           \/ Receive(w) \/ Breaks(w) \/ Received(w) \/ Rename(w)
  <2>1. OtherWorkers(w) /\ work'[w].part = work[w].part /\ UNCHANGED <<multi, queue, service>>
    BY <1>1, <1>5 DEF Request, RequestFails, ResumeRefused, NothingToFetch, Answered, Receive, Breaks,
                      Received, Rename, Leaves, Goes, OtherWorkers, Shapes, Places
  <2>2. work[w].at \in Holding
    BY <1>5 DEF Request, RequestFails, ResumeRefused, NothingToFetch, Answered, Receive, Breaks,
                Received, Rename, Holding
  <2>3. QED BY <1>4, <2>1, <2>2 DEF SameParts
<1>6. CASE SubmitNext(w) \/ Raise(w) \/ Start(w) \/ Complete(w) \/ \E stops \in BOOLEAN : Progress(w, stops)
  <2>1. OtherWorkers(w) /\ work'[w].part = work[w].part /\ service' = service
    BY <1>1, <1>6 DEF SubmitNext, Raise, Start, Complete, Progress, Goes, OtherWorkers, Shapes, Places
  <2>2. work[w].at \in Holding
    BY <1>6 DEF SubmitNext, Raise, Start, Complete, Progress, Holding
  <2>3. PICK m \in Multis : parent(P(w)) = m
    BY <2>2, HeldPart
  <2>4. \E status : Becomes(m, status)
    BY <1>6, <2>2, <2>3, WorkerStatus
  <2>5. SameParts /\ \A n \in Multis, f \in Files : <<n, f>> \in queue' => <<n, f>> \in queue \/ n = m
    <3>1. SameParts
      BY <2>4 DEF SameParts, Becomes
    <3>2. CASE SubmitNext(w)
      <4>1. PICK h : queue' = queue \/ queue' = queue \cup {<<m, h>>}
        BY <2>3, <3>2 DEF SubmitNext, _submit_next_mfd_part
      <4>2. QED BY <3>1, <4>1
    <3>3. CASE ~SubmitNext(w)
      <4>1. queue' = queue
        BY <1>6, <3>3 DEF Raise, Start, Complete, Progress
      <4>2. QED BY <3>1, <4>1
    <3>4. QED BY <3>1, <3>2, <3>3
  <2>6. QED BY <1>4, <2>1, <2>2, <2>3, <2>5
<1>7. CASE \E wipes \in BOOLEAN : Parent(w, wipes) \/ Error(w, wipes)
  <2>1. work[w].at \in Holding
    BY <1>7 DEF Parent, Error, Holding
  <2>2. PICK m \in Multis, f \in Files : parent(P(w)) = m /\ file(P(w)) = f
    BY <2>1, HeldPart
  <2>3. PICK files \in SUBSET Files :
           \/ work' = unlinked([work EXCEPT ![w].at = "finally"], files)
           \/ work' = [work EXCEPT ![w].at = "finally"]
    <3>1. {f} \in SUBSET Files /\ {} \in SUBSET Files /\ Files \in SUBSET Files
      OBVIOUS
    <3>2. CASE \E wipes \in BOOLEAN : Error(w, wipes)
      BY <3>2 DEF Error
    <3>3. CASE \E wipes \in BOOLEAN : Parent(w, wipes)
      BY <2>2, <3>1, <3>3 DEF Parent
    <3>4. QED BY <1>7, <3>2, <3>3
  <2>4. OtherWorkers(w) /\ work'[w].part = work[w].part
    BY <1>1, <2>3, MovedAndUnlinked
  <2>5. SameParts /\ queue' = queue /\ service' = service
    <3>1. \E status : Becomes(m, status)
      BY <1>7, <2>1, <2>2, WorkerStatus
    <3>2. QED BY <1>7, <3>1 DEF Parent, Error, SameParts, Becomes
  <2>6. QED BY <1>4, <2>1, <2>4, <2>5
<1>8. QED BY <1>2, <1>3, <1>5, <1>6, <1>7, <1>4 DEF WorkerStep, Step

\* None of its steps makes a multi-file job served that was not.
LEMMA WorkerServes ==
    ASSUME QueueInv, NEW w \in Workers, WorkerStep(w), NEW m \in Multis, Served(m)'
    PROVE  Served(m)
<1>1. PICK f \in Files : <<m, f>> \in queue' \/ \E v \in Workers : At(v, m, f)'
  BY DEF Served, Turn
<1>2. CASE <<m, f>> \in queue'
  BY <1>2, WorkerTouches DEF Served, Turn
<1>3. CASE \E v \in Workers : v # w /\ At(v, m, f)'
  BY <1>3, WorkerTouches DEF Served, Turn, At, P, OtherWorkers
<1>4. CASE At(w, m, f)'
  BY <1>4, WorkerTouches DEF Served, Turn
<1>5. QED BY <1>1, <1>2, <1>3, <1>4

\* Flags that are asked for, or files that are removed or moved.
OnlyAsked ==
    /\ Shapes' /\ StandStill /\ JobsAsked /\ MultisAsked
    /\ queue' = queue /\ service' = service

LEMMA OnlyAskedKeeps ==
    QueueInv /\ OnlyAsked
      => /\ QueueInv'
         /\ \A m \in Multis : /\ Served(m)' <=> Served(m)
                              /\ in_terminal_state(multi[m])' <=> in_terminal_state(multi[m])
                              /\ multi'[m].parts = multi[m].parts
<1> SUFFICES ASSUME QueueInv, OnlyAsked
             PROVE  /\ QueueInv'
                    /\ \A m \in Multis : /\ Served(m)' <=> Served(m)
                                         /\ in_terminal_state(multi[m])' <=> in_terminal_state(multi[m])
                                         /\ multi'[m].parts = multi[m].parts
  OBVIOUS
<1>1. QueueInv'
  <2>1. Shapes' /\ StandStill /\ JobsAsked /\ MultisAsked /\ queue' = queue /\ service' = service
    BY DEF OnlyAsked
  <2>2. QED BY <2>1, AskingKeeps
<1>2. \A w \in Workers, m \in Multis, f \in Files : At(w, m, f)' <=> At(w, m, f)
  BY DEF OnlyAsked, StandStill, At, P
<1>3. QED BY <1>1, <1>2 DEF OnlyAsked, Served, Turn, MultisAsked, in_terminal_state

\* When nothing is under way, no worker has work to do.
LEMMA NothingToDo ==
    QueueInv /\ NoneUnderWay
      => /\ queue = {} /\ \A w \in Workers : work[w].at \notin Holding
         /\ \A w \in Workers : WorkerStep(w) => (Exit(w) \/ Finally(w)) /\ disk' = disk
<1> SUFFICES ASSUME QueueInv, NoneUnderWay
             PROVE  /\ queue = {} /\ \A w \in Workers : work[w].at \notin Holding
                    /\ \A w \in Workers : WorkerStep(w) => (Exit(w) \/ Finally(w)) /\ disk' = disk
  OBVIOUS
<1>1. queue = {}
  <2> SUFFICES ASSUME NEW p \in queue PROVE FALSE
    OBVIOUS
  <2>1. p \in Parts
    BY DEF QueueInv, Shapes
  <2>2. QED BY <2>1, PartsArePairs DEF NoneUnderWay, Served, Turn
<1>2. \A w \in Workers : work[w].at \notin Holding
  BY HeldPart DEF NoneUnderWay, Served, Turn
<1>3. ASSUME NEW w \in Workers, WorkerStep(w) PROVE (Exit(w) \/ Finally(w)) /\ disk' = disk
  <2>1. Step(w) \/ Start(w) \/ Complete(w) \/ (\E stops \in BOOLEAN : Progress(w, stops))
          \/ (\E wipes \in BOOLEAN : Parent(w, wipes)) \/ (\E wipes \in BOOLEAN : Error(w, wipes))
    BY <1>3 DEF WorkerStep
  <2>2. Step(w)
    BY <1>2, <2>1 DEF Start, Complete, Progress, Parent, Error, Holding
  <2>3. Exit(w) \/ Finally(w)
    BY <1>1, <1>2, <2>2 DEF Step, GetJob, Request, RequestFails, ResumeRefused, NothingToFetch, Answered,
                            Receive, Breaks, Received, Rename, SubmitNext, Raise, Holding
  <2>4. QED BY <2>3 DEF Exit, Finally
<1>4. QED BY <1>1, <1>2, <1>3

\* A step that calls nobody back leaves the multi-file jobs' statuses alone.
LEMMA StepStatus ==
    ASSUME QueueInv, NEW w \in Workers, Step(w), NEW m \in Multis
    PROVE  multi'[m].status = multi[m].status
<1>1. CASE SubmitNext(w) \/ Raise(w)
  <2>1. work[w].at \in Holding
    BY <1>1 DEF SubmitNext, Raise, Holding
  <2>2. QED BY <1>1, <2>1, HeldPart, WorkerStatus DEF Becomes
<1>2. CASE ~(SubmitNext(w) \/ Raise(w))
  BY <1>2 DEF Step, GetJob, Exit, Finally, Request, RequestFails, ResumeRefused, NothingToFetch, Answered,
              Receive, Breaks, Received, Rename
<1>3. QED BY <1>1, <1>2

\* The multi-file job of a worker that has a part in hand is served by it, and not over.
LEMMA HeldIsServed ==
    ASSUME QueueInv, NEW w \in Workers, work[w].at \in Holding
    PROVE  parent(P(w)) \in Multis /\ Served(parent(P(w))) /\ EndsMulti(w)
<1>1. PICK m \in Multis, f \in Files :
         At(w, m, f) /\ P(w) \in Parts /\ P(w) = <<m, f>> /\ parent(P(w)) = m /\ file(P(w)) = f
  BY HeldPart
<1>2. QED BY <1>1, Alone DEF Served, Turn, EndsMulti, HeldOK, TurnOK

\* One that is over is not served, and one that is not, is, while the service is up.
LEMMA ServedIs ==
    ASSUME QueueInv, NEW m \in Multis
    PROVE  /\ Served(m) => ~in_terminal_state(multi[m]) /\ multi[m].parts # {}
           /\ ~in_terminal_state(multi[m]) /\ multi[m].parts # {} /\ service = "up" => Served(m)
BY DEF QueueInv, MultiOK, Served, Turn, QueuedOK, HeldOK, TurnOK, GoesOn

-------------------------------------------------------------------------------
(* Where a step leaves a worker, and what it does to its file.             *)

Now(w, at, next, open, buffer) ==
    /\ OtherWorkers(w) /\ work'[w].part = work[w].part
    /\ work'[w].at = at /\ work'[w].next = next /\ work'[w].open = open /\ work'[w].buffer = buffer

DoneGone(f) == disk' = [disk EXCEPT ![f].done = <<>>]
PartialGone(f) == disk' = [disk EXCEPT ![f].partial = <<>>]
Moved(f) == disk' = [disk EXCEPT ![f] = [partial |-> <<>>, done |-> disk[f].partial]]

LEMMA FetchEffects ==
    ASSUME QueueInv, NEW w \in Workers, work[w].at \in Holding
    PROVE  LET next == work[w].next
               open == work[w].open
               f == file(P(w))
           IN  /\ f \in Files /\ next \in Nat /\ Len(disk[f].partial) \in Nat
               /\ Request(w) =>
                    disk' = disk /\ \/ Now(w, "raise", next, open, 0)
                                    \/ Now(w, "answer", Len(disk[f].partial) + 1, open, 0)
               /\ RequestFails(w) => disk' = disk /\ Now(w, "error", next, open, 0)
               /\ ResumeRefused(w) => disk' = disk /\ Now(w, "raise", next, open, 0)
               /\ NothingToFetch(w) => disk' = disk /\ Now(w, "startComplete", next, open, 0)
               /\ Answered(w) => /\ Now(w, "start", next, open, 0)
                                 /\ \/ next = 1 /\ DoneGone(f)
                                    \/ next # 1 /\ disk' = disk
               /\ Start(w) => \/ /\ work[w].at = "startComplete" /\ disk' = disk
                                 /\ Now(w, "complete", next, open, 0)
                              \/ /\ work[w].at = "start" /\ Now(w, "load", next, TRUE, 0)
                                 /\ \/ next = 1 /\ PartialGone(f)
                                    \/ next # 1 /\ disk' = disk
<1> DEFINE next == work[w].next
           open == work[w].open
           f == file(P(w))
<1>1. work[w] \in Places /\ Shapes
  BY DEF QueueInv, Shapes
<1>2. f \in Files /\ next \in Nat /\ Len(disk[f].partial) \in Nat
  <2>1. f \in Files
    BY HeldPart
  <2>2. disk[f] \in [partial : Seq(Nat), done : Seq(Nat)]
    BY <1>1, <2>1 DEF Shapes
  <2>3. QED BY <1>1, <2>1, <2>2, LenProperties DEF Places
<1>3. work[w].at \notin {"load", "progress"} => work[w].buffer = 0
  BY DEF QueueInv, WorkerOK
<1>4. ASSUME NEW place \in Holding, Goes(w, place), work[w].at \notin {"load", "progress"}
      PROVE  Now(w, place, next, open, 0)
  BY <1>1, <1>3, <1>4, GoesThere DEF Now
<1>5. Request(w) => disk' = disk /\ (Now(w, "raise", next, open, 0) \/ Now(w, "answer", Len(disk[f].partial) + 1, open, 0))
  <2> SUFFICES ASSUME Request(w)
               PROVE  disk' = disk /\ (Now(w, "raise", next, open, 0) \/ Now(w, "answer", Len(disk[f].partial) + 1, open, 0))
    OBVIOUS
  <2>1. disk' = disk /\ work[w].buffer = 0 /\ work[w].at = "begin"
    BY <1>3 DEF Request
  <2>2. PICK k \in Nat : k = Len(disk[f].partial) + 1
    BY <1>2
  <2>3. work' = IF job[P(w)].cancelled THEN [work EXCEPT ![w].at = "raise"]
                ELSE [work EXCEPT ![w].at = "answer", ![w].next = k]
    BY <2>2 DEF Request
  <2>4. Now(w, "raise", next, open, 0) \/ Now(w, "answer", k, open, 0)
    BY <1>1, <2>1, <2>3 DEF Now, OtherWorkers, Shapes, Places
  <2>5. QED BY <2>1, <2>2, <2>4
<1>6. RequestFails(w) => disk' = disk /\ Now(w, "error", next, open, 0)
  BY <1>4 DEF RequestFails, Holding
<1>7. ResumeRefused(w) => disk' = disk /\ Now(w, "raise", next, open, 0)
  BY <1>4 DEF ResumeRefused, Holding
<1>8. NothingToFetch(w) => disk' = disk /\ Now(w, "startComplete", next, open, 0)
  BY <1>4 DEF NothingToFetch, Holding
<1>9. Answered(w) => Now(w, "start", next, open, 0) /\ ((next = 1 /\ DoneGone(f)) \/ (next # 1 /\ disk' = disk))
  BY <1>4 DEF Answered, Holding, DoneGone
<1>10. Start(w) => \/ work[w].at = "startComplete" /\ disk' = disk /\ Now(w, "complete", next, open, 0)
                   \/ /\ work[w].at = "start" /\ Now(w, "load", next, TRUE, 0)
                      /\ ((next = 1 /\ PartialGone(f)) \/ (next # 1 /\ disk' = disk))
  <2>1. CASE work[w].at = "startComplete"
    BY <1>4, <2>1 DEF Start, Holding
  <2>2. CASE work[w].at # "startComplete"
    <3> SUFFICES ASSUME Start(w)
                 PROVE  /\ work[w].at = "start" /\ Now(w, "load", next, TRUE, 0)
                        /\ ((next = 1 /\ PartialGone(f)) \/ (next # 1 /\ disk' = disk))
      BY <2>2
    <3>1. work[w].at = "start" /\ work' = [work EXCEPT ![w].at = "load", ![w].open = TRUE]
      BY <2>2 DEF Start
    <3>2. Now(w, "load", next, TRUE, 0)
      BY <1>1, <1>3, <3>1 DEF Now, OtherWorkers, Shapes, Places
    <3>3. QED BY <2>2, <3>1, <3>2 DEF Start, PartialGone
  <2>3. QED BY <2>1, <2>2
<1>11. QED BY <1>2, <1>5, <1>6, <1>7, <1>8, <1>9, <1>10

LEMMA ChunkEffects ==
    ASSUME QueueInv, NEW w \in Workers, work[w].at \in Holding
    PROVE  LET next == work[w].next
               open == work[w].open
               f == file(P(w))
           IN  /\ (\E stops \in BOOLEAN : Progress(w, stops))
                    => disk' = disk /\ Now(w, "load", next, open, work[w].buffer)
               /\ Receive(w) =>
                    /\ disk' = flushed(w)
                    /\ \/ job[P(w)].cancelled /\ Now(w, "raise", next, open, 0)
                       \/ ~job[P(w)].cancelled /\ Now(w, "progress", next + 1, open, next)
               /\ Breaks(w) => disk' = flushed(w) /\ (Now(w, "raise", next, open, 0) \/ Now(w, "error", next, open, 0))
               /\ Received(w) => disk' = flushed(w) /\ Now(w, "rename", next, open, 0)
               /\ Rename(w) => \/ disk[f].partial # <<>> /\ Moved(f) /\ Now(w, "complete", next, open, 0)
                               \/ disk[f].partial = <<>> /\ disk' = disk /\ Now(w, "error", next, open, 0)
<1> DEFINE next == work[w].next
           open == work[w].open
           f == file(P(w))
<1>1. work[w] \in Places /\ Shapes /\ P(w) \in Parts
  BY HeldPart DEF QueueInv, Shapes
<1>2. work[w].at \notin {"load", "progress"} => work[w].buffer = 0
  BY DEF QueueInv, WorkerOK
<1>3. ASSUME NEW place \in Holding, Leaves(w, place) PROVE disk' = flushed(w) /\ Now(w, place, next, open, 0)
  BY <1>1, <1>3, LeavesThere DEF Now, Leaves
<1>4. (\E stops \in BOOLEAN : Progress(w, stops)) => disk' = disk /\ Now(w, "load", next, open, work[w].buffer)
  BY <1>1, GoesThere DEF Progress, Holding, Now
<1>5. Receive(w) => /\ disk' = flushed(w)
                    /\ \/ job[P(w)].cancelled /\ Now(w, "raise", next, open, 0)
                       \/ ~job[P(w)].cancelled /\ Now(w, "progress", next + 1, open, next)
  <2>1. CASE job[P(w)].cancelled
    BY <1>3, <2>1 DEF Receive, Holding
  <2>2. CASE ~job[P(w)].cancelled
    BY <1>1, <2>2, ReceivesIt DEF Now
  <2>3. QED BY <2>1, <2>2
<1>6. Breaks(w) => disk' = flushed(w) /\ (Now(w, "raise", next, open, 0) \/ Now(w, "error", next, open, 0))
  BY <1>3 DEF Breaks, Holding
<1>7. Received(w) => disk' = flushed(w) /\ Now(w, "rename", next, open, 0)
  BY <1>3 DEF Received, Holding
<1>8. Rename(w) => \/ disk[f].partial # <<>> /\ Moved(f) /\ Now(w, "complete", next, open, 0)
                   \/ disk[f].partial = <<>> /\ disk' = disk /\ Now(w, "error", next, open, 0)
  <2>1. Rename(w) => work[w].buffer = 0
    BY <1>2 DEF Rename
  <2>2. ASSUME NEW place \in Holding, Goes(w, place), Rename(w) PROVE Now(w, place, next, open, 0)
    BY <1>1, <2>1, <2>2, GoesThere DEF Now
  <2>3. QED BY <2>2 DEF Rename, Holding, Moved
<1>9. QED BY <1>4, <1>5, <1>6, <1>7, <1>8

LEMMA EndEffects ==
    ASSUME QueueInv, NEW w \in Workers, work[w].at \in Holding
    PROVE  LET next == work[w].next
               open == work[w].open
               f == file(P(w))
           IN  /\ Complete(w) => disk' = disk /\ \E place \in {"submit", "finally"} : Now(w, place, next, open, 0)
               /\ SubmitNext(w) => disk' = disk /\ Now(w, "finally", next, open, 0)
               /\ Raise(w) => disk' = disk /\ Now(w, "parent", next, open, 0)
               /\ (\E wipes \in BOOLEAN : Parent(w, wipes)) =>
                    /\ \E shut \in BOOLEAN : Now(w, "finally", next, shut, 0)
                    /\ \/ disk' = Wiped \/ disk' = disk
                       \/ PartialGone(f) /\ ~job[P(w)].paused
               /\ (\E wipes \in BOOLEAN : Error(w, wipes)) =>
                    (disk' = Wiped \/ disk' = disk) /\ \E shut \in BOOLEAN : Now(w, "finally", next, shut, 0)
<1> DEFINE next == work[w].next
           open == work[w].open
           f == file(P(w))
<1>1. work[w] \in Places /\ Shapes /\ P(w) \in Parts /\ f \in Files
  BY HeldPart DEF QueueInv, Shapes
<1>2. work[w].at \notin {"load", "progress"} => work[w].buffer = 0
  BY DEF QueueInv, WorkerOK
<1>3. ASSUME NEW place \in Holding \cup {"finally"}, Goes(w, place), work[w].at \notin {"load", "progress"}
      PROVE  Now(w, place, next, open, 0)
  BY <1>1, <1>2, <1>3, GoesThere DEF Now
<1>4. Complete(w) => disk' = disk /\ \E place \in {"submit", "finally"} : Now(w, place, next, open, 0)
  BY <1>3 DEF Complete, Holding
<1>5. SubmitNext(w) => disk' = disk /\ Now(w, "finally", next, open, 0)
  BY <1>3 DEF SubmitNext, Holding
<1>6. Raise(w) => disk' = disk /\ Now(w, "parent", next, open, 0)
  BY <1>3 DEF Raise, Holding
<1>7. ASSUME NEW files \in SUBSET Files, work[w].at \notin {"load", "progress"},
             \/ work' = unlinked([work EXCEPT ![w].at = "finally"], files)
             \/ work' = [work EXCEPT ![w].at = "finally"]
      PROVE  \E shut \in BOOLEAN : Now(w, "finally", next, shut, 0)
  <2>1. /\ work' \in [Workers -> Places] /\ OtherWorkers(w) /\ work'[w].at = "finally"
        /\ work'[w].part = work[w].part /\ work'[w].buffer = work[w].buffer
        /\ work'[w].next = work[w].next
    BY <1>1, <1>7, MovedAndUnlinked
  <2>2. work'[w].open \in BOOLEAN
    BY <2>1 DEF Places
  <2>3. QED BY <1>2, <1>7, <2>1, <2>2 DEF Now
<1>8. ASSUME NEW wipes \in BOOLEAN, Parent(w, wipes)
      PROVE  /\ \E shut \in BOOLEAN : Now(w, "finally", next, shut, 0)
             /\ disk' = Wiped \/ disk' = disk \/ (PartialGone(f) /\ ~job[P(w)].paused)
  <2>1. work[w].at = "parent"
    BY <1>8 DEF Parent
  <2>2. PICK cleaned \in SUBSET Files :
           /\ cleaned = IF ~job[P(w)].paused /\ work[w].next # 0 THEN {file(P(w))} ELSE {}
           /\ disk' = IF wipes THEN Wiped
                      ELSE [g \in Files |-> IF g \in cleaned THEN [disk[g] EXCEPT !.partial = <<>>] ELSE disk[g]]
           /\ work' = unlinked([work EXCEPT ![w].at = "finally"], IF wipes THEN Files ELSE cleaned)
    BY <1>1, <1>8 DEF Parent
  <2>3. \E shut \in BOOLEAN : Now(w, "finally", next, shut, 0)
    <3>1. PICK files \in SUBSET Files : work' = unlinked([work EXCEPT ![w].at = "finally"], files)
      BY <2>2
    <3>2. QED BY <1>7, <2>1, <3>1
  <2>4. CASE wipes
    BY <2>2, <2>3, <2>4
  <2>5. CASE ~wipes /\ cleaned = {}
    BY <1>1, <2>2, <2>3, <2>5 DEF Shapes
  <2>6. CASE ~wipes /\ cleaned = {f} /\ ~job[P(w)].paused
    <3>1. disk' = [g \in Files |-> IF g = f THEN [disk[f] EXCEPT !.partial = <<>>] ELSE disk[g]]
      BY <2>2, <2>6
    <3>2. PartialGone(f)
      BY <1>1, <3>1 DEF PartialGone, Shapes
    <3>3. QED BY <2>3, <2>6, <3>2
  <2>7. QED BY <2>2, <2>4, <2>5, <2>6
<1>9. ASSUME NEW wipes \in BOOLEAN, Error(w, wipes)
      PROVE  (disk' = Wiped \/ disk' = disk) /\ \E shut \in BOOLEAN : Now(w, "finally", next, shut, 0)
  <2>1. /\ work[w].at = "error" /\ (disk' = Wiped \/ disk' = disk)
        /\ \/ work' = unlinked([work EXCEPT ![w].at = "finally"], Files)
           \/ work' = [work EXCEPT ![w].at = "finally"]
    BY <1>9 DEF Error
  <2>2. QED BY <1>7, <2>1
<1>10. QED BY <1>4, <1>5, <1>6, <1>8, <1>9

-------------------------------------------------------------------------------
(* How far a worker comes, and how long its file becomes, if it is alone.  *)

Length(f) == Len(disk[f].partial)

\* A worker at a place, of which the partial file has so many chunks.
Fits(at, next, open, buffer, length) ==
    /\ at \in {"answer", "start"} => length < next
    /\ at = "start" => next <= Size
    /\ at \in {"load", "progress"} => next > 0
    /\ at \in {"load", "progress"} /\ open => length + (IF buffer = 0 THEN 0 ELSE 1) < next

WriterOK(w) ==
    /\ work[w].next <= Size + 1
    /\ work[w].at \in Holding
           => Fits(work[w].at, work[w].next, work[w].open, work[w].buffer, Length(file(P(w))))

LengthsOK == \A f \in Files : Length(f) <= Size

Bounded == LengthsOK /\ \A w \in Workers : WriterOK(w)

Lone == \A v, w \in Workers : work[v].at \in Holding /\ work[w].at \in Holding => v = w

LEMMA LengthIsNat ==
    Shapes => \A f \in Files : Length(f) \in Nat
<1> SUFFICES ASSUME Shapes, NEW f \in Files PROVE Len(disk[f].partial) \in Nat
  BY DEF Length
<1>1. disk[f].partial \in Seq(Nat)
  BY DEF Shapes
<1>2. QED BY <1>1, LenProperties

\* What becomes of the lengths of files.
LEMMA Lengths ==
    ASSUME Shapes, NEW f \in Files
    PROVE  /\ disk' = disk \/ DoneGone(f) => \A g \in Files : Length(g)' = Length(g)
           /\ disk' = Wiped => \A g \in Files : Length(g)' = 0
           /\ PartialGone(f) \/ Moved(f)
                => Length(f)' = 0 /\ \A g \in Files : g # f => Length(g)' = Length(g)
<1>1. Len(<<>>) = 0
  OBVIOUS
<1>2. disk \in [Files -> [partial : Seq(Nat), done : Seq(Nat)]]
  BY DEF Shapes
<1>4. disk' = Wiped => \A g \in Files : Length(g)' = 0
  BY <1>1 DEF Length, Wiped
<1>5. DoneGone(f) => \A g \in Files : Length(g)' = Length(g)
  BY <1>2 DEF Length, DoneGone
<1>6. PartialGone(f) \/ Moved(f) => Length(f)' = 0 /\ \A g \in Files : g # f => Length(g)' = Length(g)
  BY <1>1, <1>2 DEF Length, PartialGone, Moved
<1>7. disk' = disk => \A g \in Files : Length(g)' = Length(g)
  BY DEF Length
<1>8. QED BY <1>4, <1>5, <1>6, <1>7

LEMMA FlushedLength ==
    ASSUME Shapes, NEW w \in Workers, NEW f \in Files, file(P(w)) = f, disk' = flushed(w)
    PROVE  /\ \A g \in Files : g # f => Length(g)' = Length(g)
           /\ Length(f)' = Length(f) + (IF work[w].open /\ work[w].buffer # 0 THEN 1 ELSE 0)
<1>1. Length(f) \in Nat
  BY LengthIsNat
<1>2. disk \in [Files -> [partial : Seq(Nat), done : Seq(Nat)]] /\ work[w].buffer \in Nat
  BY DEF Shapes, Places
<1>3. CASE work[w].open /\ work[w].buffer # 0
  <2>1. disk' = [disk EXCEPT ![f].partial = Append(@, work[w].buffer)]
    BY <1>3 DEF flushed
  <2>2. Len(Append(disk[f].partial, work[w].buffer)) = Len(disk[f].partial) + 1
    BY <1>1, <1>2, AppendProperties
  <2>3. disk'[f].partial = Append(disk[f].partial, work[w].buffer)
    BY <1>1, <1>2, <2>1
  <2>4. \A g \in Files : g # f => disk'[g] = disk[g]
    BY <1>1, <1>2, <2>1
  <2>5. Len(disk'[f].partial) = Len(disk[f].partial) + 1
    BY <2>2, <2>3
  <2>6. QED BY <1>3, <2>4, <2>5 DEF Length
<1>4. CASE ~(work[w].open /\ work[w].buffer # 0)
  <2>1. disk' = disk
    BY <1>4 DEF flushed
  <2>2. \A g \in Files : Length(g)' = Length(g)
    BY <2>1 DEF Length
  <2>3. Length(f)' = Length(f) + 0
    BY <1>1, <2>2
  <2>4. QED BY <1>4, <2>2, <2>3
<1>5. QED BY <1>3, <1>4

\* What a step of the worker w that has the part in hand must do for the bounds.
LEMMA FitsOn ==
    ASSUME QueueInv, Lone, Bounded, NEW w \in Workers, work[w].at \in Holding, OtherWorkers(w),
           NEW f \in Files, file(P(w)) = f,
           work'[w].part = work[w].part, work'[w].next <= Size + 1,
           Fits(work'[w].at, work'[w].next, work'[w].open, work'[w].buffer, Length(f)')
             \/ work'[w].at = "finally",
           Length(f)' <= Size,
           \A g \in Files : g # f => Length(g)' = Length(g) \/ Length(g)' = 0
    PROVE  Bounded'
<1>1. LengthsOK'
  <2> SUFFICES ASSUME NEW g \in Files, g # f PROVE Length(g)' <= Size
    BY DEF LengthsOK
  <2>1. Length(g) <= Size /\ Size >= 0
    BY DownloadAssumption DEF DownloadAssumption, Bounded, LengthsOK
  <2>2. QED BY <2>1
<1>2. ASSUME NEW v \in Workers, v # w PROVE WriterOK(v)'
  <2>1. work'[v].at \notin Holding /\ work'[v].next = work[v].next
    BY <1>2 DEF Lone, OtherWorkers
  <2>2. QED BY <2>1 DEF Bounded, WriterOK
<1>3. WriterOK(w)'
  <2>1. P(w)' = P(w)
    BY DEF P
  <2>2. Length(file(P(w)))' = Length(f)'
    BY <2>1 DEF Length, file
  <2>3. QED BY <2>2 DEF WriterOK, Holding
<1>4. QED BY <1>1, <1>2, <1>3 DEF Bounded

LEMMA FetchFits ==
    ASSUME QueueInv, Lone, Bounded, NEW w \in Workers, work[w].at \in Holding,
           Request(w) \/ RequestFails(w) \/ ResumeRefused(w) \/ NothingToFetch(w) \/ Answered(w) \/ Start(w)
    PROVE  Bounded'
<1>1. PICK f \in Files, n \in Nat, k \in Nat, open \in BOOLEAN :
         file(P(w)) = f /\ work[w].next = n /\ Length(f) = k /\ work[w].open = open
  <2>1. work[w].open \in BOOLEAN
    BY DEF QueueInv, Shapes, Places
  <2>2. QED BY <2>1, HeldPart, FetchEffects DEF Length
<1>2. Shapes /\ Size \in Nat \ {0}
  BY DownloadAssumption DEF QueueInv, DownloadAssumption
<1>3. /\ k <= Size /\ n <= Size + 1
      /\ work[w].at \in {"answer", "start"} => k < n
      /\ work[w].at = "start" => n <= Size
  BY <1>1 DEF Bounded, LengthsOK, WriterOK, Fits
<1>4. ASSUME NEW at, NEW next \in Nat, NEW opened, Now(w, at, next, opened, 0), next <= Size + 1,
             Fits(at, next, opened, 0, Length(f)'),
             (Length(f)' = k /\ \A g \in Files : Length(g)' = Length(g)) \/
               (Length(f)' = 0 /\ \A g \in Files : g # f => Length(g)' = Length(g))
      PROVE  Bounded'
  <2>1. Length(f)' <= Size
    BY <1>2, <1>3, <1>4
  <2>2. QED BY <1>1, <1>4, <2>1, FitsOn DEF Now
<1>5. disk' = disk => Length(f)' = k /\ \A g \in Files : Length(g)' = Length(g)
  BY <1>1, <1>2, Lengths
<1>6. CASE Request(w)
  <2>1. disk' = disk /\ (Now(w, "raise", n, open, 0) \/ Now(w, "answer", k + 1, open, 0))
    BY <1>1, <1>6, FetchEffects DEF Length
  <2>2. k + 1 \in Nat /\ k + 1 <= Size + 1 /\ Fits("raise", n, open, 0, k) /\ Fits("answer", k + 1, open, 0, k)
    BY <1>2, <1>3 DEF Fits
  <2>3. QED BY <1>3, <1>4, <1>5, <2>1, <2>2
<1>7. CASE RequestFails(w) \/ ResumeRefused(w) \/ NothingToFetch(w)
  <2>1. disk' = disk /\ \E at \in {"error", "raise", "startComplete"} : Now(w, at, n, open, 0)
    BY <1>1, <1>7, FetchEffects
  <2>2. \A at \in {"error", "raise", "startComplete"} : Fits(at, n, open, 0, k)
    BY DEF Fits
  <2>3. QED BY <1>3, <1>4, <1>5, <2>1, <2>2
<1>8. CASE Answered(w)
  <2>1. Now(w, "start", n, open, 0) /\ (disk' = disk \/ DoneGone(f))
    BY <1>1, <1>8, FetchEffects
  <2>2. Length(f)' = k /\ \A g \in Files : Length(g)' = Length(g)
    BY <1>1, <1>2, <2>1, Lengths
  <2>3. work[w].at = "answer" /\ n <= Size
    BY <1>1, <1>2, <1>8 DEF Answered
  <2>4. Fits("start", n, open, 0, k)
    BY <1>3, <2>3 DEF Fits
  <2>5. QED BY <1>3, <1>4, <2>1, <2>2, <2>4
<1>9. CASE Start(w)
  <2>1. \/ disk' = disk /\ Now(w, "complete", n, open, 0)
        \/ /\ work[w].at = "start" /\ Now(w, "load", n, TRUE, 0)
           /\ (n = 1 /\ PartialGone(f)) \/ (n # 1 /\ disk' = disk)
    BY <1>1, <1>9, FetchEffects
  <2>2. CASE disk' = disk /\ Now(w, "complete", n, open, 0)
    BY <1>3, <1>4, <1>5, <2>2 DEF Fits
  <2>3. CASE work[w].at = "start" /\ Now(w, "load", n, TRUE, 0) /\ n = 1 /\ PartialGone(f)
    <3>1. Length(f)' = 0 /\ \A g \in Files : g # f => Length(g)' = Length(g)
      BY <1>2, <2>3, Lengths
    <3>2. Fits("load", n, TRUE, 0, 0)
      BY <2>3 DEF Fits
    <3>3. QED BY <1>3, <1>4, <2>3, <3>1, <3>2
  <2>4. CASE work[w].at = "start" /\ Now(w, "load", n, TRUE, 0) /\ disk' = disk
    <3>1. Fits("load", n, TRUE, 0, k)
      BY <1>3, <2>4 DEF Fits
    <3>2. QED BY <1>3, <1>4, <1>5, <2>4, <3>1
  <2>5. QED BY <2>1, <2>2, <2>3, <2>4
<1>10. QED BY <1>6, <1>7, <1>8, <1>9

LEMMA ChunkFits ==
    ASSUME QueueInv, Lone, Bounded, NEW w \in Workers, work[w].at \in Holding,
           \/ Receive(w) \/ Breaks(w) \/ Received(w) \/ Rename(w)
           \/ \E stops \in BOOLEAN : Progress(w, stops)
    PROVE  Bounded'
<1>1. PICK f \in Files, n \in Nat, k \in Nat, b \in Nat, open \in BOOLEAN :
         /\ file(P(w)) = f /\ work[w].next = n /\ Length(f) = k /\ work[w].open = open
         /\ work[w].buffer = b
  <2>1. work[w].buffer \in Nat /\ work[w].open \in BOOLEAN
    BY DEF QueueInv, Shapes, Places
  <2>2. QED BY <2>1, HeldPart, FetchEffects DEF Length
<1>2. Shapes /\ Size \in Nat \ {0}
  BY DownloadAssumption DEF QueueInv, DownloadAssumption
<1>3. k <= Size /\ n <= Size + 1 /\ Fits(work[w].at, n, open, b, k)
  BY <1>1 DEF Bounded, LengthsOK, WriterOK
<1>4. CASE \E stops \in BOOLEAN : Progress(w, stops)
  <2>1. disk' = disk /\ Now(w, "load", n, open, b) /\ work[w].at = "progress"
    BY <1>1, <1>4, ChunkEffects DEF Progress
  <2>2. Length(f)' = k /\ \A g \in Files : Length(g)' = Length(g)
    BY <1>1, <1>2, <2>1, Lengths
  <2>3. Fits("load", n, open, b, k)
    BY <1>3, <2>1 DEF Fits
  <2>4. QED BY <1>1, <1>3, <2>1, <2>2, <2>3, FitsOn DEF Now
<1>5. CASE Receive(w) \/ Breaks(w) \/ Received(w)
  <2>1. /\ disk' = flushed(w) /\ work[w].at = "load"
        /\ \/ \E at \in {"raise", "error", "rename"} : Now(w, at, n, open, 0)
           \/ n <= Size /\ Now(w, "progress", n + 1, open, n)
    BY <1>1, <1>5, ChunkEffects DEF Receive, Breaks, Received
  <2>2. /\ \A g \in Files : g # f => Length(g)' = Length(g)
        /\ Length(f)' = k + (IF open /\ b # 0 THEN 1 ELSE 0)
    BY <1>1, <1>2, <2>1, FlushedLength
  <2>3. /\ n > 0 /\ Length(f)' <= Size /\ Length(f)' \in Nat
        /\ open => Length(f)' < n
    BY <1>2, <1>3, <2>1, <2>2 DEF Fits
  <2>4. \A at \in {"raise", "error", "rename"} : Fits(at, n, open, 0, Length(f)')
    BY DEF Fits
  <2>5. Fits("progress", n + 1, open, n, Length(f)')
    BY <2>3 DEF Fits
  <2>6. n <= Size => n + 1 <= Size + 1
    BY <1>2
  <2>7. QED BY <1>1, <1>3, <2>1, <2>2, <2>3, <2>4, <2>5, <2>6, FitsOn DEF Now
<1>6. CASE Rename(w)
  <2>1. \/ Moved(f) /\ Now(w, "complete", n, open, 0)
        \/ disk' = disk /\ Now(w, "error", n, open, 0)
    BY <1>1, <1>6, ChunkEffects
  <2>2. Length(f)' \in {k, 0} /\ \A g \in Files : g # f => Length(g)' = Length(g)
    BY <1>1, <1>2, <2>1, Lengths
  <2>3. Length(f)' <= Size
    BY <1>2, <1>3, <2>2
  <2>4. Fits("complete", n, open, 0, Length(f)') /\ Fits("error", n, open, 0, Length(f)')
    BY DEF Fits
  <2>5. QED BY <1>1, <1>3, <2>1, <2>2, <2>3, <2>4, FitsOn DEF Now
<1>7. QED BY <1>4, <1>5, <1>6

LEMMA EndFits ==
    ASSUME QueueInv, Lone, Bounded, NEW w \in Workers, work[w].at \in Holding,
           \/ Complete(w) \/ SubmitNext(w) \/ Raise(w)
           \/ \E wipes \in BOOLEAN : Parent(w, wipes) \/ Error(w, wipes)
    PROVE  Bounded'
<1>1. PICK f \in Files, n \in Nat, k \in Nat, open \in BOOLEAN :
         file(P(w)) = f /\ work[w].next = n /\ Length(f) = k /\ work[w].open = open
  <2>1. work[w].open \in BOOLEAN
    BY DEF QueueInv, Shapes, Places
  <2>2. QED BY <2>1, HeldPart, FetchEffects DEF Length
<1>2. Shapes /\ Size \in Nat \ {0}
  BY DownloadAssumption DEF QueueInv, DownloadAssumption
<1>3. k <= Size /\ n <= Size + 1
  BY <1>1 DEF Bounded, LengthsOK, WriterOK
<1>4. \E at \in {"submit", "finally", "parent"}, shut \in BOOLEAN : Now(w, at, n, shut, 0)
  <2>1. CASE Complete(w) \/ SubmitNext(w) \/ Raise(w)
    BY <1>1, <2>1, EndEffects
  <2>2. CASE \E wipes \in BOOLEAN : Parent(w, wipes) \/ Error(w, wipes)
    BY <1>1, <2>2, EndEffects
  <2>3. QED BY <2>1, <2>2
<1>5. disk' = disk \/ disk' = Wiped \/ PartialGone(f)
  <2>1. CASE Complete(w) \/ SubmitNext(w) \/ Raise(w)
    BY <2>1, EndEffects
  <2>2. CASE \E wipes \in BOOLEAN : Parent(w, wipes) \/ Error(w, wipes)
    BY <1>1, <2>2, EndEffects
  <2>3. QED BY <2>1, <2>2
<1>6. Length(f)' \in {k, 0} /\ \A g \in Files : g # f => Length(g)' = Length(g) \/ Length(g)' = 0
  BY <1>1, <1>2, <1>5, Lengths
<1>7. Length(f)' <= Size
  BY <1>2, <1>3, <1>6
<1>8. \A at \in {"submit", "parent"}, shut \in BOOLEAN : Fits(at, n, shut, 0, Length(f)')
  BY DEF Fits
<1>9. QED BY <1>1, <1>3, <1>4, <1>6, <1>7, <1>8, FitsOn DEF Now

\* A worker that is alone stays within the file.
LEMMA WorkerStaysBounded ==
    ASSUME QueueInv, Lone, Bounded, NEW w \in Workers, WorkerStep(w)
    PROVE  Bounded'
<1>1. CASE work[w].at \in Holding
  <2>1. ~GetJob(w) /\ ~Exit(w) /\ ~Finally(w)
    BY <1>1 DEF GetJob, Exit, Finally, Holding
  <2>2. QED BY <1>1, <2>1, FetchFits, ChunkFits, EndFits DEF WorkerStep, Step
<1>2. CASE work[w].at \notin Holding
  <2>1. GetJob(w) \/ Exit(w) \/ Finally(w)
    BY <1>2 DEF WorkerStep, Step, Start, Complete, Progress, Parent, Error, Request, RequestFails,
                ResumeRefused, NothingToFetch, Answered, Receive, Breaks, Received, Rename, SubmitNext,
                Raise, Holding
  <2>2. work \in [Workers -> Places] /\ Size \in Nat \ {0}
    BY DownloadAssumption DEF QueueInv, Shapes, DownloadAssumption
  <2>3. /\ disk' = disk /\ \A v \in Workers : v # w => work'[v] = work[v]
        /\ work'[w].at \in {"begin", "exited", "top"} /\ work'[w].next \in {work[w].next, 0}
    BY <2>1, <2>2 DEF GetJob, Exit, Finally, Goes, AtTop, Places
  <2>4. \A g \in Files : Length(g)' = Length(g)
    BY <2>3 DEF Length
  <2>5. LengthsOK'
    BY <2>4 DEF Bounded, LengthsOK
  <2>6. ASSUME NEW v \in Workers, v # w PROVE WriterOK(v)'
    <3>1. P(v)' = P(v)
      BY <2>3, <2>6 DEF P
    <3>2. Length(file(P(v)))' = Length(file(P(v)))
      BY <2>3, <3>1 DEF Length, file
    <3>3. QED BY <2>3, <2>6, <3>2 DEF Bounded, WriterOK
  <2>7. WriterOK(w)'
    BY <2>2, <2>3 DEF Bounded, WriterOK, Fits
  <2>8. QED BY <2>5, <2>6, <2>7 DEF Bounded
<1>3. QED BY <1>1, <1>2

\* So do workers whose files become shorter, or are removed.
LEMMA ShorterFits ==
    ASSUME Shapes, Bounded, NEW files \in SUBSET Files,
           work' = work \/ work' = unlinked(work, files),
           \A g \in Files : Length(g)' \in {Length(g), 0},
           \A w \in Workers : work[w].at \in Holding => file(P(w)) \in Files
    PROVE  Bounded'
<1>1. work \in [Workers -> Places] /\ Size \in Nat \ {0}
  BY DownloadAssumption DEF Shapes, DownloadAssumption
<1>2. LengthsOK'
  <2> SUFFICES ASSUME NEW g \in Files PROVE Length(g)' <= Size
    BY DEF LengthsOK
  <2>1. Length(g) <= Size
    BY DEF Bounded, LengthsOK
  <2>2. QED BY <1>1, <2>1
<1>3. ASSUME NEW w \in Workers PROVE WriterOK(w)'
  <2>1. /\ work'[w].at = work[w].at /\ work'[w].part = work[w].part
        /\ work'[w].next = work[w].next /\ work'[w].buffer = work[w].buffer
    BY <1>1, UnlinkedIs
  <2>2. work'[w].open => work[w].open
    BY <1>1 DEF unlinked, Places
  <2>3. work[w] \in Places
    BY <1>1
  <2>4. CASE work[w].at \in Holding
    <3>1. PICK f \in Files, k \in Nat : file(P(w)) = f /\ Length(f) = k
      BY <2>4, LengthIsNat
    <3>2. Length(file(P(w)))' = Length(f)'
      BY <2>1, <3>1 DEF Length, file, P
    <3>3. Fits(work[w].at, work[w].next, work[w].open, work[w].buffer, k) /\ work[w].next <= Size + 1
      BY <2>4, <3>1 DEF Bounded, WriterOK
    <3>4. Fits(work[w].at, work[w].next, work'[w].open, work[w].buffer, Length(f)')
      <4>1. PICK h \in Nat : h = Length(f)' /\ h <= k
        BY <3>1
      <4>2. work[w].next \in Nat /\ work[w].buffer \in Nat
        BY <2>3 DEF Places
      <4>3. Fits(work[w].at, work[w].next, work'[w].open, work[w].buffer, h)
        BY <2>2, <3>3, <4>1, <4>2 DEF Fits
      <4>4. QED BY <4>1, <4>3
    <3>5. QED BY <2>1, <3>2, <3>3, <3>4 DEF WriterOK
  <2>5. CASE work[w].at \notin Holding
    BY <2>1, <2>5 DEF Bounded, WriterOK
  <2>6. QED BY <2>4, <2>5
<1>4. QED BY <1>2, <1>3 DEF Bounded

===============================================================================
