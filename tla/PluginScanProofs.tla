--------------------------- MODULE PluginScanProofs ---------------------------
(***************************************************************************)
(* What the inventory of the plugins (PluginScan) guarantees for any set   *)
(* of plugins, any number of sessions, and any interleaving of the worker, *)
(* the scan's thread, the studio, the updates and the deaths of the agent. *)
(*                                                                         *)
(* The invariant IInv says what ties the three actors together.  The pipe  *)
(* is a chain from what the session heard last to what the worker does     *)
(* (Pipe), so a dead worker whose pipe is read out was at the item the     *)
(* session holds for current; an item has one turn (Turns) and one list    *)
(* (Apart), so a verdict is given once; what is read of a file is read     *)
(* after its fingerprint (Fresh); and what the studio was told of is on    *)
(* record as long as the file is the same (Remembered).                    *)
(***************************************************************************)
EXTENDS MCPlugins, FiniteSetTheorems, Sequences, TLAPS

-----------------------------------------------------------------------------
(* Types. *)

Findings == [item : Items, seen : Nat]
Sentences == [item : Items, reason : {"crash", "timeout"}]
Events == [kind : {"begin", "plugin", "end"}, item : Items, seen : Nat]
CacheType ==
  [entries : [Items -> [fp : Nat, seen : Nat]],
   blocked : [Items -> [fp : Nat, reason : {"", "crash", "timeout"}]]]
ListType ==
  [scanning : BOOLEAN,
   result : [plugins : SUBSET Findings, blocked : SUBSET Sentences, pending : Nat]]
JobType ==
  [step : {"none", "reconcile", "next", "pump", "kill", "save", "publish"},
   kind : {"none", "inventory", "new", "forced"}, fps : [Items -> Nat],
   reused : SUBSET Findings, retained : SUBSET Sentences, remaining : SUBSET Items, sessions : Nat,
   plugins : SUBSET Findings, blocked : SUBSET Sentences, pending : Nat]
SessionType ==
  [pending : SUBSET Items, current : Items \cup {Nobody}, plugins : SUBSET Findings,
   progressed : BOOLEAN]
WorkerType ==
  [alive : BOOLEAN, doing : Items \cup {Nobody}, described : BOOLEAN, todo : SUBSET Items,
   pipe : Seq(Events)]

Shapes ==
  /\ version \in [Items -> Nat \ {0}] /\ nature \in [Items -> Natures]
  /\ cache \in CacheType /\ list \in ListType /\ job \in JobType
  /\ session \in SessionType /\ worker \in WorkerType /\ told \in SUBSET (Items \X Nat)

\* What an event makes of a session.
LEMMA Heard ==
  ASSUME NEW s \in SessionType, NEW e \in Events
  PROVE  /\ OnEvent(s, e) \in SessionType
         /\ OnEvent(s, e).pending = IF e.kind = "end" THEN s.pending \ {e.item} ELSE s.pending
         /\ OnEvent(s, e).current =
              IF e.kind = "begin" THEN e.item ELSE IF e.kind = "end" THEN Nobody ELSE s.current
         /\ OnEvent(s, e).plugins =
              IF e.kind = "plugin" THEN s.plugins \cup {[item |-> e.item, seen |-> e.seen]} ELSE s.plugins
<1>1. CASE e.kind = "begin"
  <2>1. OnEvent(s, e) = [s EXCEPT !.current = e.item]
    BY <1>1 DEF OnEvent, Began
  <2>2. QED
    BY <1>1, <2>1 DEF SessionType, Events
<1>2. CASE e.kind = "plugin"
  <2> DEFINE p == [item |-> e.item, seen |-> e.seen]
  <2>1. OnEvent(s, e) = [s EXCEPT !.plugins = @ \cup {p}]
    BY <1>2 DEF OnEvent, Described
  <2>2. p \in Findings
    BY DEF Events, Findings
  <2>3. p = [item |-> e.item, seen |-> e.seen]
    OBVIOUS
  <2> HIDE DEF p
  <2>4. OnEvent(s, e) \in SessionType
    BY <2>1, <2>2 DEF SessionType
  <2>5. QED
    BY <1>2, <2>1, <2>3, <2>4 DEF SessionType
<1>3. CASE e.kind = "end"
  <2>1. OnEvent(s, e) = [s EXCEPT !.current = Nobody, !.progressed = TRUE, !.pending = @ \ {e.item}]
    BY <1>3 DEF OnEvent, Ended
  <2>2. QED
    BY <1>3, <2>1 DEF SessionType
<1>4. QED
  BY <1>1, <1>2, <1>3 DEF Events

\* What a job keeps of a session.
LEMMA JobClosed ==
  ASSUME job \in JobType, NEW s \in SessionType, NEW reason \in {"", "crash", "timeout"}
  PROVE  LET condemned == IF reason = "" \/ s.current = Nobody THEN {}
                          ELSE {[item |-> s.current, reason |-> reason]}
             j == Closed(s, reason)
         IN  /\ j \in JobType /\ j.step \in {"save", "next"}
             /\ j.kind = job.kind /\ j.fps = job.fps /\ j.reused = job.reused /\ j.retained = job.retained
             /\ j.plugins = job.plugins \cup s.plugins
             /\ j.blocked = job.blocked \cup condemned
             /\ j.remaining = IF reason = "" THEN s.pending ELSE s.pending \ {s.current}
<1> DEFINE c == IF reason = "" \/ s.current = Nobody THEN {} ELSE {[item |-> s.current, reason |-> reason]}
           r == IF reason = "" THEN s.pending ELSE s.pending \ {s.current}
           t == IF c = {} /\ ~s.progressed THEN "save" ELSE "next"
<1>1. c \in SUBSET Sentences
  <2>1. CASE reason = "" \/ s.current = Nobody
    BY <2>1
  <2>2. CASE ~(reason = "" \/ s.current = Nobody)
    <3>1. s.current \in Items /\ reason \in {"crash", "timeout"}
      BY <2>2 DEF SessionType
    <3>2. [item |-> s.current, reason |-> reason] \in Sentences
      BY <3>1 DEF Sentences
    <3>3. QED
      BY <2>2, <3>2
  <2>3. QED
    BY <2>1, <2>2
<1>2. r \in SUBSET Items /\ t \in {"save", "next"}
  BY DEF SessionType
<1>3. Closed(s, reason) = [job EXCEPT !.step = t, !.plugins = @ \cup s.plugins, !.blocked = @ \cup c,
                                      !.remaining = r]
  BY DEF Closed, Close
<1>4. s.plugins \in SUBSET Findings
  BY DEF SessionType
<1> HIDE DEF c, r, t
<1>5. Closed(s, reason) \in JobType
  BY <1>1, <1>2, <1>3, <1>4 DEF JobType
<1>6. /\ Closed(s, reason).step = t /\ Closed(s, reason).kind = job.kind /\ Closed(s, reason).fps = job.fps
      /\ Closed(s, reason).reused = job.reused /\ Closed(s, reason).retained = job.retained
      /\ Closed(s, reason).plugins = job.plugins \cup s.plugins
      /\ Closed(s, reason).blocked = job.blocked \cup c /\ Closed(s, reason).remaining = r
  BY <1>3 DEF JobType
<1>7. QED
  BY <1>2, <1>5, <1>6 DEF c, r

\* What is planned for each item.
LEMMA Planned ==
  ASSUME NEW prior \in CacheType, NEW j \in JobType
  PROVE  LET p == Plan(j, prior)
         IN  /\ p \in JobType /\ p.kind = j.kind /\ p.fps = j.fps /\ p.plugins = j.plugins
             /\ p.blocked = j.blocked /\ p.step = j.step
             /\ p.reused \in SUBSET Findings
             /\ \A f \in p.reused : IsReused(f.item, prior, j.fps) /\ f.seen = prior.entries[f.item].seen
             /\ \A b \in p.retained : IsRetained(b.item, prior, j.fps) /\ b.reason = "crash"
             /\ \A b, d \in p.retained : b.item = d.item => b = d
             /\ ItemsOf(p.reused) = {i \in Items : IsReused(i, prior, j.fps)}
             /\ ItemsOf(p.retained) = {i \in Items : IsRetained(i, prior, j.fps)}
             /\ p.remaining = Items \ (ItemsOf(p.reused) \cup ItemsOf(p.retained))
<1> DEFINE a == {i \in Items : IsReused(i, prior, j.fps)}
           b == {i \in Items : IsRetained(i, prior, j.fps)}
           A == {[item |-> i, seen |-> prior.entries[i].seen] : i \in a}
           B == {[item |-> i, reason |-> "crash"] : i \in b}
           C == Items \ (a \cup b)
<1>1. Plan(j, prior) = [j EXCEPT !.reused = A, !.retained = B, !.remaining = C]
  BY DEF Plan
<1>2. \A f \in A : f \in Findings /\ IsReused(f.item, prior, j.fps) /\ f.seen = prior.entries[f.item].seen
  <2> TAKE f \in A
  <2>1. PICK i \in a : f = [item |-> i, seen |-> prior.entries[i].seen]
    OBVIOUS
  <2>2. i \in Items /\ IsReused(i, prior, j.fps) /\ prior.entries[i].seen \in Nat
    BY DEF CacheType
  <2>3. f.item = i /\ f.seen = prior.entries[i].seen
    BY <2>1
  <2>4. QED
    BY <2>1, <2>2, <2>3 DEF Findings
<1>3. \A f \in B : f \in Sentences /\ IsRetained(f.item, prior, j.fps) /\ f.reason = "crash"
  BY DEF Sentences
<1>4. \A f, g \in B : f.item = g.item => f = g
  OBVIOUS
<1>5. ItemsOf(A) = a /\ ItemsOf(B) = b
  <2>1. \A i \in a : [item |-> i, seen |-> prior.entries[i].seen].item = i
    OBVIOUS
  <2>2. \A i \in b : [item |-> i, reason |-> "crash"].item = i
    OBVIOUS
  <2>3. QED
    BY <2>1, <2>2 DEF ItemsOf
<1>6. C \in SUBSET Items /\ C = Items \ (ItemsOf(A) \cup ItemsOf(B))
  BY <1>5
<1>7. a = {i \in Items : IsReused(i, prior, j.fps)} /\ b = {i \in Items : IsRetained(i, prior, j.fps)}
  OBVIOUS
<1> HIDE DEF a, b, A, B, C
<1>8. A \in SUBSET Findings /\ B \in SUBSET Sentences
  BY <1>2, <1>3
<1>9. /\ Plan(j, prior) \in JobType /\ Plan(j, prior).kind = j.kind /\ Plan(j, prior).fps = j.fps
      /\ Plan(j, prior).plugins = j.plugins /\ Plan(j, prior).blocked = j.blocked
      /\ Plan(j, prior).step = j.step
      /\ Plan(j, prior).reused = A /\ Plan(j, prior).retained = B /\ Plan(j, prior).remaining = C
  BY <1>1, <1>6, <1>8 DEF JobType
<1>10. QED
  BY <1>2, <1>3, <1>4, <1>5, <1>6, <1>7, <1>8, <1>9

\* What is saved of each item.
LEMMA Saved ==
  ASSUME job \in JobType
  PROVE  LET c == CacheFile(job)
         IN  /\ c \in CacheType
             /\ \A i \in Items :
                  IF i \in ItemsOf(job.reused \cup job.plugins)
                  THEN \E p \in job.reused \cup job.plugins :
                         p.item = i /\ c.entries[i].fp = job.fps[i] /\ c.entries[i].seen = p.seen
                  ELSE c.entries[i].fp = 0
             /\ \A i \in Items :
                  IF i \in ItemsOf(job.retained \cup job.blocked)
                  THEN \E b \in job.retained \cup job.blocked :
                         b.item = i /\ c.blocked[i] = [fp |-> job.fps[i], reason |-> b.reason]
                  ELSE c.blocked[i].reason = ""
<1> DEFINE P == job.reused \cup job.plugins
           B == job.retained \cup job.blocked
           E == [i \in Items |-> IF i \in ItemsOf(P)
                                 THEN [fp |-> job.fps[i], seen |-> (CHOOSE p \in P : p.item = i).seen]
                                 ELSE Unknown]
           K == [i \in Items |-> IF i \in ItemsOf(B)
                                 THEN [fp |-> job.fps[i], reason |-> (CHOOSE b \in B : b.item = i).reason]
                                 ELSE [fp |-> 0, reason |-> ""]]
<1>1. CacheFile(job) = [entries |-> E, blocked |-> K]
  BY DEF CacheFile, CacheOf
<1>2. P \in SUBSET Findings /\ B \in SUBSET Sentences /\ job.fps \in [Items -> Nat]
  BY DEF JobType
<1>3. ASSUME NEW i \in Items
      PROVE  /\ E[i] \in [fp : Nat, seen : Nat]
             /\ IF i \in ItemsOf(P) THEN \E p \in P : p.item = i /\ E[i].fp = job.fps[i] /\ E[i].seen = p.seen
                ELSE E[i].fp = 0
  <2>1. CASE i \in ItemsOf(P)
    <3>1. PICK p \in P : p = CHOOSE q \in P : q.item = i
      BY <2>1 DEF ItemsOf
    <3>2. p.item = i
      BY <2>1, <3>1 DEF ItemsOf
    <3>3. E[i] = [fp |-> job.fps[i], seen |-> p.seen]
      BY <2>1, <3>1
    <3>4. p \in Findings
      BY <1>2
    <3>5. QED
      BY <1>2, <2>1, <3>2, <3>3, <3>4 DEF Findings
  <2>2. CASE i \notin ItemsOf(P)
    BY <2>2 DEF Unknown
  <2>3. QED
    BY <2>1, <2>2
<1>4. ASSUME NEW i \in Items
      PROVE  /\ K[i] \in [fp : Nat, reason : {"", "crash", "timeout"}]
             /\ IF i \in ItemsOf(B) THEN \E b \in B : b.item = i /\ K[i] = [fp |-> job.fps[i], reason |-> b.reason]
                ELSE K[i].reason = ""
  <2>1. CASE i \in ItemsOf(B)
    <3>1. PICK b \in B : b = CHOOSE q \in B : q.item = i
      BY <2>1 DEF ItemsOf
    <3>2. b.item = i
      BY <2>1, <3>1 DEF ItemsOf
    <3>3. K[i] = [fp |-> job.fps[i], reason |-> b.reason]
      BY <2>1, <3>1
    <3>4. b \in Sentences
      BY <1>2
    <3>5. QED
      BY <1>2, <2>1, <3>2, <3>3, <3>4 DEF Sentences
  <2>2. CASE i \notin ItemsOf(B)
    BY <2>2
  <2>3. QED
    BY <2>1, <2>2
<1>5. E \in [Items -> [fp : Nat, seen : Nat]] /\ K \in [Items -> [fp : Nat, reason : {"", "crash", "timeout"}]]
  <2>1. E \in [Items -> [fp : Nat, seen : Nat]]
    BY <1>3
  <2>2. K \in [Items -> [fp : Nat, reason : {"", "crash", "timeout"}]]
    BY <1>4
  <2>3. QED
    BY <2>1, <2>2
<1> HIDE DEF E, K
<1>6. CacheFile(job) \in CacheType /\ CacheFile(job).entries = E /\ CacheFile(job).blocked = K
  <2> DEFINE S == [Items -> [fp : Nat, seen : Nat]]
             T == [Items -> [fp : Nat, reason : {"", "crash", "timeout"}]]
  <2>1. E \in S /\ K \in T
    BY <1>5
  <2>2. CacheType = [entries : S, blocked : T]
    BY DEF CacheType
  <2> HIDE DEF S, T
  <2>3. QED
    BY <1>1, <2>1, <2>2
<1>7. QED
  BY <1>3, <1>4, <1>6
-----------------------------------------------------------------------------
(* What each action does, field by field. *)

\* What the worker says is added to the pipe.
Says(kind, i) ==
  worker'.pipe = Append(worker.pipe, [kind |-> kind, item |-> i, seen |-> version[i]])

\* The worker begins an item of its list (run_worker).
LEMMA BeginDoes ==
  ASSUME Shapes, Begin
  PROVE  \E i \in worker.todo :
           /\ worker.alive /\ worker.doing = Nobody
           /\ worker' \in WorkerType /\ worker'.alive /\ worker'.doing = i /\ worker'.todo = worker.todo \ {i}
           /\ Says("begin", i)
           /\ UNCHANGED <<version, nature, cache, list, job, session, told>>
<1>1. PICK i \in worker.todo :
        /\ worker' = [Emit(worker, "begin", i) EXCEPT !.doing = i, !.todo = @ \ {i}, !.described = FALSE]
        /\ worker.alive /\ worker.doing = Nobody
        /\ UNCHANGED <<version, nature, cache, list, job, session, told>>
  BY DEF Begin, WorkerOnly
<1> DEFINE e == [kind |-> "begin", item |-> i, seen |-> version[i]]
<1>2. i \in Items /\ worker \in WorkerType /\ version[i] \in Nat
  BY DEF Shapes, WorkerType
<1>3. e \in Events
  BY <1>2 DEF Events
<1>4. e = [kind |-> "begin", item |-> i, seen |-> version[i]]
  OBVIOUS
<1> HIDE DEF e
<1>5. worker' = [worker EXCEPT !.pipe = Append(@, e), !.doing = i, !.todo = @ \ {i}, !.described = FALSE]
  BY <1>1, <1>4 DEF Emit
<1>6. Append(worker.pipe, e) \in Seq(Events)
  BY <1>2, <1>3 DEF WorkerType
<1>7. worker' \in WorkerType
  BY <1>2, <1>5, <1>6 DEF WorkerType
<1>8. worker'.alive = worker.alive /\ worker'.doing = i /\ worker'.todo = worker.todo \ {i}
      /\ worker'.pipe = Append(worker.pipe, e)
  BY <1>2, <1>5 DEF WorkerType
<1>9. QED
  BY <1>1, <1>4, <1>7, <1>8 DEF Says

\* It describes the item it has loaded, or has nothing to list of it.
LEMMA DescribeDoes ==
  ASSUME Shapes, Describe
  PROVE  /\ worker.alive /\ worker.doing \in Items
         /\ worker' \in WorkerType /\ worker'.alive /\ worker'.doing = worker.doing /\ worker'.todo = worker.todo
         /\ worker'.pipe = worker.pipe \/ Says("plugin", worker.doing)
         /\ UNCHANGED <<version, nature, cache, list, job, session, told>>
<1> DEFINE i == worker.doing
           e == [kind |-> "plugin", item |-> i, seen |-> version[i]]
<1>1. /\ \/ worker' = [worker EXCEPT !.described = TRUE]
         \/ worker' = [worker EXCEPT !.pipe = Append(@, e), !.described = TRUE]
      /\ worker.alive /\ i # Nobody
      /\ UNCHANGED <<version, nature, cache, list, job, session, told>>
  BY DEF Describe, WorkerOnly, Emit
<1>2. i \in Items /\ worker \in WorkerType
  BY <1>1 DEF Shapes, WorkerType
<1>3. e \in Events
  BY <1>2 DEF Events, Shapes
<1>4. e = [kind |-> "plugin", item |-> i, seen |-> version[i]]
  OBVIOUS
<1> HIDE DEF e
<1>5. Append(worker.pipe, e) \in Seq(Events)
  BY <1>2, <1>3 DEF WorkerType
<1>6. worker' \in WorkerType
  BY <1>1, <1>2, <1>5 DEF WorkerType
<1>7. worker'.alive = worker.alive /\ worker'.doing = worker.doing /\ worker'.todo = worker.todo
      /\ (worker'.pipe = worker.pipe \/ worker'.pipe = Append(worker.pipe, e))
  BY <1>1, <1>2 DEF WorkerType
<1>8. QED
  BY <1>1, <1>2, <1>4, <1>6, <1>7 DEF Says

\* It ends the item.
LEMMA EndDoes ==
  ASSUME Shapes, End
  PROVE  /\ worker.alive /\ worker.doing \in Items
         /\ worker' \in WorkerType /\ worker'.alive /\ worker'.doing = Nobody /\ worker'.todo = worker.todo
         /\ Says("end", worker.doing)
         /\ UNCHANGED <<version, nature, cache, list, job, session, told>>
<1> DEFINE i == worker.doing
           e == [kind |-> "end", item |-> i, seen |-> version[i]]
<1>1. /\ worker' = [worker EXCEPT !.pipe = Append(@, e), !.doing = Nobody]
      /\ worker.alive /\ i # Nobody
      /\ UNCHANGED <<version, nature, cache, list, job, session, told>>
  BY DEF End, WorkerOnly, Emit
<1>2. i \in Items /\ worker \in WorkerType
  BY <1>1 DEF Shapes, WorkerType
<1>3. e \in Events
  BY <1>2 DEF Events, Shapes
<1>4. e = [kind |-> "end", item |-> i, seen |-> version[i]]
  OBVIOUS
<1> HIDE DEF e
<1>5. Append(worker.pipe, e) \in Seq(Events)
  BY <1>2, <1>3 DEF WorkerType
<1>6. worker' \in WorkerType
  BY <1>1, <1>2, <1>5 DEF WorkerType
<1>7. worker'.alive = worker.alive /\ worker'.doing = Nobody /\ worker'.todo = worker.todo
      /\ worker'.pipe = Append(worker.pipe, e)
  BY <1>1, <1>2 DEF WorkerType
<1>8. QED
  BY <1>1, <1>2, <1>4, <1>6, <1>7 DEF Says

\* The worker dies: in a plugin that does harm, or in none.
LEMMA DeathDoes ==
  ASSUME Shapes, Crash \/ DieIdle
  PROVE  /\ worker' \in WorkerType /\ ~worker'.alive /\ worker'.doing = worker.doing
         /\ worker'.todo = worker.todo /\ worker'.pipe = worker.pipe
         /\ worker.alive /\ worker.doing \in Items => nature[worker.doing] \notin {"sound", "empty"}
         /\ UNCHANGED <<version, nature, cache, list, job, session, told>>
<1>1. worker \in WorkerType /\ worker' = [worker EXCEPT !.alive = FALSE]
  BY DEF Shapes, Crash, DieIdle
<1>2. worker' \in WorkerType /\ ~worker'.alive /\ worker'.doing = worker.doing
      /\ worker'.todo = worker.todo /\ worker'.pipe = worker.pipe
  BY <1>1 DEF WorkerType
<1>3. worker.alive /\ worker.doing \in Items => nature[worker.doing] \notin {"sound", "empty"}
  BY NobodyAssumption DEF Crash, DieIdle
<1>4. QED
  BY <1>2, <1>3 DEF Crash, DieIdle, WorkerOnly

\* No worker and no session: nothing begun, nothing listed.
LEMMA RestTyped ==
  /\ NoWorker \in WorkerType /\ ~NoWorker.alive /\ NoWorker.doing = Nobody /\ NoWorker.todo = {}
  /\ NoWorker.pipe = <<>>
  /\ NoSession \in SessionType /\ NoSession.pending = {} /\ NoSession.current = Nobody
  /\ NoSession.plugins = {}
<1>1. <<>> \in Seq(Events)
  OBVIOUS
<1>2. QED
  BY <1>1 DEF NoWorker, WorkerType, NoSession, NewSession, SessionType

\* A new job, and none: every list is empty.
LEMMA JobTyped ==
  ASSUME NEW kind \in {"inventory", "new", "forced"}
  PROVE  /\ Job(kind) \in JobType /\ Job(kind).step = "reconcile" /\ Job(kind).kind = kind
         /\ Job(kind).reused = {} /\ Job(kind).retained = {} /\ Job(kind).remaining = {}
         /\ Job(kind).plugins = {} /\ Job(kind).blocked = {}
         /\ NoJob \in JobType /\ NoJob.step = "none" /\ NoJob.kind = "none" /\ NoJob.reused = {}
         /\ NoJob.retained = {} /\ NoJob.remaining = {} /\ NoJob.plugins = {} /\ NoJob.blocked = {}
<1>1. NoJob \in JobType
  BY DEF NoJob, JobType
<1>2. NoJob.step = "none" /\ NoJob.kind = "none" /\ NoJob.reused = {} /\ NoJob.retained = {}
      /\ NoJob.remaining = {} /\ NoJob.plugins = {} /\ NoJob.blocked = {}
  BY DEF NoJob
<1>3. Job(kind) = [NoJob EXCEPT !.step = "reconcile", !.kind = kind]
  BY DEF Job
<1>4. Job(kind) \in JobType
  BY <1>1, <1>3 DEF JobType
<1>5. /\ Job(kind).step = "reconcile" /\ Job(kind).kind = kind /\ Job(kind).reused = NoJob.reused
      /\ Job(kind).retained = NoJob.retained /\ Job(kind).remaining = NoJob.remaining
      /\ Job(kind).plugins = NoJob.plugins /\ Job(kind).blocked = NoJob.blocked
  BY <1>1, <1>3 DEF JobType
<1>6. QED
  BY <1>1, <1>2, <1>4, <1>5
\* A step of the job that changes none of its lists.
JobMoves(now) ==
  /\ job' \in JobType /\ job'.step = now /\ job'.kind = job.kind /\ job'.fps = job.fps
  /\ job'.reused = job.reused /\ job'.retained = job.retained /\ job'.remaining = job.remaining
  /\ job'.plugins = job.plugins /\ job'.blocked = job.blocked

\* What is planned (reconcile_with_disk): the entries and the crashes whose fingerprint is the
\* file's own are kept, all else remains to be scanned.
LEMMA ReconcileDoes ==
  ASSUME Shapes, Reconcile
  PROVE  /\ job.step = "reconcile" /\ job'.step \in {"publish", "next"}
         /\ job' \in JobType /\ job'.kind = job.kind /\ job'.fps = version
         /\ job'.plugins = job.plugins /\ job'.blocked = job.blocked
         /\ job'.kind = "forced" => job'.reused = {} /\ job'.retained = {}
         /\ \A f \in job'.reused : /\ cache.entries[f.item].fp = version[f.item]
                                   /\ f.seen = cache.entries[f.item].seen
         /\ \A b \in job'.retained :
              /\ b.item \in Items /\ b.reason = "crash"
              /\ cache.blocked[b.item] = [fp |-> version[b.item], reason |-> "crash"]
         /\ \A b, d \in job'.retained : b.item = d.item => b = d
         /\ ItemsOf(job'.reused) \cap ItemsOf(job'.retained) = {}
         /\ job'.remaining = Items \ ItemsOf(job'.reused \cup job'.retained)
         /\ \A i \in Items : /\ job.kind # "forced"
                             /\ \/ cache.entries[i].fp = version[i]
                                \/ cache.blocked[i] = [fp |-> version[i], reason |-> "crash"]
                             => i \in ItemsOf(job'.reused \cup job'.retained)
         /\ UNCHANGED <<version, nature, cache, list, session, worker, told>>
<1> DEFINE prior == IF job.kind = "forced" THEN EmptyCache ELSE cache
           j == [job EXCEPT !.fps = version]
           plan == Plan(j, prior)
<1>1. EmptyCache \in CacheType
  <2>1. Unknown \in [fp : Nat, seen : Nat]
    BY DEF Unknown
  <2>2. QED
    BY <2>1 DEF EmptyCache, CacheType
<1>2. prior \in CacheType
  BY <1>1 DEF Shapes
<1>3. j \in JobType /\ j.fps = version /\ j.kind = job.kind /\ j.plugins = job.plugins /\ j.blocked = job.blocked
      /\ j.step = job.step
  BY DEF Shapes, JobType
<1>4. /\ \/ job' = [plan EXCEPT !.step = "publish", !.pending = Cardinality(plan.remaining)]
            /\ job.kind = "inventory"
         \/ job' = [plan EXCEPT !.step = "next"]
      /\ job.step = "reconcile"
      /\ UNCHANGED <<version, nature, cache, list, session, worker, told>>
  BY DEF Reconcile, ThreadOnly
<1>5. prior = cache \/ (job.kind = "forced" /\ prior = EmptyCache)
  OBVIOUS
<1>6. job.kind # "forced" => prior = cache
  OBVIOUS
<1> HIDE DEF prior, j
<1>7. /\ plan \in JobType /\ plan.kind = job.kind /\ plan.fps = version /\ plan.plugins = job.plugins
      /\ plan.blocked = job.blocked
      /\ \A f \in plan.reused : IsReused(f.item, prior, version) /\ f.seen = prior.entries[f.item].seen
      /\ \A b \in plan.retained : IsRetained(b.item, prior, version) /\ b.reason = "crash"
      /\ \A b, d \in plan.retained : b.item = d.item => b = d
      /\ ItemsOf(plan.reused) = {i \in Items : IsReused(i, prior, version)}
      /\ ItemsOf(plan.retained) = {i \in Items : IsRetained(i, prior, version)}
      /\ plan.remaining = Items \ (ItemsOf(plan.reused) \cup ItemsOf(plan.retained))
  BY <1>2, <1>3, Planned
<1> HIDE DEF plan
<1> DEFINE R == job'.reused
           T == job'.retained
<1>8. /\ job' \in JobType /\ job'.kind = job.kind /\ job'.fps = version /\ job'.plugins = job.plugins
      /\ job'.blocked = job.blocked /\ R = plan.reused /\ T = plan.retained
      /\ job'.remaining = plan.remaining /\ job'.step \in {"publish", "next"}
  <2>1. CASE job' = [plan EXCEPT !.step = "next"]
    BY <1>7, <2>1 DEF JobType
  <2>2. ASSUME job.kind = "inventory",
               job' = [plan EXCEPT !.step = "publish", !.pending = Cardinality(plan.remaining)]
        PROVE  /\ job' \in JobType /\ job'.kind = job.kind /\ job'.fps = version /\ job'.plugins = job.plugins
               /\ job'.blocked = job.blocked /\ R = plan.reused /\ T = plan.retained
               /\ job'.remaining = plan.remaining /\ job'.step \in {"publish", "next"}
    <3>1. Cardinality(plan.remaining) \in Nat
      <4>1. IsFiniteSet(plan.remaining)
        BY <1>7, ScanAssumption, FS_Subset
      <4>2. QED
        BY <4>1, FS_CardinalityType
    <3>2. QED
      BY <1>7, <2>2, <3>1 DEF JobType
  <2>3. QED
    BY <1>4, <2>1, <2>2
<1>9. job.kind = "forced" => R = {} /\ T = {}
  <2>1. SUFFICES ASSUME job.kind = "forced" PROVE ItemsOf(R) = {} /\ ItemsOf(T) = {}
    BY DEF ItemsOf
  <2>2. \A i \in Items : ~IsReused(i, prior, version) /\ ~IsRetained(i, prior, version)
    BY <2>1 DEF IsReused, IsRetained, EmptyCache, Unknown, Shapes, prior
  <2>3. QED
    BY <1>7, <1>8, <2>2
<1>10. \A f \in R : cache.entries[f.item].fp = version[f.item] /\ f.seen = cache.entries[f.item].seen
  BY <1>5, <1>7, <1>8, <1>9 DEF IsReused
<1>11. \A b \in T : b.item \in Items /\ b.reason = "crash" /\ cache.blocked[b.item] = [fp |-> version[b.item], reason |-> "crash"]
  <2> TAKE b \in T
  <2>1. IsRetained(b.item, cache, version) /\ b.item \in Items /\ b.reason = "crash"
    BY <1>5, <1>7, <1>8, <1>9 DEF JobType, Sentences
  <2>2. cache.blocked[b.item] \in [fp : Nat, reason : {"", "crash", "timeout"}]
    BY <2>1 DEF Shapes, CacheType
  <2>3. QED
    BY <2>1, <2>2 DEF IsRetained
<1>12. ItemsOf(R) \cap ItemsOf(T) = {}
  BY <1>7, <1>8 DEF IsRetained
<1>13. ItemsOf(R \cup T) = ItemsOf(R) \cup ItemsOf(T)
  BY DEF ItemsOf
<1>14. ASSUME NEW i \in Items, job.kind # "forced",
              \/ cache.entries[i].fp = version[i]
              \/ cache.blocked[i] = [fp |-> version[i], reason |-> "crash"]
       PROVE  i \in ItemsOf(R \cup T)
  <2>1. prior = cache
    BY <1>6, <1>14
  <2>2. IsReused(i, prior, version) \/ IsRetained(i, prior, version)
    BY <1>14, <2>1 DEF IsReused, IsRetained
  <2>3. QED
    BY <1>7, <1>8, <1>13, <2>2
<1>15. QED
  BY <1>4, <1>7, <1>8, <1>9, <1>10, <1>11, <1>12, <1>13, <1>14

\* A worker and a session on what remains.
LEMMA NextWorkerDoes ==
  ASSUME Shapes, NextWorker
  PROVE  /\ job.step = "next" /\ JobMoves("pump")
         /\ session' \in SessionType /\ session'.pending = job.remaining /\ session'.current = Nobody
         /\ session'.plugins = {}
         /\ worker' \in WorkerType /\ worker'.alive /\ worker'.doing = Nobody /\ worker'.todo = job.remaining
         /\ worker'.pipe = <<>>
         /\ UNCHANGED <<version, nature, cache, list, told>>
<1>1. /\ job' = [job EXCEPT !.step = "pump", !.sessions = @ + 1]
      /\ session' = NewSession(job.remaining)
      /\ worker' = [NoWorker EXCEPT !.alive = TRUE, !.todo = job.remaining]
      /\ job.step = "next" /\ UNCHANGED <<version, nature, cache, list, told>>
  BY DEF NextWorker, ThreadOnly
<1>2. job \in JobType /\ job.remaining \in SUBSET Items
  BY DEF Shapes, JobType
<1>3. JobMoves("pump")
  <2>1. PICK n \in Nat : n = job.sessions + 1
    BY <1>2 DEF JobType
  <2>2. job' = [job EXCEPT !.step = "pump", !.sessions = n]
    BY <1>1, <2>1
  <2>3. QED
    BY <1>2, <2>1, <2>2 DEF JobType, JobMoves
<1>4. /\ session' \in SessionType /\ session'.pending = job.remaining /\ session'.current = Nobody
      /\ session'.plugins = {}
  BY <1>1, <1>2 DEF NewSession, SessionType
<1>5. /\ worker' \in WorkerType /\ worker'.alive /\ worker'.doing = Nobody /\ worker'.todo = job.remaining
      /\ worker'.pipe = <<>>
  BY <1>1, <1>2, RestTyped DEF WorkerType
<1>6. QED
  BY <1>1, <1>3, <1>4, <1>5

\* The scan stops with what it has.
LEMMA StopDoes ==
  ASSUME Shapes, Stop \/ SpawnFails
  PROVE  job.step = "next" /\ JobMoves("save")
         /\ UNCHANGED <<version, nature, cache, list, session, worker, told>>
<1>1. job' = [job EXCEPT !.step = "save"] /\ job.step = "next"
      /\ UNCHANGED <<version, nature, cache, list, session, worker, told>>
  BY DEF Stop, SpawnFails, ThreadOnly
<1>2. QED
  BY <1>1 DEF JobMoves, JobType, Shapes

\* A timeout finds the pipe empty and the worker in a plugin that can be silent.
LEMMA TimeOutDoes ==
  ASSUME Shapes, TimeOut
  PROVE  /\ job.step = "pump" /\ JobMoves("kill") /\ worker.pipe = <<>>
         /\ worker.doing \in Items /\ nature[worker.doing] \in {"hang", "slow"}
         /\ UNCHANGED <<version, nature, cache, list, session, worker, told>>
<1>1. job' = [job EXCEPT !.step = "kill"] /\ job.step = "pump" /\ worker.pipe = <<>>
      /\ worker.doing # Nobody /\ nature[worker.doing] \in {"hang", "slow"}
      /\ UNCHANGED <<version, nature, cache, list, session, worker, told>>
  BY DEF TimeOut, ThreadOnly
<1>2. JobMoves("kill")
  BY <1>1 DEF JobMoves, JobType, Shapes
<1>3. worker.doing \in Items
  BY <1>1 DEF Shapes, WorkerType
<1>4. QED
  BY <1>1, <1>2, <1>3

\* The cache file is written.
LEMMA SaveDoes ==
  ASSUME Shapes, Save
  PROVE  job.step = "save" /\ JobMoves("publish") /\ cache' = CacheFile(job) /\ cache' \in CacheType
         /\ UNCHANGED <<version, nature, list, session, worker, told>>
<1>1. job' = [job EXCEPT !.step = "publish"] /\ job.step = "save" /\ cache' = CacheFile(job)
      /\ UNCHANGED <<version, nature, list, session, worker, told>>
  BY DEF Save, ThreadOnly
<1>2. JobMoves("publish")
  BY <1>1 DEF JobMoves, JobType, Shapes
<1>3. CacheFile(job) \in CacheType
  BY Saved DEF Shapes
<1>4. QED
  BY <1>1, <1>2, <1>3

\* The session s is over for that reason.
Ends(s, reason) ==
  /\ s \in SessionType /\ reason \in {"", "crash", "timeout"}
  /\ job' = Closed(s, reason) /\ session' = NoSession /\ worker' = NoWorker

\* The first and the rest of a sequence are of its type.
LEMMA FirstAndRest ==
  ASSUME NEW S, NEW q \in Seq(S), q # <<>>
  PROVE  Head(q) \in S /\ Tail(q) \in Seq(S)
OBVIOUS

\* An event is heard: it is the last one, or the session goes on.
LEMMA HearDoes ==
  ASSUME Shapes, Hear
  PROVE  /\ job.step = "pump" /\ worker.pipe # <<>>
         /\ LET e == Head(worker.pipe)
                s == OnEvent(session, e)
            IN  /\ s \in SessionType
                /\ \/ Ends(s, "") /\ s.pending = {} /\ s.current = Nobody
                   \/ /\ session' = s /\ job' = job /\ worker' \in WorkerType
                      /\ worker'.alive = worker.alive /\ worker'.doing = worker.doing
                      /\ worker'.todo = worker.todo /\ worker'.pipe = Tail(worker.pipe)
         /\ UNCHANGED <<version, nature, cache, list, told>>
<1> DEFINE e == Head(worker.pipe)
           s == OnEvent(session, e)
<1>1. /\ job.step = "pump" /\ worker.pipe # <<>>
      /\ \/ IsComplete(s) /\ job' = Closed(s, "") /\ session' = NoSession /\ worker' = NoWorker
         \/ job' = job /\ session' = s /\ worker' = [worker EXCEPT !.pipe = Tail(@)]
      /\ UNCHANGED <<version, nature, cache, list, told>>
  BY DEF Hear, ThreadOnly
<1>2. worker \in WorkerType /\ worker.pipe \in Seq(Events) /\ session \in SessionType
  BY DEF Shapes, WorkerType
<1>3. e \in Events /\ Tail(worker.pipe) \in Seq(Events)
  BY <1>1, <1>2, FirstAndRest
<1>4. s \in SessionType
  BY <1>2, <1>3, Heard
<1> HIDE DEF e, s
<1>5. CASE IsComplete(s) /\ job' = Closed(s, "") /\ session' = NoSession /\ worker' = NoWorker
  <2>1. Ends(s, "") /\ s.pending = {} /\ s.current = Nobody
    BY <1>4, <1>5 DEF IsComplete, Ends
  <2>2. QED
    BY <1>1, <1>4, <2>1 DEF e, s
<1>6. CASE job' = job /\ session' = s /\ worker' = [worker EXCEPT !.pipe = Tail(@)]
  <2>1. worker' \in WorkerType /\ worker'.alive = worker.alive /\ worker'.doing = worker.doing
        /\ worker'.todo = worker.todo /\ worker'.pipe = Tail(worker.pipe)
    BY <1>2, <1>3, <1>6 DEF WorkerType
  <2>2. QED
    BY <1>1, <1>4, <1>6, <2>1 DEF e, s
<1>7. QED
  BY <1>1, <1>5, <1>6

\* The session ends with a dead worker, or one that is killed for its silence.
LEMMA DeadDoes ==
  ASSUME Shapes, Disconnected \/ Kill
  PROVE  /\ \/ job.step = "pump" /\ Ends(session, "crash") /\ ~worker.alive /\ worker.pipe = <<>>
            \/ job.step = "kill" /\ Ends(session, "timeout")
         /\ UNCHANGED <<version, nature, cache, list, told>>
BY DEF Disconnected, Kill, ThreadOnly, Ends, Shapes

\* The list is published, and the studio is told of the crashes.
LEMMA PublishDoes ==
  ASSUME Shapes, Publish
  PROVE  /\ job.step = "publish" /\ job' = NoJob
         /\ list' \in ListType /\ ~list'.scanning
         /\ list'.result.plugins = job.reused \cup job.plugins
         /\ list'.result.blocked = job.retained \cup job.blocked
         /\ told' \in SUBSET (Items \X Nat)
         /\ \A t \in told' : t \in told \/ \E b \in job.retained \cup job.blocked :
                               b.reason = "crash" /\ t = <<b.item, job.fps[b.item]>>
         /\ UNCHANGED <<version, nature, cache, session, worker>>
<1> DEFINE r == [plugins |-> job.reused \cup job.plugins, blocked |-> job.retained \cup job.blocked,
                 pending |-> job.pending]
           new == {<<b.item, job.fps[b.item]>> : b \in {c \in job.retained \cup job.blocked : c.reason = "crash"}}
<1>1. /\ job.step = "publish" /\ job' = NoJob /\ list' = [scanning |-> FALSE, result |-> r]
      /\ told' = told \cup new
      /\ UNCHANGED <<version, nature, cache, session, worker>>
  BY DEF Publish, Ready
<1>2. r \in [plugins : SUBSET Findings, blocked : SUBSET Sentences, pending : Nat]
  BY DEF Shapes, JobType
<1>3. r.plugins = job.reused \cup job.plugins /\ r.blocked = job.retained \cup job.blocked
  OBVIOUS
<1>4. \A t \in new : t \in Items \X Nat /\ \E b \in job.retained \cup job.blocked :
                               b.reason = "crash" /\ t = <<b.item, job.fps[b.item]>>
  BY DEF Shapes, JobType, Sentences
<1> HIDE DEF r, new
<1>5. list' \in ListType /\ ~list'.scanning /\ list'.result = r
  BY <1>1, <1>2 DEF ListType
<1>6. told' \in SUBSET (Items \X Nat)
  BY <1>1, <1>4 DEF Shapes
<1>7. QED
  BY <1>1, <1>3, <1>4, <1>5, <1>6

\* The guard of the thread gives an empty list back.
LEMMA PanicDoes ==
  ASSUME Shapes, Panic
  PROVE  /\ job.step = "next" /\ job' = NoJob
         /\ list' \in ListType /\ ~list'.scanning /\ list'.result.plugins = {} /\ list'.result.blocked = {}
         /\ UNCHANGED <<version, nature, cache, session, worker, told>>
BY DEF Panic, Ready, NoResult, ListType

\* A scan is accepted.
LEMMA AskDoes ==
  ASSUME Shapes, NEW kind \in {"new", "forced"}, Ask(kind)
  PROVE  /\ ~list.scanning /\ list' = Scanning /\ job' = Job(kind)
         /\ told' = IF kind = "forced" THEN {} ELSE told
         /\ UNCHANGED <<version, nature, cache, session, worker>>
BY DEF Ask, Asked

\* The list in progress holds nothing.
LEMMA ScanningTyped ==
  Scanning \in ListType /\ Scanning.scanning /\ Scanning.result.plugins = {} /\ Scanning.result.blocked = {}
BY DEF Scanning, NoResult, ListType

\* A file is updated: its version grows.
LEMMA UpdateDoes ==
  ASSUME Shapes, NEW i \in Items, Update(i)
  PROVE  /\ version' \in [Items -> Nat \ {0}] /\ \A k \in Items : version'[k] >= version[k]
         /\ \A k \in Items : version'[k] # version[k] => version'[k] > version[k]
         /\ UNCHANGED <<nature, cache, list, job, session, worker, told>>
<1>1. version' = [version EXCEPT ![i] = @ + 1] /\ UNCHANGED <<nature, cache, list, job, session, worker, told>>
  BY Zenon DEF Update
<1>2. QED
  BY <1>1 DEF Shapes

\* The agent is started again, with the inventory of the boot.
LEMMA RestartDoes ==
  ASSUME Shapes, Restart
  PROVE  /\ list' = Scanning /\ job' = Job("inventory") /\ session' = NoSession /\ worker' = NoWorker
         /\ UNCHANGED <<version, nature, cache, told>>
BY DEF Restart

\* What a session that is over leaves to the job.
LEMMA EndsDoes ==
  ASSUME Shapes, NEW s, NEW reason, Ends(s, reason)
  PROVE  LET condemned == IF reason = "" \/ s.current = Nobody THEN {}
                          ELSE {[item |-> s.current, reason |-> reason]}
         IN  /\ job' \in JobType /\ job'.step \in {"save", "next"}
             /\ job'.kind = job.kind /\ job'.fps = job.fps /\ job'.reused = job.reused
             /\ job'.retained = job.retained /\ job'.plugins = job.plugins \cup s.plugins
             /\ job'.blocked = job.blocked \cup condemned
             /\ job'.remaining = IF reason = "" THEN s.pending ELSE s.pending \ {s.current}
             /\ session' = NoSession /\ worker' = NoWorker
<1>1. job \in JobType
  BY DEF Shapes
<1>2. s \in SessionType /\ reason \in {"", "crash", "timeout"} /\ job' = Closed(s, reason)
      /\ session' = NoSession /\ worker' = NoWorker
  BY DEF Ends
<1>3. QED
  BY <1>1, <1>2, JobClosed

\* The sentence of a session that is over is that of its current item.
LEMMA Sentenced ==
  ASSUME NEW s, NEW reason
  PROVE  LET condemned == IF reason = "" \/ s.current = Nobody THEN {}
                          ELSE {[item |-> s.current, reason |-> reason]}
         IN  /\ \A b \in condemned : b.item = s.current /\ s.current # Nobody
             /\ \A b, d \in condemned : b = d
<1>1. CASE reason = "" \/ s.current = Nobody
  BY <1>1
<1>2. CASE ~(reason = "" \/ s.current = Nobody)
  <2> DEFINE b == [item |-> s.current, reason |-> reason]
  <2>1. b.item = s.current
    OBVIOUS
  <2> HIDE DEF b
  <2>2. \A d \in {b} : d.item = s.current
    BY <2>1
  <2>3. QED
    BY <1>2, <2>2 DEF b
<1>3. QED
  BY <1>1, <1>2

\* The steps of the inventory, one by one.
LEMMA Steps ==
  ASSUME [Next]_vars
  PROVE  \/ UNCHANGED vars
         \/ Begin \/ Describe \/ End \/ (Crash \/ DieIdle)
         \/ Reconcile \/ NextWorker \/ (Stop \/ SpawnFails) \/ Hear \/ (Disconnected \/ Kill) \/ TimeOut
         \/ Save \/ Publish \/ Panic \/ Restart
         \/ (\E kind \in {"new", "forced"} : Ask(kind)) \/ \E i \in Items : Update(i)
BY DEF Next, Worker, Thread, World

\* A sequence and one more.
LEMMA Added ==
  ASSUME NEW S, NEW q \in Seq(S), NEW e \in S
  PROVE  /\ Len(Append(q, e)) = Len(q) + 1 /\ Append(q, e)[Len(q) + 1] = e
         /\ \A k \in 1 .. Len(q) : Append(q, e)[k] = q[k]
OBVIOUS

\* A sequence and its first.
LEMMA Popped ==
  ASSUME NEW S, NEW q \in Seq(S), q # <<>>
  PROVE  /\ Len(q) \in Nat \ {0} /\ Head(q) = q[1] /\ Len(Tail(q)) = Len(q) - 1
         /\ \A k \in 1 .. Len(q) - 1 : Tail(q)[k] = q[k + 1]
OBVIOUS

\* The places of a sequence.
LEMMA Places ==
  ASSUME NEW S, NEW q \in Seq(S)
  PROVE  /\ DOMAIN q = 1 .. Len(q) /\ Len(q) \in Nat /\ (q = <<>> <=> Len(q) = 0)
         /\ \A k \in 1 .. Len(q) : q[k] \in S
OBVIOUS
-----------------------------------------------------------------------------
(* The types are kept. *)

\* The types hold at first.
LEMMA ShapesInit == Init => Shapes
<1> SUFFICES ASSUME Init PROVE Shapes
  OBVIOUS
<1>1. cache \in CacheType
  <2>1. Unknown \in [fp : Nat, seen : Nat]
    BY DEF Unknown
  <2>2. QED
    BY <2>1 DEF Init, EmptyCache, CacheType
<1>2. list \in ListType /\ job \in JobType /\ session \in SessionType /\ worker \in WorkerType
  BY ScanningTyped, RestTyped, JobTyped DEF Init
<1>3. version \in [Items -> Nat \ {0}] /\ nature \in [Items -> Natures] /\ told \in SUBSET (Items \X Nat)
  BY DEF Init
<1>4. QED
  BY <1>1, <1>2, <1>3 DEF Shapes

\* The types are kept by every step.
LEMMA ShapesKept ==
  ASSUME Shapes, [Next]_vars
  PROVE  Shapes'
<1>1. CASE UNCHANGED vars
  BY <1>1 DEF Shapes, vars
<1>2. CASE Begin
  BY <1>2, BeginDoes DEF Shapes
<1>3. CASE Describe
  BY <1>3, DescribeDoes DEF Shapes
<1>4. CASE End
  BY <1>4, EndDoes DEF Shapes
<1>5. CASE Crash \/ DieIdle
  BY <1>5, DeathDoes DEF Shapes
<1>6. CASE Reconcile
  BY <1>6, ReconcileDoes DEF Shapes
<1>7. CASE NextWorker
  BY <1>7, NextWorkerDoes DEF Shapes, JobMoves
<1>8. CASE Stop \/ SpawnFails
  BY <1>8, StopDoes DEF Shapes, JobMoves
<1>9. CASE Hear
  <2>1. CASE Ends(OnEvent(session, Head(worker.pipe)), "")
    BY <1>9, <2>1, HearDoes, EndsDoes, RestTyped DEF Shapes
  <2>2. CASE session' = OnEvent(session, Head(worker.pipe)) /\ job' = job /\ worker' \in WorkerType
    BY <1>9, <2>2, HearDoes DEF Shapes
  <2>3. QED
    BY <1>9, <2>1, <2>2, HearDoes
<1>10. CASE Disconnected \/ Kill
  BY <1>10, DeadDoes, EndsDoes, RestTyped DEF Shapes
<1>11. CASE TimeOut
  BY <1>11, TimeOutDoes DEF Shapes, JobMoves
<1>12. CASE Save
  BY <1>12, SaveDoes DEF Shapes, JobMoves
<1>13. CASE Publish
  BY <1>13, PublishDoes, JobTyped DEF Shapes
<1>14. CASE Panic
  BY <1>14, PanicDoes, JobTyped DEF Shapes
<1>15. CASE Restart
  BY <1>15, RestartDoes, RestTyped, JobTyped, ScanningTyped DEF Shapes
<1>16. CASE \E kind \in {"new", "forced"} : Ask(kind)
  BY <1>16, AskDoes, JobTyped, ScanningTyped DEF Shapes
<1>17. CASE \E i \in Items : Update(i)
  BY <1>17, UpdateDoes DEF Shapes
<1>18. QED
  BY <1>1, <1>2, <1>3, <1>4, <1>5, <1>6, <1>7, <1>8, <1>9, <1>10, <1>11, <1>12, <1>13, <1>14, <1>15, <1>16,
     <1>17, Steps
-----------------------------------------------------------------------------
(* The invariant. *)

Harmful == {i \in Items : nature[i] \notin {"sound", "empty"}}
Running == job.step \in {"pump", "kill"}
Planning == job.step \in {"none", "reconcile"}

\* Once the job is planned, all that is read of a file is read after its fingerprint.
ReadSince(x) == x.seen \in job.fps[x.item] .. version[x.item]
Fresh ==
  /\ \A i \in Items : /\ cache.entries[i].fp <= version[i]
                      /\ cache.entries[i].fp = version[i] => cache.entries[i].seen = version[i]
  /\ ~Planning =>
       /\ \A i \in Items : job.fps[i] \in 1 .. version[i]
       /\ \A p \in job.reused \cup job.plugins \cup session.plugins : ReadSince(p)
       /\ \A k \in 1 .. Len(worker.pipe) : ReadSince(worker.pipe[k])

\* No worker and no session outside the pump.
Resting == ~Running => worker = NoWorker /\ session = NoSession

\* The events of the pipe follow one another, from what the session heard last to what the
\* worker does now.
After(e) == IF e.kind = "end" THEN Nobody ELSE e.item
Follows(x, e) == x = IF e.kind = "begin" THEN Nobody ELSE e.item
Chain(c, q, d) ==
  /\ \A k \in 1 .. Len(q) : Follows(IF k = 1 THEN c ELSE After(q[k - 1]), q[k])
  /\ d = IF Len(q) = 0 THEN c ELSE After(q[Len(q)])
Pipe == Chain(session.current, worker.pipe, worker.doing)

\* An event that follows what the worker does makes the chain longer.
LEMMA ChainAdded ==
  ASSUME NEW S, NEW q \in Seq(S), NEW e \in S, NEW c, NEW d, Chain(c, q, d), Follows(d, e)
  PROVE  Chain(c, Append(q, e), After(e))
<1> DEFINE r == Append(q, e)
<1>1. Len(q) \in Nat /\ Len(r) = Len(q) + 1 /\ r[Len(q) + 1] = e /\ \A k \in 1 .. Len(q) : r[k] = q[k]
  BY Added, Places
<1> HIDE DEF r
<1>2. ASSUME NEW k \in 1 .. Len(r)
      PROVE  Follows(IF k = 1 THEN c ELSE After(r[k - 1]), r[k])
  <2>1. CASE k \in 1 .. Len(q)
    BY <1>1, <2>1 DEF Chain
  <2>2. CASE k = Len(q) + 1
    BY <1>1, <2>2 DEF Chain
  <2>3. QED
    BY <1>1, <2>1, <2>2
<1>3. Len(r) # 0 /\ r[Len(r)] = e
  BY <1>1
<1>4. QED
  BY <1>2, <1>3 DEF Chain, r

\* The event heard first follows what the session heard last.
LEMMA ChainPopped ==
  ASSUME NEW S, NEW q \in Seq(S), q # <<>>, NEW c, NEW d, Chain(c, q, d)
  PROVE  Follows(c, Head(q)) /\ Chain(After(Head(q)), Tail(q), d)
<1> DEFINE r == Tail(q)
<1>1. Len(q) \in Nat \ {0} /\ Head(q) = q[1] /\ Len(r) = Len(q) - 1 /\ \A k \in 1 .. Len(q) - 1 : r[k] = q[k + 1]
  BY Popped
<1> HIDE DEF r
<1>2. Follows(c, Head(q))
  BY <1>1 DEF Chain
<1>3. ASSUME NEW k \in 1 .. Len(r)
      PROVE  Follows(IF k = 1 THEN After(Head(q)) ELSE After(r[k - 1]), r[k])
  <2>1. Follows(After(q[k]), q[k + 1])
    BY <1>1 DEF Chain
  <2>2. r[k] = q[k + 1] /\ (k = 1 => q[k] = Head(q)) /\ (k # 1 => r[k - 1] = q[k])
    BY <1>1
  <2>3. QED
    BY <2>1, <2>2
<1>4. d = IF Len(r) = 0 THEN After(Head(q)) ELSE After(r[Len(r)])
  <2>1. CASE Len(r) = 0
    <3>0. Len(q) = 1
      BY <1>1, <2>1
    <3>1. Len(q) = 1 /\ q[Len(q)] = Head(q)
      BY <1>1, <3>0
    <3>2. d = After(q[Len(q)])
      BY <3>1 DEF Chain
    <3>3. QED
      BY <2>1, <3>1, <3>2
  <2>2. CASE Len(r) # 0
    <3>1. r[Len(r)] = q[Len(q)] /\ d = After(q[Len(q)])
      BY <1>1, <2>2 DEF Chain
    <3>2. QED
      BY <2>2, <3>1
  <2>3. QED
    BY <2>1, <2>2
<1>5. QED
  BY <1>2, <1>3, <1>4 DEF Chain, r

\* Each item has one turn: it leaves the worker's list when it begins, the session's when it
\* has ended, and what the session heard of the others is heard for good.
Turns ==
  /\ worker.todo \subseteq session.pending
  /\ session.current \in session.pending \cup {Nobody}
  /\ worker.doing \in session.pending \cup {Nobody}
  /\ session.current \notin worker.todo /\ worker.doing \notin worker.todo
  /\ \A k \in 1 .. Len(worker.pipe) :
       /\ worker.pipe[k].item \in session.pending \ worker.todo
       /\ worker.pipe[k].kind = "end" =>
            /\ worker.pipe[k].item # worker.doing
            /\ \A m \in 1 .. Len(worker.pipe) : k < m => worker.pipe[m].item # worker.pipe[k].item
  /\ \A p \in session.plugins : p.item \notin session.pending \/ p.item = session.current

\* Who is condemned, or about to be, does harm.
Guilt ==
  /\ ~worker.alive /\ worker.doing # Nobody => worker.doing \in Harmful
  /\ job.step = "kill" => session.current \in Harmful
  /\ \A b \in job.blocked \cup job.retained \cup list.result.blocked : b.item \in Harmful
  /\ \A i \in Items : cache.blocked[i].reason # "" => i \in Harmful

\* The lists of the job are apart, and hold nothing of another job.
Apart ==
  /\ list.scanning = (job.step # "none")
  /\ Planning => /\ job.reused = {} /\ job.retained = {} /\ job.remaining = {}
                 /\ job.plugins = {} /\ job.blocked = {}
  /\ ItemsOf(job.reused) \cap ItemsOf(job.retained) = {}
  /\ ItemsOf(job.blocked) \cap ItemsOf(job.retained) = {}
  /\ job.remaining \cap ItemsOf(job.reused \cup job.retained \cup job.blocked \cup job.plugins) = {}
  /\ \A b \in job.retained : b.reason = "crash"
  /\ \A b, d \in job.blocked : b.item = d.item => b = d
  /\ session.pending \subseteq job.remaining

\* What the studio was told of is on record while the file is the same.
Known(i, fp) == cache.entries[i].fp = fp \/ cache.blocked[i] = [fp |-> fp, reason |-> "crash"]
Remembered ==
  /\ \A t \in told : t[2] <= version[t[1]] /\ (t[2] = version[t[1]] => Known(t[1], t[2]))
  /\ ~Planning =>
       \A t \in told : /\ t[2] <= job.fps[t[1]]
                       /\ t[2] = job.fps[t[1]] => t[1] \in ItemsOf(job.reused \cup job.retained)
  /\ job.kind = "forced" => told = {}
  /\ job.step = "publish" =>
       \A b \in job.blocked \cup job.retained : b.reason = "crash" => Known(b.item, job.fps[b.item])

IInv == Shapes /\ Fresh /\ Resting /\ Pipe /\ Turns /\ Guilt /\ Apart /\ Remembered
-----------------------------------------------------------------------------
(* It holds at first. *)

\* The invariant holds at first.
LEMMA IInvInit == Init => IInv
<1> SUFFICES ASSUME Init PROVE IInv
  OBVIOUS
<1>1. Shapes
  BY ShapesInit
<1>2. /\ cache = EmptyCache /\ list = Scanning /\ job = Job("inventory") /\ session = NoSession
      /\ worker = NoWorker /\ told = {} /\ version = [i \in Items |-> 1]
  BY DEF Init
<1>3. /\ Planning /\ ~Running /\ job.step = "reconcile" /\ job.kind = "inventory" /\ job.reused = {}
      /\ job.retained = {} /\ job.remaining = {} /\ job.plugins = {} /\ job.blocked = {}
  BY <1>2, JobTyped DEF Planning, Running
<1>4. /\ worker.doing = Nobody /\ worker.todo = {} /\ worker.pipe = <<>> /\ session.pending = {}
      /\ session.current = Nobody /\ session.plugins = {} /\ Len(worker.pipe) = 0
  BY <1>2, RestTyped
<1>5. list.scanning /\ list.result.blocked = {}
  BY <1>2, ScanningTyped
<1>6. Fresh
  <2>1. \A i \in Items : cache.entries[i].fp = 0 /\ version[i] = 1
    BY <1>2 DEF EmptyCache, Unknown
  <2>2. QED
    BY <1>3, <2>1 DEF Fresh
<1>7. Resting
  BY <1>2 DEF Resting
<1>8. Pipe
  BY <1>4 DEF Pipe, Chain
<1>9. Turns
  BY <1>4 DEF Turns
<1>10. Guilt
  BY <1>2, <1>3, <1>4, <1>5 DEF Guilt, EmptyCache
<1>11. Apart
  BY <1>3, <1>4, <1>5 DEF Apart, ItemsOf
<1>12. Remembered
  BY <1>2, <1>3 DEF Remembered
<1>13. QED
  BY <1>1, <1>6, <1>7, <1>8, <1>9, <1>10, <1>11, <1>12 DEF IInv
-----------------------------------------------------------------------------
(* Each part is kept. *)

\* What the session makes of the first event of the pipe.
LEMMA HeadHeard ==
  ASSUME Shapes, Pipe, worker.pipe # <<>>
  PROVE  LET e == Head(worker.pipe)
             s == OnEvent(session, e)
         IN  /\ e \in Events /\ e = worker.pipe[1] /\ 1 \in 1 .. Len(worker.pipe)
             /\ s.current = After(e) /\ (e.kind # "begin" => session.current = e.item)
             /\ e.kind = "begin" => session.current = Nobody
             /\ s.pending = IF e.kind = "end" THEN session.pending \ {e.item} ELSE session.pending
             /\ \A p \in s.plugins : \/ p \in session.plugins
                                     \/ e.kind = "plugin" /\ p.item = e.item /\ p.seen = e.seen
             /\ session.plugins \subseteq s.plugins
             /\ Chain(After(e), Tail(worker.pipe), worker.doing)
<1> DEFINE e == Head(worker.pipe)
           s == OnEvent(session, e)
<1>1. worker.pipe \in Seq(Events) /\ session \in SessionType
  BY DEF Shapes, WorkerType
<1>2. e \in Events /\ e = worker.pipe[1] /\ 1 \in 1 .. Len(worker.pipe)
  BY <1>1, FirstAndRest, Popped
<1>3. Follows(session.current, e) /\ Chain(After(e), Tail(worker.pipe), worker.doing)
  BY <1>1, ChainPopped DEF Pipe
<1> HIDE DEF e
<1>4. /\ s.pending = IF e.kind = "end" THEN session.pending \ {e.item} ELSE session.pending
      /\ s.current = IF e.kind = "begin" THEN e.item ELSE IF e.kind = "end" THEN Nobody ELSE session.current
      /\ s.plugins = IF e.kind = "plugin" THEN session.plugins \cup {[item |-> e.item, seen |-> e.seen]}
                                          ELSE session.plugins
  BY <1>1, <1>2, Heard
<1> HIDE DEF s
<1>5. s.current = After(e) /\ (e.kind # "begin" => session.current = e.item)
      /\ (e.kind = "begin" => session.current = Nobody)
  BY <1>2, <1>3, <1>4 DEF Follows, After, Events
<1>6. \A p \in s.plugins : \/ p \in session.plugins
                           \/ e.kind = "plugin" /\ p.item = e.item /\ p.seen = e.seen
  BY <1>4
<1>7. session.plugins \subseteq s.plugins
  BY <1>4
<1>8. QED
  BY <1>2, <1>3, <1>4, <1>5, <1>6, <1>7 DEF e, s

\* What the worker says, place by place.
LEMMA Said ==
  ASSUME Shapes, NEW kind \in {"begin", "plugin", "end"}, NEW i \in Items, Says(kind, i)
  PROVE  /\ Len(worker.pipe) \in Nat /\ Len(worker'.pipe) = Len(worker.pipe) + 1
         /\ \A k \in 1 .. Len(worker.pipe) : worker'.pipe[k] = worker.pipe[k] /\ worker.pipe[k] \in Events
         /\ LET e == worker'.pipe[Len(worker.pipe) + 1]
            IN  e.kind = kind /\ e.item = i /\ e.seen = version[i]
<1> DEFINE e == [kind |-> kind, item |-> i, seen |-> version[i]]
<1>1. worker.pipe \in Seq(Events) /\ e \in Events
  BY DEF Shapes, WorkerType, Events
<1>2. e.kind = kind /\ e.item = i /\ e.seen = version[i] /\ worker'.pipe = Append(worker.pipe, e)
  BY DEF Says
<1> HIDE DEF e
<1>3. QED
  BY <1>1, <1>2, Added, Places

\* A worker and a session live only while they are listened to.
LEMMA RestingKept ==
  ASSUME IInv, [Next]_vars
  PROVE  Resting'
<1>1. Shapes /\ Resting
  BY DEF IInv
<1>2. CASE UNCHANGED vars
  BY <1>1, <1>2 DEF vars, Resting, Running
<1>3. CASE Begin \/ Describe \/ End \/ (Crash \/ DieIdle)
  <2>1. worker.alive
    BY <1>3 DEF Begin, Describe, End, Crash, DieIdle
  <2>2. Running
    BY <1>1, <2>1, RestTyped DEF Resting
  <2>3. job' = job
    BY <1>1, <1>3, BeginDoes, DescribeDoes, EndDoes, DeathDoes
  <2>4. QED
    BY <2>2, <2>3 DEF Resting, Running
<1>4. CASE Reconcile
  BY <1>1, <1>4, ReconcileDoes DEF Resting, Running
<1>5. CASE NextWorker
  BY <1>1, <1>5, NextWorkerDoes DEF Resting, Running, JobMoves
<1>6. CASE Stop \/ SpawnFails
  BY <1>1, <1>6, StopDoes DEF Resting, Running
<1>7. CASE Hear
  <2>1. CASE Ends(OnEvent(session, Head(worker.pipe)), "")
    BY <1>1, <2>1, EndsDoes DEF Resting
  <2>2. CASE job' = job
    BY <1>1, <1>7, <2>2, HearDoes DEF Resting, Running
  <2>3. QED
    BY <1>1, <1>7, <2>1, <2>2, HearDoes
<1>8. CASE Disconnected \/ Kill
  BY <1>1, <1>8, DeadDoes, EndsDoes DEF Resting
<1>9. CASE TimeOut
  BY <1>1, <1>9, TimeOutDoes DEF Resting, Running, JobMoves
<1>10. CASE Save
  BY <1>1, <1>10, SaveDoes DEF Resting, Running
<1>11. CASE Publish
  BY <1>1, <1>11, PublishDoes DEF Resting, Running
<1>12. CASE Panic
  BY <1>1, <1>12, PanicDoes DEF Resting, Running
<1>13. CASE Restart
  BY <1>1, <1>13, RestartDoes DEF Resting
<1>14. CASE \E kind \in {"new", "forced"} : Ask(kind)
  <2>1. job.step = "none"
    BY <1>1, <1>14, AskDoes DEF IInv, Apart
  <2>2. QED
    BY <1>1, <1>14, <2>1, AskDoes DEF Resting, Running
<1>15. CASE \E i \in Items : Update(i)
  BY <1>1, <1>15, UpdateDoes DEF Resting, Running
<1>16. QED
  BY <1>2, <1>3, <1>4, <1>5, <1>6, <1>7, <1>8, <1>9, <1>10, <1>11, <1>12, <1>13, <1>14, <1>15, Steps

\* The pipe stays a chain: the worker says what it does, the session hears it in order.
LEMMA PipeKept ==
  ASSUME IInv, [Next]_vars
  PROVE  Pipe'
<1>1. Shapes /\ Pipe
  BY DEF IInv
<1> DEFINE c == session.current
           q == worker.pipe
           d == worker.doing
<1>2. q \in Seq(Events) /\ Chain(c, q, d) /\ version \in [Items -> Nat \ {0}]
  BY <1>1 DEF Shapes, WorkerType, Pipe
<1>3. ASSUME NEW kind \in {"begin", "plugin", "end"}, NEW i \in Items, Says(kind, i),
             Follows(d, [kind |-> kind, item |-> i, seen |-> version[i]]),
             worker'.doing = After([kind |-> kind, item |-> i, seen |-> version[i]]), session' = session
      PROVE  Pipe'
  <2> DEFINE e == [kind |-> kind, item |-> i, seen |-> version[i]]
  <2>1. e \in Events /\ worker'.pipe = Append(q, e) /\ Follows(d, e) /\ worker'.doing = After(e)
    BY <1>2, <1>3 DEF Events, Says
  <2> HIDE DEF e, c, d, q
  <2>2. Chain(c, Append(q, e), After(e))
    BY <1>2, <2>1, ChainAdded
  <2>3. QED
    BY <1>3, <2>1, <2>2 DEF Pipe, c
<1>4. CASE Begin
  <2>1. PICK i \in worker.todo :
          worker.doing = Nobody /\ worker'.doing = i /\ Says("begin", i) /\ session' = session
    BY <1>1, <1>4, BeginDoes
  <2>2. i \in Items
    BY <1>1 DEF Shapes, WorkerType
  <2>3. QED
    BY <1>3, <2>1, <2>2 DEF Follows, After
<1>5. CASE Describe
  <2>1. CASE worker'.pipe = worker.pipe
    BY <1>1, <1>5, <2>1, DescribeDoes DEF Pipe
  <2>2. CASE Says("plugin", worker.doing)
    BY <1>1, <1>3, <1>5, <2>2, DescribeDoes DEF Follows, After
  <2>3. QED
    BY <1>1, <1>5, <2>1, <2>2, DescribeDoes
<1>6. CASE End
  BY <1>1, <1>3, <1>6, EndDoes DEF Follows, After
<1>7. CASE session' = NoSession /\ worker' = NoWorker
  BY <1>7, RestTyped DEF Pipe, Chain
<1>8. CASE worker'.pipe = worker.pipe /\ worker'.doing = worker.doing /\ session' = session
  BY <1>1, <1>8 DEF Pipe
<1>9. CASE NextWorker
  BY <1>1, <1>9, NextWorkerDoes DEF Pipe, Chain
<1>10. CASE Hear
  <2>1. CASE Ends(OnEvent(session, Head(worker.pipe)), "")
    BY <1>7, <2>1 DEF Ends
  <2>2. CASE /\ session' = OnEvent(session, Head(worker.pipe)) /\ worker'.doing = worker.doing
             /\ worker'.pipe = Tail(worker.pipe)
    BY <1>1, <1>10, <2>2, HearDoes, HeadHeard DEF Pipe
  <2>3. QED
    BY <1>1, <1>10, <2>1, <2>2, HearDoes
<1>11. CASE Disconnected \/ Kill
  BY <1>1, <1>7, <1>11, DeadDoes DEF Ends
<1>12. CASE Restart
  BY <1>1, <1>7, <1>12, RestartDoes
<1>13. QED
  BY <1>1, <1>4, <1>5, <1>6, <1>8, <1>9, <1>10, <1>11, <1>12, Steps, DeathDoes, ReconcileDoes, StopDoes, TimeOutDoes,
     SaveDoes, PublishDoes, PanicDoes, AskDoes, UpdateDoes DEF vars
\* Each item keeps one turn.
LEMMA TurnsKept ==
  ASSUME IInv, [Next]_vars
  PROVE  Turns'
<1>1. Shapes /\ Turns /\ Pipe
  BY DEF IInv
<1>2. worker.todo \subseteq Items /\ session.pending \subseteq Items /\ Nobody \notin Items
  BY <1>1, NobodyAssumption DEF Shapes, WorkerType, SessionType
<1>3. CASE UNCHANGED <<session, worker>>
  BY <1>1, <1>3 DEF Turns
<1>4. CASE Begin
  <2>1. PICK i \in worker.todo :
          /\ worker'.doing = i /\ worker'.todo = worker.todo \ {i} /\ Says("begin", i) /\ session' = session
    BY <1>1, <1>4, BeginDoes
  <2>2. i \in Items /\ i \in session.pending
    BY <1>1, <1>2, <2>1 DEF Turns
  <2> DEFINE n == Len(worker.pipe)
             q == worker.pipe
             r == worker'.pipe
  <2>3. /\ n \in Nat /\ Len(r) = n + 1 /\ \A k \in 1 .. n : r[k] = q[k]
        /\ r[n + 1].kind = "begin" /\ r[n + 1].item = i
    BY <1>1, <2>1, <2>2, Said
  <2>4. \A k \in 1 .. n : q[k].item \in session.pending \ worker.todo
    BY <1>1 DEF Turns
  <2>5. \A k \in 1 .. n : q[k].kind = "end" => \A m \in 1 .. n : k < m => q[m].item # q[k].item
    BY <1>1 DEF Turns
  <2> HIDE DEF n, q, r
  <2>6. \A k \in 1 .. Len(r) : r[k].item \in session.pending \ (worker.todo \ {i})
    BY <2>2, <2>3, <2>4
  <2>7. \A k \in 1 .. Len(r) : r[k].kind = "end" =>
          r[k].item # i /\ \A m \in 1 .. Len(r) : k < m => r[m].item # r[k].item
    <3>1. SUFFICES ASSUME NEW k \in 1 .. Len(r), r[k].kind = "end"
                   PROVE  r[k].item # i /\ \A m \in 1 .. Len(r) : k < m => r[m].item # r[k].item
      OBVIOUS
    <3>2. k \in 1 .. n /\ r[k] = q[k]
      BY <2>3, <3>1
    <3>3. q[k].item # i
      BY <2>1, <2>4, <3>2
    <3>4. ASSUME NEW m \in 1 .. Len(r), k < m PROVE r[m].item # r[k].item
      BY <2>3, <2>5, <3>1, <3>2, <3>3, <3>4
    <3>5. QED
      BY <3>2, <3>3, <3>4
  <2>8. QED
    BY <1>1, <1>2, <2>1, <2>2, <2>6, <2>7 DEF Turns, r
<1>5. ASSUME NEW kind \in {"plugin", "end"}, worker.doing \in Items, Says(kind, worker.doing),
             worker'.todo = worker.todo, session' = session,
             worker'.doing = IF kind = "end" THEN Nobody ELSE worker.doing
      PROVE  Turns'
  <2> DEFINE n == Len(worker.pipe)
             q == worker.pipe
             r == worker'.pipe
             i == worker.doing
  <2>1. /\ n \in Nat /\ Len(r) = n + 1 /\ \A k \in 1 .. n : r[k] = q[k] /\ q[k] \in Events
        /\ r[n + 1].kind = kind /\ r[n + 1].item = i
    BY <1>1, <1>5, Said
  <2>2. /\ \A k \in 1 .. n : q[k].item \in session.pending \ worker.todo
        /\ i \in session.pending \ worker.todo
    BY <1>1, <1>2, <1>5 DEF Turns
  <2>3. \A k \in 1 .. n : q[k].kind = "end" =>
          q[k].item # i /\ \A m \in 1 .. n : k < m => q[m].item # q[k].item
    BY <1>1 DEF Turns
  <2>4. worker'.doing = IF kind = "end" THEN Nobody ELSE i
    BY <1>5
  <2> HIDE DEF n, q, r, i
  <2>5. \A k \in 1 .. Len(r) : r[k].item \in session.pending \ worker.todo
    BY <2>1, <2>2
  <2>6. ASSUME NEW k \in 1 .. Len(r), r[k].kind = "end"
        PROVE  r[k].item # worker'.doing /\ \A m \in 1 .. Len(r) : k < m => r[m].item # r[k].item
    <3>1. CASE k = n + 1
      <4>1. kind = "end" /\ r[k].item \in Items
        BY <1>2, <2>1, <2>2, <2>6, <3>1
      <4>2. QED
        BY <1>2, <2>1, <2>4, <3>1, <4>1
    <3>2. CASE k \in 1 .. n
      <4>1. r[k] = q[k] /\ r[k].item \in Items /\ r[k].item # i
        BY <1>2, <2>1, <2>2, <2>3, <2>6, <3>2
      <4>2. r[k].item # worker'.doing
        BY <1>2, <2>4, <4>1
      <4>3. ASSUME NEW m \in 1 .. Len(r), k < m PROVE r[m].item # r[k].item
        BY <2>1, <2>3, <2>6, <3>2, <4>1, <4>3
      <4>4. QED
        BY <4>2, <4>3
    <3>3. QED
      BY <2>1, <3>1, <3>2
  <2>7. worker'.doing \in session.pending \cup {Nobody} /\ worker'.doing \notin worker.todo
    BY <1>2, <2>2, <2>4
  <2>8. QED
    BY <1>1, <1>5, <2>5, <2>6, <2>7 DEF Turns, r
<1>6. CASE Describe
  <2>1. CASE worker'.pipe = worker.pipe
    BY <1>1, <1>6, <2>1, DescribeDoes DEF Turns
  <2>2. CASE Says("plugin", worker.doing)
    BY <1>1, <1>5, <1>6, <2>2, DescribeDoes
  <2>3. QED
    BY <1>1, <1>6, <2>1, <2>2, DescribeDoes
<1>7. CASE End
  BY <1>1, <1>5, <1>7, EndDoes
<1>8. CASE Crash \/ DieIdle
  BY <1>1, <1>8, DeathDoes DEF Turns
<1>9. CASE session' = NoSession /\ worker' = NoWorker
  BY <1>2, <1>9, RestTyped DEF Turns
<1>10. CASE NextWorker
  <2>1. job.remaining \subseteq Items
    BY <1>1 DEF Shapes, JobType
  <2>2. QED
    BY <1>1, <1>2, <1>10, <2>1, NextWorkerDoes DEF Turns
<1>11. CASE Hear
  <2> DEFINE e == Head(worker.pipe)
             s == OnEvent(session, e)
             q == worker.pipe
             r == Tail(worker.pipe)
  <2>1. CASE Ends(s, "")
    BY <1>9, <2>1 DEF Ends
  <2>2. ASSUME session' = s, worker'.doing = worker.doing, worker'.todo = worker.todo, worker'.pipe = r
        PROVE  Turns'
    <3>1. q # <<>> /\ q \in Seq(Events)
      BY <1>1, <1>11, HearDoes DEF Shapes, WorkerType
    <3>2. /\ Len(q) \in Nat \ {0} /\ Len(r) = Len(q) - 1 /\ e = q[1]
          /\ \A k \in 1 .. Len(r) : r[k] = q[k + 1] /\ k + 1 \in 1 .. Len(q)
      BY <3>1, Popped
    <3>3. /\ e \in Events /\ s.current = After(e) /\ (e.kind # "begin" => session.current = e.item)
          /\ e.kind = "begin" => session.current = Nobody
          /\ s.pending = IF e.kind = "end" THEN session.pending \ {e.item} ELSE session.pending
          /\ \A p \in s.plugins : p \in session.plugins \/ (e.kind = "plugin" /\ p.item = e.item)
      BY <1>1, <3>1, HeadHeard
    <3>4. s.plugins \subseteq Findings
      BY <1>1, <1>11, HearDoes DEF SessionType
    <3>5. e.item \in session.pending \ worker.todo
          /\ (e.kind = "end" => /\ e.item # worker.doing
                                /\ \A m \in 1 .. Len(q) : 1 < m => q[m].item # e.item)
      <4>1. 1 \in 1 .. Len(q)
        BY <3>2
      <4>2. QED
        BY <1>1, <3>2, <4>1 DEF Turns
    <3>6. \A k \in 1 .. Len(r) :
            /\ r[k].item \in session.pending \ worker.todo
            /\ e.kind = "end" => r[k].item # e.item
            /\ r[k].kind = "end" => r[k].item # worker.doing
                                    /\ \A m \in 1 .. Len(r) : k < m => r[m].item # r[k].item
      <4> TAKE k \in 1 .. Len(r)
      <4>1. r[k] = q[k + 1] /\ k + 1 \in 1 .. Len(q) /\ 1 < k + 1
        BY <3>2
      <4>2. r[k].item \in session.pending \ worker.todo /\ (e.kind = "end" => r[k].item # e.item)
        BY <1>1, <3>5, <4>1 DEF Turns
      <4>3. ASSUME r[k].kind = "end"
            PROVE  r[k].item # worker.doing /\ \A m \in 1 .. Len(q) : k + 1 < m => q[m].item # q[k + 1].item
        BY <1>1, <4>1, <4>3 DEF Turns
      <4>4. \A m \in 1 .. Len(r) : k < m => r[m] = q[m + 1] /\ m + 1 \in 1 .. Len(q) /\ k + 1 < m + 1
        BY <3>2
      <4>5. QED
        BY <4>1, <4>2, <4>3, <4>4
    <3> HIDE DEF e, s, q, r
    <3>7. worker.todo \subseteq s.pending /\ s.current \in s.pending \cup {Nobody}
          /\ worker.doing \in s.pending \cup {Nobody} /\ s.current \notin worker.todo
          /\ worker.doing \notin worker.todo
      BY <1>1, <1>2, <3>3, <3>5 DEF Turns, After
    <3>8. \A k \in 1 .. Len(r) : r[k].item \in s.pending \ worker.todo
      BY <3>3, <3>6
    <3>9. \A p \in s.plugins : p.item \notin s.pending \/ p.item = s.current
      <4> TAKE p \in s.plugins
      <4>1. p.item \in Items
        BY <3>4 DEF Findings
      <4>2. CASE p \in session.plugins
        <5>1. p.item \notin session.pending \/ p.item = session.current
          BY <1>1, <4>2 DEF Turns
        <5>2. QED
          BY <1>2, <3>3, <4>1, <5>1 DEF After
      <4>3. CASE e.kind = "plugin" /\ p.item = e.item
        BY <3>3, <4>3 DEF After
      <4>4. QED
        BY <3>3, <4>2, <4>3
    <3>10. QED
      BY <2>2, <3>6, <3>7, <3>8, <3>9 DEF Turns
  <2>3. QED
    BY <1>1, <1>11, <2>1, <2>2, HearDoes
<1>12. CASE Disconnected \/ Kill
  BY <1>1, <1>9, <1>12, DeadDoes DEF Ends
<1>13. CASE Restart
  BY <1>1, <1>9, <1>13, RestartDoes
<1>14. QED
  BY <1>1, <1>3, <1>4, <1>6, <1>7, <1>8, <1>10, <1>11, <1>12, <1>13, Steps, ReconcileDoes, StopDoes, TimeOutDoes,
     SaveDoes, PublishDoes, PanicDoes, AskDoes, UpdateDoes DEF vars
\* Nothing older than its fingerprint enters the lists, the pipe or the cache.
LEMMA FreshKept ==
  ASSUME IInv, [Next]_vars
  PROVE  Fresh'
<1>1. Shapes /\ Fresh /\ Pipe /\ Resting /\ Apart
  BY DEF IInv
<1>2. version \in [Items -> Nat \ {0}]
  BY <1>1 DEF Shapes
<1>3. \A p \in job.reused \cup job.plugins \cup session.plugins : p.item \in Items
  BY <1>1 DEF Shapes, JobType, SessionType, Findings
<1>4. CASE UNCHANGED <<version, cache>> /\ Planning'
  BY <1>1, <1>4 DEF Fresh
<1>5. CASE /\ UNCHANGED <<version, cache>> /\ job'.fps = job.fps /\ ~Planning
           /\ \A p \in job'.reused \cup job'.plugins \cup session'.plugins :
                p \in job.reused \cup job.plugins \cup session.plugins
           /\ \A k \in 1 .. Len(worker'.pipe) : ReadSince(worker'.pipe[k])
  BY <1>1, <1>5 DEF Fresh, ReadSince
<1>6. ASSUME NEW kind \in {"begin", "plugin", "end"}, NEW i \in Items, Says(kind, i),
             UNCHANGED <<version, cache, job, session>>
      PROVE  Fresh'
  <2>1. CASE Planning
    BY <1>4, <1>6, <2>1 DEF Planning
  <2>2. CASE ~Planning
    <3> DEFINE n == Len(worker.pipe)
               r == worker'.pipe
    <3>1. /\ n \in Nat /\ Len(r) = n + 1 /\ \A k \in 1 .. n : r[k] = worker.pipe[k]
          /\ r[n + 1].item = i /\ r[n + 1].seen = version[i]
      BY <1>1, <1>6, Said
    <3>2. \A k \in 1 .. n : ReadSince(worker.pipe[k])
      BY <1>1, <2>2 DEF Fresh
    <3>3. ReadSince(r[n + 1])
      <4>1. job.fps[i] \in 1 .. version[i]
        BY <1>1, <2>2 DEF Fresh
      <4> HIDE DEF n, r
      <4>2. QED
        BY <1>2, <3>1, <4>1 DEF ReadSince
    <3> HIDE DEF n, r
    <3>4. \A k \in 1 .. Len(r) : ReadSince(r[k])
      BY <3>1, <3>2, <3>3
    <3>5. QED
      BY <1>5, <1>6, <2>2, <3>4 DEF r
  <2>3. QED
    BY <2>1, <2>2
<1>7. CASE UNCHANGED <<version, cache, session>> /\ worker'.pipe = worker.pipe /\ job' = job
  BY <1>1, <1>7 DEF Fresh, ReadSince, Planning
<1>8. CASE Begin
  <2>1. PICK i \in worker.todo : Says("begin", i) /\ UNCHANGED <<version, cache, job, session>>
    BY <1>1, <1>8, BeginDoes
  <2>2. i \in Items
    BY <1>1 DEF Shapes, WorkerType
  <2>3. QED
    BY <1>6, <2>1, <2>2
<1>9. CASE Describe
  BY <1>1, <1>6, <1>7, <1>9, DescribeDoes
<1>10. CASE End
  BY <1>1, <1>6, <1>10, EndDoes
<1>11. CASE Reconcile
  <2>1. /\ UNCHANGED <<version, cache, session, worker>> /\ job.step = "reconcile"
        /\ job'.fps = version /\ job'.plugins = job.plugins
        /\ \A f \in job'.reused : /\ cache.entries[f.item].fp = version[f.item]
                                  /\ f.seen = cache.entries[f.item].seen
    BY <1>1, <1>11, ReconcileDoes
  <2>2. job'.plugins = {} /\ session.plugins = {} /\ Len(worker.pipe) = 0
    BY <1>1, <2>1, RestTyped DEF Apart, Planning, Resting, Running
  <2>3. \A f \in job'.reused : f.item \in Items
    BY <1>1, <1>11, ReconcileDoes DEF JobType, Findings
  <2>4. \A f \in job'.reused : f.seen = version[f.item] /\ version[f.item] \in Nat
    BY <1>1, <1>2, <2>1, <2>3 DEF Fresh
  <2>5. \A i \in Items : job'.fps[i] \in 1 .. version[i]
    BY <1>2, <2>1
  <2>6. QED
    BY <1>1, <1>2, <2>1, <2>2, <2>3, <2>4, <2>5 DEF Fresh, ReadSince
<1>12. CASE NextWorker
  <2>1. ~Planning /\ UNCHANGED <<version, cache>> /\ job'.fps = job.fps /\ job'.reused = job.reused
        /\ job'.plugins = job.plugins /\ session'.plugins = {} /\ Len(worker'.pipe) = 0
    BY <1>1, <1>12, NextWorkerDoes DEF JobMoves, Planning
  <2>2. QED
    BY <1>5, <2>1
<1>13. CASE (Stop \/ SpawnFails) \/ TimeOut
  <2>1. ~Planning /\ UNCHANGED <<version, cache, session, worker>> /\ job'.fps = job.fps
        /\ job'.reused = job.reused /\ job'.plugins = job.plugins
    BY <1>1, <1>13, StopDoes, TimeOutDoes DEF JobMoves, Planning
  <2>2. \A k \in 1 .. Len(worker.pipe) : ReadSince(worker.pipe[k])
    BY <1>1, <2>1 DEF Fresh
  <2>3. QED
    BY <1>5, <2>1, <2>2
<1>14. ASSUME NEW s, NEW reason, Ends(s, reason), ~Planning, UNCHANGED <<version, cache>>,
              \A p \in s.plugins : p \in session.plugins \/ ReadSince(p)
       PROVE  Fresh'
  <2>1. job'.fps = job.fps /\ job'.reused = job.reused /\ job'.plugins = job.plugins \cup s.plugins
        /\ session' = NoSession /\ worker' = NoWorker
    BY <1>1, <1>14, EndsDoes
  <2>2. session'.plugins = {} /\ Len(worker'.pipe) = 0
    BY <2>1, RestTyped
  <2>3. \A p \in job'.reused \cup job'.plugins : ReadSince(p)
    BY <1>1, <1>14, <2>1 DEF Fresh
  <2>4. QED
    BY <1>1, <1>14, <2>1, <2>2, <2>3 DEF Fresh, ReadSince
<1>15. CASE Hear
  <2> DEFINE e == Head(worker.pipe)
             s == OnEvent(session, e)
             r == Tail(worker.pipe)
  <2>1. ~Planning /\ UNCHANGED <<version, cache>> /\ worker.pipe # <<>> /\ worker.pipe \in Seq(Events)
    BY <1>1, <1>15, HearDoes DEF Planning, Shapes, WorkerType
  <2>2. /\ Len(worker.pipe) \in Nat \ {0} /\ Len(r) = Len(worker.pipe) - 1 /\ e = worker.pipe[1]
        /\ \A k \in 1 .. Len(r) : r[k] = worker.pipe[k + 1] /\ k + 1 \in 1 .. Len(worker.pipe)
    BY <2>1, Popped
  <2>3. ReadSince(e) /\ \A k \in 1 .. Len(r) : ReadSince(r[k])
    <3>1. 1 \in 1 .. Len(worker.pipe)
      BY <2>2
    <3>2. \A k \in 1 .. Len(worker.pipe) : ReadSince(worker.pipe[k])
      BY <1>1, <2>1 DEF Fresh
    <3>3. QED
      BY <2>2, <3>1, <3>2
  <2>4. \A p \in s.plugins : p \in session.plugins \/ ReadSince(p)
    <3>1. \A p \in s.plugins : p \in session.plugins \/ (p.item = e.item /\ p.seen = e.seen)
      BY <1>1, <2>1, HeadHeard
    <3>2. QED
      BY <2>3, <3>1 DEF ReadSince
  <2>5. CASE Ends(s, "")
    BY <1>14, <2>1, <2>4, <2>5
  <2>6. CASE session' = s /\ job' = job /\ worker'.pipe = r
    <3>1. \A p \in job.reused \cup job.plugins \cup s.plugins : ReadSince(p)
      BY <1>1, <2>1, <2>4 DEF Fresh
    <3> HIDE DEF s, r
    <3>2. QED
      BY <1>1, <2>1, <2>3, <2>6, <3>1 DEF Fresh, ReadSince
  <2>7. QED
    BY <1>1, <1>15, <2>5, <2>6, HearDoes
<1>16. CASE Disconnected \/ Kill
  BY <1>1, <1>14, <1>16, DeadDoes DEF Planning
<1>17. CASE Save
  <2>1. /\ job.step = "save" /\ UNCHANGED <<version, session, worker>> /\ cache' = CacheFile(job)
        /\ job'.fps = job.fps /\ job'.reused = job.reused /\ job'.plugins = job.plugins
    BY <1>1, <1>17, SaveDoes DEF JobMoves
  <2>2. \A i \in Items : /\ cache'.entries[i].fp <= version[i]
                         /\ cache'.entries[i].fp = version[i] => cache'.entries[i].seen = version[i]
    <3> TAKE i \in Items
    <3>1. job.fps[i] \in 1 .. version[i] /\ version[i] \in Nat \ {0}
      BY <1>1, <1>2, <2>1 DEF Fresh, Planning
    <3>2. \/ cache'.entries[i].fp = 0
          \/ \E p \in job.reused \cup job.plugins :
               p.item = i /\ cache'.entries[i].fp = job.fps[i] /\ cache'.entries[i].seen = p.seen
      BY <1>1, <2>1, Saved DEF Shapes
    <3>3. \A p \in job.reused \cup job.plugins : p.item = i => p.seen \in job.fps[i] .. version[i]
      BY <1>1, <2>1 DEF Fresh, Planning, ReadSince
    <3>4. QED
      BY <3>1, <3>2, <3>3
  <2>3. ~Planning
    BY <2>1 DEF Planning
  <2>4. QED
    BY <1>1, <2>1, <2>2, <2>3 DEF Fresh, ReadSince
<1>18. CASE Publish
  BY <1>1, <1>4, <1>18, PublishDoes, JobTyped DEF Planning
<1>19. CASE Panic
  BY <1>1, <1>4, <1>19, PanicDoes, JobTyped DEF Planning
<1>20. CASE Restart
  BY <1>1, <1>4, <1>20, RestartDoes, JobTyped DEF Planning
<1>21. CASE \E kind \in {"new", "forced"} : Ask(kind)
  BY <1>1, <1>4, <1>21, AskDoes, JobTyped DEF Planning
<1>22. CASE \E i \in Items : Update(i)
  <2>1. /\ version' \in [Items -> Nat \ {0}] /\ \A k \in Items : version'[k] >= version[k]
        /\ UNCHANGED <<cache, job, session, worker>>
    BY <1>1, <1>22, UpdateDoes
  <2>2. \A i \in Items : /\ cache.entries[i].fp <= version'[i]
                         /\ cache.entries[i].fp = version'[i] => cache.entries[i].seen = version'[i]
    <3> TAKE i \in Items
    <3>1. cache.entries[i].fp \in Nat
      BY <1>1 DEF Shapes, CacheType
    <3>2. version[i] \in Nat /\ version'[i] \in Nat /\ version'[i] >= version[i]
          /\ cache.entries[i].fp <= version[i]
          /\ (cache.entries[i].fp = version[i] => cache.entries[i].seen = version[i])
      BY <1>1, <1>2, <2>1 DEF Fresh
    <3>3. QED
      BY <3>1, <3>2
  <2>3. ASSUME NEW x, x.item \in Items, ReadSince(x), ~Planning PROVE x.seen \in job.fps[x.item] .. version'[x.item]
    <3>1. job.fps[x.item] \in 1 .. version[x.item]
      BY <1>1, <2>3 DEF Fresh
    <3>2. version[x.item] \in Nat /\ version'[x.item] \in Nat /\ version'[x.item] >= version[x.item]
      BY <1>2, <2>1, <2>3
    <3>3. QED
      BY <2>3, <3>1, <3>2 DEF ReadSince
  <2>4. \A k \in 1 .. Len(worker.pipe) : worker.pipe[k].item \in Items
    <3>1. worker.pipe \in Seq(Events)
      BY <1>1 DEF Shapes, WorkerType
    <3>2. \A k \in 1 .. Len(worker.pipe) : worker.pipe[k] \in Events
      BY <3>1, Places
    <3>3. QED
      BY <3>2 DEF Events
  <2>5. ASSUME ~Planning
        PROVE  /\ \A i \in Items : job.fps[i] \in 1 .. version'[i]
               /\ \A p \in job.reused \cup job.plugins \cup session.plugins :
                    p.seen \in job.fps[p.item] .. version'[p.item]
               /\ \A k \in 1 .. Len(worker.pipe) :
                    worker.pipe[k].seen \in job.fps[worker.pipe[k].item] .. version'[worker.pipe[k].item]
    <3>1. \A i \in Items : job.fps[i] \in 1 .. version'[i]
      <4> TAKE i \in Items
      <4>1. job.fps[i] \in 1 .. version[i] /\ version'[i] >= version[i] /\ version[i] \in Nat /\ version'[i] \in Nat
        BY <1>1, <1>2, <2>1, <2>5 DEF Fresh
      <4>2. QED
        BY <4>1
    <3>2. \A p \in job.reused \cup job.plugins \cup session.plugins : ReadSince(p)
      BY <1>1, <2>5 DEF Fresh
    <3>3. \A k \in 1 .. Len(worker.pipe) : ReadSince(worker.pipe[k])
      BY <1>1, <2>5 DEF Fresh
    <3>4. QED
      BY <1>3, <2>3, <2>4, <2>5, <3>1, <3>2, <3>3
  <2>6. QED
    BY <2>1, <2>2, <2>5 DEF Fresh, ReadSince, Planning
<1>23. QED
  BY <1>1, <1>7, <1>8, <1>9, <1>10, <1>11, <1>12, <1>13, <1>15, <1>16, <1>17, <1>18, <1>19, <1>20, <1>21, <1>22,
     Steps, DeathDoes DEF vars
\* Whom the session of a dead worker condemns did harm.
LEMMA DeadGuilty ==
  ASSUME IInv, Disconnected \/ Kill, session.current # Nobody
  PROVE  session.current \in Harmful
<1>1. Shapes /\ Pipe /\ Guilt
  BY DEF IInv
<1>2. CASE job.step = "kill"
  BY <1>1, <1>2 DEF Guilt
<1>3. CASE ~worker.alive /\ worker.pipe = <<>>
  <2>1. Len(worker.pipe) = 0
    BY <1>3
  <2>2. worker.doing = session.current
    BY <1>1, <2>1 DEF Pipe, Chain
  <2>3. QED
    BY <1>1, <1>3, <2>2 DEF Guilt
<1>4. QED
  BY <1>1, <1>2, <1>3, DeadDoes

\* No step condemns an item that does no harm.
LEMMA GuiltKept ==
  ASSUME IInv, [Next]_vars
  PROVE  Guilt'
<1>1. Shapes /\ Guilt /\ Pipe /\ Apart /\ Resting
  BY DEF IInv
<1>2. Harmful' = Harmful
  BY <1>1, Steps, BeginDoes, DescribeDoes, EndDoes, DeathDoes, ReconcileDoes, NextWorkerDoes, StopDoes, HearDoes,
     DeadDoes, TimeOutDoes, SaveDoes, PublishDoes, PanicDoes, RestartDoes, AskDoes, UpdateDoes DEF Harmful, vars
<1>3. CASE UNCHANGED <<cache, list, job, session>> /\ (worker'.alive \/ worker' = worker)
  BY <1>1, <1>2, <1>3 DEF Guilt
<1>4. CASE Begin \/ Describe \/ End
  BY <1>1, <1>3, <1>4, BeginDoes, DescribeDoes, EndDoes
<1>5. CASE Crash \/ DieIdle
  <2>1. worker.doing \in Items \cup {Nobody}
    BY <1>1 DEF Shapes, WorkerType
  <2>2. /\ worker.doing \in Items => nature[worker.doing] \notin {"sound", "empty"}
        /\ worker'.doing = worker.doing /\ UNCHANGED <<cache, list, job, session>>
    BY <1>1, <1>5, DeathDoes DEF Crash, DieIdle
  <2>3. QED
    BY <1>1, <1>2, <2>1, <2>2 DEF Guilt, Harmful
<1>6. CASE Reconcile
  <2>1. /\ UNCHANGED <<cache, list, session, worker>> /\ job'.step # "kill" /\ job'.blocked = job.blocked
    BY <1>1, <1>6, ReconcileDoes
  <2>2. \A b \in job'.retained : b.item \in Items /\ cache.blocked[b.item].reason # ""
    <3> TAKE b \in job'.retained
    <3>1. b.item \in Items /\ cache.blocked[b.item] = [fp |-> version[b.item], reason |-> "crash"]
      BY <1>1, <1>6, ReconcileDoes
    <3>2. QED
      BY <3>1
  <2>3. QED
    BY <1>1, <1>2, <2>1, <2>2 DEF Guilt
<1>7. CASE NextWorker
  BY <1>1, <1>2, <1>7, NextWorkerDoes DEF Guilt, JobMoves
<1>8. CASE Stop \/ SpawnFails
  BY <1>1, <1>2, <1>8, StopDoes DEF Guilt, JobMoves
<1>9. CASE Hear
  <2> DEFINE s == OnEvent(session, Head(worker.pipe))
  <2>1. CASE Ends(s, "")
    <3>1. /\ worker' = NoWorker /\ job'.step # "kill" /\ job'.blocked = job.blocked
          /\ job'.retained = job.retained /\ UNCHANGED <<cache, list>>
      BY <1>1, <1>9, <2>1, HearDoes, EndsDoes
    <3>2. QED
      BY <1>1, <1>2, <3>1, RestTyped DEF Guilt
  <2>2. CASE job' = job /\ worker'.alive = worker.alive /\ worker'.doing = worker.doing
    BY <1>1, <1>2, <1>9, <2>2, HearDoes DEF Guilt
  <2>3. QED
    BY <1>1, <1>9, <2>1, <2>2, HearDoes
<1>10. CASE Disconnected \/ Kill
  <2>1. PICK reason \in {"crash", "timeout"} : Ends(session, reason)
    BY <1>1, <1>10, DeadDoes
  <2>2. /\ UNCHANGED <<cache, list>> /\ worker' = NoWorker /\ job'.step # "kill" /\ job'.retained = job.retained
        /\ \A b \in job'.blocked : b \in job.blocked \/ (b.item = session.current /\ session.current # Nobody)
    <3> DEFINE condemned == IF reason = "" \/ session.current = Nobody THEN {}
                            ELSE {[item |-> session.current, reason |-> reason]}
    <3>1. \A b \in condemned : b.item = session.current /\ session.current # Nobody
      BY Sentenced
    <3>2. job'.blocked = job.blocked \cup condemned /\ job'.step \in {"save", "next"}
          /\ job'.retained = job.retained /\ worker' = NoWorker
      BY <1>1, <2>1, EndsDoes
    <3>3. QED
      BY <1>1, <1>10, <3>1, <3>2, DeadDoes
  <2>3. QED
    BY <1>1, <1>2, <1>10, <2>2, DeadGuilty, RestTyped DEF Guilt
<1>11. CASE TimeOut
  <2>1. Len(worker.pipe) = 0 /\ UNCHANGED <<cache, list, session, worker>>
        /\ nature[worker.doing] \in {"hang", "slow"} /\ worker.doing \in Items
        /\ job'.blocked = job.blocked /\ job'.retained = job.retained
    BY <1>1, <1>11, TimeOutDoes DEF JobMoves
  <2>2. session.current = worker.doing
    BY <1>1, <2>1 DEF Pipe, Chain
  <2>3. session.current \in Harmful
    BY <2>1, <2>2 DEF Harmful
  <2>4. QED
    BY <1>1, <1>2, <2>1, <2>3 DEF Guilt
<1>12. CASE Save
  <2>1. /\ UNCHANGED <<list, session, worker>> /\ job'.step # "kill" /\ job'.blocked = job.blocked
        /\ job'.retained = job.retained /\ cache' = CacheFile(job)
    BY <1>1, <1>12, SaveDoes DEF JobMoves
  <2>2. \A i \in Items : cache'.blocked[i].reason # "" => i \in ItemsOf(job.retained \cup job.blocked)
    BY <1>1, <2>1, Saved DEF Shapes
  <2>3. ItemsOf(job.retained \cup job.blocked) \subseteq Harmful
    BY <1>1 DEF Guilt, ItemsOf
  <2>4. QED
    BY <1>1, <1>2, <2>1, <2>2, <2>3 DEF Guilt
<1>13. CASE Publish
  BY <1>1, <1>2, <1>13, PublishDoes, JobTyped DEF Guilt
<1>14. CASE Panic
  BY <1>1, <1>2, <1>14, PanicDoes, JobTyped DEF Guilt
<1>15. CASE Restart
  BY <1>1, <1>2, <1>15, RestartDoes, JobTyped, ScanningTyped, RestTyped DEF Guilt
<1>16. CASE \E kind \in {"new", "forced"} : Ask(kind)
  BY <1>1, <1>2, <1>16, AskDoes, JobTyped, ScanningTyped DEF Guilt
<1>17. CASE UNCHANGED <<cache, list, job, session, worker>>
  BY <1>3, <1>17
<1>18. QED
  BY <1>1, <1>4, <1>5, <1>6, <1>7, <1>8, <1>9, <1>10, <1>11, <1>12, <1>13, <1>14, <1>15, <1>16, <1>17,
     Steps, UpdateDoes DEF vars

\* The items of two lists.
LEMMA ItemsOfUnion ==
  ASSUME NEW S, NEW T
  PROVE  ItemsOf(S \cup T) = ItemsOf(S) \cup ItemsOf(T) /\ ItemsOf({}) = {}
BY DEF ItemsOf

\* An item enters one list, and leaves what remains when it does.
LEMMA ApartKept ==
  ASSUME IInv, [Next]_vars
  PROVE  Apart'
<1>1. Shapes /\ Apart /\ Pipe /\ Resting /\ Turns
  BY DEF IInv
<1>2. ASSUME NEW now \in {"pump", "kill", "next", "save", "publish"}, JobMoves(now), ~Planning,
             list' = list, session'.pending \subseteq job.remaining
      PROVE  Apart'
  <2>1. list'.scanning = (job'.step # "none") /\ ~Planning'
    BY <1>1, <1>2 DEF Apart, JobMoves, Planning
  <2>2. QED
    BY <1>1, <1>2, <2>1 DEF Apart, JobMoves
<1>3. CASE list' = list /\ job' = job /\ session'.pending \subseteq session.pending
  <2>1. session'.pending \subseteq job.remaining /\ (Planning' <=> Planning)
    BY <1>1, <1>3 DEF Apart, Planning
  <2>2. QED
    BY <1>1, <1>3, <2>1 DEF Apart
<1>4. CASE Begin \/ Describe \/ End \/ (Crash \/ DieIdle)
  BY <1>1, <1>3, <1>4, BeginDoes, DescribeDoes, EndDoes, DeathDoes
<1>5. CASE Reconcile
  <2>1. /\ job.step = "reconcile" /\ job'.step \in {"publish", "next"} /\ job'.plugins = job.plugins
        /\ job'.blocked = job.blocked /\ list' = list /\ session' = session
        /\ ItemsOf(job'.reused) \cap ItemsOf(job'.retained) = {}
        /\ job'.remaining = Items \ ItemsOf(job'.reused \cup job'.retained)
        /\ \A b \in job'.retained : cache.blocked[b.item] = [fp |-> version[b.item], reason |-> "crash"]
        /\ job' \in JobType
        /\ \A f \in job'.retained : f.reason = "crash"
    BY <1>1, <1>5, ReconcileDoes
  <2>2. job'.plugins = {} /\ job'.blocked = {} /\ session'.pending = {}
    BY <1>1, <2>1, RestTyped DEF Apart, Planning, Resting, Running
  <2>3. ItemsOf(job'.reused \cup job'.retained \cup job'.blocked \cup job'.plugins)
          = ItemsOf(job'.reused \cup job'.retained)
    BY <2>2
  <2>4. ItemsOf(job'.blocked) = {}
    BY <2>2, ItemsOfUnion
  <2>5. list'.scanning = (job'.step # "none") /\ ~Planning'
    BY <1>1, <2>1 DEF Apart, Planning
  <2>6. QED
    BY <2>1, <2>2, <2>3, <2>4, <2>5 DEF Apart
<1>6. CASE NextWorker
  BY <1>1, <1>2, <1>6, NextWorkerDoes DEF Planning
<1>7. CASE Stop \/ SpawnFails
  BY <1>1, <1>2, <1>7, StopDoes DEF Planning, Apart
<1>8. ASSUME NEW s, NEW reason, Ends(s, reason), ~Planning, job.step # "none", list' = list,
             s.pending \subseteq job.remaining, \A p \in s.plugins : p.item \notin s.pending \/ p.item = s.current,
             reason = "" => s.current = Nobody,
             s.current \in session.pending \cup {Nobody}
      PROVE  Apart'
  <2> DEFINE c == IF reason = "" \/ s.current = Nobody THEN {}
                  ELSE {[item |-> s.current, reason |-> reason]}
             L == IF reason = "" THEN s.pending ELSE s.pending \ {s.current}
  <2>1. /\ job'.step \in {"save", "next"} /\ job'.reused = job.reused /\ job'.retained = job.retained
        /\ job'.plugins = job.plugins \cup s.plugins /\ job'.blocked = job.blocked \cup c
        /\ job'.remaining = L /\ session' = NoSession
    BY <1>1, <1>8, EndsDoes
  <2>2. ItemsOf(c) \subseteq {s.current} \cap session.pending /\ (\A b, d \in c : b = d)
        /\ (\A b \in c : b.item \in session.pending)
    <3>1. \A b \in c : b.item = s.current /\ s.current # Nobody
      BY Sentenced
    <3>2. \A b, d \in c : b = d
      BY Sentenced
    <3> HIDE DEF c
    <3>3. QED
      BY <1>8, <3>1, <3>2 DEF ItemsOf
  <2>3. s.plugins \subseteq Findings /\ Nobody \notin Items
    BY <1>8, NobodyAssumption DEF Ends, SessionType
  <2>4. ItemsOf(s.plugins) \cap L = {}
    <3>1. \A p \in s.plugins : p.item \in Items
      BY <2>3 DEF Findings
    <3>2. \A p \in s.plugins : p.item \notin L
      BY <1>8, <2>3, <3>1
    <3> HIDE DEF L
    <3>3. QED
      BY <3>2 DEF ItemsOf
  <2>5. L \subseteq s.pending /\ ItemsOf(c) \cap L = {}
    <3>1. CASE reason = ""
      BY <3>1 DEF ItemsOf
    <3>2. CASE reason # ""
      BY <2>2, <3>2
    <3>3. QED
      BY <3>1, <3>2
  <2> HIDE DEF c, L
  <2>6. /\ ItemsOf(job'.blocked) = ItemsOf(job.blocked) \cup ItemsOf(c)
        /\ ItemsOf(job'.reused \cup job'.retained \cup job'.blocked \cup job'.plugins)
             = ItemsOf(job.reused \cup job.retained \cup job.blocked \cup job.plugins) \cup ItemsOf(c) \cup ItemsOf(s.plugins)
    BY <2>1 DEF ItemsOf
  <2>7. session.pending \subseteq job.remaining
        /\ job.remaining \cap ItemsOf(job.reused \cup job.retained \cup job.blocked \cup job.plugins) = {}
    BY <1>1 DEF Apart
  <2>8. job'.remaining \cap ItemsOf(job'.reused \cup job'.retained \cup job'.blocked \cup job'.plugins) = {}
    BY <1>8, <2>1, <2>4, <2>5, <2>6, <2>7
  <2>9. ItemsOf(c) \cap ItemsOf(job.retained) = {} /\ ItemsOf(c) \cap ItemsOf(job.blocked) = {}
    <3>1. ItemsOf(job.retained) \cup ItemsOf(job.blocked)
            \subseteq ItemsOf(job.reused \cup job.retained \cup job.blocked \cup job.plugins)
      BY DEF ItemsOf
    <3>2. QED
      BY <2>2, <2>7, <3>1
  <2>10. ItemsOf(job'.blocked) \cap ItemsOf(job'.retained) = {}
    BY <1>1, <2>1, <2>6, <2>9 DEF Apart
  <2>11. \A b, d \in job'.blocked : b.item = d.item => b = d
    <3>1. \A b \in c : \A d \in job.blocked : b.item # d.item
      BY <2>9 DEF ItemsOf
    <3>2. \A b, d \in job.blocked : b.item = d.item => b = d
      BY <1>1 DEF Apart
    <3>3. QED
      BY <2>1, <2>2, <3>1, <3>2
  <2>12. list'.scanning = (job'.step # "none") /\ ~Planning'
    BY <1>1, <1>8, <2>1 DEF Apart, Planning
  <2>13. QED
    BY <1>1, <2>1, <2>8, <2>10, <2>11, <2>12, RestTyped DEF Apart
<1>9. CASE Hear
  <2> DEFINE e == Head(worker.pipe)
             s == OnEvent(session, e)
  <2>1. job.step = "pump" /\ worker.pipe # <<>> /\ list' = list /\ s \in SessionType
    BY <1>1, <1>9, HearDoes
  <2>2. s.pending = IF e.kind = "end" THEN session.pending \ {e.item} ELSE session.pending
    BY <1>1, <2>1, HeadHeard
  <2>3. s.pending \subseteq session.pending
    BY <2>2
  <2>4. CASE Ends(s, "") /\ s.pending = {} /\ s.current = Nobody
    BY <1>8, <2>1, <2>4 DEF Planning
  <2>5. CASE session' = s /\ job' = job
    BY <1>3, <2>1, <2>3, <2>5
  <2>6. QED
    BY <1>1, <1>9, <2>4, <2>5, HearDoes
<1>10. CASE Disconnected \/ Kill
  <2>1. PICK reason \in {"crash", "timeout"} : Ends(session, reason)
    BY <1>1, <1>10, DeadDoes
  <2>2. ~Planning /\ job.step # "none" /\ list' = list
    BY <1>1, <1>10, DeadDoes DEF Planning
  <2>3. /\ session.pending \subseteq job.remaining /\ session.current \in session.pending \cup {Nobody}
        /\ \A p \in session.plugins : p.item \notin session.pending \/ p.item = session.current
    BY <1>1 DEF Apart, Turns
  <2>4. QED
    BY <1>8, <2>1, <2>2, <2>3
<1>11. CASE TimeOut
  BY <1>1, <1>2, <1>11, TimeOutDoes DEF Planning, Apart
<1>12. CASE Save
  BY <1>1, <1>2, <1>12, SaveDoes DEF Planning, Apart
<1>13. ASSUME NEW j, job' = j, j.reused = {}, j.retained = {}, j.remaining = {}, j.plugins = {}, j.blocked = {},
              list'.scanning = (j.step # "none"), session'.pending = {}
       PROVE  Apart'
  BY <1>13 DEF Apart, ItemsOf
<1>14. CASE Publish \/ Panic
  <2>1. ~Running /\ session' = session /\ job' = NoJob /\ ~list'.scanning /\ list' \in ListType
    BY <1>1, <1>14, PublishDoes, PanicDoes DEF Running
  <2>2. session'.pending = {}
    BY <1>1, <2>1, RestTyped DEF Resting
  <2>3. list'.scanning = (NoJob.step # "none")
    BY <2>1, JobTyped DEF ListType
  <2>4. QED
    BY <1>13, <2>1, <2>2, <2>3, JobTyped
<1>15. CASE Restart
  BY <1>1, <1>13, <1>15, RestartDoes, JobTyped, ScanningTyped, RestTyped DEF ListType
<1>16. CASE \E kind \in {"new", "forced"} : Ask(kind)
  <2>1. PICK kind \in {"new", "forced"} : Ask(kind)
    BY <1>16
  <2>2. ~list.scanning /\ list' = Scanning /\ job' = Job(kind) /\ session' = session
    BY <1>1, <2>1, AskDoes
  <2>3. session.pending = {}
    BY <1>1, <2>2, RestTyped DEF Apart, Resting, Running
  <2>4. QED
    BY <1>13, <2>2, <2>3, JobTyped, ScanningTyped DEF ListType
<1>17. CASE UNCHANGED <<list, job, session>>
  BY <1>3, <1>17
<1>18. QED
  BY <1>1, <1>4, <1>5, <1>6, <1>7, <1>9, <1>10, <1>11, <1>12, <1>14, <1>15, <1>16, <1>17,
     Steps, UpdateDoes DEF vars
\* What is saved keeps a crash on record, as an entry or as a sentence.
LEMMA SavedKnown ==
  ASSUME job \in JobType, Apart, NEW i \in Items,
         \/ i \in ItemsOf(job.reused \cup job.retained)
         \/ \E b \in job.blocked : b.item = i /\ b.reason = "crash"
  PROVE  \/ CacheFile(job).entries[i].fp = job.fps[i]
         \/ CacheFile(job).blocked[i] = [fp |-> job.fps[i], reason |-> "crash"]
<1> DEFINE c == CacheFile(job)
<1>1. CASE i \in ItemsOf(job.reused \cup job.plugins)
  BY <1>1, Saved
<1>2. CASE i \notin ItemsOf(job.reused \cup job.plugins)
  <2>1. i \in ItemsOf(job.retained) \/ \E b \in job.blocked : b.item = i /\ b.reason = "crash"
    BY <1>2 DEF ItemsOf
  <2>2. i \in ItemsOf(job.retained \cup job.blocked)
    BY <2>1 DEF ItemsOf
  <2>3. PICK b \in job.retained \cup job.blocked :
          b.item = i /\ c.blocked[i] = [fp |-> job.fps[i], reason |-> b.reason]
    BY <2>2, Saved
  <2>4. b.reason = "crash"
    <3>1. CASE b \in job.retained
      BY <3>1 DEF Apart
    <3>2. CASE b \in job.blocked
      <4>1. i \in ItemsOf(job.blocked)
        BY <2>3, <3>2 DEF ItemsOf
      <4>2. \E d \in job.blocked : d.item = i /\ d.reason = "crash"
        BY <2>1, <4>1 DEF Apart
      <4>3. QED
        BY <2>3, <3>2, <4>2 DEF Apart
    <3>3. QED
      BY <2>3, <3>1, <3>2
  <2>5. QED
    BY <2>3, <2>4
<1>3. QED
  BY <1>1, <1>2

\* What the studio was told of stays on record, through scans, saves and restarts.
LEMMA RememberedKept ==
  ASSUME IInv, [Next]_vars
  PROVE  Remembered'
<1>1. Shapes /\ Remembered /\ Apart /\ Fresh
  BY DEF IInv
<1>2. \A t \in told : t[1] \in Items /\ t[2] \in Nat
  BY <1>1 DEF Shapes
<1>3. version \in [Items -> Nat \ {0}] /\ job.fps \in [Items -> Nat]
  BY <1>1 DEF Shapes, JobType
<1>4. CASE UNCHANGED <<version, cache, told, job>>
  BY <1>1, <1>4 DEF Remembered, Known, Planning
<1>5. ASSUME NEW now \in {"pump", "kill", "next", "save"}, ~Planning, UNCHANGED <<version, cache, told>>,
             job'.step = now, job'.kind = job.kind, job'.fps = job.fps, job'.reused = job.reused,
             job'.retained = job.retained
      PROVE  Remembered'
  BY <1>1, <1>5 DEF Remembered, Known
<1>6. CASE Begin \/ Describe \/ End \/ (Crash \/ DieIdle)
  BY <1>1, <1>4, <1>6, BeginDoes, DescribeDoes, EndDoes, DeathDoes
<1>7. CASE Reconcile
  <2>1. /\ job.step = "reconcile" /\ job'.kind = job.kind /\ job'.fps = version /\ job'.blocked = job.blocked
        /\ UNCHANGED <<version, cache, told>>
    BY <1>1, <1>7, ReconcileDoes
  <2>2. job'.blocked = {}
    BY <1>1, <2>1 DEF Apart, Planning
  <2>3. \A b \in job'.retained : cache.blocked[b.item] = [fp |-> version[b.item], reason |-> "crash"]
    BY <1>1, <1>7, ReconcileDoes
  <2>4. \A t \in told : t[2] = version[t[1]] => t[1] \in ItemsOf(job'.reused \cup job'.retained)
    <3> TAKE t \in told
    <3>1. job.kind # "forced"
      BY <1>1 DEF Remembered
    <3>2. t[2] = version[t[1]] => \/ cache.entries[t[1]].fp = version[t[1]]
                                  \/ cache.blocked[t[1]] = [fp |-> version[t[1]], reason |-> "crash"]
      BY <1>1 DEF Remembered, Known
    <3>3. QED
      BY <1>1, <1>2, <1>7, <3>1, <3>2, ReconcileDoes
  <2>5. QED
    BY <1>1, <2>1, <2>2, <2>3, <2>4 DEF Remembered, Known
<1>8. CASE NextWorker
  BY <1>1, <1>5, <1>8, NextWorkerDoes DEF JobMoves, Planning
<1>9. CASE Stop \/ SpawnFails
  BY <1>1, <1>5, <1>9, StopDoes DEF JobMoves, Planning
<1>10. ASSUME NEW s, NEW reason, Ends(s, reason), ~Planning, UNCHANGED <<version, cache, told>>
       PROVE  Remembered'
  <2>1. /\ job'.step \in {"save", "next"} /\ job'.kind = job.kind /\ job'.fps = job.fps
        /\ job'.reused = job.reused /\ job'.retained = job.retained
    BY <1>1, <1>10, EndsDoes
  <2>2. QED
    BY <1>5, <1>10, <2>1
<1>11. CASE Hear
  <2>1. ~Planning /\ UNCHANGED <<version, cache, told>>
    BY <1>1, <1>11, HearDoes DEF Planning
  <2>2. QED
    BY <1>1, <1>4, <1>10, <1>11, <2>1, HearDoes
<1>12. CASE Disconnected \/ Kill
  <2>1. ~Planning /\ UNCHANGED <<version, cache, told>>
    BY <1>1, <1>12, DeadDoes DEF Planning
  <2>2. QED
    BY <1>1, <1>10, <1>12, <2>1, DeadDoes
<1>13. CASE TimeOut
  BY <1>1, <1>5, <1>13, TimeOutDoes DEF JobMoves, Planning
<1>14. CASE Save
  <2>1. /\ job.step = "save" /\ cache' = CacheFile(job) /\ UNCHANGED <<version, told>>
        /\ job'.step = "publish" /\ job'.kind = job.kind /\ job'.fps = job.fps /\ job'.reused = job.reused
        /\ job'.retained = job.retained /\ job'.blocked = job.blocked
    BY <1>1, <1>14, SaveDoes DEF JobMoves
  <2>2. ~Planning /\ job \in JobType
    BY <1>1, <2>1 DEF Planning, Shapes
  <2>3. \A i \in Items : \/ i \in ItemsOf(job.reused \cup job.retained)
                         \/ \E b \in job.blocked : b.item = i /\ b.reason = "crash"
                         => \/ cache'.entries[i].fp = job.fps[i]
                            \/ cache'.blocked[i] = [fp |-> job.fps[i], reason |-> "crash"]
    BY <1>1, <2>1, <2>2, SavedKnown
  <2>4. \A t \in told : t[2] = version[t[1]] =>
          \/ cache'.entries[t[1]].fp = t[2] \/ cache'.blocked[t[1]] = [fp |-> t[2], reason |-> "crash"]
    <3> TAKE t \in told
    <3>1. SUFFICES ASSUME t[2] = version[t[1]]
                   PROVE  \/ cache'.entries[t[1]].fp = t[2]
                          \/ cache'.blocked[t[1]] = [fp |-> t[2], reason |-> "crash"]
      OBVIOUS
    <3>2. t[1] \in Items /\ t[2] \in Nat /\ t[2] <= job.fps[t[1]] /\ job.fps[t[1]] \in 1 .. version[t[1]]
          /\ (t[2] = job.fps[t[1]] => t[1] \in ItemsOf(job.reused \cup job.retained))
      BY <1>1, <1>2, <2>2 DEF Remembered, Fresh
    <3>3. t[2] = job.fps[t[1]]
      BY <1>3, <3>1, <3>2
    <3>4. QED
      BY <2>3, <3>2, <3>3
  <2>5. \A b \in job.blocked \cup job.retained : b.reason = "crash" =>
          \/ cache'.entries[b.item].fp = job.fps[b.item]
          \/ cache'.blocked[b.item] = [fp |-> job.fps[b.item], reason |-> "crash"]
    <3> TAKE b \in job.blocked \cup job.retained
    <3>1. b.item \in Items
      BY <2>2 DEF JobType, Sentences
    <3>2. b \in job.retained => b.item \in ItemsOf(job.reused \cup job.retained)
      BY DEF ItemsOf
    <3>3. QED
      BY <2>3, <3>1, <3>2
  <2>6. QED
    BY <1>1, <2>1, <2>2, <2>4, <2>5 DEF Remembered, Known
<1>15. CASE Publish
  <2>1. /\ job.step = "publish" /\ job' = NoJob /\ UNCHANGED <<version, cache>>
        /\ \A t \in told' : t \in told \/ \E b \in job.retained \cup job.blocked :
                              b.reason = "crash" /\ t = <<b.item, job.fps[b.item]>>
    BY <1>1, <1>15, PublishDoes
  <2>2. \A b \in job.retained \cup job.blocked : b.item \in Items
    BY <1>1 DEF Shapes, JobType, Sentences
  <2>3. \A i \in Items : job.fps[i] <= version[i]
    <3>1. \A i \in Items : job.fps[i] \in 1 .. version[i] /\ version[i] \in Nat
      BY <1>1, <1>3, <2>1 DEF Fresh, Planning
    <3>2. QED
      BY <3>1
  <2>4. \A t \in told' : t[2] <= version[t[1]] /\ (t[2] = version[t[1]] => Known(t[1], t[2]))
    <3> TAKE t \in told'
    <3>1. CASE t \in told
      BY <1>1, <3>1 DEF Remembered
    <3>2. CASE t \notin told
      <4>1. PICK b \in job.retained \cup job.blocked : b.reason = "crash" /\ t = <<b.item, job.fps[b.item]>>
        BY <2>1, <3>2
      <4>2. t[1] = b.item /\ t[2] = job.fps[b.item]
        BY <4>1
      <4>3. Known(b.item, job.fps[b.item])
        BY <1>1, <2>1, <4>1 DEF Remembered
      <4>4. QED
        BY <2>2, <2>3, <4>2, <4>3
    <3>3. QED
      BY <3>1, <3>2
  <2>5. QED
    BY <2>1, <2>4, JobTyped DEF Remembered, Known, Planning
<1>16. ASSUME UNCHANGED <<version, cache, told>>, Planning', job'.step # "publish",
              job'.kind = "forced" => told = {}
       PROVE  Remembered'
  BY <1>1, <1>16 DEF Remembered, Known
<1>17. CASE Panic
  BY <1>1, <1>16, <1>17, PanicDoes, JobTyped DEF Planning
<1>18. CASE Restart
  BY <1>1, <1>16, <1>18, RestartDoes, JobTyped DEF Planning
<1>19. CASE Ask("new")
  BY <1>1, <1>16, <1>19, AskDoes, JobTyped DEF Planning
<1>20. CASE Ask("forced")
  <2>1. told' = {} /\ job'.step = "reconcile"
    BY <1>1, <1>20, AskDoes, JobTyped
  <2>2. QED
    BY <2>1 DEF Remembered, Planning
<1>21. CASE \E i \in Items : Update(i)
  <2>1. /\ UNCHANGED <<cache, told, job>> /\ \A i \in Items : version'[i] >= version[i]
        /\ version' \in [Items -> Nat \ {0}]
    BY <1>1, <1>21, UpdateDoes
  <2>2. \A t \in told : t[2] <= version'[t[1]] /\ (t[2] = version'[t[1]] => Known(t[1], t[2]))
    <3> TAKE t \in told
    <3>1. t[1] \in Items /\ t[2] \in Nat /\ t[2] <= version[t[1]] /\ (t[2] = version[t[1]] => Known(t[1], t[2]))
      BY <1>1, <1>2 DEF Remembered
    <3>2. version[t[1]] \in Nat /\ version'[t[1]] \in Nat /\ version'[t[1]] >= version[t[1]]
      BY <1>3, <2>1, <3>1
    <3>3. QED
      BY <3>1, <3>2
  <2>3. QED
    BY <1>1, <2>1, <2>2 DEF Remembered, Known, Planning
<1>22. QED
  BY <1>1, <1>4, <1>6, <1>7, <1>8, <1>9, <1>11, <1>12, <1>13, <1>14, <1>15, <1>17, <1>18, <1>19, <1>20, <1>21,
     Steps DEF vars

\* Every step keeps the invariant.
LEMMA IInvKept == IInv /\ [Next]_vars => IInv'
BY ShapesKept, FreshKept, RestingKept, PipeKept, TurnsKept, GuiltKept, ApartKept, RememberedKept DEF IInv

\* The invariant holds in every state.
THEOREM Inductive == Spec => []IInv
BY IInvInit, IInvKept, PTL DEF Spec
-----------------------------------------------------------------------------
(* What follows. *)

\* Every state has the types: the cache, the list, the job, the session and the worker with the
\* events of its pipe.  The fingerprints are not bounded here: that they stay below MaxUpdates + 1
\* counts the updates, a sum over the items.
THEOREM ScanTyped == Spec => []Shapes
<1>1. IInv => Shapes
  BY DEF IInv
<1>2. QED
  BY <1>1, Inductive, PTL

\* Only a plugin that does harm is ever condemned, and no entry of the cache vouches for a version
\* that was not read (session.rs close, cache.rs reconcile and build_cache_file).
THEOREM OnlyTheGuiltyCondemned == Spec => []Condemned
<1>1. IInv => Condemned
  <2>1. SUFFICES ASSUME IInv PROVE Condemned
    OBVIOUS
  <2>2. OnlyTheGuilty
    BY <2>1 DEF IInv, Guilt, OnlyTheGuilty, Harmful
  <2>3. CacheIsFresh
    BY <2>1 DEF IInv, Fresh, CacheIsFresh
  <2>4. QED
    BY <2>2, <2>3 DEF Condemned
<1>2. QED
  BY <1>1, Inductive, PTL

\* The step that begins an item begins one of the job's remaining ones.
LEMMA BeginsUntold ==
  ASSUME IInv, [Next]_vars, NEW i \in Items, worker'.doing = i, worker.doing # i
  PROVE  <<i, job.fps[i]>> \notin told
<1>1. Shapes /\ Resting /\ Turns /\ Apart /\ Remembered
  BY DEF IInv
<1>2. i # Nobody
  BY NobodyAssumption
<1>3. CASE Begin
  <2>1. i \in worker.todo /\ worker.alive
    BY <1>1, <1>3, BeginDoes
  <2>2. Running /\ ~Planning
    BY <1>1, <2>1, RestTyped DEF Resting, Running, Planning
  <2>3. i \notin ItemsOf(job.reused \cup job.retained)
    <3>1. i \in job.remaining
      BY <1>1, <2>1 DEF Turns, Apart
    <3>2. i \notin ItemsOf(job.reused \cup job.retained \cup job.blocked \cup job.plugins)
      BY <1>1, <3>1 DEF Apart
    <3>3. QED
      BY <3>2 DEF ItemsOf
  <2>4. SUFFICES ASSUME NEW t \in told, t = <<i, job.fps[i]>> PROVE FALSE
    OBVIOUS
  <2>5. t[1] = i /\ t[2] = job.fps[i]
    BY <2>4
  <2>6. QED
    BY <1>1, <2>2, <2>3, <2>5 DEF Remembered
<1>4. CASE worker'.doing = worker.doing \/ worker'.doing = Nobody
  BY <1>2, <1>4
<1>5. CASE Hear
  <2>1. worker' = NoWorker \/ worker'.doing = worker.doing
    BY <1>1, <1>5, HearDoes DEF Ends
  <2>2. QED
    BY <1>4, <2>1, RestTyped
<1>6. CASE Disconnected \/ Kill
  BY <1>1, <1>4, <1>6, DeadDoes, RestTyped DEF Ends
<1>7. CASE NextWorker \/ Restart
  BY <1>1, <1>4, <1>7, NextWorkerDoes, RestartDoes, RestTyped
<1>8. QED
  BY <1>1, <1>3, <1>4, <1>5, <1>6, <1>7, Steps, DescribeDoes, EndDoes, DeathDoes, ReconcileDoes, StopDoes, TimeOutDoes,
     SaveDoes, PublishDoes, PanicDoes, AskDoes, UpdateDoes DEF vars

\* A plugin whose crash the studio was told of is not begun again before its file changes or
\* everything is scanned on request (cache.rs reconcile keeps a crash, build_cache_file saves them all).
THEOREM CrashRemembered == Spec => CrashIsRemembered
<1>1. IInv /\ [Next]_vars =>
        [\A i \in Items : (worker'.doing = i /\ worker.doing # i) => <<i, job.fps[i]>> \notin told]_vars
  BY BeginsUntold
<1>2. QED
  BY <1>1, Inductive, PTL DEF Spec, CrashIsRemembered
-----------------------------------------------------------------------------
(* The promise is kept, step by step. *)

\* The verdicts of lists that only grow, without condemning who was judged sound.
LEMMA VerdictGrows ==
  ASSUME NEW P, NEW B, NEW Q, NEW C, ItemsOf(P) \subseteq ItemsOf(Q), ItemsOf(B) \subseteq ItemsOf(C),
         ItemsOf(C) \cap ItemsOf(P) \subseteq ItemsOf(B)
  PROVE  /\ Verdict(Q, C) \in [Items -> {"none", "sound", "condemned"}]
         /\ \A i \in Items : Verdict(P, B)[i] # "none" => Verdict(Q, C)[i] = Verdict(P, B)[i]
BY DEF Verdict

\* Lists of the same items give the same verdicts.
LEMMA VerdictSame ==
  ASSUME NEW P, NEW B, NEW Q, NEW C, ItemsOf(P) = ItemsOf(Q), ItemsOf(B) = ItemsOf(C)
  PROVE  Verdict(P, B) = Verdict(Q, C)
BY DEF Verdict

\* Who is judged sound, and who is condemned, while the scan runs.
Sound == job.reused \cup job.plugins \cup (IF Running THEN EndedItems ELSE {})
Doomed == job.retained \cup job.blocked

\* The verdict while the scan runs.
LEMMA JudgedWhileScanning ==
  ASSUME list.scanning
  PROVE  Judged = Verdict(Sound, Doomed)
BY DEF Judged, Sound, Doomed, Running

\* A step of the scan that only adds to its lists is a judgement.
LEMMA Judges ==
  ASSUME list.scanning, list'.scanning = list.scanning, boots' = boots,
         ItemsOf(Sound) \subseteq ItemsOf(Sound'), ItemsOf(Doomed) \subseteq ItemsOf(Doomed'),
         ItemsOf(Doomed') \cap ItemsOf(Sound) \subseteq ItemsOf(Doomed)
  PROVE  Promise!Judge
<1>1. Judged = Verdict(Sound, Doomed)
  BY JudgedWhileScanning
<1>2. Judged' = Verdict(Sound', Doomed')
  BY DEF Judged, Sound, Doomed, Running
<1>3. /\ Verdict(Sound', Doomed') \in [Items -> {"none", "sound", "condemned"}]
      /\ \A i \in Items : Verdict(Sound, Doomed)[i] # "none" =>
                             Verdict(Sound', Doomed')[i] = Verdict(Sound, Doomed)[i]
  BY VerdictGrows
<1>4. QED
  BY <1>1, <1>2, <1>3 DEF Promise!Judge

\* The first state is one of the promise's.
LEMMA PromiseInit == Init => Promise!Init
<1> SUFFICES ASSUME Init PROVE Promise!Init
  OBVIOUS
<1>1. list.scanning = TRUE /\ boots = 0
  BY DEF Init, Scanning
<1>2. job.step = "reconcile" /\ job.reused = {} /\ job.retained = {} /\ job.plugins = {} /\ job.blocked = {}
  BY JobTyped DEF Init
<1>3. ItemsOf(Sound) = {} /\ ItemsOf(Doomed) = {}
  BY <1>2 DEF Sound, Doomed, Running, ItemsOf
<1>4. Judged = [i \in Items |-> "none"]
  BY <1>1, <1>3, JudgedWhileScanning DEF Verdict
<1>5. QED
  BY <1>1, <1>4 DEF Promise!Init, Promise!Unjudged

\* Every step of the inventory is a step of the promise, or none.
LEMMA PromiseStep ==
  ASSUME IInv, [Next]_vars
  PROVE  [Promise!Next]_(Promise!vars)
<1>1. Shapes /\ Apart /\ Resting /\ Turns /\ Pipe
      /\ list.scanning = (job.step # "none")
  BY DEF IInv, Apart, Shapes, ListType
<1>2. CASE UNCHANGED <<list, job, session, boots>>
  BY <1>2 DEF Judged, EndedItems, Verdict, Promise!vars
<1>3. CASE Begin \/ Describe \/ End \/ (Crash \/ DieIdle)
  BY <1>1, <1>2, <1>3, BeginDoes, DescribeDoes, EndDoes, DeathDoes DEF Begin, Describe, End, Crash, DieIdle, WorkerOnly
<1>4. CASE \E i \in Items : Update(i)
  <2>1. boots' = boots
    BY <1>4, Zenon DEF Update
  <2>2. QED
    BY <1>1, <1>2, <1>4, <2>1, UpdateDoes
<1>5. ASSUME job.step # "none", list' = list, boots' = boots,
             ItemsOf(Sound) \subseteq ItemsOf(Sound'), ItemsOf(Doomed) \subseteq ItemsOf(Doomed'),
             ItemsOf(Doomed') \cap ItemsOf(Sound) \subseteq ItemsOf(Doomed)
      PROVE  [Promise!Next]_(Promise!vars)
  <2>1. list.scanning
    BY <1>1, <1>5 DEF Apart
  <2>2. Promise!Judge
    BY <1>5, <2>1, Judges
  <2>3. QED
    BY <2>2 DEF Promise!Next
<1>6. CASE Reconcile
  <2>1. /\ job.step = "reconcile" /\ list' = list
    BY <1>1, <1>6, ReconcileDoes
  <2>2. ItemsOf(Sound) = {} /\ ItemsOf(Doomed) = {}
    BY <1>1, <2>1 DEF Apart, Planning, Sound, Doomed, Running, ItemsOf
  <2>3. boots' = boots
    BY <1>6 DEF Reconcile, ThreadOnly
  <2>4. QED
    BY <1>5, <2>1, <2>2, <2>3
<1>7. ASSUME NEW now, JobMoves(now), job.step # "none", list' = list, boots' = boots,
             IF Running' THEN EndedItems' = (IF Running THEN EndedItems ELSE {}) ELSE ~Running
      PROVE  [Promise!Next]_(Promise!vars)
  <2>1. Sound' = Sound /\ Doomed' = Doomed
    BY <1>7 DEF JobMoves, Sound, Doomed
  <2>2. QED
    BY <1>5, <1>7, <2>1
<1>8. CASE NextWorker
  <2>1. EndedItems' = {} /\ ~Running
    BY <1>1, <1>8, NextWorkerDoes DEF EndedItems, Running
  <2>2. JobMoves("pump") /\ job.step = "next" /\ list' = list /\ Running'
    BY <1>1, <1>8, NextWorkerDoes DEF JobMoves, Running
  <2>3. boots' = boots
    BY <1>8 DEF NextWorker, ThreadOnly
  <2>4. QED
    BY <1>7, <2>1, <2>2, <2>3
<1>9. CASE Stop \/ SpawnFails
  <2>1. JobMoves("save") /\ job.step = "next" /\ list' = list /\ ~Running' /\ ~Running
    BY <1>1, <1>9, StopDoes DEF JobMoves, Running
  <2>2. boots' = boots
    BY <1>9 DEF Stop, SpawnFails, ThreadOnly
  <2>3. QED
    BY <1>7, <2>1, <2>2
<1>10. CASE TimeOut
  <2>1. JobMoves("kill") /\ job.step = "pump" /\ list' = list /\ Running' /\ Running /\ session' = session
    BY <1>1, <1>10, TimeOutDoes DEF JobMoves, Running
  <2>2. boots' = boots
    BY <1>10 DEF TimeOut, ThreadOnly
  <2>3. QED
    BY <1>7, <2>1, <2>2 DEF EndedItems
<1>11. CASE Save
  <2>1. JobMoves("publish") /\ job.step = "save" /\ list' = list /\ ~Running' /\ ~Running
    BY <1>1, <1>11, SaveDoes DEF JobMoves, Running
  <2>2. boots' = boots
    BY <1>11 DEF Save, ThreadOnly
  <2>3. QED
    BY <1>7, <2>1, <2>2
<1>12. ASSUME NEW s, NEW reason, Ends(s, reason), Running, list' = list, boots' = boots,
              session.plugins \subseteq s.plugins, reason = "" \/ s = session
       PROVE  [Promise!Next]_(Promise!vars)
  <2> DEFINE c == IF reason = "" \/ s.current = Nobody THEN {}
                  ELSE {[item |-> s.current, reason |-> reason]}
  <2>1. /\ job'.step \in {"save", "next"} /\ job'.reused = job.reused /\ job'.retained = job.retained
        /\ job'.plugins = job.plugins \cup s.plugins /\ job'.blocked = job.blocked \cup c
    BY <1>1, <1>12, EndsDoes
  <2>2. \A b \in c : b.item = s.current /\ s.current # Nobody
    BY Sentenced
  <2>3. \A b \in c : b.item \in session.pending
    BY <1>1, <1>12, <2>2 DEF Turns
  <2> HIDE DEF c
  <2>4. Sound' = job.reused \cup job.plugins \cup s.plugins /\ Doomed' = Doomed \cup c
    BY <2>1 DEF Sound, Doomed, Running
  <2>5. Sound = job.reused \cup job.plugins \cup EndedItems /\ EndedItems \subseteq session.plugins
        /\ \A p \in EndedItems : p.item \notin session.pending
    BY <1>12 DEF Sound, EndedItems
  <2>6. ItemsOf(Sound) \subseteq ItemsOf(Sound') /\ ItemsOf(Doomed) \subseteq ItemsOf(Doomed')
    BY <1>12, <2>4, <2>5 DEF ItemsOf
  <2>7. \A p \in Sound : p.item \notin session.pending
    <3>1. \A p \in job.reused \cup job.plugins : p.item \notin job.remaining
      BY <1>1 DEF Apart, ItemsOf
    <3>2. QED
      BY <1>1, <2>5, <3>1 DEF Apart
  <2>8. ItemsOf(c) \cap ItemsOf(Sound) = {}
    BY <2>3, <2>7 DEF ItemsOf
  <2>9. ItemsOf(Doomed') = ItemsOf(Doomed) \cup ItemsOf(c)
    BY <2>4, ItemsOfUnion
  <2>10. job.step # "none"
    BY <1>12 DEF Running
  <2>11. QED
    BY <1>5, <1>12, <2>6, <2>8, <2>9, <2>10
<1>13. CASE Hear
  <2> DEFINE e == Head(worker.pipe)
             s == OnEvent(session, e)
  <2>1. job.step = "pump" /\ worker.pipe # <<>> /\ list' = list /\ Running
    BY <1>1, <1>13, HearDoes DEF Running
  <2>2. boots' = boots
    BY <1>13 DEF Hear, ThreadOnly
  <2>3. session.plugins \subseteq s.plugins /\ s.pending \subseteq session.pending
    BY <1>1, <2>1, HeadHeard
  <2>4. CASE Ends(s, "")
    BY <1>12, <2>1, <2>2, <2>3, <2>4
  <2>5. CASE session' = s /\ job' = job
    <3> HIDE DEF s
    <3>1. EndedItems \subseteq EndedItems'
      BY <2>3, <2>5 DEF EndedItems
    <3>2. ItemsOf(Sound) \subseteq ItemsOf(Sound') /\ ItemsOf(Doomed) = ItemsOf(Doomed')
      BY <2>1, <2>5, <3>1 DEF Sound, Doomed, Running, ItemsOf
    <3>3. QED
      BY <1>5, <2>1, <2>2, <3>2
  <2>6. QED
    BY <1>1, <1>13, <2>4, <2>5, HearDoes
<1>14. CASE Disconnected \/ Kill
  <2>1. PICK reason \in {"crash", "timeout"} : Ends(session, reason)
    BY <1>1, <1>14, DeadDoes
  <2>2. Running /\ list' = list
    BY <1>1, <1>14, DeadDoes DEF Running
  <2>3. boots' = boots
    BY <1>14 DEF Disconnected, Kill, ThreadOnly
  <2>4. QED
    BY <1>12, <2>1, <2>2, <2>3
<1>15. CASE Publish
  <2>1. /\ job.step = "publish" /\ list'.scanning = FALSE /\ list.scanning = TRUE
        /\ list'.result.plugins = job.reused \cup job.plugins
        /\ list'.result.blocked = job.retained \cup job.blocked
    BY <1>1, <1>15, PublishDoes DEF Apart, ListType
  <2>2. boots' = boots
    BY <1>15 DEF Publish
  <2>3. Judged = Verdict(job.reused \cup job.plugins, job.retained \cup job.blocked)
    BY <2>1, JudgedWhileScanning, VerdictSame DEF Sound, Doomed, Running
  <2>4. Judged' = Verdict(list'.result.plugins, list'.result.blocked)
    BY <2>1 DEF Judged
  <2>5. Promise!Publish
    BY <2>1, <2>2, <2>3, <2>4 DEF Promise!Publish
  <2>6. QED
    BY <2>5 DEF Promise!Next
<1>16. CASE Panic
  <2>1. /\ list.scanning = TRUE /\ list'.scanning = FALSE
        /\ list'.result.plugins = {} /\ list'.result.blocked = {}
    BY <1>1, <1>16, PanicDoes DEF Apart, ListType
  <2>2. boots' = boots
    BY <1>16 DEF Panic
  <2>3. Judged' = [i \in Items |-> "none"]
    BY <2>1 DEF Judged, Verdict, ItemsOf
  <2>4. Promise!Abort
    BY <2>1, <2>2, <2>3 DEF Promise!Abort, Promise!Unjudged
  <2>5. QED
    BY <2>4 DEF Promise!Next
<1>17. ASSUME NEW kind \in {"inventory", "new", "forced"}, job' = Job(kind), list' = Scanning
       PROVE  list'.scanning = TRUE /\ Judged' = [i \in Items |-> "none"]
  <2>1. /\ job'.step = "reconcile" /\ job'.reused = {} /\ job'.retained = {} /\ job'.plugins = {}
        /\ job'.blocked = {} /\ list'.scanning = TRUE
    BY <1>17, JobTyped DEF Scanning
  <2>2. QED
    BY <2>1 DEF Judged, Verdict, ItemsOf
<1>18. CASE Restart
  <2>1. boots' = boots + 1 /\ job' = Job("inventory") /\ list' = Scanning
    BY <1>18 DEF Restart
  <2>2. Promise!Restart
    BY <1>17, <2>1 DEF Promise!Restart, Promise!Unjudged
  <2>3. QED
    BY <2>2 DEF Promise!Next
<1>19. CASE \E kind \in {"new", "forced"} : Ask(kind)
  <2>1. PICK kind \in {"new", "forced"} : Ask(kind)
    BY <1>19
  <2>2. boots' = boots /\ ~list.scanning /\ job' = Job(kind) /\ list' = Scanning
    BY <2>1 DEF Ask, Asked
  <2>3. Promise!Accept
    BY <1>17, <2>2 DEF Promise!Accept, Promise!Unjudged
  <2>4. QED
    BY <2>3 DEF Promise!Next
<1>20. CASE UNCHANGED vars
  BY <1>2, <1>20 DEF vars
<1>21. QED
  BY <1>3, <1>4, <1>6, <1>8, <1>9, <1>10, <1>11, <1>13, <1>14, <1>15, <1>16, <1>18, <1>19, <1>20, Steps

\* The inventory implements the safety of its promise (ScanPromise): a scan is accepted only when
\* none is under way, a verdict once given is not taken back by the same scan, what is published is
\* what was judged, and nothing but a restart starts it over.  That it ends is checked by TLC.
THEOREM PromiseKept == Spec => Promise!Init /\ [][Promise!Next]_(Promise!vars)
BY PromiseInit, PromiseStep, Inductive, PTL DEF Spec

-----------------------------------------------------------------------------
(* The slot of the plugin (PluginSlot): what its connections say of it.    *)

\* The worker has the lock of the plugin operations.
AtWork(c) == step[c] \in {"take", "removing", "forget", "loading", "publish", "release"}

SlotTyped ==
  /\ conns \in 0 .. MaxConns /\ open \subseteq 1 .. conns /\ stating \subseteq open
  /\ pending \in [Slot!Conns -> Seq(Slot!Requests)]
  /\ request \in [Slot!Conns -> Slot!Requests \cup {Slot!Nothing}]
  /\ last \in [Slot!Conns -> Slot!Requests \cup {Slot!Nothing}]
  /\ step \in [Slot!Conns -> {"idle", "asks", "waits", "take", "removing", "forget",
                              "loading", "publish", "release", "answer"}]
  /\ mine \in [Slot!Conns -> Nat] /\ slot_told \in [Slot!Conns -> Nat]
  /\ line \in Seq([what : {"op", "state"}, conn : Slot!Conns])
  /\ made \in Nat /\ handle \in Nat /\ info \in Nat /\ bypassed \in BOOLEAN

\* The line for the lock: each is in it once, and who is at work is at its head.
InLine ==
  /\ \A i, j \in DOMAIN line : i # j => line[i] # line[j]
  /\ \A i \in DOMAIN line :
       LET c == line[i].conn
       IN IF line[i].what = "op" THEN step[c] = "waits" \/ AtWork(c) ELSE c \in open \ stating
  /\ \A c \in Slot!Conns : AtWork(c) => line # <<>> /\ line[1] = Slot!Entry("op", c)
  /\ \A c \in Slot!Conns : c > conns => step[c] = "idle" /\ pending[c] = <<>> /\ last[c] = Slot!Nothing

\* What the handle, what is said and the host are at each step.
OnePlugin ==
  /\ (\A c \in Slot!Conns : step[c] \notin {"removing", "forget", "loading", "publish"}) =>
       handle = info /\ host = {handle} \ {0}
  /\ \A c \in Slot!Conns :
       /\ step[c] = "removing" => handle = 0 /\ mine[c] = info /\ info # 0 /\ host = {info}
       /\ step[c] = "forget"   => handle = 0 /\ host = {}
       /\ step[c] = "loading"  => handle = 0 /\ info = 0 /\ host = {} /\ request[c] = Slot!Load
       /\ step[c] = "publish"  => handle = 0 /\ info = 0 /\ mine[c] # 0 /\ host = {mine[c]}
       /\ step[c] \in {"take", "removing", "forget", "publish"} => request[c].op # "bypass"

\* A connection that waits to be told.
ToBeTold(c) == c \in stating \/ \E i \in DOMAIN line : line[i] = Slot!Entry("state", c)

\* Who is open, and was not overtaken, knows what is loaded or will be told.
Knows ==
  /\ \A c \in open \ overtaken :
       /\ step[c] \in {"release", "answer"} /\ request[c].op # "bypass" /\ mine[c] # Slot!Unsure => mine[c] = info
       /\ ~ToBeTold(c) /\ slot_told[c] # Slot!Unsure
          /\ (step[c] \in {"idle", "asks", "waits"} \/ request[c].op = "bypass") => slot_told[c] = info
  /\ \A d \in Slot!Conns : AtWork(d) =>
       \A c \in open \ {d} : c \in overtaken \/ (ToBeTold(c) /\ step[c] \in {"idle", "asks", "waits"})

\* The last request of a connection, and the bypass it leaves.
LastCounts ==
  /\ \A c \in open :
       last[c] # Slot!Nothing =>
         /\ pending[c] # <<>> => pending[c][Len(pending[c])] = last[c]
         /\ pending[c] = <<>> /\ step[c] # "idle" => request[c] = last[c]
         /\ pending[c] = <<>> /\ step[c] \in {"release", "answer", "idle"} /\ last[c].op = "bypass" =>
              bypassed = last[c].bypass
  /\ \A d \in Slot!Conns : AtWork(d) =>
       \A c \in open \ {d} : last[c].op = "bypass" => pending[c] # <<>> \/ step[c] \in {"asks", "waits"}

SlotInv == SlotTyped /\ InLine /\ OnePlugin /\ Knows /\ LastCounts

\* What a request is.
LEMMA SlotRequests ==
  /\ \A r \in Slot!Requests : /\ r.op \in {"load", "unload", "bypass"} /\ r.bypass \in BOOLEAN /\ r # Slot!Nothing
                              /\ r.op = "bypass" \/ r = Slot!Load \/ r = Slot!Unload
  /\ Slot!Nothing.op = "none" /\ Slot!Load.op = "load" /\ Slot!Unload.op = "unload"
<1>1. Slot!Nothing.op = "none" /\ Slot!Load.op = "load" /\ Slot!Unload.op = "unload"
      /\ Slot!Load.bypass \in BOOLEAN /\ Slot!Unload.bypass \in BOOLEAN
  BY DEF Slot!Nothing, Slot!Load, Slot!Unload
<1>2. \A b \in BOOLEAN : Slot!Bypass(b).op = "bypass" /\ Slot!Bypass(b).bypass \in BOOLEAN
  BY DEF Slot!Bypass
<1>3. \A r \in Slot!Requests : r = Slot!Load \/ r = Slot!Unload \/ \E b \in BOOLEAN : r = Slot!Bypass(b)
  BY DEF Slot!Requests
<1> QED
  BY <1>1, <1>2, <1>3

LEMMA Entries ==
  /\ \A a, b, c, d : Slot!Entry(a, b) = Slot!Entry(c, d) => a = c /\ b = d
  /\ \A a, b : Slot!Entry(a, b).what = a /\ Slot!Entry(a, b).conn = b
  /\ \A a \in {"op", "state"} : \A b \in Slot!Conns : Slot!Entry(a, b) \in [what : {"op", "state"}, conn : Slot!Conns]
  /\ \A e \in [what : {"op", "state"}, conn : Slot!Conns] :
       e.what \in {"op", "state"} /\ e.conn \in Slot!Conns /\ e = Slot!Entry(e.what, e.conn)
BY DEF Slot!Entry

LEMMA OpenAreConns == SlotInv => open \subseteq Slot!Conns
BY PluginConstants DEF SlotInv, SlotTyped, Slot!Conns, Slot!SlotConstants

LEMMA Elements == \A S : \A q \in Seq(S) : \A i \in DOMAIN q : q[i] \in S
OBVIOUS

\* A sequence with one more at its end, or without its head.
LEMMA Extended ==
  ASSUME NEW S, NEW q \in Seq(S), NEW x \in S
  PROVE  /\ Append(q, x) \in Seq(S) /\ Append(q, x) # <<>> /\ Len(q) \in Nat
         /\ Len(Append(q, x)) = Len(q) + 1 /\ DOMAIN Append(q, x) = 1 .. Len(q) + 1 /\ DOMAIN q = 1 .. Len(q)
         /\ \A i \in DOMAIN q : Append(q, x)[i] = q[i] /\ i # Len(q) + 1 /\ i \in DOMAIN Append(q, x)
         /\ Append(q, x)[Len(q) + 1] = x
         /\ \A i \in DOMAIN Append(q, x) : i \in DOMAIN q \/ i = Len(q) + 1
OBVIOUS

LEMMA Shortened ==
  ASSUME NEW S, NEW q \in Seq(S), q # <<>>
  PROVE  /\ Tail(q) \in Seq(S) /\ Len(q) \in Nat \ {0} /\ Len(Tail(q)) = Len(q) - 1
         /\ DOMAIN q = 1 .. Len(q) /\ 1 \in DOMAIN q /\ DOMAIN Tail(q) = 1 .. Len(q) - 1 /\ Head(q) = q[1]
         /\ q[1] \in S
         /\ \A i \in DOMAIN Tail(q) : Tail(q)[i] = q[i + 1] /\ i + 1 \in DOMAIN q /\ i + 1 # 1 /\ i \in Int
         /\ \A i \in DOMAIN q : i # 1 => i - 1 \in DOMAIN Tail(q) /\ i - 1 + 1 = i
         /\ Tail(q) # <<>> => Tail(q)[Len(Tail(q))] = q[Len(q)]
OBVIOUS

\* Each is in the line once: what leaves its head is not in what is left.
LEMMA LineOnce ==
  ASSUME SlotInv
  PROVE  /\ line \in Seq([what : {"op", "state"}, conn : Slot!Conns])
         /\ line # <<>> => /\ Head(line) = line[1] /\ 1 \in DOMAIN line
                           /\ \A i \in DOMAIN Tail(line) : Tail(line)[i] # line[1] /\ \E j \in DOMAIN line : j # 1 /\ Tail(line)[i] = line[j]
                           /\ \A i, j \in DOMAIN Tail(line) : i # j => Tail(line)[i] # Tail(line)[j]
                           /\ \A i \in DOMAIN line : i = 1 \/ \E j \in DOMAIN Tail(line) : Tail(line)[j] = line[i]
                           /\ Tail(line) \in Seq([what : {"op", "state"}, conn : Slot!Conns])
<1>1. line \in Seq([what : {"op", "state"}, conn : Slot!Conns])
  BY DEF SlotInv, SlotTyped
<1>2. ASSUME line # <<>>
      PROVE  /\ Head(line) = line[1] /\ 1 \in DOMAIN line
             /\ \A i \in DOMAIN Tail(line) : Tail(line)[i] # line[1] /\ \E j \in DOMAIN line : j # 1 /\ Tail(line)[i] = line[j]
             /\ \A i, j \in DOMAIN Tail(line) : i # j => Tail(line)[i] # Tail(line)[j]
             /\ \A i \in DOMAIN line : i = 1 \/ \E j \in DOMAIN Tail(line) : Tail(line)[j] = line[i]
             /\ Tail(line) \in Seq([what : {"op", "state"}, conn : Slot!Conns])
  <2>1. /\ Tail(line) \in Seq([what : {"op", "state"}, conn : Slot!Conns]) /\ Head(line) = line[1] /\ 1 \in DOMAIN line
        /\ \A i \in DOMAIN Tail(line) : Tail(line)[i] = line[i + 1] /\ i + 1 \in DOMAIN line /\ i + 1 # 1 /\ i \in Int
        /\ \A i \in DOMAIN line : i # 1 => i - 1 \in DOMAIN Tail(line) /\ i - 1 + 1 = i
    BY <1>1, <1>2, Shortened
  <2>2. \A i, j \in DOMAIN line : i # j => line[i] # line[j]
    BY DEF SlotInv, InLine
  <2>3. \A i, j \in DOMAIN Tail(line) : i # j => i + 1 # j + 1
    BY <2>1
  <2>4. \A i, j \in DOMAIN Tail(line) : i # j => Tail(line)[i] # Tail(line)[j]
    BY <2>1, <2>2, <2>3
  <2>5. \A i \in DOMAIN Tail(line) : Tail(line)[i] # line[1] /\ \E j \in DOMAIN line : j # 1 /\ Tail(line)[i] = line[j]
    BY <2>1, <2>2
  <2>6. \A i \in DOMAIN line : i = 1 \/ \E j \in DOMAIN Tail(line) : Tail(line)[j] = line[i]
    BY <2>1
  <2> QED
    BY <2>1, <2>4, <2>5, <2>6
<1> QED
  BY <1>1, <1>2

\* One worker at most is at work.
LEMMA OneWorker ==
  ASSUME SlotInv, NEW c \in Slot!Conns, AtWork(c)
  PROVE  /\ line # <<>> /\ line[1] = Slot!Entry("op", c)
         /\ \A d \in Slot!Conns : d # c => ~AtWork(d)
BY Entries DEF SlotInv, InLine

\* The steps of the worker that is at work, the lock kept: the line and the connections
\* are as they were, and so are the other workers.
LEMMA WorkGoesOn ==
  ASSUME SlotInv, NEW c \in Slot!Conns, AtWork(c), step[c] # "release",
         UNCHANGED <<conns, open, pending, asked, request, line, stating, last, slot_told, overtaken>>,
         NEW w \in {"removing", "forget", "loading", "publish", "release"}, step' = [step EXCEPT ![c] = w],
         mine' \in [Slot!Conns -> Nat], \A d \in Slot!Conns : d # c => mine'[d] = mine[d],
         made' \in Nat, handle' \in Nat, info' \in Nat, bypassed' \in BOOLEAN,
         request[c].op # "bypass", OnePlugin',
         w = "release" => mine'[c] = Slot!Unsure \/ mine'[c] = info'
  PROVE  SlotInv'
<1>1. /\ step \in [Slot!Conns -> {"idle", "asks", "waits", "take", "removing", "forget",
                                   "loading", "publish", "release", "answer"}]
      /\ step'[c] = w /\ \A d \in Slot!Conns : d # c => step'[d] = step[d]
  BY DEF SlotInv, SlotTyped
<1>2. \A d \in Slot!Conns : AtWork(d)' <=> AtWork(d)
  BY <1>1 DEF AtWork
<1>3. \A d \in Slot!Conns : d # c => ~AtWork(d)
  BY OneWorker
<1>4. SlotTyped'
  BY <1>1 DEF SlotInv, SlotTyped
<1>5. InLine'
  <2>1. step[c] # "waits" /\ step'[c] # "waits" /\ step[c] # "idle"
    BY <1>1 DEF AtWork
  <2>2. \A d \in Slot!Conns : (step'[d] = "waits") = (step[d] = "waits") /\ (step'[d] = "idle") = (step[d] = "idle")
    BY <1>1, <2>1
  <2>3. \A i \in DOMAIN line : line[i].conn \in Slot!Conns
    <3>1. line \in Seq([what : {"op", "state"}, conn : Slot!Conns])
      BY DEF SlotInv, SlotTyped
    <3>2. \A e \in [what : {"op", "state"}, conn : Slot!Conns] : e.conn \in Slot!Conns
      OBVIOUS
    <3> QED
      BY <3>1, <3>2, Elements
  <2> QED
    BY <1>2, <2>2, <2>3 DEF SlotInv, InLine
<1>6. Knows'
  <2>1. \A d \in Slot!Conns : ToBeTold(d)' <=> ToBeTold(d)
    BY DEF ToBeTold
  <2>2. ASSUME NEW d \in open \ overtaken
        PROVE  /\ step'[d] \in {"release", "answer"} /\ request[d].op # "bypass" /\ mine'[d] # Slot!Unsure => mine'[d] = info'
               /\ ~ToBeTold(d) /\ slot_told[d] # Slot!Unsure
                  /\ (step'[d] \in {"idle", "asks", "waits"} \/ request[d].op = "bypass") => slot_told[d] = info'
    <3>0. d \in Slot!Conns
      BY OpenAreConns
    <3>1. CASE d = c
      BY <3>1, <1>1
    <3>2. CASE d # c
      <4>1. ToBeTold(d) /\ step[d] \in {"idle", "asks", "waits"}
        BY <3>0, <3>2 DEF SlotInv, Knows
      <4> QED
        BY <3>0, <3>2, <4>1, <1>1
    <3> QED
      BY <3>1, <3>2
  <2>3. \A d \in Slot!Conns : AtWork(d)' =>
          \A e \in open \ {d} : e \in overtaken \/ (ToBeTold(e) /\ step'[e] \in {"idle", "asks", "waits"})
    <3>1. \A d \in Slot!Conns : AtWork(d)' => d = c
      BY <1>2, <1>3
    <3>2. \A e \in open \ {c} : e \in overtaken \/ (ToBeTold(e) /\ step[e] \in {"idle", "asks", "waits"})
      BY DEF SlotInv, Knows
    <3>3. \A e \in open : e \in Slot!Conns
      BY OpenAreConns
    <3> QED
      BY <3>1, <3>2, <3>3, <1>1
  <2>4. open \subseteq Slot!Conns
    BY OpenAreConns
  <2> QED
    BY <2>1, <2>2, <2>3, <2>4 DEF Knows
<1>7. LastCounts'
  <2>1. open \subseteq Slot!Conns
    BY OpenAreConns
  <2>2. ASSUME NEW d \in open, last[d] # Slot!Nothing
        PROVE  /\ pending[d] # <<>> => pending[d][Len(pending[d])] = last[d]
               /\ pending[d] = <<>> /\ step'[d] # "idle" => request[d] = last[d]
               /\ pending[d] = <<>> /\ step'[d] \in {"release", "answer", "idle"} /\ last[d].op = "bypass" =>
                    bypassed' = last[d].bypass
    <3>1. CASE d = c
      <4>1. step[c] # "idle"
        BY DEF AtWork
      <4> QED
        BY <3>1, <4>1, <2>2 DEF SlotInv, LastCounts
    <3>2. CASE d # c
      <4>1. last[d].op = "bypass" => pending[d] # <<>> \/ step[d] \in {"asks", "waits"}
        BY <3>2, <2>1 DEF SlotInv, LastCounts
      <4>2. step'[d] = step[d]
        BY <3>2, <1>1, <2>1
      <4> QED
        BY <4>1, <4>2, <2>2 DEF SlotInv, LastCounts
    <3> QED
      BY <3>1, <3>2
  <2>3. \A d \in Slot!Conns : AtWork(d)' =>
          \A e \in open \ {d} : last[e].op = "bypass" => pending[e] # <<>> \/ step'[e] \in {"asks", "waits"}
    <3>1. \A d \in Slot!Conns : AtWork(d)' => d = c
      BY <1>2, <1>3
    <3>2. \A e \in open \ {c} : last[e].op = "bypass" => pending[e] # <<>> \/ step[e] \in {"asks", "waits"}
      BY DEF SlotInv, LastCounts
    <3> QED
      BY <3>1, <3>2, <2>1, <1>1
  <2> QED
    BY <2>2, <2>3 DEF LastCounts
<1> QED
  BY <1>4, <1>5, <1>6, <1>7 DEF SlotInv

\* What the plugin is once the worker at work is at its next step.
LEMMA PluginAfter ==
  ASSUME SlotInv, NEW c \in Slot!Conns, AtWork(c), request' = request,
         NEW w \in {"removing", "forget", "loading", "publish", "release"}, step' = [step EXCEPT ![c] = w],
         request[c].op # "bypass",
         w = "removing" => handle' = 0 /\ mine'[c] = info' /\ info' # 0 /\ host' = {info'},
         w = "forget" => handle' = 0 /\ host' = {},
         w = "loading" => handle' = 0 /\ info' = 0 /\ host' = {} /\ request[c] = Slot!Load,
         w = "publish" => handle' = 0 /\ info' = 0 /\ mine'[c] # 0 /\ host' = {mine'[c]},
         w = "release" => handle' = info' /\ host' = {handle'} \ {0}
  PROVE  OnePlugin'
<1>1. step'[c] = w /\ \A d \in Slot!Conns : d # c => step'[d] = step[d]
  BY DEF SlotInv, SlotTyped
<1>2. \A d \in Slot!Conns : d # c => step'[d] \notin {"take", "removing", "forget", "loading", "publish"}
  BY <1>1, OneWorker DEF AtWork
<1> QED
  BY <1>1, <1>2 DEF OnePlugin

\* The first half of a load, or an unload: the handle is taken.
LEMMA TakeKeeps ==
  ASSUME SlotInv, NEW c \in Slot!Conns, Slot!Take(c)
  PROVE  SlotInv'
<1>1. /\ step[c] = "take" /\ AtWork(c) /\ handle' = 0 /\ mine' = [mine EXCEPT ![c] = handle]
      /\ UNCHANGED <<conns, open, pending, asked, request, line, stating, host, made, info, bypassed,
                     last, slot_told, overtaken>>
  BY DEF Slot!Take, AtWork, Slot!None, Slot!Keeps, Slot!connVars, Slot!lineVars, Slot!hostVars, Slot!histVars
<1>2. PICK w \in {"removing", "loading", "release"} :
        /\ step' = [step EXCEPT ![c] = w]
        /\ handle # 0 <=> w = "removing"
        /\ w = "loading" => request[c] = Slot!Load
  <2>1. CASE handle = 0
    BY <2>1 DEF Slot!Take, Slot!None, Slot!Unloaded, Slot!Goes
  <2>2. CASE handle # 0
    BY <2>2 DEF Slot!Take, Slot!None, Slot!Goes
  <2> QED
    BY <2>1, <2>2
<1>3. handle = info /\ host = {handle} \ {0} /\ request[c].op # "bypass"
  <2>1. \A d \in Slot!Conns : step[d] \notin {"removing", "forget", "loading", "publish"}
    BY <1>1, OneWorker DEF AtWork
  <2> QED
    BY <2>1, <1>1 DEF SlotInv, OnePlugin
<1>4. mine \in [Slot!Conns -> Nat] /\ handle \in Nat /\ info \in Nat /\ made \in Nat /\ bypassed \in BOOLEAN
  BY DEF SlotInv, SlotTyped
<1>5. mine' \in [Slot!Conns -> Nat] /\ mine'[c] = handle /\ \A d \in Slot!Conns : d # c => mine'[d] = mine[d]
  BY <1>1, <1>4
<1>6. OnePlugin'
  BY <1>1, <1>2, <1>3, <1>5, PluginAfter
<1> QED
  BY <1>1, <1>2, <1>3, <1>4, <1>5, <1>6, WorkGoesOn

\* Then the instance is removed.
LEMMA RemoveKeeps ==
  ASSUME SlotInv, NEW c \in Slot!Conns, Slot!Remove(c)
  PROVE  SlotInv'
<1>1. /\ step[c] = "removing" /\ AtWork(c) /\ host' = host \ {mine[c]} /\ step' = [step EXCEPT ![c] = "forget"]
      /\ UNCHANGED <<conns, open, pending, asked, request, line, stating, mine, made, handle, info, bypassed,
                     last, slot_told, overtaken>>
  BY DEF Slot!Remove, AtWork, Slot!Goes, Slot!connVars, Slot!lineVars, Slot!slotVars, Slot!histVars
<1>2. handle = 0 /\ mine[c] = info /\ info # 0 /\ host = {info} /\ request[c].op # "bypass"
  BY <1>1 DEF SlotInv, OnePlugin
<1>3. mine \in [Slot!Conns -> Nat] /\ handle \in Nat /\ info \in Nat /\ made \in Nat /\ bypassed \in BOOLEAN
  BY DEF SlotInv, SlotTyped
<1>4. host' = {}
  BY <1>1, <1>2
<1>5. OnePlugin'
  BY <1>1, <1>2, <1>4, PluginAfter
<1> QED
  BY <1>1, <1>2, <1>3, <1>5, WorkGoesOn

\* Then what is said of it.
LEMMA ForgetKeeps ==
  ASSUME SlotInv, NEW c \in Slot!Conns, Slot!Forget(c)
  PROVE  SlotInv'
<1>1. /\ step[c] = "forget" /\ AtWork(c) /\ info' = 0 /\ bypassed' = FALSE /\ mine' = [mine EXCEPT ![c] = 0]
      /\ UNCHANGED <<conns, open, pending, asked, request, line, stating, host, made, handle,
                     last, slot_told, overtaken>>
  BY DEF Slot!Forget, AtWork, Slot!Keeps, Slot!None, Slot!connVars, Slot!lineVars, Slot!hostVars, Slot!histVars
<1>2. PICK w \in {"loading", "release"} :
        step' = [step EXCEPT ![c] = w] /\ (w = "loading" => request[c] = Slot!Load)
  BY DEF Slot!Forget, Slot!Unloaded, Slot!Goes
<1>3. handle = 0 /\ host = {} /\ request[c].op # "bypass"
  BY <1>1 DEF SlotInv, OnePlugin
<1>4. mine \in [Slot!Conns -> Nat] /\ handle \in Nat /\ made \in Nat
  BY DEF SlotInv, SlotTyped
<1>5. mine' \in [Slot!Conns -> Nat] /\ mine'[c] = 0 /\ \A d \in Slot!Conns : d # c => mine'[d] = mine[d]
  BY <1>1, <1>4
<1>6. OnePlugin'
  BY <1>1, <1>2, <1>3, <1>5, PluginAfter
<1> QED
  BY <1>1, <1>2, <1>3, <1>4, <1>5, <1>6, WorkGoesOn

\* The native load, which may fail.
LEMMA LoadNativeKeeps ==
  ASSUME SlotInv, NEW c \in Slot!Conns, Slot!LoadNative(c)
  PROVE  SlotInv'
<1>1. /\ step[c] = "loading" /\ AtWork(c)
      /\ UNCHANGED <<conns, open, pending, asked, request, line, stating, handle, info, bypassed,
                     last, slot_told, overtaken>>
  BY DEF Slot!LoadNative, AtWork, Slot!connVars, Slot!lineVars, Slot!slotVars, Slot!histVars
<1>2. handle = 0 /\ info = 0 /\ host = {} /\ request[c].op # "bypass"
  BY <1>1, SlotRequests DEF SlotInv, OnePlugin
<1>3. mine \in [Slot!Conns -> Nat] /\ handle \in Nat /\ info \in Nat /\ made \in Nat /\ bypassed \in BOOLEAN
      /\ Slot!Unsure \in Nat
  BY PluginConstants DEF SlotInv, SlotTyped, Slot!SlotConstants, Slot!Unsure
<1>4. PICK w \in {"publish", "release"}, m \in Nat :
        /\ step' = [step EXCEPT ![c] = w] /\ mine' = [mine EXCEPT ![c] = m] /\ made' \in Nat
        /\ w = "publish" => m # 0 /\ host' = {m}
        /\ w = "release" => m = Slot!Unsure /\ host' = host
  <2>1. CASE made' = made + 1 /\ host' = host \cup {made'} /\ Slot!Keeps(c, made') /\ Slot!Goes(c, "publish")
    <3>1. made' \in Nat /\ made' # 0
      BY <2>1, <1>3
    <3> QED
      BY <2>1, <3>1, <1>2 DEF Slot!Keeps, Slot!Goes
  <2>2. CASE Slot!Keeps(c, Slot!Unsure) /\ Slot!Goes(c, "release") /\ UNCHANGED <<made, host>>
    BY <2>2, <1>3 DEF Slot!Keeps, Slot!Goes
  <2> QED
    BY <2>1, <2>2 DEF Slot!LoadNative
<1>5. mine' \in [Slot!Conns -> Nat] /\ mine'[c] = m /\ \A d \in Slot!Conns : d # c => mine'[d] = mine[d]
  BY <1>3, <1>4
<1>6. OnePlugin'
  <2>1. host' = {handle'} \ {0} \/ w = "publish"
    BY <1>1, <1>2, <1>4
  <2> QED
    BY <2>1, <1>1, <1>2, <1>4, <1>5, PluginAfter
<1> QED
  BY <1>1, <1>2, <1>3, <1>4, <1>5, <1>6, WorkGoesOn

\* The new plugin is made known.
LEMMA PublishKeeps ==
  ASSUME SlotInv, NEW c \in Slot!Conns, Slot!Publish(c)
  PROVE  SlotInv'
<1>1. /\ step[c] = "publish" /\ AtWork(c) /\ handle' = mine[c] /\ info' = mine[c] /\ bypassed' = FALSE
      /\ step' = [step EXCEPT ![c] = "release"]
      /\ UNCHANGED <<conns, open, pending, asked, request, line, stating, host, made, mine, last, slot_told, overtaken>>
  BY DEF Slot!Publish, AtWork, Slot!Goes, Slot!connVars, Slot!lineVars, Slot!hostVars, Slot!histVars
<1>2. mine[c] # 0 /\ host = {mine[c]} /\ request[c].op # "bypass"
  BY <1>1 DEF SlotInv, OnePlugin
<1>3. mine \in [Slot!Conns -> Nat] /\ made \in Nat /\ mine[c] \in Nat
  BY DEF SlotInv, SlotTyped
<1>4. OnePlugin'
  <2>1. host' = {handle'} \ {0} /\ handle' = info'
    BY <1>1, <1>2
  <2> QED
    BY <2>1, <1>1, <1>2, PluginAfter
<1> QED
  BY <1>1, <1>2, <1>3, <1>4, WorkGoesOn

\* A connection opens: nothing is known of it, and it is to be told.
LEMMA ConnectKeeps == SlotInv /\ Slot!Connect => SlotInv'
<1> SUFFICES ASSUME SlotInv, Slot!Connect
             PROVE  SlotInv'
  OBVIOUS
<1>0. conns \in Nat /\ MaxConns \in Nat /\ conns < MaxConns /\ Slot!Unsure \in Nat /\ info \in Nat
  BY PluginConstants DEF SlotInv, SlotTyped, Slot!SlotConstants, Slot!Connect, Slot!Unsure
<1>1. PICK n \in Slot!Conns :
        /\ n = conns + 1 /\ conns' = n /\ open' = open \cup {n} /\ stating' = stating \cup {n}
        /\ slot_told' = [slot_told EXCEPT ![n] = IF info = 0 THEN Slot!Unsure ELSE info]
        /\ UNCHANGED <<pending, asked, request, step, mine, line, host, made, handle, info, bypassed, last, overtaken>>
  <2>1. conns + 1 \in Slot!Conns
    BY <1>0 DEF Slot!Conns
  <2> QED
    BY <2>1 DEF Slot!Connect, Slot!None, Slot!workerVars, Slot!hostVars, Slot!slotVars
<1>2. n > conns /\ n \notin open /\ step[n] = "idle" /\ pending[n] = <<>>
  <2>1. n > conns /\ n \notin 1 .. conns
    BY <1>0, <1>1
  <2> QED
    BY <2>1 DEF SlotInv, SlotTyped, InLine
<1>3. SlotTyped'
  <2>1. slot_told' \in [Slot!Conns -> Nat]
    BY <1>0, <1>1 DEF SlotInv, SlotTyped
  <2>2. conns' \in 0 .. MaxConns /\ open' \subseteq 1 .. conns' /\ stating' \subseteq open'
    BY <1>0, <1>1, <1>2 DEF SlotInv, SlotTyped
  <2> QED
    BY <1>1, <2>1, <2>2 DEF SlotInv, SlotTyped
<1>4. InLine'
  <2>1. \A i \in DOMAIN line : line[i].conn \in Slot!Conns
    <3>1. line \in Seq([what : {"op", "state"}, conn : Slot!Conns])
      BY DEF SlotInv, SlotTyped
    <3> QED
      BY <3>1, Entries, Elements
  <2>2. \A c \in open \ stating : c # n
    BY <1>2
  <2>3. \A c \in Slot!Conns : AtWork(c)' <=> AtWork(c)
    BY <1>1 DEF AtWork
  <2>4. \A c \in Slot!Conns : c > conns' => c > conns
    BY <1>0, <1>1, <1>2 DEF Slot!Conns
  <2> QED
    BY <1>1, <2>1, <2>2, <2>3, <2>4 DEF SlotInv, InLine
<1>5. OnePlugin'
  BY <1>1 DEF SlotInv, OnePlugin
<1>6. Knows'
  <2>1. \A c \in open : (ToBeTold(c)' <=> ToBeTold(c)) /\ c # n /\ slot_told'[c] = slot_told[c]
    <3>1. \A c \in open : c # n /\ c \in Slot!Conns
      BY <1>2, OpenAreConns
    <3>2. slot_told \in [Slot!Conns -> Nat]
      BY DEF SlotInv, SlotTyped
    <3> QED
      BY <1>1, <3>1, <3>2 DEF ToBeTold
  <2>2. ToBeTold(n)'
    BY <1>1 DEF ToBeTold
  <2> QED
    BY <1>1, <1>2, <2>1, <2>2 DEF SlotInv, Knows, AtWork
<1>7. LastCounts'
  <2>1. last[n] = Slot!Nothing
    BY <1>2 DEF SlotInv, InLine
  <2> QED
    BY <1>1, <1>2, <2>1, SlotRequests DEF SlotInv, LastCounts, AtWork
<1> QED
  BY <1>3, <1>4, <1>5, <1>6, <1>7 DEF SlotInv

\* A request joins its connection's queue, and is its last one.
LEMMA AskKeeps ==
  ASSUME SlotInv, NEW c \in Slot!Conns, NEW r \in Slot!Requests, Slot!Ask(c, r)
  PROVE  SlotInv'
<1>1. /\ c \in open /\ last' = [last EXCEPT ![c] = r] /\ pending' = [pending EXCEPT ![c] = Append(@, r)]
      /\ UNCHANGED <<conns, open, request, step, mine, line, stating, host, made, handle, info, bypassed,
                     slot_told, overtaken>>
  BY DEF Slot!Ask, Slot!workerVars, Slot!lineVars, Slot!hostVars, Slot!slotVars
<1>2. pending[c] \in Seq(Slot!Requests)
  BY DEF SlotInv, SlotTyped
<1>3. /\ Append(pending[c], r) \in Seq(Slot!Requests) /\ Append(pending[c], r) # <<>>
      /\ Append(pending[c], r)[Len(Append(pending[c], r))] = r
  BY <1>2, Extended
<1>4. /\ pending'[c] = Append(pending[c], r) /\ last'[c] = r
      /\ \A d \in Slot!Conns : d # c => pending'[d] = pending[d] /\ last'[d] = last[d]
  BY <1>1 DEF SlotInv, SlotTyped
<1>5. SlotTyped'
  BY <1>1, <1>3 DEF SlotInv, SlotTyped
<1>6. \A d \in Slot!Conns : (AtWork(d)' <=> AtWork(d)) /\ (ToBeTold(d)' <=> ToBeTold(d))
  BY <1>1 DEF AtWork, ToBeTold
<1>7. c <= conns
  BY <1>1, PluginConstants DEF SlotInv, SlotTyped, Slot!SlotConstants
<1>8. InLine'
  <2>1. \A d \in Slot!Conns : d > conns => d # c
    BY <1>7, PluginConstants DEF SlotInv, SlotTyped, Slot!SlotConstants, Slot!Conns
  <2>2. \A i \in DOMAIN line : line[i].conn \in Slot!Conns
    <3>1. line \in Seq([what : {"op", "state"}, conn : Slot!Conns])
      BY DEF SlotInv, SlotTyped
    <3> QED
      BY <3>1, Entries, Elements
  <2> QED
    BY <1>1, <1>4, <1>6, <2>1, <2>2 DEF SlotInv, InLine
<1>9. OnePlugin'
  BY <1>1 DEF SlotInv, OnePlugin
<1>10. Knows'
  BY <1>1, <1>6, OpenAreConns DEF SlotInv, Knows
<1>11. LastCounts'
  BY <1>1, <1>3, <1>4, <1>6, OpenAreConns DEF SlotInv, LastCounts
<1> QED
  BY <1>5, <1>8, <1>9, <1>10, <1>11 DEF SlotInv

\* A request is taken from the queue, or thrown away if its connection is closed.
LEMMA PickUpKeeps ==
  ASSUME SlotInv, NEW c \in Slot!Conns, Slot!PickUp(c)
  PROVE  SlotInv'
<1>1. /\ step[c] = "idle" /\ pending[c] # <<>> /\ pending' = [pending EXCEPT ![c] = Tail(@)]
      /\ \/ /\ c \in open /\ request' = [request EXCEPT ![c] = Head(pending[c])]
            /\ step' = [step EXCEPT ![c] = "asks"]
         \/ c \notin open /\ UNCHANGED <<request, step>>
      /\ UNCHANGED <<conns, open, mine, line, stating, host, made, handle, info, bypassed,
                     last, slot_told, overtaken>>
  BY DEF Slot!PickUp, Slot!Goes, Slot!lineVars, Slot!hostVars, Slot!slotVars, Slot!histVars
<1>2. pending[c] \in Seq(Slot!Requests)
  BY DEF SlotInv, SlotTyped
<1>3. /\ Tail(pending[c]) \in Seq(Slot!Requests) /\ Head(pending[c]) \in Slot!Requests
      /\ Tail(pending[c]) # <<>> => Tail(pending[c])[Len(Tail(pending[c]))] = pending[c][Len(pending[c])]
      /\ Tail(pending[c]) = <<>> => Head(pending[c]) = pending[c][Len(pending[c])]
  <2>1. /\ Tail(pending[c]) \in Seq(Slot!Requests) /\ Head(pending[c]) \in Slot!Requests
        /\ Tail(pending[c]) # <<>> => Tail(pending[c])[Len(Tail(pending[c]))] = pending[c][Len(pending[c])]
        /\ Head(pending[c]) = pending[c][1] /\ Len(pending[c]) \in Nat /\ Len(Tail(pending[c])) = Len(pending[c]) - 1
    BY <1>1, <1>2, Shortened
  <2>2. Tail(pending[c]) = <<>> => Len(Tail(pending[c])) = 0
    <3>1. \A q : q = <<>> => Len(q) = 0
      OBVIOUS
    <3> QED
      BY <3>1, Zenon
  <2>3. Tail(pending[c]) = <<>> => Len(pending[c]) = 1
    BY <2>1, <2>2
  <2> QED
    BY <2>1, <2>3
<1>4. /\ pending'[c] = Tail(pending[c]) /\ \A d \in Slot!Conns : d # c => pending'[d] = pending[d]
      /\ \A d \in Slot!Conns : d # c => step'[d] = step[d] /\ request'[d] = request[d]
      /\ c \in open => step'[c] = "asks" /\ request'[c] = Head(pending[c])
      /\ c \notin open => step'[c] = "idle" /\ request'[c] = request[c]
  BY <1>1 DEF SlotInv, SlotTyped
<1>5. SlotTyped'
  BY <1>1, <1>3 DEF SlotInv, SlotTyped
<1>6. /\ \A d \in Slot!Conns : (AtWork(d)' <=> AtWork(d)) /\ (ToBeTold(d)' <=> ToBeTold(d))
      /\ ~AtWork(c)
  BY <1>1, <1>4 DEF AtWork, ToBeTold
<1>7. InLine'
  <2>1. line \in Seq([what : {"op", "state"}, conn : Slot!Conns])
    BY DEF SlotInv, SlotTyped
  <2>2. \A i \in DOMAIN line : line[i].conn \in Slot!Conns
    BY <2>1, Entries, Elements
  <2>3. \A d \in Slot!Conns : (step'[d] = "waits") = (step[d] = "waits")
    BY <1>1, <1>4
  <2>4. \A d \in Slot!Conns : d > conns => d # c
    BY <1>1 DEF SlotInv, InLine
  <2> QED
    BY <1>1, <1>4, <1>6, <2>2, <2>3, <2>4 DEF SlotInv, InLine
<1>8. OnePlugin'
  <2>1. \A d \in Slot!Conns, w \in {"take", "removing", "forget", "loading", "publish"} :
          step'[d] = w => step[d] = w /\ d # c
    BY <1>1, <1>4
  <2>2. \A d \in Slot!Conns, w \in {"take", "removing", "forget", "loading", "publish"} :
          step[d] = w => step'[d] = w
    BY <1>1, <1>4
  <2> QED
    BY <1>1, <1>4, <2>1, <2>2 DEF SlotInv, OnePlugin
<1>9. Knows'
  <2>1. c \in open \ overtaken /\ ~ToBeTold(c) /\ slot_told[c] # Slot!Unsure => slot_told[c] = info
    BY <1>1 DEF SlotInv, Knows
  <2> QED
    BY <1>1, <1>4, <1>6, <2>1, OpenAreConns DEF SlotInv, Knows
<1>10. LastCounts'
  BY <1>1, <1>3, <1>4, <1>6, OpenAreConns DEF SlotInv, LastCounts
<1> QED
  BY <1>5, <1>7, <1>8, <1>9, <1>10 DEF SlotInv

\* A task asks for the lock, to tell what is loaded.
LEMMA JoinStateKeeps ==
  ASSUME SlotInv, NEW c \in Slot!Conns, Slot!JoinState(c)
  PROVE  SlotInv'
<1> DEFINE e == Slot!Entry("state", c)
<1>1. /\ c \in stating /\ stating' = stating \ {c} /\ line' = Append(line, e)
      /\ UNCHANGED <<conns, open, pending, request, step, mine, host, made, handle, info, bypassed,
                     last, slot_told, overtaken>>
  BY DEF Slot!JoinState, Slot!connVars, Slot!workerVars, Slot!hostVars, Slot!slotVars, Slot!histVars
<1>2. line \in Seq([what : {"op", "state"}, conn : Slot!Conns]) /\ e \in [what : {"op", "state"}, conn : Slot!Conns]
  BY Entries DEF SlotInv, SlotTyped
<1>3. e.what = "state" /\ e.conn = c
  BY Entries
<1>4. /\ line' \in Seq([what : {"op", "state"}, conn : Slot!Conns]) /\ line' # <<>> /\ Len(line) \in Nat
      /\ DOMAIN line' = 1 .. Len(line) + 1 /\ DOMAIN line = 1 .. Len(line)
      /\ \A i \in DOMAIN line : line'[i] = line[i] /\ i # Len(line) + 1 /\ i \in DOMAIN line'
      /\ line'[Len(line) + 1] = e
      /\ \A i \in DOMAIN line' : i \in DOMAIN line \/ i = Len(line) + 1
  BY <1>1, <1>2, Extended
<1> HIDE DEF e
<1>5. SlotTyped'
  BY <1>1, <1>4 DEF SlotInv, SlotTyped
<1>6. \A i \in DOMAIN line : line[i] # e
  BY <1>1, <1>3 DEF SlotInv, InLine
<1>7. \A d \in Slot!Conns : (AtWork(d)' <=> AtWork(d)) /\ (ToBeTold(d) => ToBeTold(d)') /\ (d # c /\ ToBeTold(d)' => ToBeTold(d))
  <2>1. \A d \in Slot!Conns : AtWork(d)' <=> AtWork(d)
    BY <1>1 DEF AtWork
  <2>2. \A d \in Slot!Conns : d # c => Slot!Entry("state", d) # e
    BY Entries DEF e
  <2>3. ToBeTold(c)'
    BY <1>4 DEF ToBeTold, e
  <2>4. ASSUME NEW d \in Slot!Conns, d # c
        PROVE  ToBeTold(d)' <=> ToBeTold(d)
    BY <1>1, <1>4, <2>2, <2>4 DEF ToBeTold
  <2> QED
    BY <2>1, <2>3, <2>4
<1>8. InLine'
  <2>1. \A i, j \in DOMAIN line' : i # j => line'[i] # line'[j]
    BY <1>4, <1>6 DEF SlotInv, InLine
  <2>2. \A i \in DOMAIN line : line[i].conn \in Slot!Conns
    BY <1>2, Entries, Elements
  <2>3. ASSUME NEW i \in DOMAIN line'
        PROVE  IF line'[i].what = "op" THEN step[line'[i].conn] = "waits" \/ AtWork(line'[i].conn)
               ELSE line'[i].conn \in open \ stating'
    <3>1. CASE i \in DOMAIN line
      <4>1. line[i].what # "op" => line[i].conn \in open \ stating
        BY <3>1 DEF SlotInv, InLine
      <4> QED
        BY <3>1, <4>1, <1>1, <1>4 DEF SlotInv, InLine
    <3>2. CASE i = Len(line) + 1
      BY <3>2, <1>1, <1>3, <1>4 DEF SlotInv, SlotTyped
    <3> QED
      BY <3>1, <3>2, <1>4
  <2>4. \A d \in Slot!Conns : AtWork(d) => line' # <<>> /\ line'[1] = Slot!Entry("op", d)
    <3>1. line # <<>> => 1 \in DOMAIN line
      BY <1>2
    <3> QED
      BY <3>1, <1>4 DEF SlotInv, InLine
  <2>5. \A d \in Slot!Conns : d > conns => step[d] = "idle" /\ pending[d] = <<>> /\ last[d] = Slot!Nothing
    BY DEF SlotInv, InLine
  <2>6. \A i \in DOMAIN line' : line'[i].conn \in Slot!Conns
    BY <1>4, Entries, Elements
  <2> QED
    BY <1>1, <1>7, <2>1, <2>3, <2>4, <2>5, <2>6 DEF InLine
<1>9. OnePlugin'
  BY <1>1 DEF SlotInv, OnePlugin
<1>10. Knows'
  <2>1. ToBeTold(c)
    BY <1>1 DEF ToBeTold
  <2> QED
    BY <1>1, <1>7, <2>1, OpenAreConns DEF SlotInv, Knows
<1>11. LastCounts'
  BY <1>1, <1>7, OpenAreConns DEF SlotInv, LastCounts
<1> QED
  BY <1>5, <1>8, <1>9, <1>10, <1>11 DEF SlotInv

\* One leaves the line: what is left of it.
LEMMA LineWithoutOne ==
  ASSUME SlotInv, NEW i \in DOMAIN line
  PROVE  /\ Slot!LineWithout(i) \in Seq([what : {"op", "state"}, conn : Slot!Conns])
         /\ \A j \in DOMAIN Slot!LineWithout(i) :
              Slot!LineWithout(i)[j] # line[i] /\ \E k \in DOMAIN line : k # i /\ Slot!LineWithout(i)[j] = line[k]
         /\ \A j, k \in DOMAIN Slot!LineWithout(i) : j # k => Slot!LineWithout(i)[j] # Slot!LineWithout(i)[k]
         /\ \A k \in DOMAIN line : k = i \/ \E j \in DOMAIN Slot!LineWithout(i) : Slot!LineWithout(i)[j] = line[k]
         /\ i # 1 => Slot!LineWithout(i) # <<>> /\ Slot!LineWithout(i)[1] = line[1]
<1> DEFINE l == Slot!LineWithout(i)
           n == Len(line)
<1>1. line \in Seq([what : {"op", "state"}, conn : Slot!Conns])
  BY DEF SlotInv, SlotTyped
<1>2. n \in Nat /\ DOMAIN line = 1 .. n /\ i \in 1 .. n
  BY <1>1
<1>3. \A j \in DOMAIN line : line[j] \in [what : {"op", "state"}, conn : Slot!Conns]
  BY <1>1, Elements
<1>4. l = [j \in 1 .. n - 1 |-> IF j < i THEN line[j] ELSE line[j + 1]]
  BY DEF Slot!LineWithout
<1> HIDE DEF l, n
<1>5. DOMAIN l = 1 .. n - 1 /\ \A j \in 1 .. n - 1 : l[j] = IF j < i THEN line[j] ELSE line[j + 1]
  BY <1>4
<1>6. \A j \in 1 .. n - 1 : j \in 1 .. n /\ j + 1 \in 1 .. n /\ j \in Int /\ j # n
  BY <1>2
<1>7. l \in Seq([what : {"op", "state"}, conn : Slot!Conns])
  <2>1. \A j \in 1 .. n - 1 : l[j] \in [what : {"op", "state"}, conn : Slot!Conns]
    BY <1>2, <1>3, <1>5, <1>6
  <2>2. PICK m \in Nat : m = n - 1
    BY <1>2
  <2>3. l \in [1 .. m -> [what : {"op", "state"}, conn : Slot!Conns]]
    BY <1>4, <1>5, <2>1, <2>2
  <2>4. \A S : \A f \in [1 .. m -> S] : f \in Seq(S)
    OBVIOUS
  <2> QED
    BY <2>3, <2>4
<1>8. \A j, k \in DOMAIN line : j # k => line[j] # line[k]
  BY DEF SlotInv, InLine
<1>9. ASSUME NEW j \in DOMAIN l
      PROVE  l[j] # line[i] /\ \E k \in DOMAIN line : k # i /\ l[j] = line[k]
  <2>1. CASE j < i
    BY <2>1, <1>2, <1>5, <1>6, <1>8
  <2>2. CASE ~(j < i)
    <3>1. l[j] = line[j + 1] /\ j + 1 \in DOMAIN line /\ j + 1 # i
      BY <2>2, <1>2, <1>5, <1>6
    <3> QED
      BY <3>1, <1>2, <1>8
  <2> QED
    BY <2>1, <2>2
<1>10. ASSUME NEW j \in DOMAIN l, NEW k \in DOMAIN l, j # k
       PROVE  l[j] # l[k]
  <2>1. PICK a \in DOMAIN line : a = IF j < i THEN j ELSE j + 1
    BY <1>2, <1>5, <1>6
  <2>2. PICK b \in DOMAIN line : b = IF k < i THEN k ELSE k + 1
    BY <1>2, <1>5, <1>6
  <2>3. l[j] = line[a] /\ l[k] = line[b]
    BY <2>1, <2>2, <1>5
  <2>4. a # b
    BY <2>1, <2>2, <1>2, <1>5, <1>6, <1>10
  <2> QED
    BY <2>3, <2>4, <1>8
<1>11. ASSUME NEW k \in DOMAIN line, k # i
       PROVE  \E j \in DOMAIN l : l[j] = line[k]
  <2>1. CASE k < i
    <3>1. k \in 1 .. n - 1
      BY <2>1, <1>2
    <3> QED
      BY <3>1, <2>1, <1>5
  <2>2. CASE k > i
    <3>1. PICK j \in 1 .. n - 1 : j = k - 1
      BY <2>2, <1>2
    <3>2. ~(j < i) /\ j + 1 = k
      BY <3>1, <2>2, <1>2
    <3> QED
      BY <3>1, <3>2, <1>5
  <2> QED
    BY <2>1, <2>2, <1>2, <1>11
<1>12. i # 1 => l # <<>> /\ l[1] = line[1]
  <2>1. ASSUME i # 1
        PROVE  1 \in 1 .. n - 1 /\ 1 < i
    BY <2>1, <1>2
  <2>2. i # 1 => 1 \in DOMAIN l /\ l[1] = line[1]
    BY <2>1, <1>5
  <2>3. l = <<>> => 1 \notin DOMAIN l
    <3>1. \A q : q = <<>> => 1 \notin DOMAIN q
      OBVIOUS
    <3> QED
      BY <3>1, Zenon
  <2> QED
    BY <2>2, <2>3
<1> QED
  BY <1>7, <1>9, <1>10, <1>11, <1>12 DEF l

\* A connection closes: what it waited for is not waited for any more.
LEMMA DisconnectKeeps ==
  ASSUME SlotInv, NEW c \in Slot!Conns, Slot!Disconnect(c)
  PROVE  SlotInv'
<1> DEFINE e == Slot!Entry("state", c)
<1>1. /\ c \in open /\ open' = open \ {c} /\ stating' = stating \ {c}
      /\ \/ \E i \in DOMAIN line : line[i] = e /\ line' = Slot!LineWithout(i)
         \/ (\A i \in DOMAIN line : line[i] # e) /\ line' = line
      /\ UNCHANGED <<conns, pending, request, step, mine, host, made, handle, info, bypassed,
                     last, slot_told, overtaken>>
  BY DEF Slot!Disconnect, Slot!workerVars, Slot!hostVars, Slot!slotVars, Slot!histVars
<1>2. line \in Seq([what : {"op", "state"}, conn : Slot!Conns])
  BY DEF SlotInv, SlotTyped
<1>3. e.what = "state" /\ e.conn = c /\ \A a, b : e = Slot!Entry(a, b) => a = "state" /\ b = c
  BY Entries
<1> HIDE DEF e
<1>4. /\ line' \in Seq([what : {"op", "state"}, conn : Slot!Conns])
      /\ \A j \in DOMAIN line' : line'[j] # e /\ \E k \in DOMAIN line : line'[j] = line[k]
      /\ \A j, k \in DOMAIN line' : j # k => line'[j] # line'[k]
      /\ \A k \in DOMAIN line : line[k] = e \/ \E j \in DOMAIN line' : line'[j] = line[k]
      /\ line # <<>> /\ line[1] # e => line' # <<>> /\ line'[1] = line[1]
  <2>1. CASE \E i \in DOMAIN line : line[i] = e /\ line' = Slot!LineWithout(i)
    <3>1. PICK i \in DOMAIN line : line[i] = e /\ line' = Slot!LineWithout(i)
      BY <2>1
    <3>2. DEFINE l == Slot!LineWithout(i)
    <3>3. /\ l \in Seq([what : {"op", "state"}, conn : Slot!Conns])
          /\ \A j \in DOMAIN l : l[j] # line[i] /\ \E k \in DOMAIN line : k # i /\ l[j] = line[k]
          /\ \A j, k \in DOMAIN l : j # k => l[j] # l[k]
          /\ \A k \in DOMAIN line : k = i \/ \E j \in DOMAIN l : l[j] = line[k]
          /\ i # 1 => l # <<>> /\ l[1] = line[1]
      BY LineWithoutOne
    <3>4. line' = l
      BY <3>1
    <3> HIDE DEF l
    <3>5. line[1] # e => i # 1
      BY <3>1
    <3>6. \A k \in DOMAIN line : line[k] = e \/ \E j \in DOMAIN l : l[j] = line[k]
      BY <3>1, <3>3
    <3>7. \A j \in DOMAIN l : l[j] # e /\ \E k \in DOMAIN line : l[j] = line[k]
      BY <3>1, <3>3
    <3> QED
      BY <3>3, <3>4, <3>5, <3>6, <3>7
  <2>2. CASE (\A i \in DOMAIN line : line[i] # e) /\ line' = line
    BY <2>2, <1>2 DEF SlotInv, InLine
  <2> QED
    BY <2>1, <2>2, <1>1
<1>5. SlotTyped'
  BY <1>1, <1>4 DEF SlotInv, SlotTyped
<1>6. \A d \in Slot!Conns : (AtWork(d)' <=> AtWork(d)) /\ (d # c => (ToBeTold(d)' <=> ToBeTold(d)))
  <2>1. \A d \in Slot!Conns : AtWork(d)' <=> AtWork(d)
    BY <1>1 DEF AtWork
  <2>2. ASSUME NEW d \in Slot!Conns, d # c
        PROVE  ToBeTold(d)' <=> ToBeTold(d)
    <3>1. Slot!Entry("state", d) # e
      BY <1>3, <2>2
    <3> QED
      BY <1>1, <1>4, <2>2, <3>1 DEF ToBeTold
  <2> QED
    BY <2>1, <2>2
<1>7. InLine'
  <2>1. \A i \in DOMAIN line : line[i] \in [what : {"op", "state"}, conn : Slot!Conns]
    BY <1>2, Elements
  <2>2. \A i \in DOMAIN line' : line'[i].conn \in Slot!Conns
    <3>1. \A i \in DOMAIN line' : line'[i] \in [what : {"op", "state"}, conn : Slot!Conns]
      BY <1>4, Elements
    <3> QED
      BY <3>1, Entries
  <2>3. ASSUME NEW j \in DOMAIN line'
        PROVE  IF line'[j].what = "op" THEN step[line'[j].conn] = "waits" \/ AtWork(line'[j].conn)
               ELSE line'[j].conn \in open' \ stating'
    <3>1. PICK k \in DOMAIN line : line'[j] = line[k] /\ line'[j] # e
      BY <1>4
    <3>2. line[k].what # "op" => line[k].conn # c
      BY <3>1, <2>1, Entries DEF e
    <3>3. line[k].what # "op" => line[k].conn \in open \ stating
      BY DEF SlotInv, InLine
    <3>4. line[k].what = "op" => step[line[k].conn] = "waits" \/ AtWork(line[k].conn)
      BY DEF SlotInv, InLine
    <3> QED
      BY <3>1, <3>2, <3>3, <3>4, <1>1
  <2>4. \A d \in Slot!Conns : AtWork(d) => line' # <<>> /\ line'[1] = Slot!Entry("op", d)
    <3>1. \A d \in Slot!Conns : AtWork(d) => line # <<>> /\ line[1] = Slot!Entry("op", d)
      BY DEF SlotInv, InLine
    <3>2. \A d : Slot!Entry("op", d) # e
      BY <1>3
    <3> QED
      BY <3>1, <3>2, <1>4
  <2>5. \A d \in Slot!Conns : d > conns => step[d] = "idle" /\ pending[d] = <<>> /\ last[d] = Slot!Nothing
    BY DEF SlotInv, InLine
  <2> QED
    BY <1>1, <1>4, <1>6, <2>2, <2>3, <2>4, <2>5 DEF InLine
<1>8. OnePlugin'
  BY <1>1 DEF SlotInv, OnePlugin
<1>9. Knows'
  BY <1>1, <1>6, OpenAreConns DEF SlotInv, Knows
<1>10. LastCounts'
  BY <1>1, <1>6, OpenAreConns DEF SlotInv, LastCounts
<1> QED
  BY <1>5, <1>7, <1>8, <1>9, <1>10 DEF SlotInv

\* The next in the line is told what is loaded: while it waited nobody was at work on it.
LEMMA TellStateKeeps ==
  ASSUME SlotInv, NEW c \in Slot!Conns, Slot!TellState(c)
  PROVE  SlotInv'
<1> DEFINE e == Slot!Entry("state", c)
<1>1. /\ line # <<>> /\ Head(line) = e /\ line' = Tail(line)
      /\ slot_told' = [slot_told EXCEPT ![c] = info]
      /\ overtaken' = IF step[c] = "answer" THEN overtaken ELSE overtaken \ {c}
      /\ UNCHANGED <<conns, open, pending, request, step, mine, stating, host, made, handle, info, bypassed, last>>
  BY DEF Slot!TellState, Slot!connVars, Slot!workerVars, Slot!hostVars, Slot!slotVars
<1>2. e.what = "state" /\ e.conn = c /\ \A a, b : e = Slot!Entry(a, b) => a = "state" /\ b = c
  BY Entries
<1>3. /\ line[1] = e /\ 1 \in DOMAIN line
      /\ \A i \in DOMAIN line' : line'[i] # e /\ \E j \in DOMAIN line : line'[i] = line[j]
      /\ \A i, j \in DOMAIN line' : i # j => line'[i] # line'[j]
      /\ \A i \in DOMAIN line : line[i] = e \/ \E j \in DOMAIN line' : line'[j] = line[i]
      /\ line' \in Seq([what : {"op", "state"}, conn : Slot!Conns])
  BY <1>1, LineOnce
<1> HIDE DEF e
<1>4. \A d \in Slot!Conns : ~AtWork(d) /\ ~AtWork(d)'
  <2>1. \A d \in Slot!Conns : AtWork(d) => line[1] = Slot!Entry("op", d)
    BY DEF SlotInv, InLine
  <2>2. \A d \in Slot!Conns : ~AtWork(d)
    BY <2>1, <1>2, <1>3
  <2> QED
    BY <2>2, <1>1 DEF AtWork
<1>5. slot_told \in [Slot!Conns -> Nat] /\ info \in Nat
  BY DEF SlotInv, SlotTyped
<1>6. slot_told'[c] = info /\ \A d \in Slot!Conns : d # c => slot_told'[d] = slot_told[d]
  BY <1>1, <1>5
<1>7. SlotTyped'
  BY <1>1, <1>3, <1>5 DEF SlotInv, SlotTyped
<1>8. InLine'
  <2>1. ASSUME NEW j \in DOMAIN line'
        PROVE  IF line'[j].what = "op" THEN step[line'[j].conn] = "waits" \/ AtWork(line'[j].conn)
               ELSE line'[j].conn \in open' \ stating'
    <3>1. PICK k \in DOMAIN line : line'[j] = line[k]
      BY <1>3
    <3>2. IF line[k].what = "op" THEN step[line[k].conn] = "waits" \/ AtWork(line[k].conn)
          ELSE line[k].conn \in open \ stating
      BY DEF SlotInv, InLine
    <3> QED
      BY <3>1, <3>2, <1>1
  <2>2. \A i \in DOMAIN line' : line'[i].conn \in Slot!Conns
    <3>1. \A i \in DOMAIN line' : line'[i] \in [what : {"op", "state"}, conn : Slot!Conns]
      BY <1>3, Elements
    <3> QED
      BY <3>1, Entries
  <2>3. \A d \in Slot!Conns : d > conns => step[d] = "idle" /\ pending[d] = <<>> /\ last[d] = Slot!Nothing
    BY DEF SlotInv, InLine
  <2> QED
    BY <1>1, <1>3, <1>4, <2>1, <2>2, <2>3 DEF InLine
<1>9. OnePlugin'
  BY <1>1 DEF SlotInv, OnePlugin
<1>10. Knows'
  <2>1. ASSUME NEW d \in Slot!Conns, d # c
        PROVE  ToBeTold(d)' <=> ToBeTold(d)
    <3>1. Slot!Entry("state", d) # e
      BY <1>2, <2>1
    <3> QED
      BY <1>1, <1>3, <2>1, <3>1 DEF ToBeTold
  <2>2. ASSUME NEW d \in open \ overtaken', step[d] \in {"release", "answer"}, request[d].op # "bypass",
               mine[d] # Slot!Unsure
        PROVE  mine[d] = info
    <3>1. d \in Slot!Conns
      BY OpenAreConns
    <3>2. step[d] = "answer"
      BY <2>2, <3>1, <1>4 DEF AtWork
    <3>3. d \notin overtaken
      BY <3>2, <1>1
    <3> QED
      BY <2>2, <3>3 DEF SlotInv, Knows
  <2>3. ASSUME NEW d \in open \ overtaken', ~ToBeTold(d)', slot_told'[d] # Slot!Unsure,
               step[d] \in {"idle", "asks", "waits"} \/ request[d].op = "bypass"
        PROVE  slot_told'[d] = info
    <3>1. CASE d = c
      BY <3>1, <1>6
    <3>2. CASE d # c
      BY <3>2, <2>1, <2>3, <1>1, <1>6, OpenAreConns DEF SlotInv, Knows
    <3> QED
      BY <3>1, <3>2
  <2> QED
    BY <1>1, <1>4, <2>2, <2>3 DEF Knows
<1>11. LastCounts'
  BY <1>1, <1>4 DEF SlotInv, LastCounts
<1> QED
  BY <1>7, <1>8, <1>9, <1>10, <1>11 DEF SlotInv

\* The operation is over and the lock is left to the next in the line.
LEMMA ReleaseKeeps ==
  ASSUME SlotInv, NEW c \in Slot!Conns, Slot!Release(c)
  PROVE  SlotInv'
<1> DEFINE e == Slot!Entry("op", c)
<1>1. /\ step[c] = "release" /\ line' = Tail(line) /\ step' = [step EXCEPT ![c] = "answer"]
      /\ UNCHANGED <<conns, open, pending, request, mine, stating, host, made, handle, info, bypassed,
                     last, slot_told, overtaken>>
  BY DEF Slot!Release, Slot!Goes, Slot!connVars, Slot!hostVars, Slot!slotVars, Slot!histVars
<1>2. /\ AtWork(c) /\ line # <<>> /\ line[1] = e
      /\ \A d \in Slot!Conns : d # c => ~AtWork(d)
  <2>1. AtWork(c)
    BY <1>1 DEF AtWork
  <2> QED
    BY <2>1, OneWorker
<1>3. \A a, b : e = Slot!Entry(a, b) => a = "op" /\ b = c
  BY Entries
<1>4. /\ \A i \in DOMAIN line' : line'[i] # e /\ \E j \in DOMAIN line : line'[i] = line[j]
      /\ \A i, j \in DOMAIN line' : i # j => line'[i] # line'[j]
      /\ \A i \in DOMAIN line : line[i] = e \/ \E j \in DOMAIN line' : line'[j] = line[i]
      /\ line' \in Seq([what : {"op", "state"}, conn : Slot!Conns])
  BY <1>1, <1>2, LineOnce
<1>5. /\ step'[c] = "answer" /\ \A d \in Slot!Conns : d # c => step'[d] = step[d]
      /\ step' \in [Slot!Conns -> {"idle", "asks", "waits", "take", "removing", "forget",
                                   "loading", "publish", "release", "answer"}]
  BY <1>1 DEF SlotInv, SlotTyped
<1>6. \A d \in Slot!Conns : ~AtWork(d)'
  BY <1>2, <1>5 DEF AtWork
<1> HIDE DEF e
<1>7. SlotTyped'
  BY <1>1, <1>4, <1>5 DEF SlotInv, SlotTyped
<1>8. \A d \in Slot!Conns : ToBeTold(d)' <=> ToBeTold(d)
  <2>1. \A d : Slot!Entry("state", d) # e
    BY <1>3
  <2> QED
    BY <1>1, <1>4, <2>1 DEF ToBeTold
<1>9. InLine'
  <2>1. \A i \in DOMAIN line' : line'[i] \in [what : {"op", "state"}, conn : Slot!Conns]
    BY <1>4, Elements
  <2>2. ASSUME NEW j \in DOMAIN line'
        PROVE  IF line'[j].what = "op" THEN step'[line'[j].conn] = "waits"
               ELSE line'[j].conn \in open \ stating
    <3>1. PICK k \in DOMAIN line : line'[j] = line[k] /\ line[k] # e
      BY <1>4
    <3>2. IF line[k].what = "op" THEN step[line[k].conn] = "waits" \/ AtWork(line[k].conn)
          ELSE line[k].conn \in open \ stating
      BY DEF SlotInv, InLine
    <3>3. line[k].conn \in Slot!Conns /\ line[k] = Slot!Entry(line[k].what, line[k].conn)
      BY <2>1, <3>1, Entries
    <3>4. line[k].what = "op" => line[k].conn # c
      BY <3>1, <3>3 DEF e
    <3> QED
      BY <3>1, <3>2, <3>3, <3>4, <1>2, <1>5
  <2>3. \A i \in DOMAIN line' : line'[i].conn \in Slot!Conns
    BY <2>1, Entries
  <2>4. \A d \in Slot!Conns : d > conns => step'[d] = "idle" /\ pending[d] = <<>> /\ last[d] = Slot!Nothing
    <3>1. \A d \in Slot!Conns : d > conns => step[d] = "idle" /\ pending[d] = <<>> /\ last[d] = Slot!Nothing
      BY DEF SlotInv, InLine
    <3> QED
      BY <3>1, <1>1, <1>5
  <2> QED
    BY <1>1, <1>4, <1>6, <2>2, <2>3, <2>4 DEF InLine
<1>10. OnePlugin'
  <2>1. \A d \in Slot!Conns : step'[d] \notin {"take", "removing", "forget", "loading", "publish"}
    BY <1>6 DEF AtWork
  <2>2. \A d \in Slot!Conns : step[d] \notin {"removing", "forget", "loading", "publish"}
    BY <1>1, <1>2 DEF AtWork
  <2> QED
    BY <1>1, <2>1, <2>2 DEF SlotInv, OnePlugin
<1>11. Knows'
  <2>1. \A d \in Slot!Conns, w \in {"idle", "asks", "waits"} : step'[d] = w => step[d] = w
    BY <1>5
  <2>2. \A d \in Slot!Conns : step'[d] \in {"release", "answer"} => step[d] \in {"release", "answer"}
    BY <1>1, <1>5
  <2> QED
    BY <1>1, <1>6, <1>8, <2>1, <2>2, OpenAreConns DEF SlotInv, Knows
<1>12. LastCounts'
  <2>1. \A d \in Slot!Conns : /\ step'[d] # "idle" => step[d] # "idle"
                              /\ step'[d] \in {"release", "answer", "idle"} => step[d] \in {"release", "answer", "idle"}
    BY <1>1, <1>5
  <2> QED
    BY <1>1, <1>6, <2>1, OpenAreConns DEF SlotInv, LastCounts
<1> QED
  BY <1>7, <1>9, <1>10, <1>11, <1>12 DEF SlotInv

\* The pipeline's mutex is had, and the worker joins the line; or the request is dropped.
LEMMA GetControlKeeps ==
  ASSUME SlotInv, NEW c \in Slot!Conns, Slot!GetControl(c)
  PROVE  SlotInv'
<1> DEFINE e == Slot!Entry("op", c)
<1>1. /\ step[c] = "asks"
      /\ UNCHANGED <<conns, open, pending, request, mine, stating, host, made, handle, info, bypassed, overtaken>>
  BY DEF Slot!GetControl, Slot!connVars, Slot!hostVars, Slot!slotVars
<1>2. PICK w \in {"waits", "idle"} : step' = [step EXCEPT ![c] = w]
  BY DEF Slot!GetControl, Slot!Goes
<1>3. /\ step'[c] = w /\ \A d \in Slot!Conns : d # c => step'[d] = step[d]
      /\ step' \in [Slot!Conns -> {"idle", "asks", "waits", "take", "removing", "forget",
                                   "loading", "publish", "release", "answer"}]
  BY <1>2 DEF SlotInv, SlotTyped
<1>4. \A d \in Slot!Conns : AtWork(d)' <=> AtWork(d)
  <2>1. ~AtWork(c) /\ ~AtWork(c)'
    BY <1>1, <1>3 DEF AtWork
  <2> QED
    BY <2>1, <1>3 DEF AtWork
<1>5. \A d \in Slot!Conns, v \in {"take", "removing", "forget", "loading", "publish", "release", "answer"} :
        (step'[d] = v) <=> (step[d] = v)
  BY <1>1, <1>3
<1>6. OnePlugin'
  BY <1>1, <1>5 DEF SlotInv, OnePlugin
<1>7. line \in Seq([what : {"op", "state"}, conn : Slot!Conns]) /\ e \in [what : {"op", "state"}, conn : Slot!Conns]
  BY Entries DEF SlotInv, SlotTyped
<1>8. e.what = "op" /\ e.conn = c /\ \A a, b : e = Slot!Entry(a, b) => a = "op" /\ b = c
  BY Entries
<1>9. \A i \in DOMAIN line : line[i] # e
  <2>1. ~AtWork(c)
    BY <1>1 DEF AtWork
  <2> QED
    BY <2>1, <1>1, <1>8 DEF SlotInv, InLine
<1>10. \A i \in DOMAIN line :
         IF line[i].what = "op" THEN (step[line[i].conn] = "waits" \/ AtWork(line[i].conn)) /\ line[i].conn # c
         ELSE line[i].conn \in open \ stating
  <2>1. ~AtWork(c)
    BY <1>1 DEF AtWork
  <2> QED
    BY <2>1, <1>1 DEF SlotInv, InLine
<1>11. \A i \in DOMAIN line : line[i].conn \in Slot!Conns
  <2>1. line \in Seq([what : {"op", "state"}, conn : Slot!Conns])
    BY <1>7
  <2> QED
    BY <2>1, Entries, Elements
<1>12. c <= conns
  <2>1. c > conns => step[c] = "idle"
    BY DEF SlotInv, InLine
  <2>2. c \in Nat /\ conns \in Nat
    BY PluginConstants DEF Slot!Conns, SlotInv, SlotTyped, Slot!SlotConstants
  <2> QED
    BY <2>1, <2>2, <1>1
<1>13. \A d \in Slot!Conns : d > conns => d # c
  BY <1>12, PluginConstants DEF SlotInv, SlotTyped, Slot!SlotConstants, Slot!Conns
<1>14. CASE w = "waits" /\ line' = Append(line, e) /\ UNCHANGED <<last, slot_told>>
  <2>1. /\ line' \in Seq([what : {"op", "state"}, conn : Slot!Conns]) /\ line' # <<>> /\ Len(line) \in Nat
        /\ DOMAIN line' = 1 .. Len(line) + 1 /\ DOMAIN line = 1 .. Len(line)
        /\ \A i \in DOMAIN line : line'[i] = line[i] /\ i # Len(line) + 1 /\ i \in DOMAIN line'
        /\ line'[Len(line) + 1] = e
        /\ \A i \in DOMAIN line' : i \in DOMAIN line \/ i = Len(line) + 1
    BY <1>7, <1>14, Extended
  <2> HIDE DEF e
  <2>2. SlotTyped'
    BY <1>1, <1>3, <1>14, <2>1 DEF SlotInv, SlotTyped
  <2>3. \A d \in Slot!Conns : ToBeTold(d)' <=> ToBeTold(d)
    <3>1. \A d : Slot!Entry("state", d) # e
      BY <1>8
    <3> QED
      BY <1>1, <2>1, <3>1 DEF ToBeTold
  <2>4. InLine'
    <3>1. \A i, j \in DOMAIN line' : i # j => line'[i] # line'[j]
      BY <1>9, <2>1 DEF SlotInv, InLine
    <3>2. ASSUME NEW i \in DOMAIN line'
          PROVE  IF line'[i].what = "op" THEN step'[line'[i].conn] = "waits" \/ AtWork(line'[i].conn)
                 ELSE line'[i].conn \in open \ stating
      <4>1. CASE i \in DOMAIN line
        BY <4>1, <1>3, <1>10, <1>11, <2>1
      <4>2. CASE i = Len(line) + 1
        BY <4>2, <1>3, <1>8, <1>14, <2>1
      <4> QED
        BY <4>1, <4>2, <2>1
    <3>3. \A d \in Slot!Conns : AtWork(d) => line' # <<>> /\ line'[1] = Slot!Entry("op", d)
      <4>1. line # <<>> => 1 \in DOMAIN line
        BY <1>7
      <4> QED
        BY <4>1, <2>1 DEF SlotInv, InLine
    <3>4. \A d \in Slot!Conns : d > conns => step'[d] = "idle" /\ pending[d] = <<>> /\ last[d] = Slot!Nothing
      <4>1. \A d \in Slot!Conns : d > conns => step[d] = "idle" /\ pending[d] = <<>> /\ last[d] = Slot!Nothing
        BY DEF SlotInv, InLine
      <4> QED
        BY <4>1, <1>3, <1>13
    <3>5. \A i \in DOMAIN line' : line'[i].conn \in Slot!Conns
      <4>1. \A i \in DOMAIN line' : line'[i] \in [what : {"op", "state"}, conn : Slot!Conns]
        BY <2>1, Elements
      <4> QED
        BY <4>1, Entries
    <3> QED
      BY <1>1, <1>4, <1>14, <3>1, <3>2, <3>3, <3>4, <3>5 DEF InLine
  <2>5. \A d \in Slot!Conns : step'[d] \in {"idle", "asks", "waits"} <=> step[d] \in {"idle", "asks", "waits"}
    BY <1>1, <1>3
  <2>6. Knows'
    BY <1>1, <1>4, <1>5, <1>14, <2>3, <2>5, OpenAreConns DEF SlotInv, Knows
  <2>7. LastCounts'
    <3>1. \A d \in Slot!Conns : /\ (step'[d] = "idle") <=> (step[d] = "idle")
                                /\ step'[d] \in {"asks", "waits"} <=> step[d] \in {"asks", "waits"}
      BY <1>1, <1>3, <1>14
    <3> QED
      BY <1>1, <1>4, <1>5, <1>14, <3>1, OpenAreConns DEF SlotInv, LastCounts
  <2> QED
    BY <1>6, <2>2, <2>4, <2>6, <2>7 DEF SlotInv
<1>15. CASE /\ w = "idle" /\ line' = line /\ last' = [last EXCEPT ![c] = Slot!Nothing]
            /\ slot_told' = IF request[c] = Slot!Load THEN [slot_told EXCEPT ![c] = Slot!Unsure] ELSE slot_told
  <2>1. /\ last'[c] = Slot!Nothing /\ \A d \in Slot!Conns : d # c => last'[d] = last[d]
        /\ last' \in [Slot!Conns -> Slot!Requests \cup {Slot!Nothing}]
    BY <1>15 DEF SlotInv, SlotTyped
  <2>2. /\ slot_told'[c] \in {slot_told[c], Slot!Unsure} /\ \A d \in Slot!Conns : d # c => slot_told'[d] = slot_told[d]
        /\ slot_told' \in [Slot!Conns -> Nat]
    <3>1. slot_told \in [Slot!Conns -> Nat] /\ Slot!Unsure \in Nat
      BY PluginConstants DEF SlotInv, SlotTyped, Slot!Unsure, Slot!SlotConstants
    <3> QED
      BY <1>15, <3>1
  <2> HIDE DEF e
  <2>3. SlotTyped'
    BY <1>1, <1>3, <1>15, <2>1, <2>2 DEF SlotInv, SlotTyped
  <2>4. \A d \in Slot!Conns : ToBeTold(d)' <=> ToBeTold(d)
    BY <1>1, <1>15 DEF ToBeTold
  <2>5. InLine'
    <3>1. ASSUME NEW i \in DOMAIN line
          PROVE  IF line[i].what = "op" THEN step'[line[i].conn] = "waits" \/ AtWork(line[i].conn)
                 ELSE line[i].conn \in open \ stating
      BY <1>3, <1>10, <1>11
    <3>2. \A d \in Slot!Conns : d > conns => step'[d] = "idle" /\ pending[d] = <<>> /\ last'[d] = Slot!Nothing
      <4>1. \A d \in Slot!Conns : d > conns => step[d] = "idle" /\ pending[d] = <<>> /\ last[d] = Slot!Nothing
        BY DEF SlotInv, InLine
      <4> QED
        BY <4>1, <1>3, <1>13, <2>1
    <3>3. /\ \A i, j \in DOMAIN line : i # j => line[i] # line[j]
          /\ \A d \in Slot!Conns : AtWork(d) => line # <<>> /\ line[1] = Slot!Entry("op", d)
      BY DEF SlotInv, InLine
    <3> QED
      BY <1>1, <1>4, <1>11, <1>15, <3>1, <3>2, <3>3 DEF InLine
  <2>6. \A d \in Slot!Conns : step'[d] \in {"idle", "asks", "waits"} <=> step[d] \in {"idle", "asks", "waits"}
    BY <1>1, <1>3
  <2>7. Knows'
    <3>1. ASSUME NEW d \in open \ overtaken, ~ToBeTold(d), slot_told'[d] # Slot!Unsure,
                 step'[d] \in {"idle", "asks", "waits"} \/ request[d].op = "bypass"
          PROVE  slot_told'[d] = info
      <4>1. d \in Slot!Conns
        BY OpenAreConns
      <4>2. slot_told'[d] = slot_told[d]
        BY <3>1, <4>1, <2>2
      <4> QED
        BY <3>1, <4>1, <4>2, <2>6 DEF SlotInv, Knows
    <3> QED
      BY <1>1, <1>4, <1>5, <2>4, <2>6, <3>1, OpenAreConns DEF SlotInv, Knows
  <2>8. LastCounts'
    <3>1. ASSUME NEW d \in open, d # c
          PROVE  (step'[d] = step[d]) /\ last'[d] = last[d]
      BY <3>1, <1>3, <2>1, OpenAreConns
    <3> QED
      BY <1>1, <1>4, <2>1, <3>1, SlotRequests DEF SlotInv, LastCounts
  <2> QED
    BY <1>6, <2>3, <2>5, <2>7, <2>8 DEF SlotInv
<1> QED
  <2>1. CASE Slot!Goes(c, "waits") /\ line' = Append(line, e) /\ UNCHANGED <<last, slot_told>>
    <3>1. w = "waits"
      BY <2>1, <1>3 DEF Slot!Goes, SlotInv, SlotTyped
    <3> QED
      BY <2>1, <3>1, <1>14
  <2>2. CASE /\ Slot!Goes(c, "idle") /\ last' = [last EXCEPT ![c] = Slot!Nothing]
             /\ slot_told' = IF request[c] = Slot!Load THEN [slot_told EXCEPT ![c] = Slot!Unsure] ELSE slot_told
             /\ UNCHANGED line
    <3>1. w = "idle"
      BY <2>2, <1>3 DEF Slot!Goes, SlotInv, SlotTyped
    <3> QED
      BY <2>2, <3>1, <1>15
  <2> QED
    BY <2>1, <2>2 DEF Slot!GetControl

\* The lock is had: the others are overtaken, and nobody is at work on the plugin.
LEMMA BeginKeeps ==
  ASSUME SlotInv, NEW c \in Slot!Conns, Slot!Begin(c)
  PROVE  SlotInv'
<1>1. /\ step[c] = "waits" /\ line # <<>> /\ Head(line) = Slot!Entry("op", c)
      /\ last' = [d \in Slot!Conns |-> IF d = c THEN last[d] ELSE Slot!Nothing]
      /\ overtaken' = overtaken \cup (open \ {c})
      /\ UNCHANGED <<conns, open, pending, request, line, stating, host, made, handle, info, slot_told>>
  BY DEF Slot!Begin, Slot!HoldsLock, Slot!connVars, Slot!lineVars, Slot!hostVars
<1>2. mine \in [Slot!Conns -> Nat] /\ request \in [Slot!Conns -> Slot!Requests \cup {Slot!Nothing}]
      /\ bypassed \in BOOLEAN /\ Slot!Unsure \in Nat
  BY PluginConstants DEF SlotInv, SlotTyped, Slot!SlotConstants, Slot!Unsure
<1>3. PICK w \in {"release", "take"} :
        /\ step' = [step EXCEPT ![c] = w] /\ mine' \in [Slot!Conns -> Nat] /\ bypassed' \in BOOLEAN
        /\ \A d \in Slot!Conns : d # c => mine'[d] = mine[d]
        /\ w = "take" => request[c].op # "bypass"
        /\ w = "release" /\ request[c].op = "bypass" => bypassed' = request[c].bypass
        /\ w = "release" /\ request[c].op # "bypass" => mine'[c] = Slot!Unsure
  <2>1. CASE /\ request[c].op = "bypass" /\ bypassed' = request[c].bypass
             /\ Slot!Goes(c, "release") /\ UNCHANGED mine
    <3>1. request[c] \in Slot!Requests
      BY <2>1, <1>2, SlotRequests
    <3>2. request[c].bypass \in BOOLEAN
      BY <3>1, SlotRequests
    <3> QED
      BY <2>1, <3>2, <1>2 DEF Slot!Goes
  <2>2. CASE request[c].op # "bypass" /\ Slot!Goes(c, "take") /\ UNCHANGED <<bypassed, mine>>
    BY <2>2, <1>2 DEF Slot!Goes
  <2>3. CASE request[c] = Slot!Load /\ Slot!Goes(c, "release") /\ Slot!Keeps(c, Slot!Unsure) /\ UNCHANGED bypassed
    <3>1. request[c].op # "bypass"
      BY <2>3, SlotRequests
    <3> QED
      BY <2>3, <3>1, <1>2 DEF Slot!Goes, Slot!Keeps
  <2> QED
    BY <2>1, <2>2, <2>3 DEF Slot!Begin
<1>4. /\ step'[c] = w /\ \A d \in Slot!Conns : d # c => step'[d] = step[d]
      /\ step' \in [Slot!Conns -> {"idle", "asks", "waits", "take", "removing", "forget",
                                   "loading", "publish", "release", "answer"}]
  BY <1>3 DEF SlotInv, SlotTyped
<1>5. /\ last'[c] = last[c] /\ \A d \in Slot!Conns : d # c => last'[d] = Slot!Nothing
      /\ last' \in [Slot!Conns -> Slot!Requests \cup {Slot!Nothing}]
  BY <1>1 DEF SlotInv, SlotTyped
<1>6. line[1] = Slot!Entry("op", c)
  BY <1>1, LineOnce
<1>7. \A d \in Slot!Conns : ~AtWork(d)
  <2>1. \A d \in Slot!Conns : AtWork(d) => line[1] = Slot!Entry("op", d)
    BY DEF SlotInv, InLine
  <2>2. ~AtWork(c)
    BY <1>1 DEF AtWork
  <2>3. \A d : Slot!Entry("op", d) = Slot!Entry("op", c) => d = c
    BY Entries
  <2> QED
    BY <2>1, <2>2, <2>3, <1>6
<1>8. \A d \in Slot!Conns : AtWork(d)' <=> d = c
  BY <1>4, <1>7 DEF AtWork
<1>9. SlotTyped'
  BY <1>1, <1>3, <1>4, <1>5 DEF SlotInv, SlotTyped
<1>10. InLine'
  <2>1. \A i \in DOMAIN line : line[i].conn \in Slot!Conns
    <3>1. line \in Seq([what : {"op", "state"}, conn : Slot!Conns])
      BY DEF SlotInv, SlotTyped
    <3> QED
      BY <3>1, Entries, Elements
  <2>2. ASSUME NEW i \in DOMAIN line
        PROVE  IF line[i].what = "op" THEN step'[line[i].conn] = "waits" \/ line[i].conn = c
               ELSE line[i].conn \in open \ stating
    <3>1. IF line[i].what = "op" THEN step[line[i].conn] = "waits" ELSE line[i].conn \in open \ stating
      BY <2>1, <1>7 DEF SlotInv, InLine
    <3> QED
      BY <3>1, <2>1, <1>4
  <2>3. \A d \in Slot!Conns : d > conns => step'[d] = "idle" /\ pending[d] = <<>> /\ last'[d] = Slot!Nothing
    <3>1. \A d \in Slot!Conns : d > conns => step[d] = "idle" /\ pending[d] = <<>> /\ last[d] = Slot!Nothing
      BY DEF SlotInv, InLine
    <3>2. \A d \in Slot!Conns : d > conns => d # c
      BY <3>1, <1>1
    <3> QED
      BY <3>1, <3>2, <1>4, <1>5
  <2>4. \A i, j \in DOMAIN line : i # j => line[i] # line[j]
    BY DEF SlotInv, InLine
  <2> QED
    BY <1>1, <1>6, <1>8, <2>1, <2>2, <2>3, <2>4 DEF InLine
<1>11. OnePlugin'
  <2>1. \A d \in Slot!Conns : step[d] \notin {"removing", "forget", "loading", "publish"}
    BY <1>7 DEF AtWork
  <2>2. \A d \in Slot!Conns : step'[d] \notin {"removing", "forget", "loading", "publish"}
    BY <2>1, <1>4
  <2>3. \A d \in Slot!Conns : step'[d] = "take" => request[d].op # "bypass"
    BY <1>3, <1>4, <1>7 DEF AtWork
  <2> QED
    BY <1>1, <2>1, <2>2, <2>3 DEF SlotInv, OnePlugin
<1>12. Knows'
  <2>1. \A d \in open \ overtaken' : d = c /\ d \notin overtaken
    BY <1>1
  <2>2. ~ToBeTold(c) /\ c \in open \ overtaken /\ slot_told[c] # Slot!Unsure => slot_told[c] = info
    BY <1>1 DEF SlotInv, Knows
  <2>3. ToBeTold(c)' <=> ToBeTold(c)
    BY <1>1 DEF ToBeTold
  <2> QED
    BY <1>1, <1>3, <1>4, <1>8, <2>1, <2>2, <2>3 DEF Knows
<1>13. LastCounts'
  <2>1. \A d \in open : last'[d] # Slot!Nothing => d = c
    BY <1>5, OpenAreConns
  <2>2. c \in open /\ last[c] # Slot!Nothing =>
          /\ pending[c] # <<>> => pending[c][Len(pending[c])] = last[c]
          /\ pending[c] = <<>> => request[c] = last[c]
    BY <1>1 DEF SlotInv, LastCounts
  <2> QED
    BY <1>1, <1>3, <1>4, <1>5, <1>8, <2>1, <2>2, OpenAreConns, SlotRequests DEF LastCounts
<1> QED
  BY <1>9, <1>10, <1>11, <1>12, <1>13 DEF SlotInv

\* The answer: what is loaded now, unless it was only a bypass.
LEMMA AnswerKeeps ==
  ASSUME SlotInv, NEW c \in Slot!Conns, Slot!Answer(c)
  PROVE  SlotInv'
<1>1. /\ step[c] = "answer" /\ step' = [step EXCEPT ![c] = "idle"] /\ mine' = [mine EXCEPT ![c] = 0]
      /\ slot_told' = IF request[c].op = "bypass" THEN slot_told ELSE [slot_told EXCEPT ![c] = mine[c]]
      /\ UNCHANGED <<conns, open, pending, request, line, stating, host, made, handle, info, bypassed,
                     last, overtaken>>
  BY DEF Slot!Answer, Slot!Goes, Slot!Keeps, Slot!None, Slot!connVars, Slot!lineVars, Slot!hostVars, Slot!slotVars
<1>2. /\ step'[c] = "idle" /\ \A d \in Slot!Conns : d # c => step'[d] = step[d]
      /\ step' \in [Slot!Conns -> {"idle", "asks", "waits", "take", "removing", "forget",
                                   "loading", "publish", "release", "answer"}]
  BY <1>1 DEF SlotInv, SlotTyped
<1>3. mine \in [Slot!Conns -> Nat] /\ slot_told \in [Slot!Conns -> Nat] /\ mine[c] \in Nat
  BY DEF SlotInv, SlotTyped
<1>4. mine' \in [Slot!Conns -> Nat] /\ \A d \in Slot!Conns : d # c => mine'[d] = mine[d]
  BY <1>1, <1>3
<1>5. /\ slot_told' \in [Slot!Conns -> Nat] /\ \A d \in Slot!Conns : d # c => slot_told'[d] = slot_told[d]
      /\ request[c].op = "bypass" => slot_told'[c] = slot_told[c]
      /\ request[c].op # "bypass" => slot_told'[c] = mine[c]
  BY <1>1, <1>3
<1>6. \A d \in Slot!Conns : (AtWork(d)' <=> AtWork(d)) /\ (ToBeTold(d)' <=> ToBeTold(d))
  <2>1. ~AtWork(c) /\ ~AtWork(c)'
    BY <1>1, <1>2 DEF AtWork
  <2>2. \A d \in Slot!Conns : AtWork(d)' <=> AtWork(d)
    BY <2>1, <1>2 DEF AtWork
  <2>3. \A d \in Slot!Conns : ToBeTold(d)' <=> ToBeTold(d)
    BY <1>1 DEF ToBeTold
  <2> QED
    BY <2>2, <2>3
<1>7. SlotTyped'
  BY <1>1, <1>2, <1>4, <1>5 DEF SlotInv, SlotTyped
<1>8. InLine'
  <2>1. \A i \in DOMAIN line : line[i].conn \in Slot!Conns
    <3>1. line \in Seq([what : {"op", "state"}, conn : Slot!Conns])
      BY DEF SlotInv, SlotTyped
    <3> QED
      BY <3>1, Entries, Elements
  <2>2. \A d \in Slot!Conns : (step'[d] = "waits") <=> (step[d] = "waits")
    BY <1>1, <1>2
  <2>3. \A d \in Slot!Conns : d > conns => step'[d] = "idle" /\ pending[d] = <<>> /\ last[d] = Slot!Nothing
    <3>1. \A d \in Slot!Conns : d > conns => step[d] = "idle" /\ pending[d] = <<>> /\ last[d] = Slot!Nothing
      BY DEF SlotInv, InLine
    <3> QED
      BY <3>1, <1>2
  <2> QED
    BY <1>1, <1>6, <2>1, <2>2, <2>3 DEF SlotInv, InLine
<1>9. \A d \in Slot!Conns, v \in {"take", "removing", "forget", "loading", "publish"} :
        ((step'[d] = v) <=> (step[d] = v)) /\ (step'[d] = v => d # c)
  BY <1>1, <1>2
<1>10. OnePlugin'
  BY <1>1, <1>4, <1>9 DEF SlotInv, OnePlugin
<1>11. Knows'
  <2>1. ASSUME NEW d \in open \ overtaken, step'[d] \in {"release", "answer"}, request[d].op # "bypass",
               mine'[d] # Slot!Unsure
        PROVE  mine'[d] = info
    <3>1. d \in Slot!Conns /\ d # c
      BY <2>1, <1>2, OpenAreConns
    <3> QED
      BY <2>1, <3>1, <1>2, <1>4 DEF SlotInv, Knows
  <2>2. ASSUME NEW d \in open \ overtaken, ~ToBeTold(d), slot_told'[d] # Slot!Unsure,
               step'[d] \in {"idle", "asks", "waits"} \/ request[d].op = "bypass"
        PROVE  slot_told'[d] = info
    <3>1. CASE d = c
      BY <2>2, <3>1, <1>1, <1>5 DEF SlotInv, Knows
    <3>2. CASE d # c
      BY <2>2, <3>2, <1>2, <1>5, OpenAreConns DEF SlotInv, Knows
    <3> QED
      BY <3>1, <3>2
  <2>3. \A d \in Slot!Conns : AtWork(d)' =>
          \A a \in open \ {d} : a \in overtaken \/ (ToBeTold(a) /\ step'[a] \in {"idle", "asks", "waits"})
    BY <1>2, <1>6, OpenAreConns DEF SlotInv, Knows
  <2> QED
    BY <1>1, <1>6, <2>1, <2>2, <2>3, OpenAreConns DEF Knows
<1>12. LastCounts'
  <2>1. \A d \in Slot!Conns : /\ step'[d] # "idle" => step[d] # "idle"
                              /\ step'[d] \in {"release", "answer", "idle"} => step[d] \in {"release", "answer", "idle"}
                              /\ step[d] \in {"asks", "waits"} => step'[d] \in {"asks", "waits"}
    BY <1>1, <1>2
  <2> QED
    BY <1>1, <1>6, <2>1, OpenAreConns DEF SlotInv, LastCounts
<1> QED
  BY <1>7, <1>8, <1>10, <1>11, <1>12 DEF SlotInv

\* At first nobody is connected, and a plugin is left by a session before, or none.
LEMMA SlotStarts == Slot!Init => SlotInv
<1> SUFFICES ASSUME Slot!Init
             PROVE  SlotInv
  OBVIOUS
<1>1. /\ made \in 0 .. 1 /\ host = 1 .. made /\ handle = made /\ info = made
      /\ conns = 0 /\ open = {} /\ pending = [c \in Slot!Conns |-> <<>>]
      /\ request = [c \in Slot!Conns |-> Slot!Nothing] /\ step = [c \in Slot!Conns |-> "idle"]
      /\ mine = [c \in Slot!Conns |-> 0] /\ line = <<>> /\ stating = {} /\ bypassed = FALSE
      /\ last = [c \in Slot!Conns |-> Slot!Nothing] /\ slot_told = [c \in Slot!Conns |-> Slot!Unsure]
  BY DEF Slot!Init, Slot!None
<1>2. SlotTyped
  <2>1. MaxConns \in Nat /\ Slot!Unsure \in Nat
    BY PluginConstants DEF Slot!SlotConstants, Slot!Unsure
  <2>2. pending \in [Slot!Conns -> Seq(Slot!Requests)]
    <3>1. <<>> \in Seq(Slot!Requests)
      OBVIOUS
    <3> QED
      BY <1>1, <3>1, Zenon
  <2>3. /\ request \in [Slot!Conns -> Slot!Requests \cup {Slot!Nothing}]
        /\ last \in [Slot!Conns -> Slot!Requests \cup {Slot!Nothing}]
    BY <1>1
  <2>4. step \in [Slot!Conns -> {"idle", "asks", "waits", "take", "removing", "forget",
                                 "loading", "publish", "release", "answer"}]
    BY <1>1
  <2>5. mine \in [Slot!Conns -> Nat] /\ slot_told \in [Slot!Conns -> Nat]
    BY <1>1, <2>1
  <2>6. line \in Seq([what : {"op", "state"}, conn : Slot!Conns])
    <3>1. \A S : <<>> \in Seq(S)
      OBVIOUS
    <3> QED
      BY <1>1, <3>1, Zenon
  <2>7. made \in Nat /\ handle \in Nat /\ info \in Nat /\ bypassed \in BOOLEAN
    <3>1. made \in Nat
      BY <1>1
    <3> QED
      BY <1>1, <3>1
  <2>8. conns \in 0 .. MaxConns /\ open \subseteq 1 .. conns /\ stating \subseteq open
    BY <1>1, <2>1
  <2> QED
    BY <2>2, <2>3, <2>4, <2>5, <2>6, <2>7, <2>8 DEF SlotTyped
<1>3. \A c \in Slot!Conns : step[c] = "idle" /\ ~AtWork(c) /\ pending[c] = <<>> /\ last[c] = Slot!Nothing
  BY <1>1 DEF AtWork
<1>4. InLine
  <2>1. DOMAIN line = {}
    BY <1>1
  <2> QED
    BY <1>3, <2>1, Zenon DEF InLine
<1>5. OnePlugin
  <2>1. host = {handle} \ {0}
    <3>1. CASE made = 0
      BY <1>1, <3>1
    <3>2. CASE made = 1
      BY <1>1, <3>2
    <3> QED
      BY <1>1, <3>1, <3>2
  <2> QED
    BY <1>1, <1>3, <2>1 DEF OnePlugin
<1>6. Knows /\ LastCounts
  BY <1>1, <1>3 DEF Knows, LastCounts
<1> QED
  BY <1>2, <1>4, <1>5, <1>6 DEF SlotInv

\* Every step of the slot keeps the invariant.
LEMMA SlotStep == SlotInv /\ [Slot!Next]_(Slot!vars) => SlotInv'
<1> SUFFICES ASSUME SlotInv, [Slot!Next]_(Slot!vars)
             PROVE  SlotInv'
  OBVIOUS
<1>1. CASE UNCHANGED Slot!vars
  <2>1. UNCHANGED <<conns, open, pending, request, step, mine, line, stating, host, made, handle, info,
                    bypassed, last, slot_told, overtaken>>
    BY <1>1 DEF Slot!vars, Slot!connVars, Slot!workerVars, Slot!lineVars, Slot!hostVars, Slot!slotVars, Slot!histVars
  <2>2. SlotTyped'
    BY <2>1 DEF SlotInv, SlotTyped
  <2>3. OnePlugin'
    BY <2>1 DEF SlotInv, OnePlugin
  <2>4. (InLine /\ Knows /\ LastCounts)'
    BY <2>1 DEF SlotInv, InLine, Knows, LastCounts, AtWork, ToBeTold
  <2> QED
    BY <2>2, <2>3, <2>4 DEF SlotInv
<1>2. CASE Slot!Connect
  BY <1>2, ConnectKeeps
<1>3. ASSUME NEW c \in Slot!Conns, Slot!Worker(c)
      PROVE  SlotInv'
  <2>1. CASE Slot!PickUp(c) \/ Slot!GetControl(c) \/ Slot!Begin(c)
    BY <2>1, PickUpKeeps, GetControlKeeps, BeginKeeps
  <2>2. CASE Slot!Take(c) \/ Slot!Remove(c) \/ Slot!Forget(c)
    BY <2>2, TakeKeeps, RemoveKeeps, ForgetKeeps
  <2>3. CASE Slot!LoadNative(c) \/ Slot!Publish(c)
    BY <2>3, LoadNativeKeeps, PublishKeeps
  <2>4. CASE Slot!Release(c) \/ Slot!Answer(c)
    BY <2>4, ReleaseKeeps, AnswerKeeps
  <2> QED
    BY <2>1, <2>2, <2>3, <2>4, <1>3 DEF Slot!Worker
<1>4. ASSUME NEW c \in Slot!Conns, Slot!Disconnect(c) \/ Slot!JoinState(c) \/ Slot!TellState(c)
      PROVE  SlotInv'
  BY <1>4, DisconnectKeeps, JoinStateKeeps, TellStateKeeps
<1>5. ASSUME NEW c \in Slot!Conns, NEW r \in Slot!Requests, Slot!Ask(c, r)
      PROVE  SlotInv'
  BY <1>5, AskKeeps
<1> QED
  BY <1>1, <1>2, <1>3, <1>4, <1>5 DEF Slot!Next

\* What the invariant says of the slot at rest, and of who connected last.
LEMMA SlotIsAsSaid == SlotInv => SlotIsTrue
<1> SUFFICES ASSUME SlotInv
             PROVE  SlotIsTrue
  OBVIOUS
<1>1. \A a, b \in host : a = b
  <2>1. host = {} \/ \E x : host = {x}
    BY DEF SlotInv, OnePlugin
  <2> QED
    BY <2>1
<1>2. ~Slot!AtWork => handle = info /\ host = {handle} \ {Slot!None}
  BY DEF SlotInv, OnePlugin, Slot!AtWork, Slot!None
<1>3. Slot!StudioKnows
  <2> SUFFICES ASSUME conns \in open, Slot!Quiet
               PROVE  /\ slot_told[conns] # Slot!Unsure /\ conns \notin overtaken => slot_told[conns] = info
                      /\ last[conns].op = "bypass" => bypassed = last[conns].bypass
    BY DEF Slot!StudioKnows
  <2>1. conns \in Slot!Conns
    BY OpenAreConns
  <2>2. step[conns] = "idle" /\ line = <<>> /\ stating = {} /\ pending[conns] = <<>>
    BY <2>1 DEF Slot!Quiet
  <2>3. ~ToBeTold(conns)
    <3>1. \A i : i \notin DOMAIN line
      <4>1. \A i : i \notin DOMAIN <<>>
        OBVIOUS
      <4> QED
        BY <4>1, <2>2, Zenon
    <3> QED
      BY <3>1, <2>2 DEF ToBeTold
  <2>4. last[conns].op = "bypass" => last[conns] # Slot!Nothing
    BY SlotRequests
  <2> QED
    BY <2>2, <2>3, <2>4 DEF SlotInv, Knows, LastCounts
<1>4. Slot!SlotIsTrue
  BY <1>1, <1>2 DEF Slot!SlotIsTrue
<1> QED
  BY <1>3, <1>4 DEF SlotIsTrue

\* The plugin the sound uses, the one the studio is told of and the one the host keeps
\* (PluginControl load, unload, set_bypass under plugin_ops_lock) agree as soon as no
\* operation is at work, and whoever connected last is told what is loaded.
THEOREM TheSlotIsTrue == Slot!Spec => []SlotIsTrue
<1>1. Slot!Spec => []SlotInv
  BY SlotStarts, SlotStep, PTL DEF Slot!Spec
<1> QED
  BY <1>1, SlotIsAsSaid, PTL
===============================================================================
