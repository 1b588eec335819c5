----------------------------- MODULE PluginScan -----------------------------
(***************************************************************************)
(* The inventory of the musician's plugins (plugin_scan/).  A scan thread  *)
(* of the agent reads the cache, hands what it does not know to a          *)
(* disposable worker process, listens to it with a timeout, and at each    *)
(* death of the worker condemns the item that had begun and not ended,     *)
(* then starts another worker on the rest.                                 *)
(*                                                                         *)
(* A file's fingerprint is its version; what a plugin does when it is      *)
(* loaded is its nature.  The worker's stdout, the thread that pumps it    *)
(* and the channel are one FIFO, `pipe`; its stdin is the list `todo`.     *)
(* The lists of items are sets, taken in any order: it is the directory's, *)
(* and nothing rests on it.                                                *)
(***************************************************************************)
EXTENDS Naturals, Sequences, FiniteSetsExt

CONSTANTS
  Items,          \* .vst3 files on the disk
  MAX_SESSIONS,   \* worker processes one scan may use
  MaxScans,       \* bound: scans the musician asks for
  MaxUpdates,     \* bound: updates of a plugin on the disk
  MaxFailures     \* bound: deaths and failures that are no plugin's fault

ASSUME ScanAssumption ==
  /\ Items # {} /\ IsFiniteSet(Items)
  /\ {MAX_SESSIONS, MaxScans, MaxUpdates, MaxFailures} \subseteq Nat

Nobody == "nobody"
ASSUME NobodyAssumption == Nobody \notin Items

(* sound: describes itself in time.  empty: loads and has nothing to list.  *)
(* slow: describes itself, maybe after the timeout.  crash: kills the       *)
(* process while it is loaded.  late: kills it after describing itself,     *)
(* from a thread of its own.  hang: never comes back.                       *)
Natures == {"sound", "empty", "slow", "crash", "late", "hang"}

VARIABLES
  version,   \* the fingerprint of each file
  nature,    \* what each plugin does when it is loaded
  cache,     \* the cache file: entries and blocklist
  list,      \* PluginScanCache: a ScanResult, or Scanning
  job,       \* the scan or inventory thread
  session,   \* Session: one worker's list as the coordinator sees it
  worker,    \* the worker process and its pipe
  told,      \* history: the crashes the studio was told of, by fingerprint
  boots,     \* times the agent was started again
  scans, failures

vars == <<version, nature, cache, list, job, session, worker, told, boots, scans, failures>>
-----------------------------------------------------------------------------
(* Records *)

Unknown == [fp |-> 0, seen |-> 0]       \* no entry, or no record: fp is 0
Versions == 0 .. MaxUpdates + 1        \* a file's own version is at least 1

EmptyCache ==
  [entries |-> [i \in Items |-> Unknown], blocked |-> [i \in Items |-> [fp |-> 0, reason |-> ""]]]

NoResult == [plugins |-> {}, blocked |-> {}, pending |-> 0]
Scanning == [scanning |-> TRUE, result |-> NoResult]
Ready(result) == [scanning |-> FALSE, result |-> result]

NoJob ==
  [step |-> "none", kind |-> "none", fps |-> [i \in Items |-> 0],
   reused |-> {}, retained |-> {}, remaining |-> {}, sessions |-> 0,
   plugins |-> {}, blocked |-> {}, pending |-> 0]

Job(kind) == [NoJob EXCEPT !.step = "reconcile", !.kind = kind]

NewSession(items) == [pending |-> items, current |-> Nobody, plugins |-> {}, progressed |-> FALSE]
NoSession == NewSession({})

NoWorker == [alive |-> FALSE, doing |-> Nobody, described |-> FALSE, todo |-> {}, pipe |-> <<>>]

ItemsOf(set) == {x.item : x \in set}
-----------------------------------------------------------------------------
(* The cache (cache.rs) *)

(* `reconcile`: an entry with the same fingerprint is reused, a crash on    *)
(* record with the same fingerprint stays blocked, all else is scanned.     *)
IsReused(i, prior, fps) == prior.entries[i].fp = fps[i]

IsRetained(i, prior, fps) ==
  /\ ~IsReused(i, prior, fps)
  /\ prior.blocked[i].reason = "crash"
  /\ prior.blocked[i].fp = fps[i]

Plan(j, prior) ==
  LET reused   == {i \in Items : IsReused(i, prior, j.fps)}
      retained == {i \in Items : IsRetained(i, prior, j.fps)}
  IN [j EXCEPT !.reused    = {[item |-> i, seen |-> prior.entries[i].seen] : i \in reused},
               !.retained  = {[item |-> i, reason |-> "crash"] : i \in retained},
               !.remaining = Items \ (reused \cup retained)]

(* `build_cache_file`: an entry for each item that has plugins, old or new,  *)
(* and a record for each condemned one.                                     *)
CacheOf(plugins, blocked, fps) ==
  [entries |-> [i \in Items |->
     IF i \in ItemsOf(plugins)
     THEN [fp |-> fps[i], seen |-> (CHOOSE p \in plugins : p.item = i).seen]
     ELSE Unknown],
   blocked |-> [i \in Items |->
     IF i \in ItemsOf(blocked)
     THEN [fp |-> fps[i], reason |-> (CHOOSE b \in blocked : b.item = i).reason]
     ELSE [fp |-> 0, reason |-> ""]]]

(* Wrong form: a blocklist of new crashes only.                             *)
CacheOfNewCrashes(j) == CacheOf(j.reused \cup j.plugins, j.blocked, j.fps)

(* The fingerprints are those of the discovery, before any plugin was run.  *)
CacheFile(j) == CacheOf(j.reused \cup j.plugins, j.retained \cup j.blocked, j.fps)
-----------------------------------------------------------------------------
(* Session (session.rs) *)

Began(s, i) == [s EXCEPT !.current = i]
Described(s, p) == [s EXCEPT !.plugins = @ \cup {p}]
(* Wrong form: the item stays the current one until the next begins. *)
EndedKeeping(s, i) == [s EXCEPT !.progressed = TRUE, !.pending = @ \ {i}]

Ended(s, i) ==
  [s EXCEPT !.current = Nobody, !.progressed = TRUE, !.pending = @ \ {i}]

OnEvent(s, e) ==
  CASE e.kind = "begin"  -> Began(s, e.item)
    [] e.kind = "plugin" -> Described(s, [item |-> e.item, seen |-> e.seen])
    [] e.kind = "end"    -> Ended(s, e.item)

IsComplete(s) == s.pending = {} /\ s.current = Nobody

(* `close`: the item begun and not ended is condemned, and leaves the rest. *)
Close(s, reason) ==
  [blocked |-> IF reason = "" \/ s.current = Nobody THEN {}
               ELSE {[item |-> s.current, reason |-> reason]},
   remaining |-> IF reason = "" THEN s.pending ELSE s.pending \ {s.current}]
-----------------------------------------------------------------------------
(* The worker process (worker.rs) *)

Emit(w, kind, i) == [w EXCEPT !.pipe = Append(@, [kind |-> kind, item |-> i, seen |-> version[i]])]

WorkerOnly == UNCHANGED <<version, nature, cache, list, job, session, told, boots, scans, failures>>

Begin ==
  /\ worker.alive /\ worker.doing = Nobody
  /\ \E i \in worker.todo :
       worker' = [Emit(worker, "begin", i)
                    EXCEPT !.doing = i, !.todo = @ \ {i}, !.described = FALSE]
  /\ WorkerOnly

(* The plugin is loaded and gives its description. *)
Describe ==
  LET i == worker.doing IN
  /\ worker.alive /\ i # Nobody /\ ~worker.described
  /\ nature[i] \in {"sound", "empty", "slow", "late"}
  /\ worker' = [(IF nature[i] = "empty" THEN worker ELSE Emit(worker, "plugin", i))
                  EXCEPT !.described = TRUE]
  /\ WorkerOnly

End ==
  /\ worker.alive /\ worker.doing # Nobody /\ worker.described
  /\ worker' = [Emit(worker, "end", worker.doing) EXCEPT !.doing = Nobody]
  /\ WorkerOnly

(* A native crash while a plugin is loaded, or just after. *)
Crash ==
  /\ worker.alive /\ worker.doing # Nobody
  /\ \/ nature[worker.doing] = "crash"
     \/ nature[worker.doing] = "late" /\ worker.described
  /\ worker' = [worker EXCEPT !.alive = FALSE]
  /\ WorkerOnly

(* The process dies between two plugins: no plugin's fault. *)
DieIdle ==
  /\ worker.alive /\ worker.doing = Nobody /\ failures < MaxFailures
  /\ worker' = [worker EXCEPT !.alive = FALSE]
  /\ failures' = failures + 1
  /\ UNCHANGED <<version, nature, cache, list, job, session, told, boots, scans>>
-----------------------------------------------------------------------------
(* The scan thread (coordinator.rs, mod.rs) *)

ThreadOnly == UNCHANGED <<version, nature, told, boots, scans, failures>>

(* `reconcile_with_disk`: fingerprints, cache, plan.  The boot's inventory  *)
(* counts what it would scan and stops there.                               *)
Reconcile ==
  /\ job.step = "reconcile"
  /\ LET prior == IF job.kind = "forced" THEN EmptyCache ELSE cache
         plan  == Plan([job EXCEPT !.fps = version], prior)
     IN job' = IF job.kind = "inventory"
               THEN [plan EXCEPT !.step = "publish", !.pending = Cardinality(plan.remaining)]
               ELSE [plan EXCEPT !.step = "next"]
  /\ UNCHANGED <<cache, list, session, worker>> /\ ThreadOnly

NextWorker ==
  /\ job.step = "next" /\ job.remaining # {} /\ job.sessions < MAX_SESSIONS
  /\ job' = [job EXCEPT !.step = "pump", !.sessions = @ + 1]
  /\ session' = NewSession(job.remaining)
  /\ worker' = [NoWorker EXCEPT !.alive = TRUE, !.todo = job.remaining]
  /\ UNCHANGED <<cache, list>> /\ ThreadOnly

(* The list is finished, or the sessions are used up. *)
Stop ==
  /\ job.step = "next" /\ (job.remaining = {} \/ job.sessions >= MAX_SESSIONS)
  /\ job' = [job EXCEPT !.step = "save"]
  /\ UNCHANGED <<cache, list, session, worker>> /\ ThreadOnly

SpawnFails ==
  /\ job.step = "next" /\ job.remaining # {} /\ job.sessions < MAX_SESSIONS
  /\ failures < MaxFailures
  /\ failures' = failures + 1
  /\ job' = [job EXCEPT !.step = "save"]
  /\ UNCHANGED <<version, nature, cache, list, session, worker, told, boots, scans>>

(* The session is closed with what it had: a session that neither condemned *)
(* nor finished anything ends the scan.                                     *)
Closed(s, reason) ==
  LET end == Close(s, reason) IN
  [job EXCEPT
     !.step = IF end.blocked = {} /\ ~s.progressed THEN "save" ELSE "next",
     !.plugins = @ \cup s.plugins,
     !.blocked = @ \cup end.blocked,
     !.remaining = end.remaining]

(* The last `end` of the list: the worker is killed at once, its own exit   *)
(* is not waited for.                                                       *)
Hear ==
  /\ job.step = "pump" /\ worker.pipe # <<>>
  /\ LET s == OnEvent(session, Head(worker.pipe)) IN
       IF IsComplete(s)
       THEN job' = Closed(s, "") /\ session' = NoSession /\ worker' = NoWorker
       ELSE job' = job /\ session' = s /\ worker' = [worker EXCEPT !.pipe = Tail(@)]
  /\ UNCHANGED <<cache, list>> /\ ThreadOnly

(* The pipe is closed and read out: the process is dead. *)
Disconnected ==
  /\ job.step = "pump" /\ ~worker.alive /\ worker.pipe = <<>>
  /\ job' = Closed(session, "crash") /\ session' = NoSession /\ worker' = NoWorker
  /\ UNCHANGED <<cache, list>> /\ ThreadOnly

(* Nothing heard for ITEM_TIMEOUT: only a plugin that hangs or is slow is   *)
(* silent that long.  The worker may still speak before it is killed.       *)
TimeOut ==
  /\ job.step = "pump" /\ worker.alive /\ worker.pipe = <<>>
  /\ worker.doing # Nobody /\ nature[worker.doing] \in {"hang", "slow"}
  /\ job' = [job EXCEPT !.step = "kill"]
  /\ UNCHANGED <<cache, list, session, worker>> /\ ThreadOnly

Kill ==
  /\ job.step = "kill"
  /\ job' = Closed(session, "timeout") /\ session' = NoSession /\ worker' = NoWorker
  /\ UNCHANGED <<cache, list>> /\ ThreadOnly

Save ==
  /\ job.step = "save"
  /\ cache' = CacheFile(job)
  /\ job' = [job EXCEPT !.step = "publish"]
  /\ UNCHANGED <<list, session, worker>> /\ ThreadOnly

(* A scan always publishes pending = 0; the inventory, what it counted. *)
Publish ==
  /\ job.step = "publish"
  /\ list' = Ready([plugins |-> job.reused \cup job.plugins,
                    blocked |-> job.retained \cup job.blocked,
                    pending |-> job.pending])
  /\ told' = told \cup {<<b.item, job.fps[b.item]>> :
                          b \in {c \in job.retained \cup job.blocked : c.reason = "crash"}}
  /\ job' = NoJob
  /\ UNCHANGED <<version, nature, cache, session, worker, boots, scans, failures>>

(* The thread panics while it builds the worker's command; its guard gives  *)
(* an empty list back.                                                      *)
Panic ==
  /\ job.step = "next" /\ failures < MaxFailures
  /\ failures' = failures + 1
  /\ list' = Ready(NoResult)
  /\ job' = NoJob
  /\ UNCHANGED <<version, nature, cache, session, worker, told, boots, scans>>
-----------------------------------------------------------------------------
(* The musician, the disk and the agent's own death *)

Asked(kind) ==
  /\ scans < MaxScans
  /\ scans' = scans + 1
  /\ list' = Scanning
  /\ job' = Job(kind)
  /\ told' = IF kind = "forced" THEN {} ELSE told
  /\ UNCHANGED <<version, nature, cache, session, worker, boots, failures>>

(* Wrong form: a second request starts a second scan. *)
AskAnyway(kind) == Asked(kind)

(* `begin_scan` refuses while the list is in progress. *)
Ask(kind) == ~list.scanning /\ Asked(kind)

Update(i) ==
  /\ MapThenSumSet(LAMBDA k : version[k] - 1, Items) < MaxUpdates
  /\ version' = [version EXCEPT ![i] = @ + 1]
  /\ UNCHANGED <<nature, cache, list, job, session, worker, told, boots, scans, failures>>

(* The agent dies, its worker with it, and is started again. *)
Restart ==
  /\ failures < MaxFailures
  /\ failures' = failures + 1
  /\ boots' = boots + 1
  /\ list' = Scanning
  /\ job' = Job("inventory")
  /\ session' = NoSession
  /\ worker' = NoWorker
  /\ UNCHANGED <<version, nature, cache, told, scans>>
-----------------------------------------------------------------------------
Init ==
  /\ version = [i \in Items |-> 1]
  /\ nature \in [Items -> Natures]
  /\ cache = EmptyCache
  /\ list = Scanning
  /\ job = Job("inventory")
  /\ session = NoSession
  /\ worker = NoWorker
  /\ told = {}
  /\ boots = 0 /\ scans = 0 /\ failures = 0

Worker == Begin \/ Describe \/ End \/ Crash

Thread ==
  \/ Reconcile \/ NextWorker \/ Stop \/ SpawnFails
  \/ Hear \/ Disconnected \/ TimeOut \/ Kill
  \/ Save \/ Publish \/ Panic

World ==
  \/ DieIdle \/ Restart
  \/ \E kind \in {"new", "forced"} : Ask(kind)
  \/ \E i \in Items : Update(i)

Next == Worker \/ Thread \/ World

Spec == Init /\ [][Next]_vars

(* The worker's process and the scan's thread run; a silence is noticed.    *)
FairSpec == Spec /\ WF_vars(Worker) /\ WF_vars(Thread)
-----------------------------------------------------------------------------
(* Properties *)

TypeOK ==
  /\ version \in [Items -> Versions \ {0}]
  /\ nature \in [Items -> Natures]
  /\ cache.entries \in [Items -> [fp : Versions, seen : Versions]]
  /\ cache.blocked \in [Items -> [fp : Versions, reason : {"", "crash", "timeout"}]]
  /\ list.scanning = (job.step # "none")
  /\ job.kind \in {"none", "inventory", "new", "forced"}
  /\ job.step \in {"none", "reconcile", "next", "pump", "kill", "save", "publish"}
  /\ job.sessions \in 0 .. MAX_SESSIONS
  /\ job.remaining \subseteq Items /\ session.pending \subseteq Items
  /\ session.current \in Items \cup {Nobody}
  /\ worker.doing \in Items \cup {Nobody}
  /\ worker.alive => job.step \in {"pump", "kill"}

(* Only a plugin that does harm is condemned, whatever the worker died of   *)
(* and wherever it died: one that describes itself in time never is.        *)
OnlyTheGuilty ==
  \A b \in job.blocked \cup job.retained \cup list.result.blocked :
    nature[b.item] \notin {"sound", "empty"}

(* What the cache holds under a fingerprint was read from the file that has *)
(* it, even when the plugin was updated while the scan ran: reconcile may   *)
(* trust a fingerprint that matches.                                        *)
CacheIsFresh ==
  \A i \in Items : cache.entries[i].fp = version[i] => cache.entries[i].seen = version[i]

(* Of the inventory: only what does harm is condemned, and no entry of the  *)
(* cache vouches for a version that was not seen.                           *)
Condemned == OnlyTheGuilty /\ CacheIsFresh

(* A plugin whose crash the studio was told of is not loaded again behind   *)
(* the musician's back, whatever scans and deaths of the agent lie between, *)
(* until its file changes or everything is scanned again on request.        *)
CrashIsRemembered ==
  [][\A i \in Items :
       (worker'.doing = i /\ worker.doing # i) => <<i, job.fps[i]>> \notin told]_vars

(* The scan implements its promise: the verdict on an item is its entry in  *)
(* the list once published and, while the scan runs, what is on record of   *)
(* it: condemned, or described and ended.                                   *)
Verdict(plugins, blocked) ==
  [i \in Items |-> IF i \in ItemsOf(blocked) THEN "condemned"
                   ELSE IF i \in ItemsOf(plugins) THEN "sound" ELSE "none"]

EndedItems == {p \in session.plugins : p.item \notin session.pending}

Judged ==
  IF list.scanning
  THEN Verdict(job.reused \cup job.plugins \cup
                 (IF job.step \in {"pump", "kill"} THEN EndedItems ELSE {}),
               job.retained \cup job.blocked)
  ELSE Verdict(list.result.plugins, list.result.blocked)

Promise == INSTANCE ScanPromise
             WITH scanning <- list.scanning, verdict <- Judged

KeepsPromise == Promise!Spec
=============================================================================
