---------------------------- MODULE AsioHostProofs ----------------------------
(***************************************************************************)
(* What AsioHost promises of the driver, whatever calls it refuses and     *)
(* whenever it calls back: it is loaded once, touched and dropped as its   *)
(* makers ask, heard while a host is open and freed once all is closed.    *)
(*                                                                         *)
(* The invariant, while the driver has not been loaded twice.  The holder  *)
(* of the lock is inside one of its scripts (OneScript); the queue holds   *)
(* one job of his and one of the studio's at most, only the first has      *)
(* begun, and it is the job of the item he waits for (Jobs); what the      *)
(* script has closed is closed (Ready); a live instance has the driver,    *)
(* and those who could load it know of it: the flag that keeps the list    *)
(* from the driver is up, or the job is not over (Owned); a callback is    *)
(* registered over the buffers of a live instance (Registered).  For what  *)
(* is told of the driver: a host that no job is at is running and heard    *)
(* (Heard), and what is open is the session's, the warm driver's, or being *)
(* closed (Released).                                                      *)
(***************************************************************************)
EXTENDS MCMachine, Integers, Sequences, TLAPS

-----------------------------------------------------------------------------
(* The calls.                                                              *)

Natives == [loaded : Owners \cup {"none"}, buffers : Owners \cup {"none"}, running : BOOLEAN, failed : BOOLEAN]
Calls == [s : DriverStates, n : Natives, ok : BOOLEAN]

\* What a call leaves as it was: the instance and who loaded the driver.
Keeps(x, y) ==
  /\ y \in Calls /\ y.s # "none" /\ y.n.loaded = x.n.loaded
  /\ x.ok /\ ~y.ok => y.n.failed

\* A call that the driver refuses leaves the instance and its buffers.
LEMMA RefusedKeeps ==
  ASSUME NEW x \in Calls, x.s # "none"
  PROVE  Keeps(x, Refused(x)) /\ ~Refused(x).ok /\ Refused(x).n.failed /\ Refused(x).n.buffers = x.n.buffers
<1> DEFINE m == [x.n EXCEPT !.failed = TRUE]
<1>1. x.n \in Natives  BY DEF Calls
<1>2. m \in Natives /\ m.failed /\ m.loaded = x.n.loaded /\ m.buffers = x.n.buffers
  BY <1>1 DEF Natives
<1>3. PICK y : y = Refused(x)  OBVIOUS
<1>4. y = [s |-> x.s, n |-> m, ok |-> FALSE]
  BY <1>3 DEF Refused, Calls
<1> HIDE DEF m
<1>5. y.s = x.s /\ y.n = m /\ ~y.ok /\ y \in Calls  BY <1>2, <1>4 DEF Calls
<1>6. Keeps(x, y) /\ ~y.ok /\ y.n.failed /\ y.n.buffers = x.n.buffers  BY <1>2, <1>5 DEF Keeps
<1> QED  BY <1>3, <1>6

\* DriverState::stop keeps the instance and its buffers.
LEMMA StopKeeps ==
  ASSUME NEW x \in Calls, x.s # "none", NEW y \in Stop(x)
  PROVE  Keeps(x, y) /\ y.n.buffers = x.n.buffers /\ (y.ok => x.ok)
<1>1. CASE x.s # "Running"  BY <1>1 DEF Stop, Keeps
<1>2. CASE y = Refused(x)  BY <1>2, RefusedKeeps
<1>3. CASE y = [x EXCEPT !.s = "Prepared", !.n.running = FALSE]
  <2>1. x.n \in Natives  BY DEF Calls
  <2>2. /\ [x.n EXCEPT !.running = FALSE] \in Natives /\ [x.n EXCEPT !.running = FALSE].loaded = x.n.loaded
        /\ [x.n EXCEPT !.running = FALSE].buffers = x.n.buffers
    BY <2>1 DEF Natives
  <2>3. y = [s |-> "Prepared", n |-> [x.n EXCEPT !.running = FALSE], ok |-> x.ok]
    BY <1>3 DEF Calls
  <2> QED  BY <2>2, <2>3 DEF Keeps, Calls, DriverStates
<1> QED  BY <1>1, <1>2, <1>3 DEF Stop

\* dispose_buffers keeps the instance.
LEMMA ReleaseKeeps ==
  ASSUME NEW x \in Calls, x.s # "none", NEW y \in Release(x)
  PROVE  Keeps(x, y) /\ (y.ok => x.ok)
<1>1. CASE y = Refused(x)  BY <1>1, RefusedKeeps
<1>2. CASE y = [x EXCEPT !.s = "Initialized", !.n.buffers = "none"]
  <2>1. x.n \in Natives  BY DEF Calls
  <2>2. [x.n EXCEPT !.buffers = "none"] \in Natives /\ [x.n EXCEPT !.buffers = "none"].loaded = x.n.loaded
    BY <2>1 DEF Natives
  <2>3. y = [s |-> "Initialized", n |-> [x.n EXCEPT !.buffers = "none"], ok |-> x.ok]
    BY <1>2 DEF Calls
  <2> QED  BY <2>2, <2>3 DEF Keeps, Calls, DriverStates
<1> QED  BY <1>1, <1>2 DEF Release

\* One call after another.
LEMMA KeepsOn ==
  ASSUME NEW x, NEW y, NEW z, Keeps(x, y), Keeps(y, z), y.ok \in BOOLEAN
  PROVE  x.ok /\ y.ok => Keeps(x, z)
BY DEF Keeps

\* DriverState::dispose_buffers keeps the instance.
LEMMA DisposeKeeps ==
  ASSUME NEW x \in Calls, x.s # "none", x.ok, NEW y \in Dispose(x)
  PROVE  Keeps(x, y)
<1>1. CASE x.s = "Initialized"  BY <1>1 DEF Dispose, Keeps
<1>2. CASE x.s # "Initialized"
  <2>1. PICK z \in Stop(x) : y \in IF z.ok THEN Release(z) ELSE {z}
    BY <1>2 DEF Dispose, Then
  <2>2. Keeps(x, z)  BY StopKeeps
  <2>3. CASE ~z.ok  BY <2>1, <2>2, <2>3
  <2>4. CASE z.ok
    <3>1. Keeps(z, y)  BY <2>1, <2>2, <2>4, ReleaseKeeps DEF Keeps
    <3> QED  BY <2>2, <2>4, <3>1 DEF Keeps
  <2> QED  BY <2>3, <2>4
<1> QED  BY <1>1, <1>2

\* The driver is gone, or a call was refused on the way.
LEMMA DestroyEnds ==
  ASSUME NEW x \in Calls, x.s # "none", x.ok, NEW y \in Destroy(x)
  PROVE  /\ y \in Calls /\ y.n \in Natives
         /\ y.ok => y.n = Unloaded
         /\ ~y.ok => y.n.failed /\ y.n.loaded = x.n.loaded
<1>1. PICK z \in Dispose(x) : y \in IF z.ok THEN Exit(z) ELSE {z}
  BY DEF Destroy, Then
<1>2. Keeps(x, z)  BY DisposeKeeps
<1>3. CASE ~z.ok  BY <1>1, <1>2, <1>3 DEF Keeps, Calls
<1>4. CASE z.ok /\ y = Refused(z)
  <2>1. Keeps(z, y) /\ ~y.ok /\ y.n.failed  BY <1>2, <1>4, RefusedKeeps DEF Keeps
  <2> QED  BY <1>2, <2>1 DEF Keeps, Calls
<1>5. CASE z.ok /\ y = [z EXCEPT !.s = "none", !.n = Unloaded]
  <2>1. y = [s |-> "none", n |-> Unloaded, ok |-> z.ok] /\ z.ok \in BOOLEAN
    BY <1>2, <1>5 DEF Keeps, Calls
  <2>2. Unloaded \in Natives /\ "none" \in DriverStates  BY DEF Unloaded, Natives, DriverStates
  <2> QED  BY <1>5, <2>1, <2>2 DEF Calls
<1> QED  BY <1>1, <1>3, <1>4, <1>5 DEF Exit

\* Buffers are created for who asks, or a call was refused.
LEMMA CreateKeeps ==
  ASSUME NEW o \in Owners, NEW x \in Calls, x.s # "none", x.ok, NEW y \in Create(o, x)
  PROVE  Keeps(x, y) /\ (y.ok => y.n.buffers = o)
<1> DEFINE C(z) == {Refused(z), [z EXCEPT !.s = "Prepared", !.n.buffers = o, !.n.running = FALSE]}
<1>1. PICK z \in Dispose(x) : y \in IF z.ok THEN C(z) ELSE {z}
  BY Zenon DEF Create, Then
<1>2. Keeps(x, z)  BY DisposeKeeps
<1>3. CASE ~z.ok  BY <1>1, <1>2, <1>3
<1>4. CASE z.ok /\ y = Refused(z)
  <2>1. Keeps(z, y) /\ ~y.ok  BY <1>2, <1>4, RefusedKeeps DEF Keeps
  <2> QED  BY <1>2, <1>4, <2>1 DEF Keeps
<1>5. CASE z.ok /\ y = [z EXCEPT !.s = "Prepared", !.n.buffers = o, !.n.running = FALSE]
  <2> DEFINE m == [z.n EXCEPT !.buffers = o, !.running = FALSE]
  <2>1. z.n \in Natives /\ z \in Calls  BY <1>2 DEF Keeps, Calls
  <2>2. m \in Natives /\ m.loaded = z.n.loaded /\ m.buffers = o  BY <2>1 DEF Natives
  <2>3. y = [s |-> "Prepared", n |-> m, ok |-> z.ok]  BY <1>5, <2>1 DEF Calls
  <2> HIDE DEF m
  <2> QED  BY <1>2, <2>2, <2>3, <1>5 DEF Keeps, Calls, DriverStates
<1> QED  BY <1>1, <1>3, <1>4, <1>5

\* start keeps the instance and its buffers, and runs unless it was refused.
LEMMA StartKeeps ==
  ASSUME NEW x \in Calls, x.s # "none", x.ok, NEW y \in Start(x)
  PROVE  Keeps(x, y) /\ y.n.buffers = x.n.buffers /\ (y.ok => y.n.running)
<1>1. CASE y = Refused(x)  BY <1>1, RefusedKeeps
<1>2. CASE y = [x EXCEPT !.s = "Running", !.n.running = TRUE]
  <2>1. x.n \in Natives  BY DEF Calls
  <2>2. /\ [x.n EXCEPT !.running = TRUE] \in Natives /\ [x.n EXCEPT !.running = TRUE].loaded = x.n.loaded
        /\ [x.n EXCEPT !.running = TRUE].buffers = x.n.buffers /\ [x.n EXCEPT !.running = TRUE].running = TRUE
    BY <2>1 DEF Natives
  <2>3. y = [s |-> "Running", n |-> [x.n EXCEPT !.running = TRUE], ok |-> x.ok]
    BY <1>2 DEF Calls
  <2> QED  BY <2>2, <2>3 DEF Keeps, Calls, DriverStates
<1> QED  BY <1>1, <1>2 DEF Start

Items   == {"close_output", "close_host", "lower", "recycle", "open_host", "reopen_host", "open_output"}
JobSet  == [owner : Owners, step : Steps]
Opening == {"load", "prime", "primed", "create", "register", "start", "unregister"}
Target  == [close_output |-> "output", close_host |-> "host", open_output |-> "output",
            open_host |-> "host", reopen_host |-> "host"]
Follows == {<<"close_output", "close_host">>, <<"close_host", "lower">>, <<"lower", "recycle">>,
            <<"lower", "open_host">>, <<"recycle", "open_host">>}

\* The first job is o's and has begun.
Busy(o) == queue # <<>> /\ queue[1].owner = o /\ queue[1].step \notin {"load", "remove"}
Begun   == Busy("host") \/ Busy("output")
InScript(item) == \E i \in DOMAIN todo : todo[i] = item

\* What is left to do is the end of a script.
OneScript == \A i \in DOMAIN todo : i > 1 => <<todo[i-1], todo[i]>> \in Follows

\* A job is of the studio or of the holder of the lock, one of each at most, and only
\* the first has begun.
JobIsTrue(k) ==
  LET j == queue[k]
  IN /\ k > 1 => j.step \in {"load", "remove"}
     /\ j.owner = "list" => j.step \in {"load", "drop", "clear"}
     /\ j.owner # "list" =>
          /\ todo # <<>> /\ todo[1] \in DOMAIN Target /\ Target[todo[1]] = j.owner
          /\ j.step \in Opening => todo[1] \in DOMAIN Opens
     /\ j.step \notin {"load", "clear"} => Live(j.owner)
     /\ j.step = "clear" => native.loaded = "none"
     /\ j.step = "register" => native.buffers = j.owner
Jobs ==
  /\ \A k \in DOMAIN queue : JobIsTrue(k)
  /\ \A k, l \in DOMAIN queue : (queue[k].owner = "list" <=> queue[l].owner = "list") => k = l
  /\ recycling => todo # <<>> /\ todo[1] = "recycle"

\* What the script has closed is closed.
Ready ==
  todo # <<>> =>
    /\ todo[1] \in {"close_host", "lower", "recycle"} => ~Live("output")
    /\ todo[1] \in {"lower", "recycle"} => ~Live("host")
    /\ todo[1] \in {"open_host", "open_output"} /\ ~Begun => ~Live("output") /\ ~Live("host")
    /\ todo[1] = "reopen_host" => gap > 0

\* A live instance has the driver, and is known of by who could load it again.
Owned ==
  /\ \A o \in Owners : Live(o) => native.loaded = o
  /\ Live("list") => queue # <<>> /\ queue[1] = Job("list", "drop")
  /\ Live("host") => active \/ Busy("host")
  /\ Live("output") => alone \/ Busy("output")
  /\ Live("host") /\ gap > 0 => alone \/ Busy("host") \/ InScript("close_host")

\* A callback is registered over the buffers of a live instance.
Registered ==
  /\ in_flight \subseteq callbacks
  /\ \A o \in callbacks : /\ Live(o) /\ native.buffers = o
                          /\ Busy(o) => queue[1].step \in {"start", "unregister"}
  /\ old = {}

Core == OneScript /\ Jobs /\ Ready /\ Owned /\ Registered

\* A host that nothing is done to is heard, and a driver that refused nothing has its owner.
Heard ==
  /\ Live("host") /\ ~Busy("host") => native.failed \/ (native.running /\ "host" \in callbacks)
  /\ native.loaded # "none" /\ ~native.failed => Live(native.loaded)
  /\ Busy("host") /\ queue[1].step = "start" => "host" \in callbacks

\* What is open is of the session or of the warm driver, or is being closed or opened.
Released ==
  /\ active => capturing \/ warm # "none" \/ InScript("lower")
  /\ Live("host") \/ Live("output") =>
       capturing \/ warm # "none" \/ InScript("lower") \/ (todo # <<>> /\ todo[1] = "open_host")
  /\ todo # <<>> =>
       /\ todo[1] \in {"reopen_host", "open_output"} => capturing
       /\ todo[1] = "open_host" => ~Live("output")

Told == Heard /\ Released
IInv == TypeOK /\ (twice => alone) /\ (~twice => Core /\ Told)

-----------------------------------------------------------------------------
(* Sequences.                                                              *)

\* A sequence without its first element.
LEMMA Popped ==
  ASSUME NEW S, NEW q \in Seq(S), q # <<>>
  PROVE  /\ Tail(q) \in Seq(S) /\ 1 \in DOMAIN q /\ Head(q) = q[1] /\ Len(Tail(q)) = Len(q) - 1
         /\ \A i \in DOMAIN Tail(q) : i \in Nat /\ i > 0 /\ i + 1 \in DOMAIN q /\ Tail(q)[i] = q[i + 1]
         /\ Tail(q) # <<>> => 1 \in DOMAIN Tail(q) /\ 2 \in DOMAIN q /\ Tail(q)[1] = q[2]
         /\ \A i \in DOMAIN q : i \in Nat /\ (i # 1 => i - 1 \in DOMAIN Tail(q) /\ Tail(q)[i - 1] = q[i])
OBVIOUS

\* A sequence whose first element is replaced.
LEMMA Marked ==
  ASSUME NEW S, NEW q \in Seq(S), q # <<>>, NEW j \in S
  PROVE  /\ [q EXCEPT ![1] = j] \in Seq(S) /\ [q EXCEPT ![1] = j] # <<>>
         /\ DOMAIN [q EXCEPT ![1] = j] = DOMAIN q /\ Len([q EXCEPT ![1] = j]) = Len(q)
         /\ 1 \in DOMAIN q /\ [q EXCEPT ![1] = j][1] = j
         /\ \A k \in DOMAIN q : k \in Nat /\ k > 0 /\ q[k] \in S /\ (k # 1 => [q EXCEPT ![1] = j][k] = q[k])
OBVIOUS

\* A sequence with one more element, element by element.
LEMMA Added ==
  ASSUME NEW S, NEW q \in Seq(S), NEW j \in S
  PROVE  /\ Append(q, j) \in Seq(S) /\ Append(q, j) # <<>> /\ Len(Append(q, j)) = Len(q) + 1
         /\ DOMAIN Append(q, j) = 1 .. Len(q) + 1 /\ DOMAIN q = 1 .. Len(q) /\ Len(q) \in Nat
         /\ Append(q, j)[Len(q) + 1] = j
         /\ \A k \in 1 .. Len(q) : Append(q, j)[k] = q[k]
OBVIOUS

-----------------------------------------------------------------------------
(* The steps of a job.                                                     *)

\* The first job goes on.
LEMMA Going ==
  ASSUME TypeOK, Core, NEW o \in Owners, NEW s1, NEW s2 \in Steps, Doing(o, s1), Goes(o, s2),
         s2 \notin {"load", "remove"}, o = "list" => s2 \in {"drop", "clear"},
         s2 \in Opening => s1 \in Opening,
         NEW v \in DriverStates, st' = [st EXCEPT ![o] = v], v = "none" <=> s2 = "clear",
         native'.loaded = IF s2 = "clear" THEN "none" ELSE o,
         s2 = "register" => native'.buffers = o,
         \A x \in Owners \ {o} : ~Live(x),
         in_flight' = in_flight, in_flight \subseteq callbacks', old' = {},
         \A c \in callbacks' : c = o /\ native'.buffers = o /\ s2 \in {"start", "unregister"},
         UNCHANGED <<todo, recycling, gap>>
  PROVE  Core'
<1>1. /\ queue' \in Seq(JobSet) /\ queue' # <<>> /\ DOMAIN queue' = DOMAIN queue /\ 1 \in DOMAIN queue
      /\ queue # <<>> /\ queue[1] = Job(o, s1) /\ queue'[1] = Job(o, s2)
      /\ \A k \in DOMAIN queue : k \in Nat /\ k > 0 /\ queue[k] \in JobSet /\ (k # 1 => queue'[k] = queue[k])
  <2>1. queue \in Seq(JobSet) /\ queue # <<>> /\ Job(o, s2) \in JobSet /\ queue[1] = Job(o, s1)
    BY DEF TypeOK, Doing, JobSet, Job
  <2>2. queue' = [queue EXCEPT ![1] = Job(o, s2)]  BY DEF Goes
  <2> QED  BY <2>1, <2>2, Marked
<1>2. /\ queue[1].owner = o /\ queue[1].step = s1 /\ queue'[1].owner = o /\ queue'[1].step = s2
  BY <1>1 DEF Job
<1>3. /\ Live(o)' <=> s2 # "clear"
      /\ \A x \in Owners \ {o} : ~Live(x)'
      /\ o \in Owners /\ {"host", "output", "list"} = Owners
  <2>1. st'[o] = v /\ \A x \in Owners \ {o} : st'[x] = st[x]
    BY DEF TypeOK
  <2> QED  BY <2>1 DEF Live, Owners
<1>4. Busy(o)'  BY <1>1, <1>2 DEF Busy
<1>5. OneScript'  BY DEF Core, OneScript
<1>6. Jobs'
  <2>1. \A k \in DOMAIN queue : JobIsTrue(k)'
    <3> SUFFICES ASSUME NEW k \in DOMAIN queue  PROVE  JobIsTrue(k)'
      OBVIOUS
    <3>1. CASE k = 1
      <4>1. JobIsTrue(1)  BY <1>1 DEF Core, Jobs
      <4> QED  BY <1>2, <1>3, <3>1, <4>1 DEF JobIsTrue
    <3>2. CASE k # 1
      <4>1. queue'[k] = queue[k] /\ queue[k] \in JobSet /\ k > 1  BY <1>1, <3>2
      <4>2. JobIsTrue(k)  BY DEF Core, Jobs
      <4>3. (queue[k].owner = "list") # (o = "list")
        BY <1>1, <1>2, <3>2 DEF Core, Jobs
      <4>4. queue[k].owner \in Owners /\ queue[k].owner # o  BY <4>1, <4>3 DEF JobSet
      <4>5. queue[k].step = "load"  BY <4>1, <4>2, <4>4 DEF JobIsTrue
      <4> QED  BY <4>1, <4>2, <4>5 DEF JobIsTrue
    <3> QED  BY <3>1, <3>2
  <2>2. \A k \in DOMAIN queue : queue'[k].owner = queue[k].owner  BY <1>1, <1>2
  <2> QED  BY <1>1, <2>1, <2>2 DEF Core, Jobs
<1>7. Ready'
  <2>1. todo # <<>> => todo[1] \notin {"lower", "recycle"} \/ o = "list"
    BY <1>1, <1>2 DEF Core, Jobs, JobIsTrue, Target
  <2>2. CASE o = "list"
    BY <1>3, <2>2 DEF Core, Ready, Owners
  <2>3. CASE o # "list"
    <3>1. JobIsTrue(1)  BY <1>1 DEF Core, Jobs
    <3>2. todo # <<>> /\ todo[1] \in DOMAIN Target /\ Target[todo[1]] = o
      BY <1>2, <2>3, <3>1 DEF JobIsTrue
    <3>3. Begun'  BY <1>4, <2>3 DEF Begun, Owners
    <3>4. todo[1] = "close_host" => o = "host"  BY <3>2 DEF Target
    <3>5. todo[1] \notin {"lower", "recycle"}  BY <3>2 DEF Target
    <3>6. todo[1] = "close_host" => ~Live("output")'  BY <1>3, <3>4
    <3> QED  BY <3>3, <3>5, <3>6 DEF Core, Ready
  <2> QED  BY <2>2, <2>3
<1>8. Owned'
  <2>1. \A x \in Owners : Live(x)' => x = o /\ native'.loaded = x /\ Busy(x)'
    BY <1>3, <1>4
  <2>2. Live("list")' => queue' # <<>> /\ queue'[1] = Job("list", "drop")
    BY <1>1, <1>3 DEF Owners
  <2> QED  BY <1>3, <2>1, <2>2 DEF Owned
<1>9. Registered'
  BY <1>2, <1>3 DEF Core, Registered
<1> QED  BY <1>5, <1>6, <1>7, <1>8, <1>9 DEF Core

\* The first job ends with its answer.
LEMMA Answering ==
  ASSUME TypeOK, Core, NEW o \in Owners, NEW s1, NEW opened \in BOOLEAN, Doing(o, s1), Answered(o, opened),
         NEW v \in DriverStates, st' = [st EXCEPT ![o] = v], v # "none" <=> opened,
         opened => s1 = "start" /\ native'.loaded = o,
         \A x \in Owners \ {o} : Live(x) => native' = native,
         in_flight' = in_flight, in_flight \subseteq callbacks', callbacks' \subseteq callbacks, old' = {},
         \A c \in callbacks' : IF c = o THEN opened /\ native'.buffers = o ELSE native' = native,
         UNCHANGED recycling
  PROVE  Core'
<1>1. /\ queue' \in Seq(JobSet) /\ 1 \in DOMAIN queue /\ queue # <<>> /\ queue[1] = Job(o, s1)
      /\ \A i \in DOMAIN queue' : i \in Nat /\ i > 0 /\ i + 1 \in DOMAIN queue /\ queue'[i] = queue[i + 1]
      /\ queue' # <<>> => 1 \in DOMAIN queue'
      /\ \A k \in DOMAIN queue : queue[k] \in JobSet
  <2>1. queue \in Seq(JobSet) /\ queue # <<>> /\ queue[1] = Job(o, s1)
    BY DEF TypeOK, Doing, JobSet
  <2>2. queue' = Tail(queue)  BY DEF Answered
  <2> QED  BY <2>1, <2>2, Popped
<1>2. queue[1].owner = o /\ queue[1].step = s1  BY <1>1 DEF Job
<1>3. /\ Live(o)' <=> opened
      /\ \A x \in Owners \ {o} : Live(x)' = Live(x)
      /\ {"host", "output", "list"} = Owners
  <2>1. st'[o] = v /\ \A x \in Owners \ {o} : st'[x] = st[x]
    BY DEF TypeOK
  <2> QED  BY <2>1 DEF Live, Owners
<1>4. /\ \A i \in DOMAIN queue' : /\ queue[i + 1].step \in {"load", "remove"}
                                  /\ (queue[i + 1].owner = "list") # (o = "list")
                                  /\ queue[i + 1].owner \in Owners \ {o}
      /\ JobIsTrue(1)
  <2>1. JobIsTrue(1)  BY <1>1 DEF Core, Jobs
  <2> SUFFICES ASSUME NEW i \in DOMAIN queue'
               PROVE  /\ queue[i + 1].step \in {"load", "remove"}
                      /\ (queue[i + 1].owner = "list") # (o = "list")
                      /\ queue[i + 1].owner \in Owners \ {o}
    BY <2>1
  <2>2. i + 1 \in DOMAIN queue /\ i + 1 > 1 /\ i + 1 # 1  BY <1>1
  <2>3. queue[i + 1].step \in {"load", "remove"}  BY <2>2 DEF Core, Jobs, JobIsTrue
  <2>4. (queue[i + 1].owner = "list") # (o = "list")  BY <1>1, <1>2, <2>2 DEF Core, Jobs
  <2>5. queue[i + 1].owner \in Owners  BY <1>1, <2>2 DEF JobSet
  <2> QED  BY <2>3, <2>4, <2>5
<1>5. \A x \in Owners : ~Busy(x)'
  BY <1>1, <1>4 DEF Busy
<1>6. \A x \in Owners \ {o} : Live(x) => ~Busy(x)  BY <1>2 DEF Busy
<1>7. \A x \in Owners : Live(x)' => native'.loaded = x
  BY <1>3 DEF Core, Owned
<1>8. /\ ~Live("list")'
  <2>1. Live("list") => o = "list"  BY <1>2 DEF Core, Owned, Job
  <2>2. opened => o # "list"  BY <1>2, <1>4 DEF JobIsTrue
  <2> QED  BY <1>3, <2>1, <2>2
<1>9. Registered'
  <2>1. callbacks \subseteq Owners  BY DEF TypeOK
  <2>2. \A c \in callbacks' : c \in Owners /\ ~Busy(c)'  BY <1>5, <2>1
  <2>3. ASSUME NEW c \in callbacks'  PROVE  Live(c)' /\ native'.buffers = c
    <3>1. CASE c = o  BY <1>3, <3>1
    <3>2. CASE c # o
      <4>1. c \in callbacks /\ native' = native /\ c \in Owners \ {o}  BY <2>2, <3>2
      <4>2. Live(c) /\ native.buffers = c  BY <4>1 DEF Core, Registered
      <4> QED  BY <1>3, <4>1, <4>2
    <3> QED  BY <3>1, <3>2
  <2> QED  BY <2>2, <2>3 DEF Registered
<1>10. CASE o = "list"
  <2>1. UNCHANGED <<todo, active, gap, alone>>  BY <1>10 DEF Answered, sessionVars
  <2>2. OneScript'  BY <2>1 DEF Core, OneScript
  <2>3. ~Begun /\ ~Begun'  BY <1>2, <1>3, <1>5, <1>10 DEF Begun, Busy
  <2>4. ~Busy("host") /\ ~Busy("output")  BY <2>3 DEF Begun
  <2>5. Live("host")' = Live("host") /\ Live("output")' = Live("output")  BY <1>3, <1>10
  <2>6. Ready'  BY <2>1, <2>3, <2>5 DEF Core, Ready
  <2>7. Owned'  BY <1>7, <1>8, <2>1, <2>4, <2>5 DEF Core, Owned, InScript
  <2>8. Jobs'
    <3>1. \A k \in DOMAIN queue' : JobIsTrue(k)'
      <4> SUFFICES ASSUME NEW k \in DOMAIN queue'  PROVE  JobIsTrue(k)'
        OBVIOUS
      <4>1. k + 1 \in DOMAIN queue /\ queue'[k] = queue[k + 1] /\ JobIsTrue(k + 1)
        BY <1>1 DEF Core, Jobs
      <4>2. queue'[k].owner \in {"host", "output"} /\ queue'[k].step \in {"load", "remove"}
        BY <1>3, <1>4, <1>10, <4>1
      <4> QED  BY <2>1, <2>5, <4>1, <4>2 DEF JobIsTrue
    <3>2. \A k, l \in DOMAIN queue' : k = l
      <4> SUFFICES ASSUME NEW k \in DOMAIN queue', NEW l \in DOMAIN queue'  PROVE  k = l
        OBVIOUS
      <4>1. k + 1 \in DOMAIN queue /\ l + 1 \in DOMAIN queue /\ k \in Nat /\ l \in Nat  BY <1>1
      <4>2. queue[k + 1].owner # "list" /\ queue[l + 1].owner # "list"  BY <1>4, <1>10
      <4>3. k + 1 = l + 1  BY <4>1, <4>2 DEF Core, Jobs
      <4> QED  BY <4>1, <4>3
    <3> QED  BY <2>1, <3>1, <3>2 DEF Core, Jobs
  <2> QED  BY <1>9, <2>2, <2>6, <2>7, <2>8 DEF Core
<1>11. CASE o # "list"
  <2>1. /\ todo # <<>> /\ todo[1] \in DOMAIN Target /\ Target[todo[1]] = o
        /\ s1 \in Opening => todo[1] \in DOMAIN Opens
    BY <1>2, <1>4, <1>11 DEF JobIsTrue
  <2>2. /\ todo' \in Seq(Items) /\ Head(todo) = todo[1]
        /\ \A i \in DOMAIN todo' : i \in Nat /\ i > 0 /\ i + 1 \in DOMAIN todo /\ todo'[i] = todo[i + 1]
        /\ todo' # <<>> => 2 \in DOMAIN todo /\ todo'[1] = todo[2]
        /\ \A i \in DOMAIN todo : i \in Nat /\ (i # 1 => i - 1 \in DOMAIN todo' /\ todo'[i - 1] = todo[i])
    <3>1. todo \in Seq(Items)  BY DEF TypeOK, Items
    <3>2. todo' = Tail(todo)  BY <1>11 DEF Answered
    <3> QED  BY <2>1, <3>1, <3>2, Popped
  <2>3. /\ active \/ (opened /\ o = "host") => active'
        /\ alone \/ (opened /\ (o = "output" \/ (gap > 0 /\ todo[1] = "open_host"))) => alone'
        /\ gap' = IF todo[1] # "reopen_host" THEN gap ELSE IF opened THEN 0 ELSE gap - 1
    BY <1>11, <2>2 DEF Answered
  <2>4. OneScript'
    <3> SUFFICES ASSUME NEW i \in DOMAIN todo', i > 1
                 PROVE  <<todo'[i-1], todo'[i]>> \in Follows
      BY DEF OneScript
    <3>1. /\ i \in Nat /\ i + 1 \in DOMAIN todo /\ todo'[i] = todo[i + 1] /\ i + 1 > 1
      BY <2>2
    <3>2. i \in DOMAIN todo /\ i - 1 \in DOMAIN todo' /\ (i - 1) + 1 = i
      <4>1. todo' = Tail(todo) /\ todo \in Seq(Items)  BY <1>11 DEF Answered, TypeOK, Items
      <4> QED  BY <2>1, <3>1, <4>1
    <3>3. todo'[i - 1] = todo[i]  BY <2>2, <3>2
    <3>4. <<todo[(i + 1) - 1], todo[i + 1]>> \in Follows  BY <3>1 DEF Core, OneScript
    <3> QED  BY <3>1, <3>3, <3>4
  <2>5. todo' # <<>> => <<todo[1], todo'[1]>> \in Follows
    <3> SUFFICES ASSUME todo' # <<>>  PROVE  <<todo[1], todo'[1]>> \in Follows
      OBVIOUS
    <3>1. 2 \in DOMAIN todo /\ todo'[1] = todo[2]  BY <2>2
    <3>2. PICK i \in DOMAIN todo : i = 2  BY <3>1
    <3>3. i > 1 /\ i - 1 = 1  BY <3>2
    <3>4. <<todo[i - 1], todo[i]>> \in Follows  BY <3>3 DEF Core, OneScript
    <3> QED  BY <3>1, <3>2, <3>3, <3>4
  <2>6. todo' # <<>> => \/ todo[1] = "close_output" /\ todo'[1] = "close_host"
                        \/ todo[1] = "close_host" /\ todo'[1] = "lower"
    BY <2>1, <2>5 DEF Follows, Target
  <2>7. todo' # <<>> => ~opened
    BY <2>1, <2>6 DEF Opening, Opens
  <2>8. Ready'
    <3>1. CASE todo[1] = "close_output" /\ todo'[1] = "close_host" /\ todo' # <<>>
      <4>1. o = "output"  BY <2>1, <3>1 DEF Target
      <4>2. ~Live("output")'  BY <1>3, <2>7, <3>1, <4>1
      <4> QED  BY <3>1, <4>2 DEF Ready
    <3>2. CASE todo[1] = "close_host" /\ todo'[1] = "lower" /\ todo' # <<>>
      <4>1. o = "host"  BY <2>1, <3>2 DEF Target
      <4>2. ~Live("host")' /\ ~Live("output")  BY <1>3, <2>1, <2>7, <3>2, <4>1 DEF Core, Ready
      <4>3. ~Live("output")'  BY <1>3, <4>1, <4>2
      <4> QED  BY <3>2, <4>2, <4>3 DEF Ready
    <3> QED  BY <2>6, <3>1, <3>2 DEF Ready
  <2>9. Owned'
    <3>1. gap \in Nat /\ gap' \in Int /\ (gap' > 0 => gap > 0 /\ (opened => todo[1] # "reopen_host"))
      BY <2>3, AsioConstants DEF TypeOK
    <3>2. Live("host")' => active'
      <4>1. CASE o = "host"  BY <1>3, <2>3, <4>1
      <4>2. CASE o # "host"  BY <1>3, <1>6, <2>3, <4>2 DEF Core, Owned
      <4> QED  BY <4>1, <4>2
    <3>3. Live("output")' => alone'
      <4>1. CASE o = "output"  BY <1>3, <2>3, <4>1
      <4>2. CASE o # "output"  BY <1>3, <1>6, <2>3, <4>2 DEF Core, Owned
      <4> QED  BY <4>1, <4>2
    <3>4. Live("host")' /\ gap' > 0 => alone' \/ InScript("close_host")'
      <4> SUFFICES ASSUME Live("host")', gap' > 0  PROVE  alone' \/ InScript("close_host")'
        OBVIOUS
      <4>1. CASE o = "host"
        <5>1. opened  BY <1>3, <4>1
        <5>2. todo[1] = "open_host"  BY <2>1, <3>1, <4>1, <5>1 DEF Opening, Opens, Target
        <5> QED  BY <2>3, <3>1, <5>1, <5>2
      <4>2. CASE o # "host"
        <5>1. alone \/ InScript("close_host")
          BY <1>3, <1>6, <3>1, <4>2 DEF Core, Owned
        <5>2. todo[1] # "close_host"  BY <2>1, <4>2 DEF Target
        <5>3. InScript("close_host") => InScript("close_host")'
          <6> SUFFICES ASSUME NEW i \in DOMAIN todo, todo[i] = "close_host"
                       PROVE  InScript("close_host")'
            BY DEF InScript
          <6>1. i # 1  BY <5>2
          <6> QED  BY <2>2, <6>1 DEF InScript
        <5> QED  BY <2>3, <5>1, <5>3
      <4> QED  BY <4>1, <4>2
    <3> QED  BY <1>7, <1>8, <3>2, <3>3, <3>4 DEF Owned
  <2>10. Jobs'
    <3>1. \A k \in DOMAIN queue' : JobIsTrue(k)'
      <4> SUFFICES ASSUME NEW k \in DOMAIN queue'  PROVE  JobIsTrue(k)'
        OBVIOUS
      <4>1. k + 1 \in DOMAIN queue /\ queue'[k] = queue[k + 1] /\ JobIsTrue(k + 1)
        BY <1>1 DEF Core, Jobs
      <4>2. queue'[k].owner = "list" /\ queue'[k].step = "load"
        BY <1>4, <1>11, <4>1 DEF JobIsTrue
      <4> QED  BY <4>2 DEF JobIsTrue
    <3>2. \A k, l \in DOMAIN queue' : k = l
      <4> SUFFICES ASSUME NEW k \in DOMAIN queue', NEW l \in DOMAIN queue'  PROVE  k = l
        OBVIOUS
      <4>1. k + 1 \in DOMAIN queue /\ l + 1 \in DOMAIN queue /\ k \in Nat /\ l \in Nat  BY <1>1
      <4>2. queue[k + 1].owner = "list" /\ queue[l + 1].owner = "list"  BY <1>4, <1>11
      <4>3. k + 1 = l + 1  BY <4>1, <4>2 DEF Core, Jobs
      <4> QED  BY <4>1, <4>3
    <3>3. ~recycling  BY <2>1 DEF Core, Jobs, Target
    <3> QED  BY <3>1, <3>2, <3>3 DEF Jobs
  <2> QED  BY <1>9, <2>4, <2>8, <2>9, <2>10 DEF Core
<1> QED  BY <1>10, <1>11

-----------------------------------------------------------------------------
(* Types.                                                                  *)

Bools == {recycling, active, pending, capturing, alone, listing, twice} \subseteq BOOLEAN

\* A job that goes on leaves everything its type.
LEMMA GoingType ==
  ASSUME TypeOK, NEW o \in Owners, NEW s1, NEW s2 \in Steps, Doing(o, s1), Goes(o, s2),
         NEW v \in DriverStates, st' = [st EXCEPT ![o] = v], native' \in Natives,
         callbacks' \subseteq Owners, old' \subseteq old, alone' \in BOOLEAN, twice' \in BOOLEAN,
         UNCHANGED <<in_flight, recycling, active, pending, capturing, warm, gap, listing, todo>>
  PROVE  TypeOK'
<1>1. queue' \in Seq(JobSet) /\ Len(queue') = Len(queue)
  <2>1. queue \in Seq(JobSet) /\ queue # <<>> /\ Job(o, s2) \in JobSet
    BY DEF TypeOK, Doing, JobSet, Job
  <2>2. PICK j \in JobSet : queue' = [queue EXCEPT ![1] = j]  BY <2>1 DEF Goes
  <2>3. queue' \in Seq(JobSet) /\ Len(queue') = Len(queue)  BY <2>1, <2>2, Marked
  <2> QED  BY <2>3
<1>2. st' \in [Owners -> DriverStates]  BY DEF TypeOK
<1>3. Bools'  BY DEF TypeOK, Bools
<1> QED  BY <1>1, <1>2, <1>3 DEF TypeOK, Natives, JobSet, Bools

\* A job that is answered leaves everything its type.
LEMMA AnsweringType ==
  ASSUME TypeOK, Core, NEW o \in Owners, NEW s1, NEW opened \in BOOLEAN, Doing(o, s1), Answered(o, opened),
         NEW v \in DriverStates, st' = [st EXCEPT ![o] = v], native' \in Natives,
         callbacks' \subseteq Owners, old' \subseteq old, twice' \in BOOLEAN,
         UNCHANGED <<in_flight, recycling>>
  PROVE  TypeOK'
<1>1. /\ queue' \in Seq(JobSet) /\ Len(queue') =< 2
  <2>1. queue \in Seq(JobSet) /\ queue # <<>> /\ Len(queue) =< 2 /\ Len(queue) \in Nat
    BY DEF TypeOK, Doing, JobSet
  <2>2. queue' = Tail(queue)  BY DEF Answered
  <2>3. Len(queue') = Len(queue) - 1 /\ queue' \in Seq(JobSet)  BY <2>1, <2>2, Popped
  <2> QED  BY <2>1, <2>3
<1>2. st' \in [Owners -> DriverStates]  BY DEF TypeOK
<1>3. CASE o = "list"
  <2>1. UNCHANGED <<todo, active, pending, capturing, warm, gap, alone>> /\ listing' = FALSE
    BY <1>3 DEF Answered, sessionVars
  <2>2. Bools'  BY <2>1 DEF TypeOK, Bools
  <2> QED  BY <1>1, <1>2, <2>1, <2>2 DEF TypeOK, Natives, JobSet, Bools
<1>4. CASE o # "list"
  <2>1. todo # <<>>
    <3>1. queue \in Seq(JobSet) /\ queue # <<>> /\ queue[1] = Job(o, s1)
      BY DEF TypeOK, Doing, JobSet
    <3>2. JobIsTrue(1)  BY <3>1, Popped DEF Core, Jobs
    <3> QED  BY <1>4, <3>1, <3>2 DEF JobIsTrue, Job
  <2>2. todo' \in Seq(Items) /\ Head(todo) = todo[1]
    <3>1. todo \in Seq(Items) /\ todo' = Tail(todo)  BY <1>4 DEF TypeOK, Items, Answered
    <3> QED  BY <2>1, <3>1, Popped
  <2>3. gap' \in 0 .. Attempts
    BY <1>4, <2>1, <2>2, AsioConstants DEF Answered, TypeOK, Core, Ready
  <2>4. warm' \in {"none", "active", "parked"} /\ capturing' \in BOOLEAN
    BY <1>4 DEF Answered, TypeOK
  <2>5. active' \in BOOLEAN /\ alone' \in BOOLEAN  BY <1>4, Zenon DEF Answered
  <2>6. Bools'
    <3>1. pending' = pending /\ listing' = listing  BY <1>4 DEF Answered
    <3> QED  BY <2>4, <2>5, <3>1 DEF TypeOK, Bools
  <2> QED  BY <1>1, <1>2, <2>2, <2>3, <2>4, <2>6 DEF TypeOK, Natives, JobSet, Items, Bools
<1> QED  BY <1>3, <1>4

-----------------------------------------------------------------------------
(* The COM thread.                                                         *)

\* What is known of the first job, whatever its step.
LEMMA FirstJob ==
  ASSUME TypeOK, Core, NEW o \in Owners, NEW s1, Doing(o, s1)
  PROVE  /\ Now(o) \in Calls /\ Now(o).s = st[o] /\ Now(o).n = native /\ Now(o).ok /\ native \in Natives
         /\ o = "list" => s1 \in {"load", "drop", "clear"}
         /\ s1 \notin {"load", "clear"} =>
              /\ Live(o) /\ native.loaded = o
              /\ \A x \in Owners \ {o} : ~Live(x)
              /\ \A c \in callbacks : c = o /\ native.buffers = o
         /\ s1 \notin {"load", "remove", "unregister", "start"} => callbacks = {} /\ in_flight = {}
         /\ s1 = "clear" => native.loaded = "none" /\ \A x \in Owners : ~Live(x)
         /\ s1 = "register" => native.buffers = o
         /\ \A k \in DOMAIN queue : k # 1 => queue[k].owner # o
<1>1. queue \in Seq(JobSet) /\ queue # <<>> /\ queue[1] = Job(o, s1) /\ 1 \in DOMAIN queue
  <2>1. queue \in Seq(JobSet) /\ queue # <<>> /\ queue[1] = Job(o, s1)  BY DEF TypeOK, Doing, JobSet
  <2> QED  BY <2>1, Popped
<1>2. queue[1].owner = o /\ queue[1].step = s1 /\ JobIsTrue(1)  BY <1>1 DEF Core, Jobs, Job
<1>3. native \in Natives /\ st[o] \in DriverStates  BY DEF TypeOK, Natives
<1>4. Now(o) \in Calls /\ Now(o).s = st[o] /\ Now(o).n = native /\ Now(o).ok
  BY <1>3 DEF Now, Calls
<1>5. \A x \in Owners : Live(x) => native.loaded = x  BY DEF Core, Owned
<1>6. \A c \in callbacks : c \in Owners /\ Live(c) /\ native.buffers = c /\ native.loaded = c
  BY <1>5 DEF TypeOK, Core, Registered
<1>7. s1 \notin {"load", "clear"} => /\ Live(o) /\ native.loaded = o
                                     /\ \A x \in Owners \ {o} : ~Live(x)
                                     /\ \A c \in callbacks : c = o /\ native.buffers = o
  BY <1>2, <1>5, <1>6 DEF JobIsTrue
<1>8. s1 = "clear" => native.loaded = "none" /\ \A x \in Owners : ~Live(x)
  <2>1. "none" \notin Owners  BY DEF Owners
  <2> QED  BY <1>2, <1>5, <2>1 DEF JobIsTrue
<1>9. ASSUME s1 \notin {"load", "remove", "unregister", "start"}  PROVE  callbacks = {} /\ in_flight = {}
  <2>1. callbacks = {}
    <3> SUFFICES ASSUME NEW c \in callbacks  PROVE  FALSE
      OBVIOUS
    <3>1. c \in Owners /\ Live(c)  BY <1>6
    <3>2. CASE s1 = "clear"  BY <1>8, <3>1, <3>2
    <3>3. CASE s1 # "clear"
      <4>1. c = o  BY <1>7, <1>9, <3>3
      <4>2. Busy(c)  BY <1>1, <1>2, <1>9, <4>1 DEF Busy
      <4> QED  BY <1>2, <1>9, <4>2 DEF Core, Registered
    <3> QED  BY <3>2, <3>3
  <2> QED  BY <2>1 DEF Core, Registered
<1>10. \A k \in DOMAIN queue : k # 1 => queue[k].owner # o
  BY <1>1, <1>2 DEF Core, Jobs
<1> QED  BY <1>2, <1>3, <1>4, <1>7, <1>8, <1>9, <1>10 DEF JobIsTrue

-----------------------------------------------------------------------------
(* Who hears the driver, and who it is open for.                           *)

\* The first job is the same owner's, one step further.
LEMMA GoesOn ==
  ASSUME TypeOK, NEW o \in Owners, NEW s1, NEW s2 \in Steps, Doing(o, s1), Goes(o, s2)
  PROVE  queue' # <<>> /\ queue'[1].owner = o /\ queue'[1].step = s2
<1>1. queue \in Seq(JobSet) /\ queue # <<>> /\ Job(o, s2) \in JobSet
  BY DEF TypeOK, Doing, JobSet, Job
<1>2. queue' = [queue EXCEPT ![1] = Job(o, s2)]  BY DEF Goes
<1>3. queue' # <<>> /\ queue'[1] = Job(o, s2)  BY <1>1, <1>2, Marked
<1> QED  BY <1>3 DEF Job

\* Once the first job is gone, none has begun.
LEMMA NoneBusy ==
  ASSUME TypeOK, Core, NEW o \in Owners, NEW s1, Doing(o, s1), queue' = Tail(queue)
  PROVE  \A x : ~Busy(x)'
<1>1. queue \in Seq(JobSet) /\ queue # <<>>  BY DEF TypeOK, Doing, JobSet
<1>2. queue' # <<>> => 2 \in DOMAIN queue /\ queue'[1] = queue[2]  BY <1>1, Popped
<1>3. 2 \in DOMAIN queue => queue[2].step \in {"load", "remove"}
  <2> SUFFICES ASSUME NEW k \in DOMAIN queue, k = 2  PROVE  queue[k].step \in {"load", "remove"}
    OBVIOUS
  <2>1. k > 1  OBVIOUS
  <2> QED  BY <2>1 DEF Core, Jobs, JobIsTrue
<1> QED  BY <1>2, <1>3 DEF Busy

\* Nothing is done to the driver.
LEMMA HeardKept ==
  ASSUME Heard, UNCHANGED <<native, st, callbacks>>, Busy("host")' => Busy("host") /\ queue'[1] = queue[1],
         Busy("host") => Busy("host")'
  PROVE  Heard'
BY DEF Heard, Live

\* Nothing is opened.
LEMMA ReleasedKept ==
  ASSUME Released, UNCHANGED <<active, capturing, warm, todo>>,
         Live("host")' => Live("host"), Live("output")' => Live("output")
  PROVE  Released'
BY DEF Released, InScript

\* A lowering of the flag that is not the first item is still to come.
LEMMA LowerLeft ==
  ASSUME TypeOK, todo # <<>>, todo' = Tail(todo), todo[1] # "lower", InScript("lower")
  PROVE  InScript("lower")'
<1>1. PICK i \in DOMAIN todo : todo[i] = "lower"  BY DEF InScript
<1>2. i # 1 /\ todo \in Seq(Items)  BY <1>1 DEF TypeOK, Items
<1>3. i - 1 \in DOMAIN todo' /\ todo'[i - 1] = todo[i]  BY <1>2, Popped
<1> QED  BY <1>1, <1>3 DEF InScript

\* What follows an item that is over.
LEMMA Following ==
  ASSUME TypeOK, Core, todo # <<>>, todo' = Tail(todo), todo' # <<>>
  PROVE  <<todo[1], todo'[1]>> \in Follows
<1>1. todo \in Seq(Items)  BY DEF TypeOK, Items
<1>2. 2 \in DOMAIN todo /\ todo'[1] = todo[2]  BY <1>1, Popped
<1>3. PICK i \in DOMAIN todo : i = 2 /\ todo'[1] = todo[i]  BY <1>2
<1>4. i > 1 /\ i - 1 = 1  BY <1>3
<1>5. <<todo[i - 1], todo[i]>> \in Follows  BY <1>4 DEF Core, OneScript
<1> QED  BY <1>3, <1>4, <1>5

\* A job that is answered for the lock's holder takes its item off the script.
LEMMA AnsweredRelease ==
  ASSUME TypeOK, Core, Released, NEW o \in Owners, NEW s1, NEW opened \in BOOLEAN, Doing(o, s1),
         Answered(o, opened), opened => s1 = "start", Live(o)' => opened,
         \A x \in Owners \ {o} : Live(x)' => Live(x)
  PROVE  Released'
<1>1. queue \in Seq(JobSet) /\ queue # <<>> /\ queue[1] = Job(o, s1) /\ 1 \in DOMAIN queue
  <2>1. queue \in Seq(JobSet) /\ queue # <<>> /\ queue[1] = Job(o, s1)  BY DEF TypeOK, Doing, JobSet
  <2> QED  BY <2>1, Popped
<1>2. queue[1].owner = o /\ queue[1].step = s1 /\ JobIsTrue(1)  BY <1>1 DEF Core, Jobs, Job
<1>3. Owners = {"host", "output", "list"}  BY DEF Owners
<1>4. CASE o = "list"
  <2>1. UNCHANGED <<todo, active, capturing, warm>>  BY <1>4 DEF Answered, sessionVars
  <2> QED  BY <1>3, <1>4, <2>1, ReleasedKept
<1>5. CASE o # "list"
  <2>1. /\ todo # <<>> /\ todo[1] \in DOMAIN Target /\ Target[todo[1]] = o
        /\ s1 \in Opening => todo[1] \in DOMAIN Opens
    BY <1>2, <1>5 DEF JobIsTrue
  <2>2. Head(todo) = todo[1]
    <3>1. todo \in Seq(Items)  BY DEF TypeOK, Items
    <3> QED  BY <2>1, <3>1, Popped
  <2>3. /\ todo' = Tail(todo) /\ (active' => active \/ (opened /\ o = "host"))
        /\ todo[1] = "open_host" /\ opened => capturing'
        /\ ~(todo[1] = "open_host" /\ opened) => UNCHANGED <<capturing, warm>>
        /\ capturing => capturing'
    BY <1>5, <2>2 DEF Answered
  <2>4. todo[1] # "lower"  BY <2>1 DEF Target
  <2>5. InScript("lower") => InScript("lower")'  BY <2>1, <2>3, <2>4, LowerLeft
  <2>6. opened => capturing'
    <3> SUFFICES ASSUME opened  PROVE  capturing'
      OBVIOUS
    <3>1. todo[1] \in DOMAIN Opens  BY <2>1 DEF Opening
    <3>2. CASE todo[1] = "open_host"  BY <2>3, <3>2
    <3>3. CASE todo[1] # "open_host"
      <4>1. capturing  BY <2>1, <3>1, <3>3 DEF Released, Opens
      <4> QED  BY <2>3, <4>1
    <3> QED  BY <3>2, <3>3
  <2>7. active' => capturing' \/ warm' # "none" \/ InScript("lower")'
    BY <2>3, <2>5, <2>6 DEF Released
  <2>8. ASSUME NEW x \in {"host", "output"}, Live(x)'
        PROVE  capturing' \/ warm' # "none" \/ InScript("lower")'
    <3>1. CASE opened  BY <2>6, <3>1
    <3>2. CASE ~opened
      <4>1. x # o /\ Live(x) /\ UNCHANGED <<capturing, warm>>  BY <1>3, <2>3, <2>8, <3>2
      <4>2. todo[1] # "open_host"
        <5> SUFFICES ASSUME todo[1] = "open_host"  PROVE  FALSE
          OBVIOUS
        <5>1. o = "host"  BY <2>1 DEF Target
        <5>2. x = "output"  BY <4>1, <5>1
        <5> QED  BY <2>1, <4>1, <5>2 DEF Released
      <4> QED  BY <2>5, <4>1, <4>2 DEF Released
    <3> QED  BY <3>1, <3>2
  <2>9. todo' # <<>> => todo'[1] \in {"close_host", "lower"}
    <3> SUFFICES ASSUME todo' # <<>>  PROVE  todo'[1] \in {"close_host", "lower"}
      OBVIOUS
    <3>1. <<todo[1], todo'[1]>> \in Follows  BY <2>1, <2>3, Following
    <3> QED  BY <2>1, <3>1 DEF Follows, Target
  <2> QED  BY <2>7, <2>8, <2>9 DEF Released
<1> QED  BY <1>4, <1>5

\* load_driver: the one step that may take the driver from an instance.
LEMMA LoadStep ==
  ASSUME TypeOK, Core, Told, ~twice, alone \in BOOLEAN, NEW o \in Owners, Load(o)
  PROVE  TypeOK' /\ (twice' => alone') /\ (~twice' => Core' /\ Told')
<1>1. Doing(o, "load") /\ MayLoad(o) /\ native \in Natives /\ o # "none"
  BY FirstJob DEF Load, Owners
<1>2. twice' <=> native.loaded # "none" /\ Live(native.loaded)
  BY DEF Load
<1>3. twice' \in BOOLEAN  BY Zenon DEF Load
<1>4. UNCHANGED <<old, callbacks, in_flight, recycling>>  BY DEF Load
<1>5. /\ queue # <<>> /\ queue[1].owner = o /\ queue[1].step = "load" /\ 1 \in DOMAIN queue
      /\ JobIsTrue(1)
  <2>1. queue \in Seq(JobSet) /\ queue # <<>> /\ queue[1] = Job(o, "load")
    BY <1>1 DEF TypeOK, Doing, JobSet
  <2>2. 1 \in DOMAIN queue  BY <2>1, Popped
  <2> QED  BY <2>1, <2>2 DEF Core, Jobs, Job
<1>6. \A x \in Owners : ~Busy(x)  BY <1>5 DEF Busy
<1>7. Owners = {"host", "output", "list"}  BY DEF Owners
<1>8. ~Live("list")
  <2>1. Live("list") => queue[1] = Job("list", "drop")  BY DEF Core, Owned
  <2> QED  BY <1>5, <2>1 DEF Job
<1>9. twice' => alone
  <2> SUFFICES ASSUME twice'  PROVE  alone
    OBVIOUS
  <2>1. Live(native.loaded) /\ native.loaded \in {"host", "output"}
    BY <1>1, <1>2, <1>7, <1>8 DEF Natives
  <2>2. CASE native.loaded = "output"  BY <1>6, <1>7, <2>1, <2>2 DEF Core, Owned
  <2>3. CASE native.loaded = "host"
    <3>1. Live("host") /\ active  BY <1>6, <1>7, <2>1, <2>3 DEF Core, Owned
    <3>2. o # "list"  BY <1>1, <3>1 DEF MayLoad
    <3>3. todo # <<>> /\ todo[1] \in DOMAIN Target /\ Target[todo[1]] = o /\ todo[1] \in DOMAIN Opens
      BY <1>5, <3>2 DEF JobIsTrue, Opening
    <3>4. ~Begun  BY <1>6, <1>7 DEF Begun
    <3>5. todo[1] = "reopen_host" /\ gap > 0  BY <3>1, <3>3, <3>4 DEF Core, Ready, Opens
    <3>6. InScript("close_host") => alone
      <4> SUFFICES ASSUME NEW i \in DOMAIN todo, todo[i] = "close_host"  PROVE  FALSE
        BY DEF InScript
      <4>1. i # 1 /\ todo \in Seq(Items) /\ i \in Nat /\ i > 1 /\ i - 1 \in DOMAIN todo /\ 2 \in DOMAIN todo
        BY <3>3, <3>5 DEF TypeOK, Items
      <4>2. PICK j \in DOMAIN todo : j = 2  BY <4>1
      <4>3. j > 1 /\ j - 1 = 1  BY <4>2
      <4>4. <<todo[j - 1], todo[j]>> \in Follows  BY <4>3 DEF Core, OneScript
      <4>5. <<todo[1], todo[j]>> \in Follows  BY <4>3, <4>4
      <4> QED  BY <3>5, <4>5 DEF Follows
    <3> QED  BY <1>6, <1>7, <3>1, <3>5, <3>6 DEF Core, Owned
  <2> QED  BY <2>1, <2>2, <2>3
<1>10. ~twice' => \A x \in Owners : ~Live(x)
  <2>1. \A x \in Owners : Live(x) => native.loaded = x  BY DEF Core, Owned
  <2> QED  BY <1>2, <1>7, <2>1
<1>11. ~twice' => callbacks = {} /\ in_flight = {}
  BY <1>10 DEF Core, Registered, TypeOK
<1>12. old = {} /\ callbacks \subseteq Owners  BY DEF Core, Registered, TypeOK
<1>13. CASE /\ Becomes(o, [s |-> "Initialized", n |-> [Unloaded EXCEPT !.loaded = o]])
            /\ \E step \in Loaded[o] : Goes(o, step)
            /\ UNCHANGED <<todo, listing, sessionVars>>
  <2>1. PICK s2 \in Loaded[o] : Goes(o, s2)  BY <1>13
  <2>2. /\ s2 \in {"prime", "drop", "create"} /\ s2 \in Steps
        /\ o = "list" => s2 = "drop"
    <3>1. CASE o = "host"
      <4>1. s2 \in {"prime", "drop"}  BY <2>1, <3>1 DEF Loaded
      <4> QED  BY <3>1, <4>1 DEF Steps
    <3>2. CASE o = "output"
      <4>1. s2 \in {"create", "drop"}  BY <2>1, <3>2 DEF Loaded
      <4> QED  BY <3>2, <4>1 DEF Steps
    <3>3. CASE o = "list"
      <4>1. s2 \in {"drop"}  BY <2>1, <3>3 DEF Loaded
      <4> QED  BY <3>3, <4>1 DEF Steps
    <3> QED  BY <1>7, <3>1, <3>2, <3>3
  <2>3. native' = [Unloaded EXCEPT !.loaded = o] /\ st' = [st EXCEPT ![o] = "Initialized"]
    BY <1>13 DEF Becomes
  <2>4. native' \in Natives /\ native'.loaded = o
    BY <2>3 DEF Unloaded, Natives
  <2>5. UNCHANGED <<todo, recycling, gap, active, pending, capturing, warm, alone, listing>>
    BY <1>4, <1>13 DEF sessionVars
  <2>6. "Initialized" \in DriverStates  BY DEF DriverStates
  <2>7. TypeOK'
    BY <1>1, <1>3, <1>4, <1>12, <2>1, <2>2, <2>3, <2>4, <2>5, <2>6, GoingType
  <2>8. ASSUME ~twice'  PROVE  Core'
    BY <1>1, <1>4, <1>10, <1>11, <1>12, <2>1, <2>2, <2>3, <2>4, <2>5, <2>6, <2>8, Going
       DEF Opening
  <2>9. ASSUME ~twice'  PROVE  Heard' /\ Released'
    <3>4. queue' # <<>> /\ queue'[1].owner = o /\ queue'[1].step = s2
      BY <1>1, <2>1, <2>2, GoesOn
    <3>5. Busy(o)'  BY <2>2, <3>4 DEF Busy
    <3>6. st'[o] = "Initialized" /\ \A x \in Owners \ {o} : st'[x] = st[x]  BY <2>3 DEF TypeOK
    <3>7. Live(o)' /\ \A x \in Owners \ {o} : ~Live(x)'  BY <1>10, <2>9, <3>6 DEF Live
    <3>8. Heard'
      <4>1. ~(Live("host")' /\ ~Busy("host")')  BY <1>7, <3>5, <3>7
      <4>2. Live(native.loaded)'  BY <2>4, <3>7
      <4>3. queue'[1].step # "start"  BY <2>2, <3>4
      <4> QED  BY <4>1, <4>2, <4>3 DEF Heard
    <3>9. Released'
      <4>1. UNCHANGED <<active, capturing, warm, todo>>  BY <2>5
      <4>2. CASE o = "list"
        BY <1>7, <3>7, <4>1, <4>2, ReleasedKept DEF Told
      <4>3. CASE o # "list"
        <5>1. todo # <<>> /\ todo[1] \in DOMAIN Target /\ Target[todo[1]] = o /\ todo[1] \in DOMAIN Opens
          BY <1>5, <4>3 DEF JobIsTrue, Opening
        <5>2. todo[1] = "open_host" => ~Live("output")'
          <6>1. todo[1] = "open_host" => o = "host"  BY <5>1 DEF Target
          <6> QED  BY <1>7, <3>7, <6>1
        <5>3. todo[1] # "open_host" => capturing  BY <5>1 DEF Told, Released, Opens
        <5>4. active => capturing \/ warm # "none" \/ InScript("lower")  BY DEF Told, Released
        <5> QED  BY <4>1, <5>1, <5>2, <5>3, <5>4 DEF Told, Released, InScript
      <4> QED  BY <4>2, <4>3
    <3> QED  BY <3>8, <3>9
  <2> QED  BY <1>9, <2>5, <2>7, <2>8, <2>9 DEF Told
<1>14. CASE /\ \E l \in {"none", o} :
                 native' = [Unloaded EXCEPT !.loaded = l, !.failed = (l = o)]
            /\ UNCHANGED st /\ Answered(o, FALSE)
  <2>1. PICK l \in {"none", o} : native' = [Unloaded EXCEPT !.loaded = l, !.failed = (l = o)]
    BY <1>14
  <2>2. native' \in Natives
    <3>1. (l = o) \in BOOLEAN  OBVIOUS
    <3>2. PICK b \in BOOLEAN : b = (l = o)  BY <3>1
    <3>3. native' = [Unloaded EXCEPT !.loaded = l, !.failed = b]  BY <2>1, <3>2
    <3> QED  BY <2>1, <3>3 DEF Unloaded, Natives
  <2>3. st' = [st EXCEPT ![o] = st[o]] /\ st[o] \in DriverStates  BY <1>14 DEF TypeOK
  <2>4. TypeOK'
    BY <1>1, <1>3, <1>4, <1>12, <1>14, <2>2, <2>3, AnsweringType
  <2>5. ASSUME ~twice'  PROVE  Core'
    <3>1. st[o] = "none"  BY <1>10, <2>5 DEF Live
    <3> QED  BY <1>1, <1>4, <1>10, <1>11, <1>12, <1>14, <2>3, <2>5, <3>1, Answering
  <2>6. alone => alone'
    BY <1>14 DEF Answered, sessionVars
  <2>7. ASSUME ~twice'  PROVE  Heard' /\ Released'
    <3>1. \A x \in Owners : ~Live(x)'  BY <1>10, <1>14, <2>7 DEF Live
    <3>2. native'.loaded # "none" => native'.failed  BY <1>1, <2>1, <2>2 DEF Unloaded, Natives
    <3>3. queue' = Tail(queue)  BY <1>14 DEF Answered
    <3>4. ~Busy("host")'  BY <1>1, <3>3, NoneBusy
    <3>5. Heard'  BY <1>7, <3>1, <3>2, <3>4 DEF Heard
    <3>6. Released'  BY <1>1, <1>14, <3>1, AnsweredRelease DEF Told
    <3> QED  BY <3>5, <3>6
  <2> QED  BY <1>9, <2>4, <2>5, <2>6, <2>7 DEF Told
<1> QED  BY <1>13, <1>14 DEF Load

\* The step of a job that leaves its instance alive.
LEMMA JobGoes ==
  ASSUME TypeOK, Core, Told, NEW o \in Owners, NEW s1, NEW s2 \in Steps, Doing(o, s1), Goes(o, s2),
         s1 \notin {"load", "clear"}, s2 \notin {"load", "remove", "clear"}, o = "list" => s2 = "drop",
         s2 \in Opening => s1 \in Opening,
         NEW x \in Calls, x.s # "none", x.n.loaded = o, Becomes(o, x), s2 = "register" => x.n.buffers = o,
         callbacks' \subseteq Owners, in_flight \subseteq callbacks',
         \A c \in callbacks' : c = o /\ x.n.buffers = o /\ s2 \in {"start", "unregister"},
         alone' \in BOOLEAN, s2 = "start" => o \in callbacks',
         UNCHANGED <<old, in_flight, recycling, active, pending, capturing, warm, gap, listing, todo, twice>>
  PROVE  TypeOK' /\ Core' /\ Told'
<1>1. x.s \in DriverStates /\ x.n \in Natives  BY DEF Calls
<1>2. native' = x.n /\ st' = [st EXCEPT ![o] = x.s]  BY DEF Becomes
<1>3. \A y \in Owners \ {o} : ~Live(y)  BY FirstJob
<1>4. old = {} /\ twice \in BOOLEAN  BY DEF Core, Registered, TypeOK
<1>5. TypeOK'  BY <1>1, <1>2, <1>4, GoingType
<1>6. Core'
  <2>1. in_flight' = in_flight /\ old' = {} /\ UNCHANGED <<todo, recycling, gap>>  BY <1>4
  <2>2. \A c \in callbacks' : c = o /\ native'.buffers = o /\ s2 \in {"start", "unregister"}  BY <1>2
  <2>3. /\ native'.loaded = IF s2 = "clear" THEN "none" ELSE o
        /\ s2 = "register" => native'.buffers = o
        /\ x.s = "none" <=> s2 = "clear"
        /\ o = "list" => s2 \in {"drop", "clear"}
    BY <1>2
  <2> QED  BY <1>1, <1>2, <1>3, <2>1, <2>2, <2>3, Going
<1>7. queue' # <<>> /\ queue'[1].owner = o /\ queue'[1].step = s2  BY GoesOn
<1>8. /\ Live(o) /\ Live(o)' /\ \A y \in Owners \ {o} : ~Live(y)'
  <2>1. st'[o] = x.s /\ \A y \in Owners \ {o} : st'[y] = st[y]  BY <1>2 DEF TypeOK
  <2>2. Live(o)  BY FirstJob
  <2> QED  BY <1>3, <2>1, <2>2 DEF Live
<1>9. Owners = {"host", "output", "list"}  BY DEF Owners
<1>10. Heard'
  <2>1. Busy(o)'  BY <1>7 DEF Busy
  <2>2. ~(Live("host")' /\ ~Busy("host")')  BY <1>8, <1>9, <2>1
  <2>3. native'.loaded = o /\ Live(native.loaded)'  BY <1>2, <1>8
  <2>4. Busy("host")' /\ queue'[1].step = "start" => "host" \in callbacks'  BY <1>7 DEF Busy
  <2> QED  BY <2>2, <2>3, <2>4 DEF Heard
<1>11. Released'
  BY <1>8, <1>9, ReleasedKept DEF Told
<1> QED  BY <1>5, <1>6, <1>10, <1>11 DEF Told

\* The instance as it is.
LEMMA AsItIs ==
  ASSUME TypeOK, NEW o \in Owners, UNCHANGED <<native, st>>
  PROVE  Becomes(o, Now(o))
BY DEF TypeOK, Becomes, Now

\* The cycle that wakes the driver, up to its pause.
LEMMA PrimeStep ==
  ASSUME TypeOK, Core, Told, Prime  PROVE  TypeOK' /\ Core' /\ Told'
<1>1. /\ Doing("host", "prime") /\ Goes("host", "primed") /\ "host" \in Owners /\ "primed" \in Steps
  BY DEF Prime, Owners, Steps
<1>2. /\ Now("host") \in Calls /\ Now("host").s # "none" /\ Now("host").ok /\ Now("host").n.loaded = "host"
      /\ callbacks = {} /\ in_flight = {}
  BY <1>1, FirstJob DEF Live
<1>3. PICK x \in UNION {IF y.ok THEN Start(y) ELSE {y} : y \in Create("host", Now("host"))} : Becomes("host", x)
  BY DEF Prime
<1>4. PICK y \in Create("host", Now("host")) : x \in IF y.ok THEN Start(y) ELSE {y}  BY <1>3
<1>5. Keeps(Now("host"), y)  BY <1>1, <1>2, CreateKeeps
<1>6. Keeps(y, x)
  <2>1. CASE y.ok  BY <1>4, <1>5, <2>1, StartKeeps DEF Keeps
  <2>2. CASE ~y.ok  BY <1>4, <1>5, <2>2 DEF Keeps
  <2> QED  BY <2>1, <2>2
<1>7. x \in Calls /\ x.s # "none" /\ x.n.loaded = "host"  BY <1>2, <1>5, <1>6 DEF Keeps
<1>8. /\ UNCHANGED <<old, in_flight, recycling, active, pending, capturing, warm, gap, listing, todo, twice>>
      /\ callbacks' = {} /\ alone' \in BOOLEAN
  BY <1>2 DEF Prime, sessionVars, TypeOK
<1>9. {} \subseteq Owners  OBVIOUS
<1> QED  BY <1>1, <1>2, <1>3, <1>7, <1>8, <1>9, JobGoes DEF Opening

\* The cycle's end: the stop and the disposal, refused or not.
LEMMA PrimedStep ==
  ASSUME TypeOK, Core, Told, Primed  PROVE  TypeOK' /\ Core' /\ Told'
<1>1. /\ Doing("host", "primed") /\ Goes("host", "create") /\ "host" \in Owners /\ "create" \in Steps
  BY DEF Primed, Owners, Steps
<1>2. /\ Now("host") \in Calls /\ Now("host").s # "none" /\ Now("host").ok /\ Now("host").n.loaded = "host"
      /\ callbacks = {} /\ in_flight = {}
  BY <1>1, FirstJob DEF Live
<1>3. PICK x \in Stop(Now("host")) : \E y \in Dispose([x EXCEPT !.ok = TRUE]) : Becomes("host", y)
  BY DEF Primed
<1>4. Keeps(Now("host"), x)  BY <1>2, StopKeeps
<1>5. PICK z : z = [x EXCEPT !.ok = TRUE]  OBVIOUS
<1>6. z \in Calls /\ z.ok /\ z.s # "none" /\ z.n = x.n
  <2>1. x \in Calls /\ x.s # "none"  BY <1>4 DEF Keeps
  <2>2. z = [s |-> x.s, n |-> x.n, ok |-> TRUE]  BY <1>5, <2>1 DEF Calls
  <2> QED  BY <2>1, <2>2 DEF Calls
<1>7. PICK y \in Dispose(z) : Becomes("host", y)  BY <1>3, <1>5
<1>8. Keeps(z, y)  BY <1>6, <1>7, DisposeKeeps
<1>9. y \in Calls /\ y.s # "none" /\ y.n.loaded = "host"  BY <1>2, <1>4, <1>6, <1>8 DEF Keeps
<1>10. /\ UNCHANGED <<old, in_flight, recycling, active, pending, capturing, warm, gap, listing, todo, twice>>
       /\ callbacks' = {} /\ alone' \in BOOLEAN
  BY <1>2 DEF Primed, sessionVars, TypeOK
<1>11. {} \subseteq Owners  OBVIOUS
<1> QED  BY <1>1, <1>2, <1>7, <1>9, <1>10, <1>11, JobGoes DEF Opening

\* The buffers.
LEMMA CreateStep ==
  ASSUME TypeOK, Core, Told, NEW o \in Owners, CreateBuffers(o)  PROVE  TypeOK' /\ Core' /\ Told'
<1>1. Doing(o, "create")  BY DEF CreateBuffers
<1>2. /\ Now(o) \in Calls /\ Now(o).s # "none" /\ Now(o).ok /\ Now(o).n.loaded = o
      /\ callbacks = {} /\ in_flight = {} /\ o # "list"
  BY <1>1, FirstJob DEF Live
<1>3. PICK x \in Create(o, Now(o)) : Becomes(o, x) /\ Goes(o, IF x.ok THEN "register" ELSE "drop")
  BY DEF CreateBuffers
<1>4. Keeps(Now(o), x) /\ (x.ok => x.n.buffers = o)  BY <1>2, CreateKeeps
<1>5. x \in Calls /\ x.s # "none" /\ x.n.loaded = o  BY <1>2, <1>4 DEF Keeps
<1>6. /\ UNCHANGED <<old, in_flight, recycling, active, pending, capturing, warm, gap, listing, todo, twice>>
      /\ callbacks' = {} /\ alone' \in BOOLEAN
  BY <1>2 DEF CreateBuffers, sessionVars, TypeOK
<1>7. {} \subseteq Owners /\ "register" \in Steps /\ "drop" \in Steps  BY DEF Steps
<1>8. CASE x.ok
  <2>1. Goes(o, "register") /\ x.n.buffers = o  BY <1>3, <1>4, <1>8
  <2> QED  BY <1>1, <1>2, <1>3, <1>5, <1>6, <1>7, <2>1, JobGoes DEF Opening
<1>9. CASE ~x.ok
  <2>1. Goes(o, "drop")  BY <1>3, <1>9
  <2> QED  BY <1>1, <1>2, <1>3, <1>5, <1>6, <1>7, <2>1, JobGoes DEF Opening
<1> QED  BY <1>8, <1>9

\* The callback is registered over the owner's buffers.
LEMMA RegisterStep ==
  ASSUME TypeOK, Core, Told, NEW o \in Owners, Register(o)  PROVE  TypeOK' /\ Core' /\ Told'
<1>1. Doing(o, "register") /\ Goes(o, "start") /\ "start" \in Steps  BY DEF Register, Steps
<1>2. /\ Now(o) \in Calls /\ Now(o).s # "none" /\ Now(o).n.loaded = o /\ Now(o).n.buffers = o
      /\ callbacks = {} /\ in_flight = {} /\ o # "list"
  BY <1>1, FirstJob DEF Live
<1>3. Becomes(o, Now(o))  BY AsItIs DEF Register
<1>4. /\ UNCHANGED <<old, in_flight, recycling, active, pending, capturing, warm, gap, listing, todo, twice>>
      /\ callbacks' = {o} /\ alone' \in BOOLEAN
  BY <1>2 DEF Register, sessionVars, TypeOK
<1>5. callbacks' \subseteq Owners /\ in_flight \subseteq callbacks'  BY <1>2, <1>4
<1> QED  BY <1>1, <1>2, <1>3, <1>4, <1>5, JobGoes DEF Opening

\* The start: the answer, or the way back.
LEMMA StartStep ==
  ASSUME TypeOK, Core, Told, NEW o \in Owners, StartDriver(o)  PROVE  TypeOK' /\ Core' /\ Told'
<1>1. Doing(o, "start")  BY DEF StartDriver
<1>2. /\ Now(o) \in Calls /\ Now(o).s # "none" /\ Now(o).ok /\ Now(o).n.loaded = o /\ Now(o).n = native
      /\ o # "list"
      /\ \A c \in callbacks : c = o /\ native.buffers = o
      /\ \A x \in Owners \ {o} : ~Live(x)
  BY <1>1, FirstJob DEF Live
<1>3. PICK x \in Start(Now(o)) :
        /\ Becomes(o, x)
        /\ IF x.ok THEN Answered(o, TRUE)
           ELSE Goes(o, "unregister") /\ UNCHANGED <<todo, listing, sessionVars>>
  BY DEF StartDriver
<1>4. Keeps(Now(o), x) /\ x.n.buffers = native.buffers  BY <1>2, StartKeeps
<1>5. x \in Calls /\ x.s # "none" /\ x.n.loaded = o /\ x.n \in Natives /\ x.s \in DriverStates
  BY <1>2, <1>4 DEF Keeps, Calls
<1>6. UNCHANGED <<old, in_flight, recycling, twice, callbacks>>
  <2>1. UNCHANGED <<old, callbacks, in_flight, recycling, twice>>  BY DEF StartDriver
  <2> QED  BY <2>1
<1>7. callbacks' \subseteq Owners /\ in_flight \subseteq callbacks' /\ old = {} /\ twice \in BOOLEAN
  BY <1>6 DEF TypeOK, Core, Registered
<1>8. CASE x.ok
  <2>1. Answered(o, TRUE)  BY <1>3, <1>8
  <2>2. native' = x.n /\ st' = [st EXCEPT ![o] = x.s]  BY <1>3 DEF Becomes
  <2>3. \A c \in callbacks' : IF c = o THEN TRUE /\ native'.buffers = o ELSE native' = native
    BY <1>2, <1>4, <1>6, <2>2
  <2>4. TypeOK'  BY <1>1, <1>5, <1>6, <1>7, <2>1, <2>2, AnsweringType
  <2>5. Core'
    BY <1>1, <1>2, <1>5, <1>6, <1>7, <2>1, <2>2, <2>3, Answering
  <2>6. Owners = {"host", "output", "list"}  BY DEF Owners
  <2>7. Live(o)' /\ \A y \in Owners \ {o} : ~Live(y)'
    <3>1. st'[o] = x.s /\ \A y \in Owners \ {o} : st'[y] = st[y]  BY <2>2 DEF TypeOK
    <3> QED  BY <1>2, <1>5, <3>1 DEF Live
  <2>8. Heard'
    <3>1. queue' = Tail(queue)  BY <2>1 DEF Answered
    <3>2. ~Busy("host")'  BY <1>1, <3>1, NoneBusy
    <3>3. o = "host" => "host" \in callbacks
      <4>1. queue # <<>> /\ queue[1].owner = o /\ queue[1].step = "start"  BY <1>1 DEF Doing, Job
      <4> QED  BY <4>1 DEF Told, Heard, Busy
    <3>4. x.n.running  BY <1>2, <1>8, StartKeeps
    <3> QED  BY <1>5, <1>6, <2>2, <2>6, <2>7, <3>2, <3>3, <3>4 DEF Heard
  <2>9. Released'  BY <1>1, <1>2, <2>1, <2>7, AnsweredRelease DEF Told
  <2> QED  BY <2>4, <2>5, <2>8, <2>9 DEF Told
<1>9. CASE ~x.ok
  <2>1. Goes(o, "unregister") /\ UNCHANGED <<todo, listing, active, pending, capturing, warm, gap, alone>>
    BY <1>3, <1>9 DEF sessionVars
  <2>2. "unregister" \in Steps /\ alone' \in BOOLEAN  BY <2>1 DEF Steps, TypeOK
  <2>3. \A c \in callbacks' : c = o /\ x.n.buffers = o  BY <1>2, <1>4, <1>6
  <2> QED  BY <1>1, <1>2, <1>3, <1>5, <1>6, <1>7, <2>1, <2>2, <2>3, JobGoes DEF Opening
<1> QED  BY <1>8, <1>9

\* No call is in flight once the callback is removed.
LEMMA UnregisterStep ==
  ASSUME TypeOK, Core, Told, NEW o \in Owners, Unregister(o)  PROVE  TypeOK' /\ Core' /\ Told'
<1>1. PICK s1 \in {"remove", "unregister"} : Doing(o, s1)  BY DEF Unregister
<1>2. /\ Now(o) \in Calls /\ Now(o).s # "none" /\ Now(o).n.loaded = o
      /\ \A c \in callbacks : c = o
      /\ o # "list"
  BY <1>1, FirstJob DEF Live
<1>3. in_flight = {} /\ callbacks' = {}
  BY <1>2 DEF Unregister, CallbackOver
<1>4. PICK s2 \in {"stop", "drop"} : Goes(o, s2)  BY Zenon DEF Unregister
<1>5. s2 \in Steps /\ s2 \notin Opening /\ s2 \notin {"load", "remove", "clear", "register"}
  BY DEF Steps, Opening
<1>6. Becomes(o, Now(o))  BY AsItIs DEF Unregister
<1>7. alone' \in BOOLEAN
  <2>1. (alone /\ o # "output") \in BOOLEAN  OBVIOUS
  <2> QED  BY <2>1 DEF Unregister
<1>8. UNCHANGED <<old, in_flight, recycling, active, pending, capturing, warm, gap, listing, todo, twice>>
  BY DEF Unregister
<1>9. {} \subseteq Owners  OBVIOUS
<1> QED  BY <1>1, <1>2, <1>3, <1>4, <1>5, <1>6, <1>7, <1>8, <1>9, JobGoes

\* The host's stop.
LEMMA StopStep ==
  ASSUME TypeOK, Core, Told, StopHost  PROVE  TypeOK' /\ Core' /\ Told'
<1>1. /\ Doing("host", "stop") /\ Goes("host", "dispose") /\ "host" \in Owners /\ "dispose" \in Steps
  BY DEF StopHost, Owners, Steps
<1>2. /\ Now("host") \in Calls /\ Now("host").s # "none" /\ Now("host").n.loaded = "host"
      /\ callbacks = {} /\ in_flight = {}
  BY <1>1, FirstJob DEF Live
<1>3. PICK x \in Stop(Now("host")) : Becomes("host", x)  BY DEF StopHost
<1>4. Keeps(Now("host"), x)  BY <1>2, StopKeeps
<1>5. x \in Calls /\ x.s # "none" /\ x.n.loaded = "host"  BY <1>2, <1>4 DEF Keeps
<1>6. /\ UNCHANGED <<old, in_flight, recycling, active, pending, capturing, warm, gap, listing, todo, twice>>
      /\ callbacks' = {} /\ alone' \in BOOLEAN
  BY <1>2 DEF StopHost, sessionVars, TypeOK
<1>7. {} \subseteq Owners  OBVIOUS
<1> QED  BY <1>1, <1>2, <1>3, <1>5, <1>6, <1>7, JobGoes DEF Opening

\* The host's disposal.
LEMMA DisposeStep ==
  ASSUME TypeOK, Core, Told, DisposeHost  PROVE  TypeOK' /\ Core' /\ Told'
<1>1. /\ Doing("host", "dispose") /\ Goes("host", "drop") /\ "host" \in Owners /\ "drop" \in Steps
  BY DEF DisposeHost, Owners, Steps
<1>2. /\ Now("host") \in Calls /\ Now("host").s # "none" /\ Now("host").ok /\ Now("host").n.loaded = "host"
      /\ callbacks = {} /\ in_flight = {}
  BY <1>1, FirstJob DEF Live
<1>3. PICK x \in Dispose(Now("host")) : Becomes("host", x)  BY DEF DisposeHost
<1>4. Keeps(Now("host"), x)  BY <1>2, DisposeKeeps
<1>5. x \in Calls /\ x.s # "none" /\ x.n.loaded = "host"  BY <1>2, <1>4 DEF Keeps
<1>6. /\ UNCHANGED <<old, in_flight, recycling, active, pending, capturing, warm, gap, listing, todo, twice>>
      /\ callbacks' = {} /\ alone' \in BOOLEAN
  BY <1>2 DEF DisposeHost, sessionVars, TypeOK
<1>7. {} \subseteq Owners  OBVIOUS
<1> QED  BY <1>1, <1>2, <1>3, <1>5, <1>6, <1>7, JobGoes DEF Opening

\* The instance is gone, the driver too unless it refused.
LEMMA DropStep ==
  ASSUME TypeOK, Core, Told, NEW o \in Owners, Drop(o)  PROVE  TypeOK' /\ Core' /\ Told'
<1>1. Doing(o, "drop")  BY DEF Drop
<1>2. /\ Now(o) \in Calls /\ Now(o).s # "none" /\ Now(o).ok /\ Now(o).n.loaded = o
      /\ callbacks = {} /\ in_flight = {}
      /\ \A x \in Owners \ {o} : ~Live(x)
  BY <1>1, FirstJob DEF Live
<1>3. PICK x \in Destroy(Now(o)) :
        /\ Becomes(o, [x EXCEPT !.s = "none"])
        /\ IF x.ok THEN Goes(o, "clear") /\ UNCHANGED <<todo, listing, sessionVars>> ELSE Answered(o, FALSE)
  BY DEF Drop
<1>4. /\ x.n \in Natives /\ (x.ok => x.n = Unloaded)
  BY <1>2, DestroyEnds
<1>5. native' = x.n /\ st' = [st EXCEPT ![o] = "none"] /\ "none" \in DriverStates
  <2>1. x \in Calls  BY <1>2, DestroyEnds
  <2>2. PICK z : z = [x EXCEPT !.s = "none"]  OBVIOUS
  <2>3. z.s = "none" /\ z.n = x.n  BY <2>1, <2>2 DEF Calls
  <2> QED  BY <1>3, <2>2, <2>3 DEF Becomes, DriverStates
<1>6. /\ UNCHANGED <<callbacks, in_flight, recycling, twice>> /\ old' = {} /\ old' \subseteq old
      /\ twice \in BOOLEAN
  <2>1. old = {} /\ old' = old \ {o} /\ UNCHANGED <<callbacks, in_flight, recycling, twice>>
    BY DEF Drop, Core, Registered
  <2> QED  BY <2>1 DEF TypeOK
<1>7. callbacks' \subseteq Owners /\ in_flight \subseteq callbacks' /\ callbacks' = {} /\ twice' \in BOOLEAN
  BY <1>2, <1>6
<1>10. /\ \A y \in Owners : ~Live(y)'
       /\ ~Live("host")' /\ ~Live("output")'
  <2>1. st'[o] = "none" /\ \A y \in Owners \ {o} : st'[y] = st[y]  BY <1>5 DEF TypeOK
  <2>2. \A y \in Owners : ~Live(y)'  BY <1>2, <2>1 DEF Live
  <2> QED  BY <2>2 DEF Owners
<1>8. CASE x.ok
  <2>1. Goes(o, "clear") /\ UNCHANGED <<todo, listing, active, pending, capturing, warm, gap, alone>>
    BY <1>3, <1>8 DEF sessionVars
  <2>2. "clear" \in Steps /\ alone' \in BOOLEAN  BY <2>1 DEF Steps, TypeOK
  <2>3. native'.loaded = "none"  BY <1>4, <1>5, <1>8 DEF Unloaded
  <2>4. TypeOK'
    BY <1>1, <1>4, <1>5, <1>6, <1>7, <2>1, <2>2, GoingType
  <2>5. Core'
    BY <1>1, <1>2, <1>5, <1>6, <1>7, <2>1, <2>2, <2>3, Going DEF Opening
  <2>6. queue' # <<>> /\ queue'[1].owner = o /\ queue'[1].step = "clear"  BY <1>1, <2>1, <2>2, GoesOn
  <2>7. Heard'  BY <1>10, <2>3, <2>6 DEF Heard, Busy
  <2>8. Released'  BY <1>10, <2>1, ReleasedKept DEF Told
  <2> QED  BY <2>4, <2>5, <2>7, <2>8 DEF Told
<1>9. CASE ~x.ok
  <2>1. Answered(o, FALSE)  BY <1>3, <1>9
  <2>2. TypeOK'  BY <1>1, <1>4, <1>5, <1>6, <1>7, <2>1, AnsweringType
  <2>3. Core'  BY <1>1, <1>2, <1>5, <1>6, <1>7, <2>1, Answering
  <2>4. Heard'
    <3>1. queue' = Tail(queue)  BY <2>1 DEF Answered
    <3>2. ~Busy("host")'  BY <1>1, <3>1, NoneBusy
    <3>3. native'.failed  BY <1>2, <1>5, <1>9, DestroyEnds
    <3> QED  BY <1>10, <3>2, <3>3 DEF Heard
  <2>5. Released'
    <3>1. \A y \in Owners : ~Live(y)'  BY <1>10
    <3> QED  BY <1>1, <2>1, <3>1, AnsweredRelease DEF Told
  <2> QED  BY <2>2, <2>3, <2>4, <2>5 DEF Told
<1> QED  BY <1>8, <1>9

\* Every callback is gone: none was left of an instance alive.
LEMMA ClearStep ==
  ASSUME TypeOK, Core, Told, NEW o \in Owners, Clear(o)  PROVE  TypeOK' /\ Core' /\ Told'
<1>1. Doing(o, "clear") /\ Answered(o, FALSE)  BY DEF Clear
<1>2. native \in Natives /\ callbacks = {} /\ in_flight = {} /\ \A x \in Owners : ~Live(x)
  BY <1>1, FirstJob
<1>3. /\ UNCHANGED <<native, in_flight, recycling, twice>> /\ old = {} /\ old' = {} /\ old' \subseteq old
      /\ callbacks' = {} /\ twice' \in BOOLEAN
  BY DEF Clear, TypeOK, Core, Registered
<1>4. st' = [st EXCEPT ![o] = st[o]] /\ st[o] \in DriverStates /\ st[o] = "none"
  BY <1>2 DEF Clear, TypeOK, Live
<1>5. callbacks' \subseteq Owners /\ native' \in Natives /\ callbacks' \subseteq callbacks
  BY <1>2, <1>3
<1>6. TypeOK'  BY <1>1, <1>3, <1>4, <1>5, AnsweringType
<1>7. Core'  BY <1>1, <1>2, <1>3, <1>4, <1>5, Answering
<1>8. \A x \in Owners : ~Live(x)'  BY <1>2 DEF Clear, Live
<1>9. Heard'
  <2>1. queue' = Tail(queue)  BY <1>1 DEF Answered
  <2>2. ~Busy("host")'  BY <1>1, <2>1, NoneBusy
  <2>3. native'.loaded = "none"  BY <1>1, <1>3, FirstJob
  <2> QED  BY <1>8, <2>2, <2>3 DEF Heard, Owners
<1>10. Released'  BY <1>1, <1>8, AnsweredRelease DEF Told
<1> QED  BY <1>6, <1>7, <1>9, <1>10 DEF Told

\* The known list is served.
LEMMA ServeStep ==
  ASSUME TypeOK, Core, Told, ServeCache  PROVE  TypeOK' /\ Core' /\ Told'
<1>1. Doing("list", "load") /\ Answered("list", FALSE) /\ "list" \in Owners  BY DEF ServeCache, Owners
<1>2. native \in Natives  BY DEF TypeOK, Natives
<1>3. /\ UNCHANGED <<native, callbacks, in_flight, recycling, twice>> /\ old = {} /\ old' = {}
      /\ old' \subseteq old /\ twice' \in BOOLEAN
  BY DEF ServeCache, driverVars, TypeOK, Core, Registered
<1>4. st' = [st EXCEPT !["list"] = st["list"]] /\ st["list"] \in DriverStates
  BY <1>1 DEF ServeCache, driverVars, TypeOK
<1>5. ~Live("list")
  <2>1. queue[1] = Job("list", "load")  BY <1>1 DEF Doing
  <2>2. Live("list") => queue[1] = Job("list", "drop")  BY DEF Core, Owned
  <2> QED  BY <2>1, <2>2 DEF Job
<1>6. \A c \in callbacks : c # "list"  BY <1>5 DEF Core, Registered
<1>7. callbacks' \subseteq Owners /\ native' \in Natives /\ callbacks' \subseteq callbacks
      /\ in_flight \subseteq callbacks'
  BY <1>2, <1>3 DEF TypeOK, Core, Registered
<1>8. TypeOK'  BY <1>1, <1>3, <1>4, <1>7, AnsweringType
<1>9. Core'
  <2>1. \A c \in callbacks' : IF c = "list" THEN FALSE /\ native'.buffers = "list" ELSE native' = native
    BY <1>3, <1>6
  <2>2. st["list"] # "none" <=> FALSE  BY <1>5 DEF Live
  <2> QED  BY <1>1, <1>3, <1>4, <1>7, <2>1, <2>2, Answering
<1>10. \A x \in Owners : Live(x)' = Live(x)  BY DEF ServeCache, driverVars, Live
<1>11. Heard'
  <2>1. queue' = Tail(queue)  BY <1>1 DEF Answered
  <2>2. ~Busy("host")'  BY <1>1, <2>1, NoneBusy
  <2>3. ~Busy("host")
    <3>1. queue[1].owner = "list"  BY <1>1 DEF Doing, Job
    <3> QED  BY <3>1 DEF Busy
  <2>4. UNCHANGED <<native, st, callbacks>>  BY DEF ServeCache, driverVars
  <2> QED  BY <2>2, <2>3, <2>4, HeardKept DEF Told
<1>12. Released'  BY <1>1, <1>5, <1>10, AnsweredRelease DEF Told
<1> QED  BY <1>8, <1>9, <1>11, <1>12 DEF Told

-----------------------------------------------------------------------------
(* The driver's thread and the holder of the lock.                         *)

\* Nothing the invariant speaks of has moved.
LEMMA Idle ==
  ASSUME Core, Told, in_flight' \subseteq callbacks,
         UNCHANGED <<native, st, old, callbacks, queue, recycling, active, capturing, warm, gap, alone, todo>>
  PROVE  Core' /\ Told'
<1>1. Core'
  BY DEF Core, OneScript, Jobs, JobIsTrue, Ready, Owned, Registered, Live, Busy, Begun, InScript
<1>2. Heard'
  <2>1. Busy("host")' <=> Busy("host")  BY DEF Busy
  <2> QED  BY <2>1, HeardKept DEF Told
<1>3. Released'
  <2>1. Live("host")' = Live("host") /\ Live("output")' = Live("output")  BY DEF Live
  <2> QED  BY <2>1, ReleasedKept DEF Told
<1> QED  BY <1>1, <1>2, <1>3 DEF Told

\* The driver calls those registered.
LEMMA BufferSwitchStep ==
  ASSUME TypeOK, Core, Told, BufferSwitch  PROVE  TypeOK' /\ Core' /\ Told'
<1>1. in_flight' = callbacks /\ UNCHANGED <<native, st, callbacks, old, queue, recycling, todo, listing,
                                            active, pending, capturing, warm, gap, alone, twice>>
  BY DEF BufferSwitch, driverVars, sessionVars
<1>2. TypeOK'  BY <1>1 DEF TypeOK
<1>3. Core' /\ Told'  BY <1>1, Idle
<1> QED  BY <1>2, <1>3

\* The call is over.
LEMMA SwitchOverStep ==
  ASSUME TypeOK, Core, Told, SwitchOver  PROVE  TypeOK' /\ Core' /\ Told'
<1>1. in_flight' = {} /\ UNCHANGED <<native, st, callbacks, old, queue, recycling, todo, listing,
                                     active, pending, capturing, warm, gap, alone, twice>>
  BY DEF SwitchOver, driverVars, sessionVars
<1>2. TypeOK'  BY <1>1 DEF TypeOK
<1>3. Core' /\ Told'  BY <1>1, Idle
<1> QED  BY <1>2, <1>3

\* The studio asks for the list.
LEMMA GetDevicesStep ==
  ASSUME TypeOK, Core, Told, GetDevices  PROVE  TypeOK' /\ Core' /\ Told'
<1>1. listing' = TRUE /\ UNCHANGED <<native, st, callbacks, in_flight, old, queue, recycling, todo,
                                     active, pending, capturing, warm, gap, alone, twice>>
  BY DEF GetDevices, driverVars, sessionVars
<1>2. TypeOK'  BY <1>1 DEF TypeOK
<1>3. in_flight' \subseteq callbacks  BY <1>1 DEF Core, Registered
<1>4. Core' /\ Told'  BY <1>1, <1>3, Idle
<1> QED  BY <1>2, <1>4

\* Two sequences of the same elements.
LEMMA Alike ==
  ASSUME NEW S, NEW q \in Seq(S), NEW r \in Seq(S), Len(q) = Len(r), \A i \in 1 .. Len(q) : q[i] = r[i]
  PROVE  q = r
OBVIOUS

\* A sequence and one more element.
LEMMA Longer ==
  ASSUME NEW S, NEW q \in Seq(S), NEW x \in S, NEW t \in Seq(S), Len(t) = Len(q) + 1, t[Len(q) + 1] = x,
         \A i \in 1 .. Len(q) : t[i] = q[i]
  PROVE  q \o <<x>> = t
<1>1. q \o <<x>> = Append(q, x)  OBVIOUS
<1>2. Append(q, x) \in Seq(S) /\ Len(Append(q, x)) = Len(t)  OBVIOUS
<1>3. \A i \in 1 .. Len(t) : Append(q, x)[i] = t[i]  OBVIOUS
<1>4. Append(q, x) = t
  <2>1. PICK r \in Seq(S) : r = Append(q, x)  BY <1>2
  <2>2. r = t  BY <1>2, <1>3, <2>1, Alike
  <2> QED  BY <2>1, <2>2
<1> QED  BY <1>1, <1>4

\* The scripts, item by item.
LEMMA Scripts ==
  /\ CloseStreams = <<"close_output", "close_host">>
  /\ CloseDriver = <<"close_output", "close_host", "lower">>
  /\ CloseDriver \o <<>> \o <<"open_host">> = <<"close_output", "close_host", "lower", "open_host">>
  /\ CloseDriver \o <<"recycle">> \o <<"open_host">> =
       <<"close_output", "close_host", "lower", "recycle", "open_host">>
<1> DEFINE C2 == <<"close_output", "close_host">>
           C3 == <<"close_output", "close_host", "lower">>
           C4 == <<"close_output", "close_host", "lower", "open_host">>
           R4 == <<"close_output", "close_host", "lower", "recycle">>
           R5 == <<"close_output", "close_host", "lower", "recycle", "open_host">>
<1>1. C2 \in Seq(Items) /\ C3 \in Seq(Items) /\ C4 \in Seq(Items) /\ R4 \in Seq(Items) /\ R5 \in Seq(Items)
  BY DEF Items
<1>2. "lower" \in Items /\ "open_host" \in Items /\ "recycle" \in Items  BY DEF Items
<1>3. Len(C3) = Len(C2) + 1 /\ C3[Len(C2) + 1] = "lower" /\ \A i \in 1 .. Len(C2) : C3[i] = C2[i]
  OBVIOUS
<1>4. Len(C4) = Len(C3) + 1 /\ C4[Len(C3) + 1] = "open_host" /\ \A i \in 1 .. Len(C3) : C4[i] = C3[i]
  OBVIOUS
<1>5. Len(R4) = Len(C3) + 1 /\ R4[Len(C3) + 1] = "recycle" /\ \A i \in 1 .. Len(C3) : R4[i] = C3[i]
  OBVIOUS
<1>6. Len(R5) = Len(R4) + 1 /\ R5[Len(R4) + 1] = "open_host" /\ \A i \in 1 .. Len(R4) : R5[i] = R4[i]
  OBVIOUS
<1>7. C3 \o <<>> = C3  OBVIOUS
<1> HIDE DEF C2, C3, C4, R4, R5
<1>8. C2 \o <<"lower">> = C3  BY <1>1, <1>2, <1>3, Longer
<1>9. C3 \o <<"open_host">> = C4  BY <1>1, <1>2, <1>4, Longer
<1>10. C3 \o <<"recycle">> = R4  BY <1>1, <1>2, <1>5, Longer
<1>11. R4 \o <<"open_host">> = R5  BY <1>1, <1>2, <1>6, Longer
<1>12. CloseStreams = C2 /\ CloseDriver = C3  BY <1>8 DEF CloseStreams, CloseDriver, C2
<1>13. /\ CloseDriver \o <<>> \o <<"open_host">> = C4
       /\ CloseDriver \o <<"recycle">> \o <<"open_host">> = R5
  BY <1>7, <1>9, <1>10, <1>11, <1>12
<1> QED  BY <1>12, <1>13 DEF C2, C3, C4, R5

ScriptSet == {<<>>, <<"close_output", "close_host">>, <<"close_output", "close_host", "lower">>,
              <<"close_output", "close_host", "lower", "open_host">>,
              <<"close_output", "close_host", "lower", "recycle", "open_host">>,
              <<"reopen_host">>, <<"open_output">>}

\* Each script is in order, and begins by closing or has one item.
LEMMA ScriptsAreScripts ==
  ASSUME NEW t \in ScriptSet
  PROVE  /\ t \in Seq(Items)
         /\ \A i \in DOMAIN t : i > 1 => <<t[i-1], t[i]>> \in Follows
         /\ t # <<>> => \/ t[1] = "close_output" /\ 2 \in DOMAIN t /\ t[2] = "close_host"
                        \/ t = <<"reopen_host">>
                        \/ t = <<"open_output">>
<1>1. CASE t = <<>>  BY <1>1 DEF Items
<1>2. CASE t = <<"close_output", "close_host">>  BY <1>2 DEF Items, Follows
<1>3. CASE t = <<"close_output", "close_host", "lower">>  BY <1>3 DEF Items, Follows
<1>4. CASE t = <<"close_output", "close_host", "lower", "open_host">>  BY <1>4 DEF Items, Follows
<1>5. CASE t = <<"close_output", "close_host", "lower", "recycle", "open_host">>
  BY <1>5 DEF Items, Follows
<1>6. CASE t = <<"reopen_host">>  BY <1>6 DEF Items, Follows
<1>7. CASE t = <<"open_output">>  BY <1>7 DEF Items, Follows
<1> QED  BY <1>1, <1>2, <1>3, <1>4, <1>5, <1>6, <1>7 DEF ScriptSet

\* The lock is taken, for a script or for nothing.
LEMMA Scripted ==
  ASSUME TypeOK, Core, NEW t \in ScriptSet, Holds(t),
         UNCHANGED <<native, st, old, callbacks, in_flight, queue, recycling, active>>,
         gap' \in 0 .. Attempts, alone' \in BOOLEAN,
         t = <<"reopen_host">> => gap' > 0,
         t = <<"open_output">> => ~Live("output") /\ ~Live("host"),
         \/ gap' = gap /\ alone' = alone
         \/ gap' = 0 /\ alone' = Live("output")
         \/ t # <<>> /\ t[1] = "close_output" /\ alone' = alone
  PROVE  Core'
<1>1. todo = <<>> /\ todo' = t  BY DEF Holds
<1>2. \A x \in Owners : ~Busy(x) \/ x = "list"
  <2> SUFFICES ASSUME NEW x \in Owners, Busy(x), x # "list"  PROVE  FALSE
    OBVIOUS
  <2>1. queue \in Seq(JobSet) /\ queue # <<>> /\ queue[1].owner = x  BY DEF TypeOK, JobSet, Busy
  <2>2. JobIsTrue(1)  BY <2>1, Popped DEF Core, Jobs
  <2> QED  BY <1>1, <2>1, <2>2 DEF JobIsTrue
<1>3. /\ ~Busy("host") /\ ~Busy("output") /\ ~Begun /\ ~recycling
      /\ \A k \in DOMAIN queue : queue[k].owner = "list"
  <2>1. ~Busy("host") /\ ~Busy("output") BY <1>2 DEF Owners
  <2>2. \A k \in DOMAIN queue : queue[k].owner = "list"  BY <1>1 DEF Core, Jobs, JobIsTrue
  <2> QED  BY <1>1, <2>1, <2>2 DEF Begun, Core, Jobs
<1>4. /\ \A x \in Owners : Live(x)' = Live(x) /\ Busy(x)' = Busy(x)
      /\ Live("host")' = Live("host") /\ Live("output")' = Live("output") /\ Live("list")' = Live("list")
  BY DEF Live, Busy
<1>5. OneScript'  BY <1>1, ScriptsAreScripts DEF OneScript
<1>6. Jobs'
  <2>1. \A k \in DOMAIN queue : JobIsTrue(k)'
    <3> SUFFICES ASSUME NEW k \in DOMAIN queue  PROVE  JobIsTrue(k)'
      OBVIOUS
    <3>1. JobIsTrue(k) /\ queue[k].owner = "list"  BY <1>3 DEF Core, Jobs
    <3>2. queue[k].step \notin {"load", "clear"} => Live("list")  BY <3>1 DEF JobIsTrue
    <3> QED  BY <1>4, <3>1, <3>2 DEF JobIsTrue
  <2> QED  BY <1>3, <2>1 DEF Core, Jobs
<1>7. Ready'
  <2>1. CASE t = <<>>  BY <1>1, <2>1 DEF Ready
  <2>2. CASE t # <<>> /\ t[1] = "close_output"  BY <1>1, <2>2 DEF Ready
  <2>3. CASE t = <<"reopen_host">>  BY <1>1, <2>3 DEF Ready
  <2>4. CASE t = <<"open_output">>  BY <1>1, <1>4, <2>4 DEF Ready
  <2> QED  BY <2>1, <2>2, <2>3, <2>4, ScriptsAreScripts
<1>8. Owned'
  <2>1. \A x \in Owners : Live(x)' => native'.loaded = x  BY <1>4 DEF Core, Owned
  <2>2. Live("list")' => queue' # <<>> /\ queue'[1] = Job("list", "drop")  BY <1>4 DEF Core, Owned
  <2>3. Live("host")' => active'  BY <1>3, <1>4 DEF Core, Owned
  <2>4. Live("output")' => alone'
    <3>1. Live("output") => alone  BY <1>3 DEF Core, Owned
    <3> QED  BY <1>4, <3>1
  <2>5. ~InScript("close_host")  BY <1>1 DEF InScript
  <2>6. Live("host")' /\ gap' > 0 => alone' \/ InScript("close_host")'
    <3>1. CASE gap' = gap /\ alone' = alone  BY <1>3, <1>4, <2>5, <3>1 DEF Core, Owned
    <3>2. CASE gap' = 0  BY <3>2
    <3>3. CASE t # <<>> /\ t[1] = "close_output"
      <4>1. 2 \in DOMAIN t /\ t[2] = "close_host"  BY <3>3, ScriptsAreScripts
      <4> QED  BY <1>1, <4>1 DEF InScript
    <3> QED  BY <3>1, <3>2, <3>3
  <2> QED  BY <2>1, <2>2, <2>3, <2>4, <2>6 DEF Owned
<1>9. Registered'
  <2>1. callbacks \subseteq Owners  BY DEF TypeOK
  <2> QED  BY <1>4, <2>1 DEF Core, Registered
<1> QED  BY <1>5, <1>6, <1>7, <1>8, <1>9 DEF Core

\* Who the lock is taken for has what is open, or its script lowers the flag.
LEMMA ScriptedTold ==
  ASSUME TypeOK, Core, Told, NEW t \in ScriptSet, Holds(t), UNCHANGED <<native, st, callbacks, queue, active>>,
         capturing \/ warm # "none" =>
           capturing' \/ warm' # "none" \/ \E i \in DOMAIN t : t[i] = "lower",
         t = <<"reopen_host">> \/ t = <<"open_output">> => capturing'
  PROVE  Told'
<1>1. todo = <<>> /\ todo' = t  BY DEF Holds
<1>2. Live("host")' = Live("host") /\ Live("output")' = Live("output")  BY DEF Live
<1>3. Heard'
  <2>1. Busy("host")' <=> Busy("host")  BY DEF Busy
  <2> QED  BY <2>1, HeardKept DEF Told
<1>4. active \/ Live("host") \/ Live("output") => capturing \/ warm # "none"
  <2>1. ~InScript("lower")  BY <1>1 DEF InScript
  <2> QED  BY <1>1, <2>1 DEF Told, Released
<1>5. active \/ Live("host") \/ Live("output") => capturing' \/ warm' # "none" \/ InScript("lower")'
  BY <1>1, <1>4 DEF InScript
<1>6. t # <<>> => /\ t[1] \in {"reopen_host", "open_output"} => capturing'
                  /\ t[1] # "open_host"
  <2>1. CASE t # <<>> /\ t[1] = "close_output"  BY <2>1
  <2>2. CASE t = <<"reopen_host">>  BY <2>2
  <2>3. CASE t = <<"open_output">>  BY <2>3
  <2> QED  BY <2>1, <2>2, <2>3, ScriptsAreScripts
<1>7. Released'  BY <1>1, <1>2, <1>5, <1>6 DEF Released
<1> QED  BY <1>3, <1>7 DEF Told

\* The holder of the lock begins a script.
LEMMA PipelineStep ==
  ASSUME TypeOK, Core, Told, Pipeline  PROVE  TypeOK' /\ Core' /\ Told'
<1>0. /\ gap \in 0 .. Attempts /\ alone \in BOOLEAN /\ Attempts > 0 /\ 0 \in 0 .. Attempts
      /\ Attempts \in 0 .. Attempts /\ pending \in BOOLEAN /\ capturing \in BOOLEAN
  BY AsioConstants DEF TypeOK
<1>1. /\ <<>> \in ScriptSet /\ CloseStreams \in ScriptSet /\ CloseDriver \in ScriptSet
      /\ CloseDriver \o (IF pending THEN <<"recycle">> ELSE <<>>) \o <<"open_host">> \in ScriptSet
      /\ <<"reopen_host">> \in ScriptSet /\ <<"open_output">> \in ScriptSet
  <2>1. CASE pending  BY <2>1, Scripts DEF ScriptSet
  <2>2. CASE ~pending  BY <2>2, Scripts DEF ScriptSet
  <2> QED  BY <2>1, <2>2
<1>2. /\ CloseStreams[1] = "close_output" /\ CloseDriver[1] = "close_output"
      /\ <<"reopen_host">>[1] = "reopen_host" /\ <<"open_output">>[1] = "open_output"
  BY Scripts
<1>3. ASSUME NEW t \in ScriptSet, Holds(t),
             UNCHANGED <<native, st, old, callbacks, in_flight, queue, recycling, active, gap, alone>>,
             t # <<"reopen_host">>, t = <<"open_output">> => ~Live("output") /\ ~Live("host")
      PROVE  Core'
  BY <1>0, <1>3, Scripted
<1>4. ASSUME NEW t \in ScriptSet, Holds(t),
             UNCHANGED <<native, st, old, callbacks, in_flight, queue, recycling, active, listing, twice>>,
             gap' \in 0 .. Attempts, alone' \in BOOLEAN, pending' \in BOOLEAN, capturing' \in BOOLEAN,
             warm' \in {"none", "active", "parked"}
      PROVE  TypeOK'
  <2>1. todo' \in Seq(Items)  BY <1>4, ScriptsAreScripts DEF Holds
  <2> QED  BY <1>4, <2>1 DEF TypeOK, Items
<1>12. \E i \in DOMAIN CloseDriver : CloseDriver[i] = "lower"
  <2>1. 3 \in DOMAIN CloseDriver /\ CloseDriver[3] = "lower"  BY Scripts
  <2> QED  BY <2>1
<1>5. CASE Reuse
  <2>1. /\ Holds(<<>>) /\ warm' = "active" /\ capturing' = TRUE
        /\ UNCHANGED <<native, st, old, callbacks, in_flight, queue, recycling, active, pending, gap, alone,
                       listing, twice>>
    BY <1>5 DEF Reuse, driverVars
  <2>2. <<>> # <<"reopen_host">> /\ <<>> # <<"open_output">>  OBVIOUS
  <2>3. Told'  BY <1>1, <2>1, <2>2, ScriptedTold
  <2> QED  BY <1>0, <1>1, <1>3, <1>4, <2>1, <2>2, <2>3
<1>6. CASE Acquire
  <2>1. PICK t : t = CloseDriver \o (IF pending THEN <<"recycle">> ELSE <<>>) \o <<"open_host">>
    OBVIOUS
  <2>2. /\ Holds(t) /\ warm' = "none" /\ pending' = FALSE
        /\ UNCHANGED <<native, st, old, callbacks, in_flight, queue, recycling, active, capturing, gap, alone,
                       listing, twice>>
    BY <1>6, <2>1 DEF Acquire, driverVars
  <2>3. t \in ScriptSet /\ t[1] = "close_output" /\ 3 \in DOMAIN t /\ t[3] = "lower"
    <3>1. CASE pending  BY <2>1, <3>1, Scripts DEF ScriptSet
    <3>2. CASE ~pending  BY <2>1, <3>2, Scripts DEF ScriptSet
    <3> QED  BY <3>1, <3>2
  <2>4. t # <<"reopen_host">> /\ t # <<"open_output">>  BY <1>2, <2>3
  <2>5. Told'
    <3>1. \E i \in DOMAIN t : t[i] = "lower"  BY <2>3
    <3> QED  BY <2>2, <2>3, <2>4, <3>1, ScriptedTold
  <2> QED  BY <1>0, <1>3, <1>4, <2>2, <2>3, <2>4, <2>5
<1>7. CASE Leave
  <2>1. PICK t \in {<<>>, CloseDriver} : /\ Holds(t) /\ warm' \in {warm, "parked"}
                                         /\ t = CloseDriver \/ warm' = "parked"
    BY <1>7 DEF Leave
  <2>2. /\ capturing' = FALSE
        /\ UNCHANGED <<native, st, old, callbacks, in_flight, queue, recycling, active, pending, gap, alone,
                       listing, twice>>
    BY <1>7 DEF Leave, driverVars
  <2>3. t \in ScriptSet /\ t # <<"reopen_host">> /\ t # <<"open_output">>
    <3>1. CASE t = <<>>  BY <1>1, <3>1
    <3>2. CASE t = CloseDriver  BY <1>1, <1>2, <3>2
    <3> QED  BY <3>1, <3>2
  <2>4. warm' \in {"none", "active", "parked"}  BY <2>1 DEF TypeOK
  <2>5. Told'
    <3>1. warm' # "none" \/ \E i \in DOMAIN t : t[i] = "lower"  BY <1>12, <2>1
    <3> QED  BY <2>1, <2>2, <2>3, <3>1, ScriptedTold
  <2> QED  BY <1>0, <1>3, <1>4, <2>1, <2>2, <2>3, <2>4, <2>5
<1>8. CASE GraceOver
  <2>1. /\ Holds(CloseDriver) /\ warm' = "none" /\ pending' = TRUE
        /\ UNCHANGED <<native, st, old, callbacks, in_flight, queue, recycling, active, capturing, gap, alone,
                       listing, twice>>
    BY <1>8 DEF GraceOver, driverVars
  <2>2. CloseDriver # <<"reopen_host">> /\ CloseDriver # <<"open_output">>  BY <1>2
  <2>3. Told'  BY <1>1, <1>12, <2>1, <2>2, ScriptedTold
  <2> QED  BY <1>0, <1>1, <1>3, <1>4, <2>1, <2>2, <2>3
<1>9. CASE Repair
  <2>1. /\ Holds(CloseStreams) /\ gap' = Attempts /\ capturing
        /\ UNCHANGED <<native, st, old, callbacks, in_flight, queue, recycling, active, pending, capturing,
                       warm, alone, listing, twice>>
    BY <1>9 DEF Repair, driverVars
  <2>2. /\ CloseStreams # <<"reopen_host">> /\ CloseStreams # <<"open_output">> /\ CloseStreams # <<>>
        /\ CloseStreams[1] = "close_output"
    BY <1>2, Scripts
  <2>3. Core'  BY <1>0, <1>1, <2>1, <2>2, Scripted
  <2>4. warm' \in {"none", "active", "parked"}  BY <2>1 DEF TypeOK
  <2>5. Told'  BY <1>1, <2>1, <2>2, ScriptedTold
  <2> QED  BY <1>0, <1>1, <1>4, <2>1, <2>3, <2>4, <2>5
<1>10. CASE Rebuild
  <2>1. /\ gap > 0
        /\ UNCHANGED <<native, st, old, callbacks, in_flight, queue, recycling, active, pending, capturing,
                       warm, listing, twice>>
    BY <1>10 DEF Rebuild, driverVars
  <2>2. warm' \in {"none", "active", "parked"}  BY <2>1 DEF TypeOK
  <2>3. CASE capturing
    <3>1. Holds(<<"reopen_host">>) /\ gap' = gap /\ alone' = alone  BY <1>10, <2>3 DEF Rebuild
    <3>2. Core'
      <4>1. PICK t \in ScriptSet : t = <<"reopen_host">> /\ t # <<"open_output">>  BY <1>1, <1>2
      <4> QED  BY <1>0, <2>1, <3>1, <4>1, Scripted
    <3>3. Told'  BY <1>1, <2>1, <2>3, <3>1, ScriptedTold
    <3> QED  BY <1>0, <1>1, <1>4, <2>1, <2>2, <3>1, <3>2, <3>3
  <2>4. CASE ~capturing
    <3>1. Holds(<<>>) /\ gap' = 0 /\ alone' = Live("output")  BY <1>10, <2>4 DEF Rebuild
    <3>2. alone' \in BOOLEAN
      <4>1. Live("output") \in BOOLEAN  BY DEF Live
      <4> QED  BY <3>1, <4>1
    <3>3. Core'
      <4>1. PICK t \in ScriptSet : t = <<>> /\ t # <<"open_output">> /\ t # <<"reopen_host">>  BY <1>1
      <4> QED  BY <1>0, <2>1, <3>1, <3>2, <4>1, Scripted
    <3>4. Told'
      <4>1. PICK t \in ScriptSet : t = <<>> /\ t # <<"open_output">> /\ t # <<"reopen_host">>  BY <1>1
      <4> QED  BY <2>1, <3>1, <4>1, ScriptedTold
    <3> QED  BY <1>0, <1>1, <1>4, <2>1, <2>2, <3>1, <3>2, <3>3, <3>4
  <2> QED  BY <2>3, <2>4
<1>11. CASE AddStream
  <2>1. /\ capturing /\ ~Live("output") /\ ~Live("host") /\ Holds(<<"open_output">>)
        /\ UNCHANGED <<native, st, old, callbacks, in_flight, queue, recycling, active, pending, capturing,
                       warm, gap, alone, listing, twice>>
    BY <1>11 DEF AddStream, driverVars, sessionVars
  <2>2. <<"open_output">> # <<"reopen_host">>  BY <1>2
  <2>3. warm' \in {"none", "active", "parked"}  BY <2>1 DEF TypeOK
  <2>4. Told'  BY <1>1, <2>1, ScriptedTold
  <2> QED  BY <1>0, <1>1, <1>3, <1>4, <2>1, <2>2, <2>3, <2>4
<1> QED  BY <1>5, <1>6, <1>7, <1>8, <1>9, <1>10, <1>11 DEF Pipeline

\* An item of the script is over without a job, or a job is sent for it.
LEMMA ItemOver ==
  ASSUME TypeOK, Core, Told, todo # <<>>, ~Waiting, todo' = Tail(todo),
         UNCHANGED <<native, st, callbacks, in_flight, queue, gap, alone, capturing, warm>>, old' = {}, ~recycling',
         todo[1] \in {"close_output", "close_host", "lower", "recycle"},
         todo[1] = "close_output" => ~Live("output"),
         todo[1] = "close_host" => ~Live("host"),
         IF todo[1] = "lower" THEN active' = FALSE ELSE active' = active
  PROVE  Core' /\ Told'
<1>1. /\ todo \in Seq(Items)
      /\ \A i \in DOMAIN todo' : i \in Nat /\ i > 0 /\ i + 1 \in DOMAIN todo /\ todo'[i] = todo[i + 1]
      /\ todo' # <<>> => 2 \in DOMAIN todo /\ todo'[1] = todo[2]
      /\ \A i \in DOMAIN todo : i \in Nat /\ (i # 1 => i - 1 \in DOMAIN todo' /\ todo'[i - 1] = todo[i])
  <2>1. todo \in Seq(Items)  BY DEF TypeOK, Items
  <2> QED  BY <2>1, Popped
<1>2. \A k \in DOMAIN queue : queue[k].owner = "list"  BY DEF Waiting
<1>3. ~Busy("host") /\ ~Busy("output") /\ ~Begun
  <2>1. queue \in Seq(JobSet)  BY DEF TypeOK, JobSet
  <2>2. queue # <<>> => 1 \in DOMAIN queue  BY <2>1, Popped
  <2> QED  BY <1>2, <2>2 DEF Busy, Begun
<1>4. \A x \in Owners : Live(x)' = Live(x) /\ Busy(x)' = Busy(x)  BY DEF Live, Busy
<1>5. Live("host")' = Live("host") /\ Live("output")' = Live("output") /\ Live("list")' = Live("list")
      /\ ~Begun'
  BY <1>3, <1>4 DEF Live, Busy, Begun
<1>6. todo' # <<>> => <<todo[1], todo'[1]>> \in Follows
  <2> SUFFICES ASSUME todo' # <<>>  PROVE  <<todo[1], todo'[1]>> \in Follows
    OBVIOUS
  <2>1. PICK i \in DOMAIN todo : i = 2 /\ todo'[1] = todo[i]  BY <1>1
  <2>2. i > 1 /\ i - 1 = 1  BY <2>1
  <2>3. <<todo[i - 1], todo[i]>> \in Follows  BY <2>2 DEF Core, OneScript
  <2> QED  BY <2>1, <2>2, <2>3
<1>7. todo' # <<>> => \/ todo[1] = "close_output" /\ todo'[1] = "close_host"
                      \/ todo[1] = "close_host" /\ todo'[1] = "lower"
                      \/ todo[1] = "lower" /\ todo'[1] \in {"recycle", "open_host"}
                      \/ todo[1] = "recycle" /\ todo'[1] = "open_host"
  BY <1>6 DEF Follows
<1>8. OneScript'
  <2> SUFFICES ASSUME NEW i \in DOMAIN todo', i > 1
               PROVE  <<todo'[i-1], todo'[i]>> \in Follows
    BY DEF OneScript
  <2>1. i \in Nat /\ i + 1 \in DOMAIN todo /\ todo'[i] = todo[i + 1] /\ i + 1 > 1  BY <1>1
  <2>2. i - 1 \in DOMAIN todo' /\ (i - 1) + 1 = i /\ (i + 1) - 1 = i  BY <1>1, <2>1
  <2>3. todo'[i - 1] = todo[i]  BY <1>1, <2>2
  <2>4. <<todo[(i + 1) - 1], todo[i + 1]>> \in Follows  BY <2>1 DEF Core, OneScript
  <2> QED  BY <2>1, <2>2, <2>3, <2>4
<1>9. Jobs'
  <2>1. \A k \in DOMAIN queue : JobIsTrue(k)'
    <3> SUFFICES ASSUME NEW k \in DOMAIN queue  PROVE  JobIsTrue(k)'
      OBVIOUS
    <3>1. JobIsTrue(k) /\ queue[k].owner = "list"  BY <1>2 DEF Core, Jobs
    <3>2. queue[k].step \notin {"load", "clear"} => Live("list")  BY <3>1 DEF JobIsTrue
    <3> QED  BY <1>5, <3>1, <3>2 DEF JobIsTrue
  <2> QED  BY <2>1 DEF Core, Jobs
<1>10. Ready'
  <2> SUFFICES ASSUME todo' # <<>>  PROVE  Ready'
    BY DEF Ready
  <2>1. CASE todo[1] = "close_output" /\ todo'[1] = "close_host"  BY <1>5, <2>1 DEF Ready
  <2>2. CASE todo[1] = "close_host" /\ todo'[1] = "lower"
    BY <1>5, <2>2 DEF Core, Ready
  <2>3. CASE todo[1] = "lower" /\ todo'[1] \in {"recycle", "open_host"}
    BY <1>5, <2>3 DEF Core, Ready
  <2>4. CASE todo[1] = "recycle" /\ todo'[1] = "open_host"
    BY <1>5, <2>4 DEF Core, Ready
  <2> QED  BY <1>7, <2>1, <2>2, <2>3, <2>4
<1>11. Owned'
  <2>1. \A x \in Owners : Live(x)' => native'.loaded = x  BY <1>4 DEF Core, Owned
  <2>2. Live("list")' => queue' # <<>> /\ queue'[1] = Job("list", "drop")  BY <1>5 DEF Core, Owned
  <2>3. Live("host")' => active'
    <3>1. Live("host") => active /\ todo[1] # "lower"  BY <1>3 DEF Core, Owned, Ready
    <3> QED  BY <1>5, <3>1
  <2>4. Live("output")' => alone'  BY <1>3, <1>5 DEF Core, Owned
  <2>5. Live("host")' /\ gap' > 0 => alone' \/ InScript("close_host")'
    <3> SUFFICES ASSUME Live("host"), gap > 0, ~alone  PROVE  InScript("close_host")'
      BY <1>5
    <3>1. PICK i \in DOMAIN todo : todo[i] = "close_host"  BY <1>3 DEF Core, Owned, InScript
    <3>2. i # 1  BY <3>1
    <3> QED  BY <1>1, <3>1, <3>2 DEF InScript
  <2> QED  BY <2>1, <2>2, <2>3, <2>4, <2>5 DEF Owned
<1>12. Registered'
  <2>1. callbacks \subseteq Owners  BY DEF TypeOK
  <2> QED  BY <1>4, <2>1 DEF Core, Registered
<1>13. Heard'
  <2>1. Busy("host")' <=> Busy("host")  BY DEF Busy
  <2> QED  BY <2>1, HeardKept DEF Told
<1>14. Released'
  <2>1. todo' # <<>> => todo'[1] \notin {"reopen_host", "open_output"}  BY <1>7
  <2>2. todo' # <<>> /\ todo'[1] = "open_host" => ~Live("output")'
    BY <1>5, <1>7 DEF Core, Ready
  <2>3. CASE todo[1] = "lower"
    <3>1. ~Live("output")' /\ ~Live("host")'  BY <1>5, <2>3 DEF Core, Ready
    <3>2. ~active'  BY <2>3
    <3> QED  BY <2>1, <2>2, <3>1, <3>2 DEF Released
  <2>4. CASE todo[1] # "lower"
    <3>1. InScript("lower") => InScript("lower")'  BY <2>4, LowerLeft
    <3>2. active' = active /\ todo[1] # "open_host"  BY <2>4
    <3> QED  BY <1>5, <2>1, <2>2, <3>1, <3>2 DEF Told, Released
  <2> QED  BY <2>3, <2>4
<1> QED  BY <1>8, <1>9, <1>10, <1>11, <1>12, <1>13, <1>14 DEF Core, Told

\* A job is added behind those there are.
LEMMA JobSent ==
  ASSUME TypeOK, Core, Told, NEW o \in Owners, NEW step \in {"load", "remove"}, queue' = Append(queue, Job(o, step)),
         \A k \in DOMAIN queue : (queue[k].owner = "list") # (o = "list"),
         o = "list" => step = "load",
         step = "remove" => Live(o),
         o # "list" => /\ todo # <<>> /\ todo[1] \in DOMAIN Target /\ Target[todo[1]] = o
                       /\ step = "load" => todo[1] \in DOMAIN Opens,
         UNCHANGED <<native, st, old, callbacks, in_flight, recycling, active, pending, capturing, warm, todo,
                     gap, alone, listing, twice>>
  PROVE  TypeOK' /\ Core' /\ Told'
<1>1. PICK j \in JobSet : j = Job(o, step) /\ j.owner = o /\ j.step = step
  <2>1. step \in Steps  BY DEF Steps
  <2> QED  BY <2>1 DEF JobSet, Job
<1>2. queue \in Seq(JobSet) /\ queue' = Append(queue, j) /\ Len(queue) \in Nat
  BY <1>1 DEF TypeOK, JobSet
<1>3. /\ queue' \in Seq(JobSet) /\ queue' # <<>> /\ Len(queue') = Len(queue) + 1
      /\ DOMAIN queue' = 1 .. Len(queue) + 1 /\ DOMAIN queue = 1 .. Len(queue)
      /\ queue'[Len(queue) + 1] = j
      /\ \A k \in 1 .. Len(queue) : queue'[k] = queue[k]
  BY <1>2, Added
<1>4. Len(queue) =< 1
  <2> SUFFICES ASSUME Len(queue) >= 2  PROVE  FALSE
    BY <1>2
  <2>1. 1 \in DOMAIN queue /\ 2 \in DOMAIN queue  BY <1>2, <1>3
  <2>2. (queue[1].owner = "list") # (o = "list") /\ (queue[2].owner = "list") # (o = "list")  BY <2>1
  <2>3. (queue[1].owner = "list") <=> (queue[2].owner = "list")  BY <2>2
  <2>4. 1 = 2  BY <2>1, <2>3 DEF Core, Jobs
  <2> QED  BY <2>4
<1>5. TypeOK'
  <2>1. Len(queue') =< 2  BY <1>2, <1>3, <1>4
  <2> QED  BY <1>3, <2>1 DEF TypeOK, JobSet
<1>6. \A x : Busy(x)' <=> Busy(x)
  <2>1. CASE queue = <<>>
    <3>1. Len(queue) = 0  BY <2>1
    <3>2. queue'[1] = j  BY <1>3, <3>1
    <3> QED  BY <1>1, <2>1, <3>2 DEF Busy
  <2>2. CASE queue # <<>>
    <3>1. 1 \in 1 .. Len(queue)  BY <1>2, <2>2
    <3> QED  BY <1>3, <2>2, <3>1 DEF Busy
  <2> QED  BY <2>1, <2>2
<1>7. \A x : Live(x)' <=> Live(x)  BY DEF Live
<1>8. Begun' <=> Begun  BY <1>6 DEF Begun
<1>9. OneScript' /\ Ready'
  BY <1>7, <1>8 DEF Core, OneScript, Ready
<1>10. Owned'
  <2>1. queue # <<>> => queue'[1] = queue[1] /\ 1 \in DOMAIN queue
    <3> SUFFICES ASSUME queue # <<>>  PROVE  queue'[1] = queue[1] /\ 1 \in DOMAIN queue
      OBVIOUS
    <3>1. 1 \in 1 .. Len(queue)  BY <1>2
    <3> QED  BY <1>3, <3>1
  <2> QED  BY <1>3, <1>6, <1>7, <2>1 DEF Core, Owned, InScript
<1>11. Registered'
  <2>1. \A c \in callbacks : Busy(c) => queue'[1] = queue[1]
    <3> SUFFICES ASSUME NEW c \in callbacks, Busy(c)  PROVE  queue'[1] = queue[1]
      OBVIOUS
    <3>1. 1 \in 1 .. Len(queue)  BY <1>2 DEF Busy
    <3> QED  BY <1>3, <3>1
  <2> QED  BY <1>6, <1>7, <2>1 DEF Core, Registered
<1>12. Jobs'
  <2>1. ASSUME NEW k \in DOMAIN queue'
        PROVE  \/ k \in DOMAIN queue /\ queue'[k] = queue[k]
               \/ k = Len(queue) + 1 /\ k \notin DOMAIN queue /\ queue'[k] = j
    BY <1>2, <1>3, <2>1
  <2>2. ASSUME NEW k \in DOMAIN queue'  PROVE  JobIsTrue(k)'
    <3>1. CASE k \in DOMAIN queue /\ queue'[k] = queue[k]
      <4>1. JobIsTrue(k)  BY <3>1 DEF Core, Jobs
      <4> QED  BY <1>7, <3>1, <4>1 DEF JobIsTrue
    <3>2. CASE queue'[k] = j
      <4>1. queue'[k].owner = o /\ queue'[k].step = step  BY <1>1, <3>2
      <4>2. todo' = todo /\ (step = "remove" => Live(o)')  BY <1>7
      <4> QED  BY <4>1, <4>2 DEF JobIsTrue, Opening
    <3> QED  BY <2>1, <3>1, <3>2
  <2>3. ASSUME NEW k \in DOMAIN queue', NEW l \in DOMAIN queue',
               queue'[k].owner = "list" <=> queue'[l].owner = "list"
        PROVE  k = l
    <3>1. CASE k \in DOMAIN queue /\ l \in DOMAIN queue
      BY <1>3, <2>3, <3>1 DEF Core, Jobs
    <3>2. CASE k \in DOMAIN queue /\ l \notin DOMAIN queue
      BY <1>1, <2>1, <2>3, <3>2
    <3>3. CASE k \notin DOMAIN queue /\ l \in DOMAIN queue
      BY <1>1, <2>1, <2>3, <3>3
    <3>4. CASE k \notin DOMAIN queue /\ l \notin DOMAIN queue  BY <2>1, <3>4
    <3> QED  BY <3>1, <3>2, <3>3, <3>4
  <2> QED  BY <2>2, <2>3 DEF Core, Jobs
<1>13. Heard'
  <2>1. Busy("host") => queue'[1] = queue[1]
    <3> SUFFICES ASSUME Busy("host")  PROVE  queue'[1] = queue[1]
      OBVIOUS
    <3>1. 1 \in 1 .. Len(queue)  BY <1>2 DEF Busy
    <3> QED  BY <1>3, <3>1
  <2> QED  BY <1>6, <2>1, HeardKept DEF Told
<1>14. Released'  BY <1>7, ReleasedKept DEF Told
<1> QED  BY <1>5, <1>9, <1>10, <1>11, <1>12, <1>13, <1>14 DEF Core, Told

\* Its next item: a job, the flag, a new apartment, or nothing to close.
LEMMA SendStep ==
  ASSUME TypeOK, Core, Told, Send  PROVE  TypeOK' /\ Core' /\ Told'
<1>1. /\ todo # <<>> /\ ~Waiting /\ ~recycling /\ todo \in Seq(Items) /\ Head(todo) = todo[1]
      /\ todo[1] \in Items
  <2>1. todo # <<>> /\ todo \in Seq(Items)  BY DEF Send, TypeOK, Items
  <2> QED  BY <2>1, Popped DEF Send
<1>2. UNCHANGED <<native, st, callbacks, old, in_flight, pending, capturing, warm, gap, alone, listing, twice>>
  BY DEF Send, driverVars
<1>3. \A k \in DOMAIN queue : queue[k].owner = "list"  BY <1>1 DEF Waiting
<1>4. old = {}  BY DEF Core, Registered
<1>5. CASE todo[1] = "lower"
  <2>1. active' = FALSE /\ todo' = Tail(todo) /\ UNCHANGED <<queue, recycling>>  BY <1>1, <1>5 DEF Send, Opens
  <2>2. Core' /\ Told'  BY <1>1, <1>2, <1>4, <1>5, <2>1, ItemOver
  <2>3. todo' \in Seq(Items)  BY <1>1, <2>1, Popped
  <2>4. TypeOK'  BY <1>2, <2>1, <2>3 DEF TypeOK, Items
  <2> QED  BY <2>2, <2>4
<1>6. CASE todo[1] = "recycle"
  <2>1. recycling' = TRUE /\ UNCHANGED <<queue, todo, active>>  BY <1>1, <1>6 DEF Send, Opens
  <2>2. TypeOK'  BY <1>2, <2>1 DEF TypeOK
  <2>3. Core'
    <3>1. OneScript' /\ Ready' /\ Owned' /\ Registered'
      BY <1>2, <2>1 DEF Core, OneScript, Ready, Owned, Registered, Live, Busy, Begun, InScript
    <3>2. Jobs'
      <4>1. \A k \in DOMAIN queue : JobIsTrue(k)'
        BY <1>2, <2>1 DEF Core, Jobs, JobIsTrue, Live
      <4> QED  BY <1>1, <1>6, <2>1, <4>1 DEF Core, Jobs
    <3> QED  BY <3>1, <3>2 DEF Core
  <2>4. Told'
    <3>1. Busy("host")' <=> Busy("host")  BY <2>1 DEF Busy
    <3>2. Live("host")' = Live("host") /\ Live("output")' = Live("output")  BY <1>2 DEF Live
    <3> QED  BY <1>2, <2>1, <3>1, <3>2, HeardKept, ReleasedKept DEF Told
  <2> QED  BY <2>2, <2>3, <2>4
<1>7. CASE todo[1] \in DOMAIN Opens
  <2>1. /\ queue' = Append(queue, Job(Opens[todo[1]], "load")) /\ UNCHANGED <<todo, active, recycling>>
        /\ Opens[todo[1]] \in {"host", "output"} /\ todo[1] \in DOMAIN Target
        /\ Target[todo[1]] = Opens[todo[1]]
    BY <1>1, <1>7 DEF Send, Opens, Target
  <2>2. PICK o \in Owners : o = Opens[todo[1]] /\ o # "list"  BY <2>1 DEF Owners
  <2>3. queue' = Append(queue, Job(o, "load"))  BY <2>1, <2>2
  <2> QED  BY <1>1, <1>2, <1>3, <1>7, <2>1, <2>2, <2>3, JobSent
<1>8. CASE todo[1] \in DOMAIN Closes
  <2>1. /\ UNCHANGED <<active, recycling>>
        /\ IF Live(Closes[todo[1]])
           THEN queue' = Append(queue, Job(Closes[todo[1]], "remove")) /\ UNCHANGED todo
           ELSE todo' = Tail(todo) /\ UNCHANGED queue
    BY <1>1, <1>8 DEF Send, Opens, Closes
  <2>2. /\ Closes[todo[1]] \in {"host", "output"} /\ todo[1] \in DOMAIN Target
        /\ Target[todo[1]] = Closes[todo[1]] /\ todo[1] \in {"close_output", "close_host"}
        /\ todo[1] = "close_output" => Closes[todo[1]] = "output"
        /\ todo[1] = "close_host" => Closes[todo[1]] = "host"
    BY <1>8 DEF Closes, Target
  <2>3. CASE Live(Closes[todo[1]])
    <3>1. PICK o \in Owners : o = Closes[todo[1]] /\ o # "list"  BY <2>2 DEF Owners
    <3>2. queue' = Append(queue, Job(o, "remove")) /\ Live(o) /\ UNCHANGED todo  BY <2>1, <2>3, <3>1
    <3> QED  BY <1>1, <1>2, <1>3, <2>1, <2>2, <3>1, <3>2, JobSent
  <2>4. CASE ~Live(Closes[todo[1]])
    <3>1. todo' = Tail(todo) /\ UNCHANGED <<queue, active, recycling>>  BY <2>1, <2>4
    <3>2. /\ todo[1] = "close_output" => ~Live("output")
          /\ todo[1] = "close_host" => ~Live("host")
      BY <2>2, <2>4
    <3>3. Core' /\ Told'  BY <1>1, <1>2, <1>4, <2>2, <3>1, <3>2, ItemOver
    <3>4. todo' \in Seq(Items)  BY <1>1, <3>1, Popped
    <3>5. TypeOK'  BY <1>2, <3>1, <3>4 DEF TypeOK, Items
    <3> QED  BY <3>3, <3>5
  <2> QED  BY <2>3, <2>4
<1> QED  BY <1>1, <1>5, <1>6, <1>7, <1>8 DEF Items, Opens, Closes

\* The apartment changes while no instance is alive.
LEMMA RecycledStep ==
  ASSUME TypeOK, Core, Told, Recycled  PROVE  TypeOK' /\ Core' /\ Told'
<1>1. /\ recycling /\ queue = <<>> /\ recycling' = FALSE /\ todo' = Tail(todo)
      /\ old' = old \cup {o \in Owners : Live(o)}
      /\ UNCHANGED <<native, st, callbacks, in_flight, queue, active, pending, capturing, warm, gap, alone,
                     listing, twice>>
  BY DEF Recycled, driverVars, sessionVars
<1>2. todo # <<>> /\ todo[1] = "recycle"  BY <1>1 DEF Core, Jobs
<1>3. ~Live("output") /\ ~Live("host") /\ ~Live("list")  BY <1>1, <1>2 DEF Core, Ready, Owned
<1>4. old' = {}  BY <1>1, <1>3 DEF Core, Registered, Owners
<1>5. ~Waiting  BY <1>1 DEF Waiting
<1>6. Core' /\ Told'  BY <1>1, <1>2, <1>4, <1>5, ItemOver
<1>7. todo' \in Seq(Items)
  <2>1. todo \in Seq(Items)  BY DEF TypeOK, Items
  <2> QED  BY <1>1, <1>2, <2>1, Popped
<1>8. TypeOK'  BY <1>1, <1>4, <1>7 DEF TypeOK, Items
<1> QED  BY <1>6, <1>8

\* The studio's job is sent.
LEMMA SendListStep ==
  ASSUME TypeOK, Core, Told, SendList  PROVE  TypeOK' /\ Core' /\ Told'
<1>1. /\ \A k \in DOMAIN queue : queue[k].owner # "list"
      /\ queue' = Append(queue, Job("list", "load")) /\ "list" \in Owners
      /\ UNCHANGED <<native, st, old, callbacks, in_flight, recycling, active, pending, capturing, warm, todo,
                     gap, alone, listing, twice>>
  BY DEF SendList, driverVars, sessionVars, Owners
<1> QED  BY <1>1, JobSent

-----------------------------------------------------------------------------
(* The theorems.                                                           *)

\* The invariant holds at first.
LEMMA InvInit == Init => IInv
<1> SUFFICES ASSUME Init  PROVE  IInv
  OBVIOUS
<1>1. \A o \in Owners : st[o] = "none"  BY DEF Init
<1>2. st["host"] = "none" /\ st["output"] = "none" /\ st["list"] = "none"  BY <1>1 DEF Owners
<1>3. TypeOK
  <2>1. native \in Natives  BY DEF Init, Unloaded, Natives
  <2>2. st \in [Owners -> DriverStates]  BY DEF Init, DriverStates
  <2>3. queue \in Seq(JobSet) /\ Len(queue) =< 2 /\ todo \in Seq(Items)  BY DEF Init
  <2>4. gap \in 0 .. Attempts  BY AsioConstants DEF Init
  <2> QED  BY <2>1, <2>2, <2>3, <2>4 DEF Init, TypeOK, Natives, JobSet, Items
<1>4. Core
  BY <1>1, <1>2 DEF Init, Core, OneScript, Jobs, Ready, Owned, Registered, Live
<1>5. Told
  BY <1>1, <1>2 DEF Init, Told, Heard, Released, Live, Busy, Unloaded
<1> QED  BY <1>3, <1>4, <1>5 DEF IInv, Init

\* Every step keeps the invariant.
LEMMA InvStep == IInv /\ [Next]_vars => IInv'
<1> SUFFICES ASSUME IInv, [Next]_vars  PROVE  IInv'
  OBVIOUS
<1>1. CASE UNCHANGED vars
  <2>1. UNCHANGED <<native, st, old, callbacks, in_flight, queue, recycling, active, pending, capturing, warm,
                    todo, gap, alone, listing, twice>>
    BY <1>1 DEF vars
  <2>2. TypeOK'  BY <2>1 DEF IInv, TypeOK
  <2>3. Core /\ Told => Core' /\ Told'
    <3> SUFFICES ASSUME Core, Told  PROVE  Core' /\ Told'
      OBVIOUS
    <3>1. in_flight' \subseteq callbacks  BY <2>1 DEF Core, Registered
    <3> QED  BY <2>1, <3>1, Idle
  <2> QED  BY <2>1, <2>2, <2>3 DEF IInv
<1>2. CASE Next
  <2>1. ~twice /\ TypeOK /\ Core /\ Told /\ alone \in BOOLEAN  BY <1>2 DEF Next, IInv, TypeOK
  <2>2. ASSUME NEW o \in Owners, Load(o)  PROVE  IInv'
    BY <2>1, <2>2, LoadStep DEF IInv
  <2>3. CASE TypeOK' /\ Core' /\ Told' /\ ~twice'  BY <2>3 DEF IInv
  <2>4. ASSUME NEW o \in Owners,
               CreateBuffers(o) \/ Register(o) \/ StartDriver(o) \/ Unregister(o) \/ Drop(o) \/ Clear(o)
        PROVE  IInv'
    <3>1. TypeOK' /\ Core' /\ Told'
      BY <2>1, <2>4, CreateStep, RegisterStep, StartStep, UnregisterStep, DropStep, ClearStep
    <3>2. twice' = twice
      BY <2>4 DEF CreateBuffers, Register, StartDriver, Unregister, Drop, Clear
    <3> QED  BY <2>1, <2>3, <3>1, <3>2
  <2>5. CASE ServeCache \/ Prime \/ Primed \/ StopHost \/ DisposeHost
    <3>1. TypeOK' /\ Core' /\ Told'
      BY <2>1, <2>5, ServeStep, PrimeStep, PrimedStep, StopStep, DisposeStep
    <3>2. twice' = twice  BY <2>5 DEF ServeCache, Prime, Primed, StopHost, DisposeHost
    <3> QED  BY <2>1, <2>3, <3>1, <3>2
  <2>6. CASE BufferSwitch \/ SwitchOver \/ GetDevices \/ SendList \/ Send \/ Recycled
    <3>1. TypeOK' /\ Core' /\ Told'
      BY <2>1, <2>6, BufferSwitchStep, SwitchOverStep, GetDevicesStep, SendListStep, SendStep, RecycledStep
    <3>2. twice' = twice
      BY <2>6 DEF BufferSwitch, SwitchOver, GetDevices, SendList, Send, Recycled
    <3> QED  BY <2>1, <2>3, <3>1, <3>2
  <2>7. CASE Pipeline
    <3>1. TypeOK' /\ Core' /\ Told'  BY <2>1, <2>7, PipelineStep
    <3>2. twice' = twice
      BY <2>7 DEF Pipeline, Reuse, Acquire, Leave, GraceOver, Repair, Rebuild, AddStream
    <3> QED  BY <2>1, <2>3, <3>1, <3>2
  <2> QED  BY <1>2, <2>2, <2>4, <2>5, <2>6, <2>7 DEF Next, ComThread
<1> QED  BY <1>1, <1>2

\* Types, in every reachable state.
THEOREM DriverTyped == Spec => []TypeOK
<1>1. IInv => TypeOK  BY DEF IInv
<1> QED  BY <1>1, InvInit, InvStep, PTL DEF Spec

\* However the driver refuses its calls and whenever its thread calls back: a callback finds
\* the buffers of its own instance, the driver is not loaded under a live instance but by the
\* two openings that are known, and an instance is dropped in its apartment.
THEOREM DriverIsHandled == Spec => []DriverHandled
<1>1. IInv => DriverHandled
  <2> SUFFICES ASSUME IInv  PROVE  DriverHandled
    OBVIOUS
  <2>1. CASE twice
    BY <2>1 DEF IInv, DriverHandled, TouchesLiveBuffers, LoadedOnce, SameApartment
  <2>2. CASE ~twice
    BY <2>2 DEF IInv, Core, Registered, DriverHandled, TouchesLiveBuffers, LoadedOnce, SameApartment
  <2> QED  BY <2>1, <2>2
<1> QED  BY <1>1, InvInit, InvStep, PTL DEF Spec

\* However the driver refuses its calls: a host that is open and left alone is the driver's
\* owner, started and heard by its callback; once all is closed the driver is free, no
\* callback is left and the list is read again, unless it refused a call.
THEOREM HostIsSound == Spec => []HostIsTrue
<1>1. IInv => HostIsTrue
  <2> SUFFICES ASSUME IInv, ~twice  PROVE  HostIsTrue
    BY DEF HostIsTrue, HostIsHeard, DriverFreed
  <2>1. TypeOK /\ Core /\ Told  BY DEF IInv
  <2>2. Owners = {"host", "output", "list"}  BY DEF Owners
  <2>3. HostIsHeard
    <3> SUFFICES ASSUME Live("host"), todo = <<>>, ~native.failed
                 PROVE  native.loaded = "host" /\ native.running /\ "host" \in callbacks
      BY DEF HostIsHeard
    <3>1. ~Busy("host")
      <4> SUFFICES ASSUME Busy("host")  PROVE  FALSE
        OBVIOUS
      <4>1. queue \in Seq(JobSet) /\ queue # <<>>  BY <2>1 DEF TypeOK, JobSet, Busy
      <4>2. JobIsTrue(1)  BY <2>1, <4>1, Popped DEF Core, Jobs
      <4> QED  BY <4>2 DEF JobIsTrue, Busy
    <3> QED  BY <2>1, <2>2, <3>1 DEF Core, Owned, Told, Heard
  <2>4. DriverFreed
    <3> SUFFICES ASSUME todo = <<>>, queue = <<>>, ~capturing, warm = "none", ~native.failed
                 PROVE  native.loaded = "none" /\ callbacks = {} /\ ~active
      BY DEF DriverFreed
    <3>1. ~InScript("lower")  BY DEF InScript
    <3>2. ~active /\ ~Live("host") /\ ~Live("output")  BY <2>1, <3>1 DEF Told, Released
    <3>3. ~Live("list")  BY <2>1 DEF Core, Owned
    <3>4. \A o \in Owners : ~Live(o)  BY <2>2, <3>2, <3>3
    <3>5. callbacks = {}  BY <2>1, <3>4 DEF Core, Registered, TypeOK
    <3>6. native.loaded = "none"  BY <2>1, <3>4 DEF TypeOK, Told, Heard
    <3> QED  BY <3>2, <3>5, <3>6
  <2> QED  BY <2>3, <2>4 DEF HostIsTrue
<1> QED  BY <1>1, InvInit, InvStep, PTL DEF Spec

-----------------------------------------------------------------------------
(* The measures of the session (Measures): none judged is stale.           *)

\* What is measured, its readers and its judge.
MeasTyped ==
  /\ link \in [Loops -> {"away", "promoted", "gone"}] /\ first \in [Loops -> BOOLEAN]
  /\ pc \in [Loops -> {"idle", "name", "judge", "mark", "runaway", "mark2"}]
  /\ seen \in [Loops -> [refused : BOOLEAN, heavy : BOOLEAN, loud : BOOLEAN, foreign : SUBSET Loops, known : BOOLEAN]]
  /\ foreign \subseteq Loops /\ runaway \in [Loops -> Nat]
  /\ refused \in BOOLEAN /\ heavy \in BOOLEAN /\ loud \in BOOLEAN /\ info \in BOOLEAN

\* The loop that reads has the pipeline's lock; one that has not read yet is the only one
\* that may find what is of before its client; a cut that was told is marked, or about
\* to be by the loop that holds the lock.
MeasInv ==
  /\ MeasTyped
  /\ \A c \in Loops : /\ pc[c] # "idle" => lock = c /\ c \notin seen[c].foreign
                      /\ link[c] = "away" => first[c]
                      /\ c \in foreign => first[c]
  /\ alerted => auto \/ \E c \in Loops : pc[c] \in {"mark", "mark2"}
  /\ ~told_twice

\* Nothing is judged that is of before the client, and a cut is told once.
LEMMA MeasuresStart == Measured!Init => MeasInv
<1> SUFFICES ASSUME Measured!Init
             PROVE  MeasInv
  OBVIOUS
<1>1. Measured!NoWindow \in [refused : BOOLEAN, heavy : BOOLEAN, loud : BOOLEAN, foreign : SUBSET Loops, known : BOOLEAN]
  BY DEF Measured!NoWindow
<1>2. seen \in [Loops -> [refused : BOOLEAN, heavy : BOOLEAN, loud : BOOLEAN, foreign : SUBSET Loops, known : BOOLEAN]]
  BY <1>1 DEF Measured!Init
<1> QED
  BY <1>2 DEF Measured!Init, Measured!Idle, MeasInv, MeasTyped

\* The measures, the plugin and the connections, the loops apart.
LEMMA MeasuredApart ==
  ASSUME MeasInv, UNCHANGED <<lock, pc, seen, first, runaway, told_twice>>,
         refused' \in BOOLEAN, heavy' \in BOOLEAN, loud' \in BOOLEAN, info' \in BOOLEAN,
         \/ UNCHANGED <<link, foreign>>
         \/ \E c \in Loops : link[c] = "away" /\ link' = [link EXCEPT ![c] = "promoted"] /\ foreign' \in {foreign, foreign \cup {c}}
         \/ \E c \in Loops : link[c] = "promoted" /\ link' = [link EXCEPT ![c] = "gone"] /\ foreign' = foreign,
         UNCHANGED <<auto, alerted>> \/ ~alerted'
  PROVE  MeasInv'
<1>1. alerted' => auto' \/ \E c \in Loops : pc'[c] \in {"mark", "mark2"}
  BY DEF MeasInv
<1>2. CASE UNCHANGED <<link, foreign>>
  BY <1>1, <1>2 DEF MeasInv, MeasTyped
<1>3. ASSUME NEW c \in Loops, link[c] = "away", link' = [link EXCEPT ![c] = "promoted"],
             foreign' \in {foreign, foreign \cup {c}}
      PROVE  MeasInv'
  BY <1>1, <1>3 DEF MeasInv, MeasTyped
<1>4. ASSUME NEW c \in Loops, link[c] = "promoted", link' = [link EXCEPT ![c] = "gone"], foreign' = foreign
      PROVE  MeasInv'
  BY <1>1, <1>4 DEF MeasInv, MeasTyped
<1> QED
  BY <1>2, <1>3, <1>4

\* A reading: the measures begin again, and the first of a client is thrown away.
LEMMA TickKeeps ==
  ASSUME MeasInv, NEW c \in Loops, Measured!Tick(c)
  PROVE  MeasInv'
<1>1. /\ pc[c] = "idle" /\ lock = "nobody" /\ first' = [first EXCEPT ![c] = FALSE]
      /\ refused' = FALSE /\ heavy' = FALSE /\ loud' = FALSE /\ foreign' = {} /\ link[c] = "promoted"
      /\ UNCHANGED <<link, handle, info, bypass, auto, op, asked, runaway, alerted, told_twice>>
  BY DEF Measured!Tick, Measured!At, Measured!Idle, Measured!Nobody, Measured!pluginVars, Measured!toldVars
<1>2. \A d \in Loops : pc[d] = "idle"
  BY <1>1, MachineConstants DEF MeasInv, Measured!MeasuresConstants, Measured!Nobody
<1>3. CASE first[c]
  <2>1. UNCHANGED <<lock, pc, seen>>
    BY <1>3 DEF Measured!Tick, Measured!Discards
  <2>2. MeasTyped'
    BY <1>1, <2>1 DEF MeasInv, MeasTyped
  <2>3. \A d \in Loops : pc'[d] = "idle" /\ (link'[d] = "away" => first'[d]) /\ d \notin foreign'
    BY <1>1, <1>2, <2>1 DEF MeasInv, MeasTyped
  <2>4. alerted => auto
    BY <1>2 DEF MeasInv
  <2>5. UNCHANGED <<alerted, auto, told_twice>> /\ ~told_twice
    BY <1>1 DEF MeasInv
  <2> QED
    BY <2>2, <2>3, <2>4, <2>5 DEF MeasInv
<1>4. CASE ~first[c]
  <2>1. /\ lock' = c /\ pc' = [pc EXCEPT ![c] = "name"]
        /\ seen' = [seen EXCEPT ![c] = [refused |-> refused, heavy |-> heavy, loud |-> loud,
                                        foreign |-> foreign, known |-> FALSE]]
    BY <1>4 DEF Measured!Tick, Measured!Discards, Measured!Moves
  <2>2. c \notin foreign
    BY <1>4 DEF MeasInv
  <2>3. [refused |-> refused, heavy |-> heavy, loud |-> loud, foreign |-> foreign, known |-> FALSE]
          \in [refused : BOOLEAN, heavy : BOOLEAN, loud : BOOLEAN, foreign : SUBSET Loops, known : BOOLEAN]
    BY DEF MeasInv, MeasTyped
  <2>4. /\ seen' \in [Loops -> [refused : BOOLEAN, heavy : BOOLEAN, loud : BOOLEAN, foreign : SUBSET Loops, known : BOOLEAN]]
        /\ seen'[c].foreign = foreign
    BY <2>1, <2>3 DEF MeasInv, MeasTyped
  <2>5. MeasTyped'
    BY <1>1, <2>1, <2>4 DEF MeasInv, MeasTyped
  <2>6. \A d \in Loops : pc'[d] # "idle" => d = c
    BY <1>2, <2>1 DEF MeasInv, MeasTyped
  <2>7. \A d \in Loops : link'[d] = "away" => first'[d]
    BY <1>1 DEF MeasInv, MeasTyped
  <2>8. alerted => auto
    BY <1>2 DEF MeasInv
  <2> QED
    BY <1>1, <2>1, <2>2, <2>4, <2>5, <2>6, <2>7, <2>8 DEF MeasInv
<1> QED
  BY <1>3, <1>4 DEF MeasInv, MeasTyped

\* The rest of a reading, under the lock: what was read is judged, the plugin is cut and
\* marked, or spared, and the lock let go.
LEMMA ReadingKeeps ==
  ASSUME MeasInv, NEW c \in Loops, pc[c] # "idle", NEW w \in {"idle", "judge", "mark", "runaway", "mark2"},
         pc' = [pc EXCEPT ![c] = w], UNCHANGED <<link, refused, heavy, loud, foreign, info, first>>,
         runaway' \in [Loops -> Nat],
         \/ UNCHANGED <<lock, seen>>
         \/ UNCHANGED lock /\ \E b \in BOOLEAN : seen' = [seen EXCEPT ![c].known = b]
         \/ w = "idle" /\ seen' = [seen EXCEPT ![c] = Measured!NoWindow],
         \/ pc[c] \notin {"mark", "mark2"} /\ UNCHANGED <<auto, alerted, told_twice>>
         \/ w \in {"mark", "mark2"} /\ ~auto /\ pc[c] \notin {"mark", "mark2"} /\ told_twice' = (told_twice \/ alerted)
            /\ UNCHANGED auto
         \/ auto' /\ UNCHANGED told_twice
  PROVE  MeasInv'
<1>1. pc'[c] = w /\ \A d \in Loops : d # c => pc[d] = "idle" /\ pc'[d] = "idle"
  BY DEF MeasInv, MeasTyped
<1>2. /\ seen' \in [Loops -> [refused : BOOLEAN, heavy : BOOLEAN, loud : BOOLEAN, foreign : SUBSET Loops, known : BOOLEAN]]
      /\ w # "idle" => seen'[c].foreign = seen[c].foreign
      /\ w # "idle" => lock' = lock
  <2>1. seen \in [Loops -> [refused : BOOLEAN, heavy : BOOLEAN, loud : BOOLEAN, foreign : SUBSET Loops, known : BOOLEAN]]
    BY DEF MeasInv, MeasTyped
  <2>2. Measured!NoWindow \in [refused : BOOLEAN, heavy : BOOLEAN, loud : BOOLEAN, foreign : SUBSET Loops, known : BOOLEAN]
    BY DEF Measured!NoWindow
  <2>3. CASE UNCHANGED <<lock, seen>>
    BY <2>1, <2>3
  <2>4. ASSUME NEW b \in BOOLEAN, seen' = [seen EXCEPT ![c].known = b], UNCHANGED lock
        PROVE  <1>2!1 /\ seen'[c].foreign = seen[c].foreign
    BY <2>1, <2>4
  <2>5. CASE w = "idle" /\ seen' = [seen EXCEPT ![c] = Measured!NoWindow]
    BY <2>1, <2>2, <2>5
  <2> QED
    BY <2>3, <2>4, <2>5
<1>3. MeasTyped'
  BY <1>2 DEF MeasInv, MeasTyped
<1>4. alerted /\ pc[c] \notin {"mark", "mark2"} => auto
  BY <1>1 DEF MeasInv
<1>5. ~told_twice'
  BY <1>4 DEF MeasInv
<1>6. alerted' => auto' \/ \E d \in Loops : pc'[d] \in {"mark", "mark2"}
  <2>1. CASE pc[c] \notin {"mark", "mark2"} /\ UNCHANGED <<auto, alerted, told_twice>>
    BY <1>4, <2>1
  <2>2. CASE w \in {"mark", "mark2"}
    BY <1>1, <2>2
  <2>3. CASE auto'
    BY <2>3
  <2> QED
    BY <2>1, <2>2, <2>3
<1> QED
  BY <1>1, <1>2, <1>3, <1>5, <1>6 DEF MeasInv

\* Every step of the measures keeps the invariant.
LEMMA MeasuresStep == MeasInv /\ [Measured!Next]_(Measured!vars) => MeasInv'
<1> SUFFICES ASSUME MeasInv, [Measured!Next]_(Measured!vars)
             PROVE  MeasInv'
  OBVIOUS
<1> USE DEF Measured!windowVars, Measured!pluginVars, Measured!loopVars, Measured!toldVars
<1>0. /\ refused \in BOOLEAN /\ heavy \in BOOLEAN /\ loud \in BOOLEAN /\ info \in BOOLEAN
      /\ runaway \in [Loops -> Nat]
  BY DEF MeasInv, MeasTyped
<1>1. CASE UNCHANGED Measured!vars
  BY <1>0, <1>1, MeasuredApart DEF Measured!vars
<1>2. ASSUME NEW c \in Loops, Measured!Promote(c) \/ Measured!Close(c)
      PROVE  MeasInv'
  <2>1. CASE Measured!Promote(c)
    BY <1>0, <2>1, MeasuredApart DEF Measured!Promote
  <2>2. CASE Measured!Close(c)
    BY <1>0, <2>2, MeasuredApart DEF Measured!Close
  <2> QED
    BY <1>2, <2>1, <2>2
<1>3. ASSUME NEW r \in BOOLEAN, NEW h \in BOOLEAN, NEW l \in BOOLEAN, Measured!Audio(r, h, l)
      PROVE  MeasInv'
  <2>1. refused' \in BOOLEAN /\ heavy' \in BOOLEAN /\ loud' \in BOOLEAN
    BY <1>0, <1>3 DEF Measured!Audio
  <2> QED
    BY <1>0, <1>3, <2>1, MeasuredApart DEF Measured!Audio
<1>4. CASE Measured!Plugin
  <2>1. ASSUME NEW kind, Measured!Begin(kind)
        PROVE  MeasInv'
    BY <1>0, <2>1, MeasuredApart DEF Measured!Begin
  <2>2. CASE Measured!SetBypassEnds
    BY <1>0, <2>2, MeasuredApart DEF Measured!SetBypassEnds, Measured!Acknowledged
  <2>3. CASE Measured!Forget
    BY <1>0, <2>3, MeasuredApart DEF Measured!Forget
  <2>4. CASE Measured!Lift
    BY <1>0, <2>4, MeasuredApart DEF Measured!Lift
  <2>5. CASE Measured!Clear
    BY <1>0, <2>5, MeasuredApart DEF Measured!Clear, Measured!Acknowledged
  <2>6. CASE Measured!Native
    BY <1>0, <2>6, MeasuredApart DEF Measured!Native
  <2>7. CASE Measured!Publish
    BY <1>0, <2>7, MeasuredApart DEF Measured!Publish
  <2> QED
    BY <1>4, <2>1, <2>2, <2>3, <2>4, <2>5, <2>6, <2>7 DEF Measured!Plugin
<1>5. ASSUME NEW c \in Loops, Measured!Loop(c)
      PROVE  MeasInv'
  <2> USE DEF Measured!At, Measured!Moves
  <2>1. CASE Measured!Tick(c)
    BY <2>1, TickKeeps
  <2>2. CASE Measured!Name(c)
    <3>1. pc[c] # "idle" /\ info \in BOOLEAN
      BY <1>0, <2>2 DEF Measured!Name
    <3> QED
      BY <1>0, <2>2, <3>1, ReadingKeeps DEF Measured!Name
  <2>3. CASE Measured!Judge(c)
    <3>1. CASE seen[c].refused /\ seen[c].heavy /\ Measured!MayCut
      BY <1>0, <2>3, <3>1, ReadingKeeps DEF Measured!Judge, Measured!CutAt, Measured!MayCut
    <3>2. CASE ~(seen[c].refused /\ seen[c].heavy /\ Measured!MayCut)
      BY <1>0, <2>3, <3>2, ReadingKeeps DEF Measured!Judge, Measured!Spares
    <3> QED
      BY <3>1, <3>2
  <2>4. CASE Measured!Runaway(c)
    <3> DEFINE n == IF seen[c].known /\ seen[c].loud
                    THEN (IF runaway[c] < Measured!RUNAWAY_WINDOWS_TO_TRIP THEN runaway[c] + 1 ELSE runaway[c]) ELSE 0
               trips == n >= Measured!RUNAWAY_WINDOWS_TO_TRIP /\ Measured!MayCut
    <3>1. runaway' = [runaway EXCEPT ![c] = IF trips THEN 0 ELSE n] /\ n \in Nat /\ pc[c] = "runaway"
          /\ UNCHANGED <<link, refused, heavy, loud, foreign, handle, info, auto, op, asked, first>>
      BY <1>0, <2>4 DEF Measured!Runaway
    <3>2. trips => ~auto
      BY DEF Measured!MayCut
    <3>3. IF trips THEN Measured!CutAt(c, "mark2") /\ UNCHANGED <<lock, seen>>
          ELSE Measured!Spares(c, Measured!Idle) /\ Measured!Done(c)
      BY <2>4 DEF Measured!Runaway
    <3> HIDE DEF n, trips
    <3>4. runaway' \in [Loops -> Nat]
      BY <1>0, <3>1
    <3>5. CASE trips
      BY <3>1, <3>2, <3>3, <3>4, <3>5, ReadingKeeps DEF Measured!CutAt
    <3>6. CASE ~trips
      BY <3>1, <3>3, <3>4, <3>6, ReadingKeeps DEF Measured!Spares, Measured!Done, Measured!Idle
    <3> QED
      BY <3>5, <3>6
  <2>5. CASE Measured!Mark(c)
    <3>1. CASE pc[c] = "mark"
      BY <1>0, <2>5, <3>1, ReadingKeeps DEF Measured!Mark
    <3>2. CASE pc[c] = "mark2"
      BY <1>0, <2>5, <3>2, ReadingKeeps DEF Measured!Mark, Measured!Done, Measured!Idle
    <3> QED
      BY <2>5, <3>1, <3>2 DEF Measured!Mark
  <2> QED
    BY <1>5, <2>1, <2>2, <2>3, <2>4, <2>5 DEF Measured!Loop
<1> QED
  BY <1>1, <1>2, <1>3, <1>4, <1>5 DEF Measured!Next

\* No loop of measures judges what is of before its client, and a plugin that is cut is
\* told so once until it is acknowledged (perfstats_task, PluginControl).
THEOREM MeasuresAreFresh == Measured!Spec => []JudgedFresh
<1>1. Measured!Spec => []MeasInv
  BY MeasuresStart, MeasuresStep, PTL DEF Measured!Spec
<1>2. MeasInv => JudgedFresh
  BY DEF MeasInv, JudgedFresh, Measured!JudgedFresh, Measured!AlertedOnce, Measured!Idle
<1> QED
  BY <1>1, <1>2, PTL
=============================================================================
