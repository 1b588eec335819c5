------------------------------ MODULE AsioHost ------------------------------
(***************************************************************************)
(* The ASIO driver on Windows: the duplex host (asio_host.rs), the thread  *)
(* every ASIO call runs on (com_exec.rs), the binding and its state        *)
(* machine (asio-sys/src/bindings/mod.rs), the callers that open and close *)
(* under the pipeline's lock (pipeline.rs, ws_server.rs) and the list of   *)
(* devices asked for without it (device.rs).  The driver is one for the    *)
(* process: what an instance of the binding does to it is done under the   *)
(* others.  Three owners may load it: the host, an output opened alone     *)
(* through cpal, the enumeration.  Any call of the driver may fail; its    *)
(* own thread calls back at any time while it runs.                        *)
(* The lock is free between the closing of a repair and each attempt to    *)
(* open again: gap is the number of attempts left.  What follows a driver  *)
(* loaded under a live instance (twice) is not modelled.                   *)
(***************************************************************************)
EXTENDS Naturals, Sequences, FiniteSets

CONSTANT Attempts  \* of repair_audio_streams
ASSUME AsioConstants == Attempts \in Nat \ {0}

VARIABLES
  native,     \* the driver: who loaded it, whose buffers it has, running, a call refused since
  st,         \* DriverState of each owner's instance
  old,        \* owners whose instance was made in an apartment given back since
  callbacks,  \* BUFFER_CALLBACK: the owners registered
  in_flight,  \* those the driver's thread is calling, the registry's lock held
  queue,      \* the jobs sent to the COM thread
  recycling,  \* recycle() waits for the thread to end
  active,     \* ASIO_STREAM_ACTIVE
  pending,    \* com_recycle_pending
  capturing,  \* the session's state
  warm,       \* the driver kept for it: none, active, parked
  todo,       \* what the holder of the pipeline's lock has left to do
  gap,        \* attempts left of a repair under way
  alone,      \* an output opened without a host, or a host meanwhile
  listing,    \* the studio waits for the list of devices
  twice       \* the driver was loaded under a live instance
vars == <<native, st, old, callbacks, in_flight, queue, recycling, active, pending, capturing, warm, todo, gap,
          alone, listing, twice>>
driverVars  == <<native, st, callbacks>>
sessionVars == <<active, pending, capturing, warm, gap, alone>>

Owners == {"host", "output", "list"}
DriverStates == {"none", "Initialized", "Prepared", "Running"}
Unloaded == [loaded |-> "none", buffers |-> "none", running |-> FALSE, failed |-> FALSE]
Steps == {"load", "prime", "primed", "create", "register", "start", "remove", "unregister", "stop",
          "dispose", "drop", "clear"}
Live(o) == st[o] # "none"
Job(o, step) == [owner |-> o, step |-> step]

TypeOK ==
  /\ native \in [loaded : Owners \cup {"none"}, buffers : Owners \cup {"none"},
                 running : BOOLEAN, failed : BOOLEAN]
  /\ st \in [Owners -> DriverStates] /\ old \subseteq Owners
  /\ callbacks \subseteq Owners /\ in_flight \subseteq Owners
  /\ queue \in Seq([owner : Owners, step : Steps]) /\ Len(queue) <= 2
  /\ {recycling, active, pending, capturing, alone, listing, twice} \subseteq BOOLEAN
  /\ warm \in {"none", "active", "parked"} /\ gap \in 0..Attempts
  /\ todo \in Seq({"close_output", "close_host", "lower", "recycle", "open_host", "reopen_host",
                   "open_output"})

Init ==
  /\ native = Unloaded /\ st = [o \in Owners |-> "none"] /\ old = {} /\ callbacks = {}
  /\ in_flight = {} /\ queue = <<>> /\ recycling = FALSE /\ active = FALSE /\ pending = FALSE
  /\ capturing = FALSE /\ warm = "none" /\ todo = <<>> /\ gap = 0 /\ alone = FALSE /\ listing = FALSE /\ twice = FALSE

-----------------------------------------------------------------------------
(* The binding.  A call takes [s: the instance's state, n: the driver, ok] *)
(* to the set of what it may become; a chain ends at the first failure.    *)

Refused(x) == [x EXCEPT !.ok = FALSE, !.n.failed = TRUE]
Then(xs, Call(_)) == UNION {IF x.ok THEN Call(x) ELSE {x} : x \in xs}

\* DriverState::stop
Stop(x) == IF x.s # "Running" THEN {x}
           ELSE {Refused(x), [x EXCEPT !.s = "Prepared", !.n.running = FALSE]}
\* DriverState::dispose_buffers
Release(x) == {Refused(x), [x EXCEPT !.s = "Initialized", !.n.buffers = "none"]}
Dispose(x) == IF x.s = "Initialized" THEN {x} ELSE Then(Stop(x), Release)
\* DriverState::destroy
Exit(x)    == {Refused(x), [x EXCEPT !.s = "none", !.n = Unloaded]}
Destroy(x) == Then(Dispose(x), Exit)
\* create_buffers
Create(o, x) ==
  Then(Dispose(x),
       LAMBDA y : {Refused(y), [y EXCEPT !.s = "Prepared", !.n.buffers = o, !.n.running = FALSE]})
\* start
Start(x) == {Refused(x), [x EXCEPT !.s = "Running", !.n.running = TRUE]}

Now(o) == [s |-> st[o], n |-> native, ok |-> TRUE]
Becomes(o, x) == native' = x.n /\ st' = [st EXCEPT ![o] = x.s]

-----------------------------------------------------------------------------
(* The COM thread: one job at a time, in the order they were sent; here    *)
(* the steps of the first.                                                 *)

Doing(o, step) == queue # <<>> /\ queue[1] = Job(o, step)
Goes(o, step)  == queue' = [queue EXCEPT ![1] = Job(o, step)]

\* The answer: to the studio, or to the holder of the lock, who goes on.
Answered(o, opened) ==
  /\ queue' = Tail(queue)
  /\ IF o = "list" THEN listing' = FALSE /\ UNCHANGED <<todo, sessionVars>>
     ELSE /\ todo' = Tail(todo) /\ UNCHANGED <<listing, pending>>
          \* set_asio_stream_active(true), on this thread
          /\ active' = (active \/ (opened /\ o = "host"))
          /\ alone' = (alone \/ (opened /\ (o = "output" \/ (gap > 0 /\ Head(todo) = "open_host"))))
          /\ IF Head(todo) = "open_host" /\ opened
             THEN capturing' = TRUE /\ warm' = "active" ELSE UNCHANGED <<capturing, warm>>
          /\ gap' = IF Head(todo) # "reopen_host" THEN gap ELSE IF opened THEN 0 ELSE gap - 1

\* After the load: what the driver says of itself may not do, and the instance is dropped.
Loaded == [host |-> {"prime", "drop"}, output |-> {"create", "drop"}, list |-> {"drop"}]
\* load_driver: a driver already loaded is taken from whoever had it; one that loads and
\* does not initialise stays loaded, by nobody.
MayLoad(o) == o # "list" \/ ~active
Load(o) ==
  /\ Doing(o, "load") /\ MayLoad(o)
  /\ twice' = (twice \/ (native.loaded # "none" /\ Live(native.loaded)))
  /\ \/ /\ Becomes(o, [s |-> "Initialized", n |-> [Unloaded EXCEPT !.loaded = o]])
        /\ \E step \in Loaded[o] : Goes(o, step)
        /\ UNCHANGED <<todo, listing, sessionVars>>
     \/ /\ \E l \in {"none", o} :
             native' = [Unloaded EXCEPT !.loaded = l, !.failed = (l = o)]
        /\ UNCHANGED st /\ Answered(o, FALSE)
  /\ UNCHANGED <<old, callbacks, in_flight, recycling>>
\* list_inputs_inner, list_outputs_inner: the list known is served while a stream is open.
ServeCache ==
  /\ Doing("list", "load") /\ ~MayLoad("list") /\ Answered("list", FALSE)
  /\ UNCHANGED <<driverVars, old, in_flight, recycling, twice>>

\* prime: buffers, a start, a pause, a stop; what fails is ignored once there are buffers.
Prime ==
  /\ Doing("host", "prime") /\ Goes("host", "primed")
  /\ \E x \in UNION {IF y.ok THEN Start(y) ELSE {y} : y \in Create("host", Now("host"))} : Becomes("host", x)
  /\ UNCHANGED <<old, callbacks, in_flight, recycling, todo, listing, sessionVars, twice>>
Primed ==
  /\ Doing("host", "primed") /\ Goes("host", "create")
  /\ \E x \in Stop(Now("host")) : \E y \in Dispose([x EXCEPT !.ok = TRUE]) : Becomes("host", y)
  /\ UNCHANGED <<old, callbacks, in_flight, recycling, todo, listing, sessionVars, twice>>

\* AsioDuplexHost::open, the output of cpal: the buffers, the callback, the start.  What
\* fails drops the instance.
CreateBuffers(o) ==
  /\ Doing(o, "create")
  /\ \E x \in Create(o, Now(o)) :
       Becomes(o, x) /\ Goes(o, IF x.ok THEN "register" ELSE "drop")
  /\ UNCHANGED <<old, callbacks, in_flight, recycling, todo, listing, sessionVars, twice>>
Register(o) ==
  /\ Doing(o, "register") /\ in_flight = {}
  /\ callbacks' = callbacks \cup {o} /\ Goes(o, "start")
  /\ UNCHANGED <<native, st, old, in_flight, recycling, todo, listing, sessionVars, twice>>
StartDriver(o) ==
  /\ Doing(o, "start")
  /\ \E x \in Start(Now(o)) :
       /\ Becomes(o, x)
       /\ IF x.ok THEN Answered(o, TRUE)
          ELSE Goes(o, "unregister") /\ UNCHANGED <<todo, listing, sessionVars>>
  /\ UNCHANGED <<old, callbacks, in_flight, recycling, twice>>

\* remove_callback waits for the call in flight.  Then the rest of AsioDuplexHost's drop;
\* a stream of cpal, or a start that failed, drops its instance at once.
\* (First a wrong form of the waiting.)
NoWait == TRUE
CallbackOver == in_flight = {}
Unregister(o) ==
  /\ o \in {"host", "output"} /\ (Doing(o, "remove") \/ Doing(o, "unregister")) /\ CallbackOver
  /\ callbacks' = callbacks \ {o}
  /\ Goes(o, IF queue[1].step = "remove" /\ o = "host" THEN "stop" ELSE "drop")
  /\ alone' = (alone /\ o # "output")
  /\ UNCHANGED <<native, st, old, in_flight, recycling, todo, listing, active, pending, capturing, warm,
                 gap, twice>>
StopHost ==
  /\ Doing("host", "stop") /\ Goes("host", "dispose")
  /\ \E x \in Stop(Now("host")) : Becomes("host", x)
  /\ UNCHANGED <<old, callbacks, in_flight, recycling, todo, listing, sessionVars, twice>>
DisposeHost ==
  /\ Doing("host", "dispose") /\ Goes("host", "drop")
  /\ \E x \in Dispose(Now("host")) : Becomes("host", x)
  /\ UNCHANGED <<old, callbacks, in_flight, recycling, todo, listing, sessionVars, twice>>
\* DriverInner::drop: the instance is gone whatever failed; once the driver is, so is
\* every callback, whosever it is.
Drop(o) ==
  /\ Doing(o, "drop")
  /\ \E x \in Destroy(Now(o)) :
       /\ Becomes(o, [x EXCEPT !.s = "none"])
       /\ IF x.ok THEN Goes(o, "clear") /\ UNCHANGED <<todo, listing, sessionVars>> ELSE Answered(o, FALSE)
  /\ old' = old \ {o}
  /\ UNCHANGED <<callbacks, in_flight, recycling, twice>>
Clear(o) ==
  /\ Doing(o, "clear") /\ in_flight = {}
  /\ callbacks' = {} /\ Answered(o, FALSE)
  /\ UNCHANGED <<native, st, old, in_flight, recycling, twice>>

-----------------------------------------------------------------------------
(* The driver's thread: buffer_switch_time_info holds the registry's lock  *)
(* while it calls those registered.                                        *)

BufferSwitch ==
  /\ native.running /\ callbacks # {} /\ in_flight = {}
  /\ in_flight' = callbacks
  /\ UNCHANGED <<driverVars, old, queue, recycling, todo, listing, sessionVars, twice>>
SwitchOver ==
  /\ in_flight # {} /\ in_flight' = {}
  /\ UNCHANGED <<driverVars, old, queue, recycling, todo, listing, sessionVars, twice>>

-----------------------------------------------------------------------------
(* Under the pipeline's lock.                                              *)

Holds(script) == todo = <<>> /\ todo' = script
CloseStreams  == <<"close_output", "close_host">>
\* close_audio_driver.  (First a wrong form: the flag is not lowered.)
FlagKept    == CloseStreams
CloseDriver == CloseStreams \o <<"lower">>

\* prepare_audio_for_session: a warm driver is used again for the same devices; else
\* everything is closed, the apartment changed if the driver had rested long, and the
\* host opened.
Reuse ==
  /\ Holds(<<>>) /\ warm # "none" /\ Live("host") /\ warm' = "active" /\ capturing' = TRUE
  /\ UNCHANGED <<driverVars, old, in_flight, queue, recycling, active, pending, gap, alone, listing,
                 twice>>
Acquire ==
  /\ Holds(CloseDriver \o (IF pending THEN <<"recycle">> ELSE <<>>) \o <<"open_host">>)
  /\ warm' = "none" /\ pending' = FALSE
  /\ UNCHANGED <<driverVars, old, in_flight, queue, recycling, active, capturing, gap, alone, listing,
                 twice>>
\* leave_session: a warm driver is parked, or all is closed.
Leave ==
  /\ capturing /\ capturing' = FALSE
  /\ IF warm = "none" THEN Holds(CloseDriver) /\ UNCHANGED warm ELSE Holds(<<>>) /\ warm' = "parked"
  /\ UNCHANGED <<driverVars, old, in_flight, queue, recycling, active, pending, gap, alone, listing,
                 twice>>
\* close_warm_if_grace_expired
GraceOver ==
  /\ Holds(CloseDriver) /\ warm = "parked" /\ warm' = "none" /\ pending' = TRUE
  /\ UNCHANGED <<driverVars, old, in_flight, queue, recycling, active, capturing, gap, alone, listing,
                 twice>>
\* repair_audio_streams: the closing, then the attempts of rebuild_audio_streams.
Repair ==
  /\ Holds(CloseStreams) /\ capturing /\ gap = 0 /\ gap' = Attempts
  /\ UNCHANGED <<driverVars, old, in_flight, queue, recycling, active, pending, capturing, warm, alone,
                 listing, twice>>
Rebuild ==
  /\ gap > 0
  /\ IF capturing THEN Holds(<<"reopen_host">>) /\ UNCHANGED <<gap, alone>>
     ELSE Holds(<<>>) /\ gap' = 0 /\ alone' = Live("output")
  /\ UNCHANGED <<driverVars, old, in_flight, queue, recycling, active, pending, capturing, warm, listing,
                 twice>>
\* add_stream, in a session: an output if none plays and there is no host.
AddStream ==
  /\ capturing /\ ~Live("output") /\ ~Live("host") /\ Holds(<<"open_output">>)
  /\ UNCHANGED <<driverVars, old, in_flight, queue, recycling, sessionVars, listing, twice>>

\* run(): the holder's next job is sent and waited for; nothing to close sends nothing.
Waiting == \E k \in DOMAIN queue : queue[k].owner # "list"
Closes  == [close_output |-> "output", close_host |-> "host"]
Opens   == [open_output |-> "output", open_host |-> "host", reopen_host |-> "host"]
Send ==
  /\ todo # <<>> /\ ~Waiting /\ ~recycling
  /\ LET item == Head(todo)
     IN CASE item = "lower" -> /\ active' = FALSE /\ todo' = Tail(todo)
                               /\ UNCHANGED <<queue, recycling>>
          [] item = "recycle" -> recycling' = TRUE /\ UNCHANGED <<queue, todo, active>>
          [] item \in DOMAIN Opens ->
               queue' = Append(queue, Job(Opens[item], "load")) /\ UNCHANGED <<todo, active, recycling>>
          [] OTHER ->
               /\ UNCHANGED <<active, recycling>>
               /\ IF Live(Closes[item])
                  THEN queue' = Append(queue, Job(Closes[item], "remove")) /\ UNCHANGED todo
                  ELSE todo' = Tail(todo) /\ UNCHANGED queue
  /\ UNCHANGED <<driverVars, old, in_flight, pending, capturing, warm, gap, alone, listing, twice>>
\* recycle(): the thread ends once its queue is empty; the next begins a new apartment.
Recycled ==
  /\ recycling /\ queue = <<>>
  /\ recycling' = FALSE /\ todo' = Tail(todo) /\ old' = old \cup {o \in Owners : Live(o)}
  /\ UNCHANGED <<driverVars, in_flight, queue, sessionVars, listing, twice>>

\* GetDevices, without the lock; not while recycle() keeps the worker.
GetDevices ==
  /\ ~listing /\ listing' = TRUE
  /\ UNCHANGED <<driverVars, old, in_flight, queue, recycling, todo, sessionVars, twice>>
SendList ==
  /\ listing /\ ~recycling /\ \A k \in DOMAIN queue : queue[k].owner # "list"
  /\ queue' = Append(queue, Job("list", "load"))
  /\ UNCHANGED <<driverVars, old, in_flight, recycling, todo, sessionVars, listing, twice>>

ComThread ==
  \/ ServeCache \/ Prime \/ Primed \/ StopHost \/ DisposeHost
  \/ \E o \in Owners : Load(o) \/ CreateBuffers(o) \/ Register(o) \/ StartDriver(o) \/ Unregister(o)
                       \/ Drop(o) \/ Clear(o)
Pipeline == Reuse \/ Acquire \/ Leave \/ GraceOver \/ Repair \/ Rebuild \/ AddStream
Next == ~twice /\ (ComThread \/ BufferSwitch \/ SwitchOver \/ Pipeline \/ Send \/ Recycled
                   \/ GetDevices \/ SendList)
Spec == /\ Init /\ [][Next]_vars
        /\ SF_vars(~twice /\ ComThread) /\ WF_vars(SwitchOver) /\ WF_vars(~twice /\ Send)
        /\ WF_vars(~twice /\ Recycled) /\ SF_vars(~twice /\ SendList)

-----------------------------------------------------------------------------
\* A callback only touches buffers the driver still has, and its own instance's
\* (asio_host.rs:650: removed before the stop, the disposal and the exit).
TouchesLiveBuffers == twice \/ \A o \in in_flight : native.buffers = o

\* The driver is not loaded under a live instance (device.rs:28), unless an output was
\* opened without a host, or a host while a repair had closed it.
LoadedOnce == twice => alone

\* A host that is open is the driver's owner, started, heard by its callback.
HostIsHeard ==
  (Live("host") /\ todo = <<>> /\ ~native.failed /\ ~twice /\ ~alone) =>
     native.loaded = "host" /\ native.running /\ "host" \in callbacks

\* Once all is closed the driver is free for another program and the list is read again,
\* unless the driver refused a call.
DriverFreed ==
  (todo = <<>> /\ queue = <<>> /\ ~capturing /\ warm = "none" /\ gap = 0 /\ ~native.failed /\ ~twice) =>
     native.loaded = "none" /\ callbacks = {} /\ ~active

\* An instance is used and dropped in the apartment it was made in (com_exec.rs:157).
SameApartment == twice \/ old = {}

\* Of the driver (asio_host.rs:650, device.rs:28, com_exec.rs:157): a callback only touches
\* buffers the driver still has; it is not loaded under a live instance but by an output
\* opened without a host, or a host while a repair had closed it; an instance is dropped
\* in the apartment it was made in.
DriverHandled == TouchesLiveBuffers /\ LoadedOnce /\ SameApartment
\* Of the driver: a host that is open is started and heard, and once all is closed the
\* driver is free and the list of devices is read again, unless it refused a call.
HostIsTrue == HostIsHeard /\ DriverFreed

\* A call on the driver returns (com_exec.rs:118, :157: neither the worker's change nor
\* the driver's thread keeps it).
CallsReturn == (listing ~> (~listing \/ twice)) /\ (todo # <<>> ~> (todo = <<>> \/ twice))
=============================================================================
