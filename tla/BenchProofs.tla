---------------------------- MODULE BenchProofs ----------------------------
(***************************************************************************)
(* What is proved of the measuring bench for every value of its constants: *)
(* each answer of the second machine is to the command just sent and a     *)
(* campaign is never served within another's (BenchCalls); "no regression" *)
(* is written only of what was earned (BenchCampaign); no error of the     *)
(* Audio Engine is swallowed by a run, who is said to play is who plays    *)
(* and nothing is left behind unsaid (BenchRun).                           *)
(***************************************************************************)
EXTENDS BenchSeries, FiniteSetTheorems, Sequences, TLAPS

-----------------------------------------------------------------------------
(* The run itself (BenchRun): what a run says of itself is true.           *)

\* What is said on the link: the streams, the requests of the preparation and of the end.
Pids == {<<"stream", m, r, v>> : m \in 2 .. To, r \in {0, 1}, v \in BOOLEAN}
Preparing == {"devices", "capture", "voice", "plugins", "load"}
Campaigning == {"arrive", "open", "sampling"}
Commands == {<<x>> : x \in Preparing \cup {"unload", "stop"}} \cup Pids \cup {<<"remove", p>> : p \in Pids}
\* An answer is expected.
Asks(x) == x[1] \notin {"remove", "stop"}

RunTyped ==
  /\ pc \in Preparing \cup Campaigning \cup Over
  /\ sent \in BOOLEAN /\ interrupted \in BOOLEAN /\ struck \in BOOLEAN /\ plugin_loaded \in BOOLEAN
  /\ errors \in Nat /\ musicians \in From .. To /\ secs \in Nat /\ coming \in Seq(2 .. To)
  /\ adding \in [m : {0} \cup 2 .. To, rejoin : {0, 1}, voice : BOOLEAN]
  /\ producers \subseteq Pids /\ out \subseteq Pids
  /\ moves \subseteq Absent \X {"leaves", "returns"}
EngineTyped ==
  engine \in [linked : BOOLEAN, inbox : Seq(Commands), streams : SUBSET Pids,
              capture : BOOLEAN, plugin : BOOLEAN]
\* What it has not read yet.
Unread == {engine.inbox[i] : i \in DOMAIN engine.inbox}
Once ==
  \A i, j \in DOMAIN engine.inbox : i # j /\ Asks(engine.inbox[i]) => engine.inbox[i] # engine.inbox[j]

\* Who waits is the request under way; what was answered is no longer awaited by the
\* table, and what the Audio Engine has not read yet is.
Answers ==
  /\ got \subseteq awaited \X BOOLEAN
  /\ \A k : <<k, TRUE>> \in got \/ <<k, FALSE>> \in got => k \notin pending
  /\ \A k : ~(<<k, TRUE>> \in got /\ <<k, FALSE>> \in got)
  /\ pc \notin Over => pending \subseteq awaited
Waits ==
  /\ ~sent => awaited = {}
  /\ sent => pc \in Preparing \cup {"open", "unload", "killed"}
  /\ pc \in Preparing /\ sent => awaited = KeysOf(pc)
  /\ pc = "open" /\ sent => awaited = {Pid(adding)}
  /\ pc = "unload" => sent /\ awaited = {<<"unload">>}
  /\ <<"unload">> \in awaited => pc = "unload"
ToCome ==
  /\ Once /\ (\A x \in Unread : Asks(x) => x \in pending)
  /\ ~engine.linked => engine.inbox = <<>>

\* An error or Ctrl-C will be seen: it is in the queue, in the answer awaited, or noted.
Refused == \E k : <<k, FALSE>> \in got
StruckInv ==
  /\ struck /\ ReadingToCome => errors > 0 \/ interrupted \/ Refused
  /\ pc = "sampling" /\ secs = 0 /\ musicians = To => ~struck
  /\ end = "complete" => ~struck
  /\ pc \notin Over => end = "none"

Channels(m, r) == {<<"stream", m, r, v>> : v \in Voices(m)}
\* Who arrived in the campaign; who is being added is on the way.
Arrived == 2 .. (musicians - Len(coming))
Expected == UNION {Scheduled(m) : m \in Arrived \ {adding.m}}
Beginning ==
  pc \in Preparing => /\ coming = <<>> /\ moves = {} /\ producers = {} /\ links = {} /\ downs = {} /\ secs = 0
                      /\ musicians = From
InOrder ==
  /\ \A i \in DOMAIN coming : coming[i] = musicians - Len(coming) + i
  /\ Len(coming) =< musicians - 1
  /\ secs > 0 \/ pc = "sampling" => coming = <<>>
  /\ pc = "arrive" => secs = 0
Moves ==
  /\ \A x \in moves : x[1] \in Arrived
  /\ \A m \in Absent : <<m, "leaves">> \in moves => <<m, "returns">> \in moves
OnTheWay ==
  /\ pc \in Preparing \cup {"arrive", "sampling"} => adding = Nobody /\ out = {}
  /\ pc = "open" => /\ adding.m \in Arrived
                    /\ adding.voice => adding.m \in Voiced
                    /\ \A m \in Arrived : m = adding.m => Scheduled(m) = Channels(m, adding.rejoin)
                    /\ out = IF adding.voice THEN {<<"stream", adding.m, adding.rejoin, FALSE>>} ELSE {}
Together ==
  pc \in Campaigning => /\ producers = Expected /\ links = Expected
                        /\ downs = producers \cup out \cup (IF sent THEN {Pid(adding)} ELSE {})
PlanInv == Beginning /\ InOrder /\ Moves /\ OnTheWay /\ Together

\* Streams the Audio Engine will no longer have: never a stream that is to come.
Leaving == {p \in Pids : <<"remove", p>> \in Unread}
EngineInv ==
  /\ pc \notin {"ended", "done", "killed"} => <<"stop">> \notin Unread
  /\ pc \notin {"unload", "stop", "ended", "done"} => <<"unload">> \notin Unread
  /\ pc \in Preparing => Leaving = {}
  /\ pc \in Preparing \cup Campaigning =>
       /\ \A p \in Leaving : p[2] \in Absent \cap Arrived /\ p[3] = 0 /\ <<p[2], "leaves">> \notin moves
       /\ engine.linked => \A p \in Pids :
             p \in engine.streams \ Leaving <=> p \in producers \cup out \/ <<p, TRUE>> \in got

\* The plugin: unloaded as soon as it is answered; and the end, whatever comes before it.
EndInv ==
  /\ pc \in Preparing => ~plugin_loaded
  /\ pc = "unload" => plugin_loaded
  /\ plugin_loaded => <<"load">> \notin Unread
  /\ <<<<"unload">>, TRUE>> \in got => ~engine.plugin
  /\ plugin_loaded /\ pc \in {"stop", "ended", "done"} =>
       plugin_line = "not returned" \/ (plugin_line = "returned" /\ ~engine.plugin)
  /\ pc = "ended" /\ engine.linked =>
       IF engine.inbox = <<>> THEN engine.streams = {} /\ ~engine.capture
       ELSE engine.inbox[Len(engine.inbox)] = <<"stop">>

RunInv == RunTyped /\ EngineTyped /\ Answers /\ Waits /\ ToCome /\ StruckInv /\ PlanInv /\ EngineInv /\ EndInv

\* The constants, and what is known of a stream and of a command.
LEMMA RunBounds ==
  /\ From \in Nat /\ To \in Nat /\ 2 =< From /\ From =< To /\ StepSecs \in Nat \ {0}
  /\ Voiced \subseteq 2 .. To /\ Absent \subseteq 2 .. To
BY BenchAssumption DEF BenchConstants

LEMMA PidIs ==
  ASSUME NEW p \in Pids
  PROVE  /\ p[1] = "stream" /\ p[2] \in 2 .. To /\ p[3] \in {0, 1} /\ p[4] \in BOOLEAN
         /\ p = <<"stream", p[2], p[3], p[4]>>
BY DEF Pids
LEMMA PidOf == ASSUME NEW m \in 2 .. To, NEW r \in {0, 1}, NEW v \in BOOLEAN
               PROVE <<"stream", m, r, v>> \in Pids
BY DEF Pids

LEMMA CommandIs ==
  ASSUME NEW x \in Commands
  PROVE  \/ x[1] = "remove" /\ x[2] \in Pids /\ x = <<"remove", x[2]>>
         \/ x[1] = "stream" /\ x \in Pids
         \/ x[1] \in Preparing \cup {"unload", "stop"} /\ x = <<x[1]>>
<1>1. CASE x \in Pids  BY <1>1, PidIs
<1>2. CASE x \in {<<y>> : y \in Preparing \cup {"unload", "stop"}}  BY <1>2
<1>3. CASE x \in {<<"remove", p>> : p \in Pids}  BY <1>3
<1>4. QED  BY <1>1, <1>2, <1>3 DEF Commands
LEMMA SimpleCommand == ASSUME NEW y \in Preparing \cup {"unload", "stop"}
                       PROVE <<y>> \in Commands /\ (y # "stop" => Asks(<<y>>))
BY DEF Commands, Asks, Preparing

\* The streams are finitely many: those of a set can be told in some order.
LEMMA PidsFinite == IsFiniteSet(Pids)
<1>1. IsFiniteSet(2 .. To)  BY RunBounds, FS_Interval
<1>2. IsFiniteSet(0 .. 1)
  <2>1. 0 \in Int /\ 1 \in Int  OBVIOUS
  <2>2. QED  BY <2>1, FS_Interval
<1> DEFINE pairs == (2 .. To) \X (0 .. 1)
<1>3. IsFiniteSet(pairs)  BY <1>1, <1>2, FS_Product
<1> DEFINE Of(v) == {<<"stream", x[1], x[2], v>> : x \in pairs}
<1>4. ASSUME NEW v  PROVE IsFiniteSet(Of(v))
  <2> DEFINE f == [x \in pairs |-> <<"stream", x[1], x[2], v>>]
  <2>1. f \in [pairs -> Of(v)] /\ \A y \in Of(v) : \E x \in pairs : f[x] = y
    <3> HIDE DEF pairs
    <3>1. QED  OBVIOUS
  <2> HIDE DEF f, pairs, Of
  <2>2. f \in Surjection(pairs, Of(v))  BY <2>1 DEF Surjection
  <2>3. QED  BY <1>3, <2>2, FS_Surjection
<1>5. IsFiniteSet(Of(FALSE) \cup Of(TRUE))
  <2> HIDE DEF Of
  <2>1. QED  BY <1>4, FS_Union
<1>6. Pids \subseteq Of(FALSE) \cup Of(TRUE)
  <2> SUFFICES ASSUME NEW p \in Pids  PROVE p \in Of(FALSE) \cup Of(TRUE)
    OBVIOUS
  <2>0. PICK m \in 2 .. To, r \in {0, 1}, v \in BOOLEAN : p = <<"stream", m, r, v>>
    BY DEF Pids
  <2>1. <<m, r>> \in pairs /\ <<m, r>>[1] = m /\ <<m, r>>[2] = r  OBVIOUS
  <2>2. <<"stream", m, r, v>> \in Of(v)
    <3> HIDE DEF pairs
    <3>1. QED  BY <2>1
  <2> HIDE DEF Of
  <2>3. CASE v = TRUE  BY <2>0, <2>2, <2>3
  <2>4. CASE v = FALSE  BY <2>0, <2>2, <2>4
  <2>5. QED  BY <2>3, <2>4
<1>7. QED  BY <1>5, <1>6, FS_Subset

LEMMA SameCount == \A S : Ext!Cardinality(S) = Cardinality(S)
BY DEF Ext!Cardinality, Cardinality
LEMMA OrderOf ==
  ASSUME NEW S, IsFiniteSet(S)
  PROVE  \E n \in Nat : /\ Ext!SetToSeq(S) \in [1 .. n -> S]
                        /\ \A x \in S : \E i \in 1 .. n : Ext!SetToSeq(S)[i] = x
<1> DEFINE n == Cardinality(S)
<1>1. n \in Nat /\ ExistsBijection(1 .. n, S)  BY FS_CardinalityType
<1>2. PICK g \in [1 .. n -> S] : \A a, b \in 1 .. n : g[a] = g[b] => a = b
  <2>1. PICK g : g \in Bijection(1 .. n, S)  BY <1>1 DEF ExistsBijection
  <2>2. g \in Injection(1 .. n, S)  BY <2>1 DEF Bijection
  <2>3. QED  BY <2>2 DEF Injection, IsInjective
<1>3. Ext!IsInjective(g)  BY <1>2 DEF Ext!IsInjective
<1>4. Ext!SetToSeq(S) = CHOOSE f \in [1 .. n -> S] : Ext!IsInjective(f)
  BY SameCount DEF Ext!SetToSeq
<1>5. Ext!SetToSeq(S) \in [1 .. n -> S] /\ Ext!IsInjective(Ext!SetToSeq(S))  BY <1>3, <1>4
<1>6. PICK f : f = Ext!SetToSeq(S)  OBVIOUS
<1>7. f \in Injection(1 .. n, S)
  <2>1. f \in [1 .. n -> S] /\ \A a, b \in 1 .. n : f[a] = f[b] => a = b
    BY <1>5, <1>6 DEF Ext!IsInjective
  <2>2. QED  BY <2>1 DEF Injection, IsInjective
<1>8. Cardinality(1 .. n) = n
  <2>1. \A k \in Nat : Cardinality(1 .. k) = k
    <3> SUFFICES ASSUME NEW k \in Nat  PROVE Cardinality(1 .. k) = k
      OBVIOUS
    <3>1. Cardinality(1 .. k) = IF 1 > k THEN 0 ELSE k - 1 + 1  BY FS_Interval
    <3>2. QED  BY <3>1
  <2>2. QED  BY <1>1, <2>1
<1>9. f \in Surjection(1 .. n, S)  BY <1>7, <1>8, FS_Injection
<1>10. \A x \in S : \E i \in 1 .. n : f[i] = x  BY <1>9 DEF Surjection
<1>11. QED  BY <1>1, <1>5, <1>6, <1>10

\* The removals of some streams are those of each and of no other.
LEMMA RemovalsAre ==
  ASSUME NEW ps \in SUBSET Pids
  PROVE  /\ Removals(ps) \in Seq(Commands)
         /\ {Removals(ps)[i] : i \in DOMAIN Removals(ps)} = {<<"remove", p>> : p \in ps}
         /\ \A i \in DOMAIN Removals(ps) : ~Asks(Removals(ps)[i])
<1>1. IsFiniteSet(ps)  BY PidsFinite, FS_Subset
<1>0. PICK n \in Nat : /\ Ext!SetToSeq(ps) \in [1 .. n -> ps]
                       /\ \A x \in ps : \E i \in 1 .. n : Ext!SetToSeq(ps)[i] = x
  BY <1>1, OrderOf
<1>2. PICK f \in [1 .. n -> ps] : f = Ext!SetToSeq(ps) /\ \A x \in ps : \E i \in 1 .. n : f[i] = x
  BY <1>0
<1>3. Len(f) = n  BY <1>2
<1>4. Removals(ps) = [i \in 1 .. n |-> <<"remove", f[i]>>]  BY <1>2, <1>3 DEF Removals
<1>5. PICK g : g = [i \in 1 .. n |-> <<"remove", f[i]>>]  OBVIOUS
<1>6. \A i \in 1 .. n : f[i] \in ps /\ g[i] = <<"remove", f[i]>> /\ g[i] \in Commands /\ ~Asks(g[i])
  BY <1>2, <1>5 DEF Commands, Asks
<1>7. g \in Seq(Commands) /\ DOMAIN g = 1 .. n
  <2>1. g \in [1 .. n -> Commands]  BY <1>5, <1>6
  <2>2. QED  BY <1>2, <2>1
<1>8. {g[i] : i \in DOMAIN g} = {<<"remove", p>> : p \in ps}
  <2>1. ASSUME NEW i \in 1 .. n  PROVE g[i] \in {<<"remove", p>> : p \in ps}  BY <1>6
  <2>2. ASSUME NEW p \in ps  PROVE \E i \in 1 .. n : <<"remove", p>> = g[i]
    <3>1. PICK i \in 1 .. n : f[i] = p  BY <1>2
    <3>2. QED  BY <1>6, <3>1
  <2>3. QED  BY <1>7, <2>1, <2>2
<1>9. \A i \in DOMAIN g : ~Asks(g[i])  BY <1>6, <1>7
<1>10. g = Removals(ps)  BY <1>4, <1>5
<1>11. QED  BY <1>7, <1>8, <1>9, <1>10

\* What is said goes behind what was not read yet.
LEMMA JoinedOf ==
  ASSUME NEW S, NEW q \in Seq(S), NEW r \in Seq(S)
  PROVE  /\ q \o r \in Seq(S) /\ Len(q \o r) = Len(q) + Len(r) /\ Len(q) \in Nat /\ Len(r) \in Nat
         /\ DOMAIN q = 1 .. Len(q) /\ DOMAIN r = 1 .. Len(r) /\ DOMAIN (q \o r) = 1 .. Len(q) + Len(r)
         /\ \A i \in 1 .. Len(q) : (q \o r)[i] = q[i]
         /\ \A i \in 1 .. Len(r) : (q \o r)[Len(q) + i] = r[i]
         /\ \A i \in 1 .. Len(q) + Len(r) : i > Len(q) => i - Len(q) \in 1 .. Len(r) /\ (q \o r)[i] = r[i - Len(q)]
<1>1. /\ q \o r \in Seq(S) /\ Len(q \o r) = Len(q) + Len(r) /\ Len(q) \in Nat /\ Len(r) \in Nat
      /\ DOMAIN q = 1 .. Len(q) /\ DOMAIN r = 1 .. Len(r) /\ DOMAIN (q \o r) = 1 .. Len(q) + Len(r)
  OBVIOUS
<1>2. \A i \in 1 .. Len(q) : (q \o r)[i] = q[i]  OBVIOUS
<1>3. \A i \in 1 .. Len(q) + Len(r) : i > Len(q) => i - Len(q) \in 1 .. Len(r) /\ (q \o r)[i] = r[i - Len(q)]
  OBVIOUS
<1>4. \A i \in 1 .. Len(r) : (q \o r)[Len(q) + i] = r[i]
  <2> SUFFICES ASSUME NEW i \in 1 .. Len(r)  PROVE (q \o r)[Len(q) + i] = r[i]
    OBVIOUS
  <2>1. Len(q) + i \in 1 .. Len(q) + Len(r) /\ Len(q) + i > Len(q) /\ Len(q) + i - Len(q) = i  BY <1>1
  <2>2. QED  BY <1>3, <2>1
<1>5. QED  BY <1>1, <1>2, <1>3, <1>4

Elements(q) == {q[i] : i \in DOMAIN q}
LEMMA JoinedHolds ==
  ASSUME NEW q \in Seq(Commands), NEW r \in Seq(Commands)
  PROVE  Elements(q \o r) = Elements(q) \cup Elements(r)
<1>0. PICK z : z = q \o r  OBVIOUS
<1> SUFFICES Elements(z) = Elements(q) \cup Elements(r)
  BY <1>0
<1>1. /\ Len(q) \in Nat /\ Len(r) \in Nat
      /\ DOMAIN q = 1 .. Len(q) /\ DOMAIN r = 1 .. Len(r) /\ DOMAIN z = 1 .. Len(q) + Len(r)
      /\ \A i \in 1 .. Len(q) : z[i] = q[i]
      /\ \A i \in 1 .. Len(r) : z[Len(q) + i] = r[i]
      /\ \A i \in 1 .. Len(q) + Len(r) : i > Len(q) => i - Len(q) \in 1 .. Len(r) /\ z[i] = r[i - Len(q)]
  BY <1>0, JoinedOf
<1> USE DEF Elements
<1>2. ASSUME NEW i \in DOMAIN z  PROVE z[i] \in {q[j] : j \in DOMAIN q} \cup {r[j] : j \in DOMAIN r}
  <2>1. CASE i > Len(q)  BY <1>1, <2>1
  <2>2. CASE ~(i > Len(q))  BY <1>1, <2>2
  <2>3. QED  BY <2>1, <2>2
<1>3. ASSUME NEW i \in DOMAIN q  PROVE q[i] \in {z[j] : j \in DOMAIN z}
  <2>1. i \in DOMAIN z  BY <1>1
  <2>2. QED  BY <1>1, <2>1
<1>4. ASSUME NEW i \in DOMAIN r  PROVE r[i] \in {z[j] : j \in DOMAIN z}
  <2>1. Len(q) + i \in DOMAIN z  BY <1>1
  <2>2. QED  BY <1>1, <2>1
<1>5. QED  BY <1>2, <1>3, <1>4

\* A request is said once more in no other place.
OnceIn(q) == \A i, j \in DOMAIN q : i # j /\ Asks(q[i]) => q[i] # q[j]
LEMMA JoinedOnce ==
  ASSUME NEW S, NEW q \in Seq(S), NEW r \in Seq(S), OnceIn(q), OnceIn(r),
         \A i \in DOMAIN r : Asks(r[i]) => r[i] \notin Elements(q), NEW z, z = q \o r
  PROVE  OnceIn(z)
<1>1. /\ Len(q) \in Nat /\ Len(r) \in Nat
      /\ DOMAIN q = 1 .. Len(q) /\ DOMAIN r = 1 .. Len(r) /\ DOMAIN z = 1 .. Len(q) + Len(r)
      /\ \A i \in 1 .. Len(q) : z[i] = q[i]
      /\ \A i \in 1 .. Len(q) + Len(r) : i > Len(q) => i - Len(q) \in 1 .. Len(r) /\ z[i] = r[i - Len(q)]
  BY JoinedOf
<1>2. SUFFICES ASSUME NEW i \in DOMAIN z, NEW j \in DOMAIN z, i # j, Asks(z[i])  PROVE z[i] # z[j]
  BY DEF OnceIn
<1>3. CASE i > Len(q) /\ j > Len(q)
  <2>1. i - Len(q) \in DOMAIN r /\ j - Len(q) \in DOMAIN r /\ z[i] = r[i - Len(q)] /\ z[j] = r[j - Len(q)]
    BY <1>1, <1>3
  <2>2. i - Len(q) # j - Len(q)  BY <1>1, <1>2
  <2>3. QED  BY <1>2, <2>1, <2>2 DEF OnceIn
<1>4. CASE ~(i > Len(q)) /\ ~(j > Len(q))
  <2>1. i \in DOMAIN q /\ j \in DOMAIN q /\ z[i] = q[i] /\ z[j] = q[j]  BY <1>1, <1>4
  <2>2. QED  BY <1>2, <2>1 DEF OnceIn
<1>5. CASE i > Len(q) /\ ~(j > Len(q))
  <2>1. i - Len(q) \in DOMAIN r /\ j \in DOMAIN q /\ z[i] = r[i - Len(q)] /\ z[j] = q[j]  BY <1>1, <1>5
  <2>2. QED  BY <1>2, <2>1 DEF Elements
<1>6. CASE ~(i > Len(q)) /\ j > Len(q)
  <2>1. i \in DOMAIN q /\ j - Len(q) \in DOMAIN r /\ z[i] = q[i] /\ z[j] = r[j - Len(q)]  BY <1>1, <1>6
  <2>2. ASSUME z[i] = z[j]  PROVE FALSE
    <3>1. Asks(r[j - Len(q)])  BY <1>2, <2>1, <2>2
    <3>2. QED  BY <2>1, <2>2, <3>1 DEF Elements
  <2>3. QED  BY <2>2
<1>7. QED  BY <1>3, <1>4, <1>5, <1>6

LEMMA SayAdds ==
  ASSUME EngineTyped, Once, NEW cs \in Seq(Commands), OnceIn(cs),
         \A i \in DOMAIN cs : Asks(cs[i]) => cs[i] \notin Unread, engine' = Say(engine, cs)
  PROVE  /\ EngineTyped' /\ Once' /\ engine'.linked = engine.linked /\ engine'.streams = engine.streams
         /\ engine'.capture = engine.capture /\ engine'.plugin = engine.plugin
         /\ engine'.inbox = IF engine.linked THEN engine.inbox \o cs ELSE engine.inbox
         /\ Unread' = IF engine.linked THEN Unread \cup {cs[i] : i \in DOMAIN cs} ELSE Unread
<1>1. CASE ~engine.linked
  <2>1. engine' = engine  BY <1>1 DEF Say
  <2>2. QED  BY <1>1, <2>1 DEF EngineTyped, Once, Unread
<1>2. CASE engine.linked
  <2>1. PICK q \in Seq(Commands) : q = engine.inbox  BY DEF EngineTyped
  <2>2. PICK z \in Seq(Commands) : z = q \o cs  BY JoinedOf
  <2>3. engine' = [engine EXCEPT !.inbox = z]  BY <1>2, <2>1, <2>2 DEF Say
  <2>4. /\ EngineTyped' /\ engine'.linked = engine.linked /\ engine'.streams = engine.streams
        /\ engine'.capture = engine.capture /\ engine'.plugin = engine.plugin /\ engine'.inbox = z
    BY <2>3 DEF EngineTyped
  <2>5. OnceIn(q)  BY <2>1 DEF Once, OnceIn
  <2>6. Unread = Elements(q)  BY <2>1 DEF Unread, Elements
  <2>7. OnceIn(z)  BY <2>1, <2>2, <2>5, <2>6, JoinedOnce
  <2>8. Elements(z) = Elements(q) \cup Elements(cs)  BY <2>1, <2>2, JoinedHolds
  <2>9. Once'  BY <2>4, <2>7 DEF Once, OnceIn
  <2>10. Unread' = Elements(z)  BY <2>4 DEF Unread, Elements
  <2>11. QED  BY <1>2, <2>1, <2>2, <2>4, <2>6, <2>8, <2>9, <2>10 DEF Elements
<1>3. QED  BY <1>1, <1>2

LEMMA AskAdds ==
  ASSUME EngineTyped, Once, NEW x \in Commands, x \notin Unread, engine' = Say(engine, <<x>>)
  PROVE  /\ EngineTyped' /\ Once' /\ engine'.linked = engine.linked /\ engine'.streams = engine.streams
         /\ engine'.capture = engine.capture /\ engine'.plugin = engine.plugin
         /\ engine'.inbox = IF engine.linked THEN Append(engine.inbox, x) ELSE engine.inbox
         /\ Unread' = IF engine.linked THEN Unread \cup {x} ELSE Unread
<1>1. PICK cs : cs = <<x>>  OBVIOUS
<1>2. cs \in Seq(Commands) /\ DOMAIN cs = {1} /\ cs[1] = x  BY <1>1
<1>3. OnceIn(cs) /\ {cs[i] : i \in DOMAIN cs} = {x}  BY <1>2 DEF OnceIn
<1>4. engine.inbox \in Seq(Commands)  BY DEF EngineTyped
<1>5. \A q \in Seq(Commands) : q \o <<x>> = Append(q, x)  OBVIOUS
<1>6. /\ EngineTyped' /\ Once' /\ engine'.linked = engine.linked /\ engine'.streams = engine.streams
      /\ engine'.capture = engine.capture /\ engine'.plugin = engine.plugin
      /\ engine'.inbox = IF engine.linked THEN engine.inbox \o cs ELSE engine.inbox
      /\ Unread' = IF engine.linked THEN Unread \cup {cs[i] : i \in DOMAIN cs} ELSE Unread
  BY <1>1, <1>2, <1>3, SayAdds
<1>7. QED  BY <1>1, <1>3, <1>4, <1>5, <1>6

LEMMA RemoveAdds ==
  ASSUME EngineTyped, Once, NEW ps \in SUBSET Pids, engine' = Say(engine, Removals(ps))
  PROVE  /\ EngineTyped' /\ Once' /\ engine'.linked = engine.linked /\ engine'.streams = engine.streams
         /\ engine'.capture = engine.capture /\ engine'.plugin = engine.plugin
         /\ ~engine.linked => engine'.inbox = engine.inbox
         /\ Unread' = IF engine.linked THEN Unread \cup {<<"remove", p>> : p \in ps} ELSE Unread
<1>1. PICK cs \in Seq(Commands) :
        /\ cs = Removals(ps) /\ {cs[i] : i \in DOMAIN cs} = {<<"remove", p>> : p \in ps}
        /\ \A i \in DOMAIN cs : ~Asks(cs[i])
  BY RemovalsAre
<1>2. OnceIn(cs)  BY <1>1 DEF OnceIn
<1>3. QED  BY <1>1, <1>2, SayAdds

\* The Audio Engine reads the first of what it has not read yet.
LEMMA ReadsFirst ==
  ASSUME EngineTyped, Once, engine.inbox # <<>>, NEW h, h = Head(engine.inbox),
         engine'.inbox = Tail(engine.inbox)
  PROVE  /\ h \in Commands /\ engine'.inbox \in Seq(Commands) /\ Once'
         /\ Unread = Unread' \cup {h} /\ (Asks(h) => h \notin Unread')
<1>1. PICK q \in Seq(Commands) : q = engine.inbox /\ q # <<>>  BY DEF EngineTyped
<1>2. PICK z : z = Tail(q) /\ z = engine'.inbox  BY <1>1
<1>3. /\ Len(q) \in Nat \ {0} /\ DOMAIN q = 1 .. Len(q) /\ z \in Seq(Commands) /\ Len(z) = Len(q) - 1
      /\ DOMAIN z = 1 .. Len(q) - 1 /\ \A i \in 1 .. Len(q) - 1 : z[i] = q[i + 1]
  BY <1>1, <1>2
<1>4. h = q[1] /\ 1 \in DOMAIN q /\ h \in Commands  BY <1>1, <1>3
<1>5. Unread = {q[i] : i \in DOMAIN q} /\ Unread' = {z[i] : i \in DOMAIN z}  BY <1>1, <1>2 DEF Unread
<1>6. \A i \in DOMAIN z : i + 1 \in DOMAIN q /\ i + 1 # 1  BY <1>3
<1>7. \A i \in DOMAIN q : i = 1 \/ (i - 1 \in DOMAIN z /\ z[i - 1] = q[i])
  <2> SUFFICES ASSUME NEW i \in DOMAIN q, i # 1  PROVE i - 1 \in DOMAIN z /\ z[i - 1] = q[i]
    OBVIOUS
  <2>1. i - 1 \in 1 .. Len(q) - 1 /\ (i - 1) + 1 = i  BY <1>3
  <2>2. QED  BY <1>3, <2>1
<1>8. OnceIn(q)  BY <1>1 DEF Once, OnceIn
<1>9. Once'
  <2>1. OnceIn(z)
    <3> SUFFICES ASSUME NEW i \in DOMAIN z, NEW j \in DOMAIN z, i # j, Asks(z[i])  PROVE z[i] # z[j]
      BY DEF OnceIn
    <3>1. i + 1 # j + 1 /\ z[i] = q[i + 1] /\ z[j] = q[j + 1]  BY <1>3
    <3>2. QED  BY <1>6, <1>8, <3>1 DEF OnceIn
  <2>2. QED  BY <1>2, <2>1 DEF Once, OnceIn
<1>10. Unread = Unread' \cup {h}
  <2>1. \A i \in DOMAIN z : z[i] \in Unread  BY <1>3, <1>5, <1>6
  <2>2. \A i \in DOMAIN q : q[i] \in Unread' \cup {h}  BY <1>4, <1>5, <1>7
  <2>3. QED  BY <1>4, <1>5, <2>1, <2>2
<1>11. Asks(h) => h \notin Unread'
  <2> SUFFICES ASSUME Asks(h), NEW i \in DOMAIN z, z[i] = h  PROVE FALSE
    BY <1>5
  <2>1. z[i] = q[i + 1]  BY <1>3
  <2>2. QED  BY <1>4, <1>6, <1>8, <2>1 DEF OnceIn
<1>12. QED  BY <1>2, <1>3, <1>4, <1>9, <1>10, <1>11

\* What a step leaves alone, and what the link is when nobody waits.
LEMMA PreparingIs == InPreparation <=> pc \in Preparing
<1>1. /\ Len(Prepare) = 5
      /\ Prepare[1] = "devices" /\ Prepare[2] = "capture" /\ Prepare[3] = "voice"
      /\ Prepare[4] = "plugins" /\ Prepare[5] = "load"
  BY DEF Prepare
<1>2. \A i \in 1 .. 5 : i = 1 \/ i = 2 \/ i = 3 \/ i = 4 \/ i = 5  OBVIOUS
<1>3. 1 \in 1 .. 5 /\ 2 \in 1 .. 5 /\ 3 \in 1 .. 5 /\ 4 \in 1 .. 5 /\ 5 \in 1 .. 5  OBVIOUS
<1>4. ASSUME InPreparation  PROVE pc \in Preparing
  <2>1. PICK i \in 1 .. 5 : pc = Prepare[i]  BY <1>1, <1>4 DEF InPreparation
  <2>2. QED  BY <1>1, <1>2, <2>1 DEF Preparing
<1>5. ASSUME pc \in Preparing  PROVE InPreparation  BY <1>1, <1>3, <1>5 DEF InPreparation, Preparing
<1>6. QED  BY <1>4, <1>5

LEMMA EngineSame ==
  ASSUME EngineTyped, Once, engine' = engine
  PROVE  EngineTyped' /\ Once' /\ Unread' = Unread /\ Leaving' = Leaving
BY DEF EngineTyped, Once, Unread, Leaving

LEMMA NobodyWaits ==
  ASSUME Answers, Waits, ~sent
  PROVE  awaited = {} /\ got = {} /\ ~Refused /\ (pc \notin Over => pending = {})
<1>1. awaited = {}  BY DEF Waits
<1>2. got = {}  BY <1>1 DEF Answers
<1>3. QED  BY <1>1, <1>2 DEF Answers, Refused
LEMMA AllHeard ==
  ASSUME Answers, Heard(awaited)
  PROVE  ~Refused /\ (pc \notin Over => pending = {})
<1>1. ASSUME NEW k, <<k, FALSE>> \in got  PROVE FALSE
  <2>1. k \in awaited  BY <1>1 DEF Answers
  <2>2. <<k, TRUE>> \in got  BY <2>1 DEF Heard
  <2>3. QED  BY <1>1, <2>2 DEF Answers
<1>2. ASSUME pc \notin Over, NEW k \in pending  PROVE FALSE
  <2>1. k \in awaited  BY <1>2 DEF Answers
  <2>2. <<k, TRUE>> \in got  BY <2>1 DEF Heard
  <2>3. QED  BY <1>2, <2>2 DEF Answers
<1>3. QED  BY <1>1, <1>2 DEF Refused

Linked == EngineTyped /\ Answers /\ Waits /\ ToCome
LEMMA LinkAlone ==
  ASSUME RunInv, UNCHANGED <<sent, pending, awaited, got, engine>>, ~sent,
         pc' # "unload", pc' \notin Over => pc \notin Over
  PROVE  Linked' /\ Unread' = Unread /\ Leaving' = Leaving
<1>1. EngineTyped' /\ Once' /\ Unread' = Unread /\ Leaving' = Leaving  BY EngineSame DEF RunInv, ToCome
<1>2. Answers'  BY DEF RunInv, Answers
<1>3. awaited = {}  BY NobodyWaits DEF RunInv
<1>4. Waits'  BY <1>3 DEF Waits
<1>5. ToCome'  BY <1>1 DEF RunInv, ToCome
<1>6. QED  BY <1>1, <1>2, <1>4, <1>5 DEF Linked
LEMMA LinkForgets ==
  ASSUME RunInv, Forget, engine' = engine, pc' # "unload",
         pc' \notin Over => pc \notin Over /\ (sent => Heard(awaited))
  PROVE  Linked' /\ Unread' = Unread /\ Leaving' = Leaving /\ got' = {} /\ ~sent'
<1>1. EngineTyped' /\ Once' /\ Unread' = Unread /\ Leaving' = Leaving  BY EngineSame DEF RunInv, ToCome
<1>2. sent' = FALSE /\ awaited' = {} /\ got' = {} /\ pending' = pending  BY DEF Forget
<1>3. pc' \notin Over => pending = {}  BY AllHeard, NobodyWaits DEF RunInv
<1>4. Answers'  BY <1>2, <1>3 DEF RunInv, Answers
<1>5. Waits'  BY <1>2 DEF Waits
<1>6. ToCome'  BY <1>1, <1>2 DEF RunInv, ToCome
<1>7. QED  BY <1>1, <1>2, <1>4, <1>5, <1>6 DEF Linked

\* A request: what is asked was not asked before.
LEMMA LinkAsks ==
  ASSUME RunInv, ~sent, pc \in Preparing \cup {"open"}, pc' = pc, adding' = adding,
         NEW x \in Commands, Asks(x), NEW keys, x \in keys, Ask(x, keys), <<"unload">> \notin keys,
         pc \in Preparing => keys = KeysOf(pc), pc = "open" => keys = {Pid(adding)}
  PROVE  /\ Linked' /\ sent' /\ awaited' = keys /\ got = {} /\ got' = {} /\ Leaving' = Leaving
         /\ engine'.linked = engine.linked /\ engine'.streams = engine.streams
         /\ engine'.capture = engine.capture /\ engine'.plugin = engine.plugin
         /\ Unread' \subseteq Unread \cup {x}
<1>1. awaited = {} /\ got = {} /\ pending = {}  BY NobodyWaits DEF RunInv, Over, Preparing
<1>2. sent' = TRUE /\ pending' = keys /\ awaited' = keys /\ got' = {} /\ engine' = Say(engine, <<x>>)
  BY <1>1 DEF Ask
<1>3. x \notin Unread /\ \A y \in Unread : ~Asks(y)  BY <1>1 DEF RunInv, ToCome
<1>4. /\ EngineTyped' /\ Once' /\ engine'.linked = engine.linked /\ engine'.streams = engine.streams
      /\ engine'.capture = engine.capture /\ engine'.plugin = engine.plugin
      /\ engine'.inbox = IF engine.linked THEN Append(engine.inbox, x) ELSE engine.inbox
      /\ Unread' = IF engine.linked THEN Unread \cup {x} ELSE Unread
  BY <1>2, <1>3, AskAdds DEF RunInv, ToCome
<1>5. Answers'  BY <1>2 DEF Answers
<1>6. Waits'  BY <1>2 DEF Waits, Preparing, Pid
<1>7. ToCome'
  <2>1. \A y \in Unread' : Asks(y) => y \in pending'  BY <1>2, <1>3, <1>4
  <2>2. ~engine'.linked => engine'.inbox = <<>>  BY <1>4 DEF RunInv, ToCome
  <2>3. QED  BY <1>4, <2>1, <2>2 DEF ToCome
<1>8. Leaving' = Leaving
  <2>1. x[1] # "remove"  BY DEF Asks
  <2>2. \A p : <<"remove", p>> # x  BY <2>1
  <2>3. \A p \in Pids : <<"remove", p>> \in Unread' <=> <<"remove", p>> \in Unread  BY <1>4, <2>2
  <2>4. QED  BY <2>3 DEF Leaving
<1>9. QED  BY <1>1, <1>2, <1>4, <1>5, <1>6, <1>7, <1>8 DEF Linked

\* Streams are told to go.
LEMMA LinkRemoves ==
  ASSUME RunInv, NEW ps \in SUBSET Pids, engine' = Say(engine, Removals(ps)), pending' = pending
  PROVE  /\ EngineTyped' /\ ToCome' /\ engine'.linked = engine.linked /\ engine'.streams = engine.streams
         /\ engine'.capture = engine.capture /\ engine'.plugin = engine.plugin
         /\ Leaving' = IF engine.linked THEN Leaving \cup ps ELSE Leaving
         /\ \A y : <<y>> \in Unread' => <<y>> \in Unread
<1>1. /\ EngineTyped' /\ Once' /\ engine'.linked = engine.linked /\ engine'.streams = engine.streams
      /\ engine'.capture = engine.capture /\ engine'.plugin = engine.plugin
      /\ ~engine.linked => engine'.inbox = engine.inbox
      /\ Unread' = IF engine.linked THEN Unread \cup {<<"remove", p>> : p \in ps} ELSE Unread
  BY RemoveAdds DEF RunInv, ToCome
<1>2. \A p : ~Asks(<<"remove", p>>)  BY DEF Asks
<1>3. \A y \in Unread' : Asks(y) => y \in Unread  BY <1>1, <1>2
<1>4. ToCome'  BY <1>1, <1>3 DEF RunInv, ToCome
<1>5. \A p \in Pids : <<"remove", p>> \in Unread' <=> <<"remove", p>> \in Unread \/ (engine.linked /\ p \in ps)
  <2>1. \A p, r : <<"remove", p>> = <<"remove", r>> => p = r  OBVIOUS
  <2>2. QED  BY <1>1, <2>1
<1>6. Leaving' = IF engine.linked THEN Leaving \cup ps ELSE Leaving
  <2>1. CASE engine.linked  BY <1>5, <2>1 DEF Leaving
  <2>2. CASE ~engine.linked  BY <1>5, <2>2 DEF Leaving
  <2>3. QED  BY <2>1, <2>2
<1>7. \A y, p : <<y>> # <<"remove", p>>  OBVIOUS
<1>8. \A y : <<y>> \in Unread' => <<y>> \in Unread  BY <1>1, <1>7
<1>9. QED  BY <1>1, <1>4, <1>6, <1>8

\* The run is over for the musicians: nothing more is asked of the plan.
LEMMA PlanOver ==
  ASSUME RunInv, pc' \in Over, UNCHANGED <<musicians, coming>>, moves' \subseteq moves,
         \A m \in Absent : <<m, "returns">> \in moves => <<m, "returns">> \in moves', secs' > 0 => secs > 0
  PROVE  PlanInv'
<1>1. pc' \notin Preparing \cup Campaigning  BY DEF Over, Preparing, Campaigning
<1>2. Arrived' = Arrived  BY DEF Arrived
<1>3. Beginning' /\ OnTheWay' /\ Together'
  BY <1>1 DEF Beginning, OnTheWay, Together, Over, Preparing, Campaigning
<1>4. InOrder'  BY DEF RunInv, PlanInv, InOrder, Over
<1>5. Moves'  BY <1>2 DEF RunInv, PlanInv, Moves
<1>6. QED  BY <1>3, <1>4, <1>5 DEF PlanInv
LEMMA EngineOver ==
  ASSUME RunInv, pc' \in Over \ {"ended", "done"}, \A y : <<y>> \in Unread' => <<y>> \in Unread,
         pc \notin {"ended", "done", "killed", "stop"}, pc = "unload" => pc' = "stop"
  PROVE  EngineInv'
BY DEF RunInv, EngineInv, Over, Preparing, Campaigning

LEMMA EngineKept ==
  ASSUME RunInv, pc \in Preparing \cup Campaigning, Leaving' = Leaving,
         engine'.linked = engine.linked, engine'.streams = engine.streams,
         \A y \in {"stop", "unload"} : <<y>> \in Unread' => <<y>> \in Unread,
         pc' \in Preparing => pc \in Preparing, pc \notin Preparing => Arrived \subseteq Arrived',
         \A m \in Arrived : <<m, "leaves">> \in moves' => <<m, "leaves">> \in moves,
         \A p \in Pids : p \in producers' \cup out' \/ <<p, TRUE>> \in got'
                           <=> p \in producers \cup out \/ <<p, TRUE>> \in got
  PROVE  EngineInv'
<1>1. pc \notin {"ended", "done", "killed", "unload", "stop"}  BY DEF Preparing, Campaigning
<1>2. <<"stop">> \notin Unread' /\ <<"unload">> \notin Unread'  BY <1>1 DEF RunInv, EngineInv
<1>3. \A p \in Leaving : p[2] \in Absent \cap Arrived /\ p[3] = 0 /\ <<p[2], "leaves">> \notin moves
  BY DEF RunInv, EngineInv
<1>4. engine.linked => \A p \in Pids :
             p \in engine.streams \ Leaving <=> p \in producers \cup out \/ <<p, TRUE>> \in got
  BY DEF RunInv, EngineInv
<1>5. \A p \in Leaving' : p[2] \in Absent \cap Arrived' /\ p[3] = 0 /\ <<p[2], "leaves">> \notin moves'
  <2>1. CASE pc \in Preparing  BY <2>1 DEF RunInv, EngineInv
  <2>2. CASE pc \notin Preparing  BY <1>3, <2>2
  <2>3. QED  BY <2>1, <2>2
<1>6. engine'.linked => \A p \in Pids :
             p \in engine'.streams \ Leaving' <=> p \in producers' \cup out' \/ <<p, TRUE>> \in got'
  BY <1>4
<1>7. pc' \in Preparing => Leaving' = {}  BY DEF RunInv, EngineInv
<1>8. QED  BY <1>2, <1>5, <1>6, <1>7 DEF EngineInv

LEMMA NoStreamAwaited ==
  ASSUME RunInv, pc \in Preparing
  PROVE  \A p \in Pids : p \notin awaited /\ <<p, TRUE>> \notin got
<1>1. \A k \in awaited : k[1] \in Preparing \cup {"capture-started"}
  <2>1. awaited = {} \/ awaited = KeysOf(pc)  BY DEF RunInv, RunTyped, Waits
  <2>2. QED  BY <2>1 DEF KeysOf, Preparing
<1>2. \A p \in Pids : p[1] = "stream"  BY PidIs
<1>3. \A p \in Pids : p \notin awaited  BY <1>1, <1>2 DEF Preparing
<1>4. QED  BY <1>3 DEF RunInv, Answers

LEMMA SeqOf ==
  ASSUME NEW S, NEW n \in Nat, NEW f \in [1 .. n -> S]
  PROVE  f \in Seq(S) /\ Len(f) = n /\ DOMAIN f = 1 .. n
OBVIOUS
LEMMA NobodyIn == 2 .. 1 = {} /\ \A a, b : a = b => 2 .. a = 2 .. b
OBVIOUS

\* The campaign begins: everybody of the first step is still to come.
LEMMA PlanBegins ==
  ASSUME RunInv, pc \in Preparing, pc' = "arrive", coming' = [i \in 1 .. From - 1 |-> i + 1], ~sent',
         UNCHANGED <<musicians, adding, out, producers, links, downs, moves, secs>>
  PROVE  PlanInv' /\ coming' \in Seq(2 .. To) /\ Arrived' = {}
<1>1. /\ From \in Nat /\ To \in Nat /\ 2 =< From /\ From =< To  BY RunBounds
<1>2. /\ coming = <<>> /\ moves = {} /\ producers = {} /\ links = {} /\ downs = {} /\ secs = 0
      /\ musicians = From /\ adding = Nobody /\ out = {}
  BY DEF RunInv, PlanInv, Beginning, OnTheWay
<1>3. From - 1 \in Nat  BY <1>1
<1>4. coming' \in [1 .. From - 1 -> 2 .. To]  BY <1>1
<1>5. coming' \in Seq(2 .. To) /\ Len(coming') = From - 1 /\ DOMAIN coming' = 1 .. From - 1
  <2>1. PICK c \in [1 .. From - 1 -> 2 .. To] : c = coming'  BY <1>4
  <2>2. QED  BY <1>3, <2>1, SeqOf
<1>6. \A i \in DOMAIN coming' : coming'[i] = musicians' - Len(coming') + i  BY <1>1, <1>2, <1>5
<1>7. musicians' - Len(coming') = 1  BY <1>1, <1>2, <1>5
<1>8. Arrived' = {}  BY <1>7, NobodyIn DEF Arrived
<1>9. Expected' = {}  BY <1>8 DEF Expected
<1>10. Len(coming') =< musicians' - 1  BY <1>1, <1>2, <1>5
<1>11. moves' = {} /\ producers' = {} /\ links' = {} /\ downs' = {} /\ secs' = 0 /\ adding' = Nobody /\ out' = {}
  BY <1>2
<1>12. PlanInv'
  <2>1. pc' \notin Preparing /\ pc' # "open" /\ pc' # "sampling"  BY DEF Preparing
  <2>2. Beginning' /\ OnTheWay'  BY <1>11, <2>1 DEF Beginning, OnTheWay
  <2>3. InOrder'
    <3>1. ~(secs' > 0 \/ pc' = "sampling") /\ secs' = 0  BY <1>11, <2>1
    <3>2. QED  BY <1>6, <1>10, <3>1, Zenon DEF InOrder
  <2>4. Moves'  BY <1>11 DEF Moves
  <2>5. Together'  BY <1>9, <1>11 DEF Together
  <2>6. QED  BY <2>2, <2>3, <2>4, <2>5 DEF PlanInv
<1>13. QED  BY <1>5, <1>8, <1>12

LEMMA RunStarts == Init => RunInv
<1> SUFFICES ASSUME Init  PROVE RunInv
  OBVIOUS
<1>1. /\ From \in Nat /\ To \in Nat /\ 2 =< From /\ From =< To  BY RunBounds
<1>2. coming \in Seq(2 .. To) /\ Len(coming) = 0 /\ DOMAIN coming = {} /\ coming = <<>>
  <2>1. coming = <<>>  BY DEF Init
  <2>2. \A S : <<>> \in Seq(S) /\ Len(<<>>) = 0 /\ DOMAIN <<>> = {}  OBVIOUS
  <2>3. QED  BY <2>1, <2>2
<1>3. adding \in [m : {0} \cup 2 .. To, rejoin : {0, 1}, voice : BOOLEAN]
  BY DEF Init, Nobody
<1>4. RunTyped
  <2>1. pc \in Preparing /\ sent = FALSE /\ interrupted = FALSE /\ struck = FALSE /\ plugin_loaded = FALSE
    BY DEF Init, Preparing
  <2>2. errors = 0 /\ musicians = From /\ secs = 0 /\ producers = {} /\ out = {} /\ moves = {}  BY DEF Init
  <2>3. errors \in Nat /\ musicians \in From .. To /\ secs \in Nat  BY <1>1, <2>2
  <2>4. QED  BY <1>2, <1>3, <2>1, <2>2, <2>3 DEF RunTyped
<1>5. engine.inbox = <<>> /\ engine.linked /\ engine.streams = {} /\ ~engine.plugin  BY DEF Init
<1>6. EngineTyped
  <2>1. <<>> \in Seq(Commands) /\ {} \in SUBSET Pids /\ TRUE \in BOOLEAN /\ FALSE \in BOOLEAN  OBVIOUS
  <2>2. QED  BY <2>1 DEF Init, EngineTyped
<1>7. Unread = {} /\ Once /\ Leaving = {}
  <2>1. DOMAIN engine.inbox = {}
    <3>1. DOMAIN <<>> = {}  OBVIOUS
    <3>2. QED  BY <1>5, <3>1
  <2>2. Unread = {} /\ Once  BY <2>1 DEF Unread, Once
  <2>3. QED  BY <2>2 DEF Leaving
<1>8. Answers /\ Waits /\ ToCome  BY <1>5, <1>7 DEF Init, Answers, Waits, ToCome
<1>9. StruckInv  BY DEF Init, StruckInv
<1>10. pc = "devices" /\ pc \notin Campaigning /\ pc \in Preparing  BY DEF Init, Campaigning, Preparing
<1>11. Beginning /\ OnTheWay /\ Together /\ Moves
  BY <1>10 DEF Init, Beginning, OnTheWay, Together, Moves
<1>12. InOrder  BY <1>1, <1>2, <1>10 DEF Init, InOrder
<1>13. EngineInv  BY <1>5, <1>7, <1>10 DEF Init, EngineInv
<1>14. EndInv  BY <1>7, <1>10 DEF Init, EndInv
<1>15. QED  BY <1>4, <1>6, <1>8, <1>9, <1>11, <1>12, <1>13, <1>14 DEF RunInv, PlanInv

\* The preparation.
LEMMA KeepsRequest == ASSUME RunInv, Request  PROVE RunInv'
<1>1. /\ pc \in Preparing /\ ~sent /\ pc' = pc /\ Ask(<<pc>>, KeysOf(pc))
      /\ UNCHANGED <<errors, planVars, interrupted, end, plugin_loaded, plugin_line, reports, struck>>
  BY PreparingIs DEF Request
<1>2. <<pc>> \in Commands /\ Asks(<<pc>>) /\ <<pc>> \in KeysOf(pc) /\ <<"unload">> \notin KeysOf(pc)
  BY <1>1, SimpleCommand DEF Preparing, KeysOf
<1>3. /\ Linked' /\ sent' /\ got = {} /\ got' = {} /\ Leaving' = Leaving
      /\ engine'.linked = engine.linked /\ engine'.streams = engine.streams
      /\ engine'.plugin = engine.plugin /\ Unread' \subseteq Unread \cup {<<pc>>}
  BY <1>1, <1>2, LinkAsks DEF planVars, Preparing
<1>4. RunTyped'  BY <1>1, <1>3 DEF RunInv, RunTyped, planVars, Ask
<1>5. StruckInv'
  <2>1. ~Refused /\ ~Refused'  BY <1>3 DEF Refused
  <2>2. QED  BY <1>1, <2>1 DEF RunInv, StruckInv, ReadingToCome, planVars
<1>6. Arrived' = Arrived  BY <1>1 DEF Arrived, planVars
<1>7. PlanInv'
  <2>1. pc \notin Campaigning /\ pc # "open"  BY <1>1 DEF Preparing, Campaigning
  <2>2. Beginning' /\ OnTheWay' /\ Together'
    BY <1>1, <2>1 DEF RunInv, PlanInv, Beginning, OnTheWay, Together, planVars
  <2>3. InOrder' /\ Moves'  BY <1>1, <1>6 DEF RunInv, PlanInv, InOrder, Moves, planVars
  <2>4. QED  BY <2>2, <2>3 DEF PlanInv
<1>8. EngineInv'
  <2>1. \A y \in {"stop", "unload"} : <<y>> \in Unread' => <<y>> \in Unread
    <3>1. <<pc>> # <<"stop">> /\ <<pc>> # <<"unload">>  BY <1>1 DEF Preparing
    <3>2. QED  BY <1>3, <3>1
  <2>2. QED  BY <1>1, <1>3, <1>6, <2>1, EngineKept DEF planVars
<1>9. EndInv'  BY <1>1, <1>3 DEF RunInv, EndInv, Preparing
<1>10. QED  BY <1>3, <1>4, <1>5, <1>7, <1>8, <1>9 DEF RunInv, Linked

LEMMA KeepsPrepared == ASSUME RunInv, Prepared  PROVE RunInv'
<1>1. /\ pc \in Preparing /\ sent /\ Heard(awaited) /\ Forget /\ engine' = engine
      /\ UNCHANGED <<errors, musicians, adding, out, producers, links, downs, moves, secs, interrupted,
                     end, lists, reports, struck>>
  BY PreparingIs DEF Prepared
<1>2. \/ pc' \in Preparing /\ UNCHANGED <<coming, plugin_loaded, plugin_line>>
      \/ pc = "load" /\ pc' = "arrive" /\ plugin_loaded' = TRUE /\ coming' = [i \in 1 .. From - 1 |-> i + 1]
  BY <1>1 DEF Prepared, After, Preparing
<1>3. pc' # "unload" /\ pc \notin Over /\ pc' \notin Over /\ pc' \in Preparing \cup Campaigning
  BY <1>1, <1>2 DEF Preparing, Over, Campaigning
<1>4. Linked' /\ Unread' = Unread /\ Leaving' = Leaving /\ got' = {} /\ ~sent'
  BY <1>1, <1>3, LinkForgets
<1>5. \A p \in Pids : <<p, TRUE>> \notin got  BY <1>1, NoStreamAwaited
<1>6. StruckInv'
  <2>1. ~Refused  BY <1>1, AllHeard DEF RunInv
  <2>2. pc' # "sampling" /\ pc # "sampling" /\ end' = "none"
    BY <1>1, <1>2, <1>3 DEF RunInv, StruckInv, Preparing
  <2>3. ReadingToCome  BY <1>3, <2>2 DEF ReadingToCome
  <2>4. QED  BY <1>1, <2>1, <2>2, <2>3 DEF RunInv, StruckInv
<1>7. CASE pc' \in Preparing /\ UNCHANGED <<coming, plugin_loaded, plugin_line>>
  <2>1. RunTyped'  BY <1>1, <1>4, <1>7 DEF RunInv, RunTyped, Forget
  <2>2. Arrived' = Arrived  BY <1>1, <1>7 DEF Arrived
  <2>3. pc' \notin Campaigning /\ pc' # "open" /\ pc' # "sampling" /\ pc' # "arrive" /\ pc' # "unload"
    BY <1>7 DEF Preparing, Campaigning
  <2>4. Beginning' /\ OnTheWay' /\ Together'
    BY <1>1, <1>7, <2>3 DEF RunInv, PlanInv, Beginning, OnTheWay, Together
  <2>5. InOrder' /\ Moves'  BY <1>1, <1>7, <2>2, <2>3 DEF RunInv, PlanInv, InOrder, Moves
  <2>6. EngineInv'  BY <1>1, <1>4, <1>5, <1>7, <2>2, EngineKept
  <2>7. EndInv'  BY <1>1, <1>4, <1>7 DEF RunInv, EndInv, Preparing
  <2>8. QED  BY <1>4, <1>6, <2>1, <2>4, <2>5, <2>6, <2>7 DEF RunInv, Linked, PlanInv
<1>8. CASE pc = "load" /\ pc' = "arrive" /\ plugin_loaded' = TRUE /\ coming' = [i \in 1 .. From - 1 |-> i + 1]
  <2>1. PlanInv' /\ coming' \in Seq(2 .. To) /\ Arrived' = {}  BY <1>1, <1>4, <1>8, PlanBegins
  <2>2. RunTyped'  BY <1>1, <1>3, <1>4, <1>8, <2>1 DEF RunInv, RunTyped, Forget
  <2>3. EngineInv'
    <3>1. Leaving' = {} /\ pc' \notin Preparing /\ pc \notin {"ended", "done", "killed", "unload", "stop"}
      BY <1>1, <1>4, <1>8 DEF RunInv, EngineInv, Preparing
    <3>2. \A p \in Pids : p \in producers' \cup out' \/ <<p, TRUE>> \in got'
                           <=> p \in producers \cup out \/ <<p, TRUE>> \in got
      BY <1>1, <1>4, <1>5
    <3>3. engine.linked => \A p \in Pids :
             p \in engine.streams \ Leaving <=> p \in producers \cup out \/ <<p, TRUE>> \in got
      BY <1>1 DEF RunInv, EngineInv
    <3>4. engine'.linked => \A p \in Pids :
             p \in engine'.streams \ Leaving' <=> p \in producers' \cup out' \/ <<p, TRUE>> \in got'
      BY <1>1, <1>4, <3>2, <3>3
    <3>5. <<"stop">> \notin Unread' /\ <<"unload">> \notin Unread'  BY <1>4, <3>1 DEF RunInv, EngineInv
    <3>6. QED  BY <3>1, <3>4, <3>5 DEF EngineInv
  <2>4. <<"load">> \notin Unread
    <3>1. <<<<"load">>, TRUE>> \in got  BY <1>1, <1>8 DEF RunInv, Waits, KeysOf, Heard, Preparing
    <3>2. <<"load">> \notin pending  BY <3>1 DEF RunInv, Answers
    <3>3. Asks(<<"load">>)  BY DEF Asks
    <3>4. QED  BY <3>2, <3>3 DEF RunInv, ToCome
  <2>5. EndInv'  BY <1>4, <1>8, <2>4 DEF EndInv, Preparing
  <2>6. QED  BY <1>4, <1>6, <2>1, <2>2, <2>3, <2>5 DEF RunInv, Linked
<1>9. QED  BY <1>2, <1>7, <1>8

LEMMA KeepsNoPlugin == ASSUME RunInv, NoPlugin  PROVE RunInv'
<1>1. /\ pc = "plugins" /\ ~sent /\ pc' = "arrive" /\ coming' = [i \in 1 .. From - 1 |-> i + 1] /\ engine' = engine
      /\ UNCHANGED <<sent, pending, awaited, got, errors, musicians, adding, out, producers, links, downs, moves,
                     secs, interrupted, end, plugin_loaded, plugin_line, lists, reports, struck>>
  BY DEF NoPlugin, linkVars, endVars
<1>2. pc \in Preparing /\ pc' \notin Preparing /\ pc' \notin Over /\ pc \notin Over
  BY <1>1 DEF Preparing, Over
<1>3. Linked' /\ Unread' = Unread /\ Leaving' = Leaving  BY <1>1, <1>2, LinkAlone
<1>4. PlanInv' /\ coming' \in Seq(2 .. To) /\ Arrived' = {}  BY <1>1, <1>2, PlanBegins
<1>5. RunTyped'  BY <1>1, <1>4 DEF RunInv, RunTyped, Campaigning
<1>6. StruckInv'  BY <1>1, <1>2 DEF RunInv, StruckInv, ReadingToCome, Refused
<1>7. EngineInv'
  <2>1. Leaving' = {} /\ pc \notin {"ended", "done", "killed", "unload", "stop"}
    BY <1>1, <1>2, <1>3 DEF RunInv, EngineInv
  <2>2. engine.linked => \A p \in Pids :
             p \in engine.streams \ Leaving <=> p \in producers \cup out \/ <<p, TRUE>> \in got
    BY <1>2 DEF RunInv, EngineInv
  <2>3. engine'.linked => \A p \in Pids :
             p \in engine'.streams \ Leaving' <=> p \in producers' \cup out' \/ <<p, TRUE>> \in got'
    BY <1>1, <1>3, <2>2
  <2>4. <<"stop">> \notin Unread' /\ <<"unload">> \notin Unread'  BY <1>3, <2>1 DEF RunInv, EngineInv
  <2>5. QED  BY <1>2, <2>1, <2>3, <2>4 DEF EngineInv
<1>8. EndInv'  BY <1>1, <1>2, <1>3 DEF RunInv, EndInv, Preparing
<1>9. QED  BY <1>3, <1>4, <1>5, <1>6, <1>7, <1>8 DEF RunInv, Linked

LEMMA KeepsGiveUp == ASSUME RunInv, GiveUp  PROVE RunInv'
<1>1. /\ pc \in Preparing /\ pc' = "done" /\ Forget /\ engine' = engine
      /\ UNCHANGED <<errors, planVars, endVars, reports, struck>>
  BY PreparingIs DEF GiveUp
<1>2. pc' \in Over /\ pc \notin Over  BY <1>1 DEF Preparing, Over
<1>3. Linked' /\ Unread' = Unread /\ Leaving' = Leaving /\ got' = {} /\ ~sent'
  BY <1>1, <1>2, LinkForgets
<1>4. RunTyped'  BY <1>1, <1>2, <1>3 DEF RunInv, RunTyped, planVars, endVars, Forget
<1>5. StruckInv'  BY <1>1, <1>2 DEF RunInv, StruckInv, ReadingToCome, endVars
<1>6. PlanInv'  BY <1>1, <1>2, PlanOver DEF planVars
<1>7. EngineInv'  BY <1>1 DEF EngineInv, Preparing, Campaigning
<1>8. EndInv'  BY <1>1, <1>3 DEF RunInv, EndInv, endVars, Preparing
<1>9. QED  BY <1>3, <1>4, <1>5, <1>6, <1>7, <1>8 DEF RunInv, Linked

\* The campaign.
LEMMA SeqAt == ASSUME NEW S, NEW q \in Seq(S), NEW i \in DOMAIN q  PROVE q[i] \in S
OBVIOUS
LEMMA ComingIs ==
  ASSUME RunInv, pc = "arrive", coming # <<>>
  PROVE  /\ Len(coming) \in 1 .. musicians - 1 /\ Head(coming) = musicians - Len(coming) + 1
         /\ Head(coming) \in 2 .. To /\ Head(coming) \notin Arrived
         /\ Tail(coming) \in Seq(2 .. To) /\ Len(Tail(coming)) = Len(coming) - 1
         /\ DOMAIN Tail(coming) = 1 .. Len(coming) - 1
         /\ \A i \in 1 .. Len(coming) - 1 : Tail(coming)[i] = musicians - (Len(coming) - 1) + i
         /\ 2 .. musicians - (Len(coming) - 1) = Arrived \cup {Head(coming)}
<1>1. PICK q \in Seq(2 .. To) : q = coming  BY DEF RunInv, RunTyped
<1>2. PICK n \in Nat : n = Len(q) /\ DOMAIN q = 1 .. n /\ n # 0  BY <1>1
<1>3. PICK w \in Nat : w = musicians /\ w \in From .. To
  <2>1. musicians \in From .. To  BY DEF RunInv, RunTyped
  <2>2. QED  BY <2>1, RunBounds
<1>4. (\A i \in 1 .. n : q[i] = w - n + i) /\ n =< w - 1
  BY <1>1, <1>2, <1>3 DEF RunInv, PlanInv, InOrder
<1>5. Head(q) = q[1] /\ q[1] \in 2 .. To /\ q[1] = w - n + 1
  <2>1. 1 \in 1 .. n /\ Head(q) = q[1]  BY <1>1, <1>2
  <2>2. q[1] \in 2 .. To  BY <1>1, <1>2, <2>1, SeqAt
  <2>3. q[1] = w - n + 1  BY <1>4, <2>1
  <2>4. QED  BY <2>1, <2>2, <2>3
<1>6. /\ Tail(q) \in Seq(2 .. To) /\ Len(Tail(q)) = n - 1 /\ DOMAIN Tail(q) = 1 .. n - 1
      /\ \A i \in 1 .. n - 1 : Tail(q)[i] = q[i + 1]
  BY <1>1, <1>2
<1>7. \A i \in 1 .. n - 1 : Tail(q)[i] = w - (n - 1) + i
  <2> SUFFICES ASSUME NEW i \in 1 .. n - 1  PROVE Tail(q)[i] = w - (n - 1) + i
    OBVIOUS
  <2>1. i + 1 \in 1 .. n /\ w - n + (i + 1) = w - (n - 1) + i  BY <1>2, <1>3
  <2>2. QED  BY <1>4, <1>6, <2>1
<1>8. 2 .. w - (n - 1) = 2 .. w - n \cup {w - n + 1} /\ w - n + 1 \notin 2 .. w - n
  BY <1>2, <1>3, <1>4
<1>9. Arrived = 2 .. w - n  BY <1>1, <1>2, <1>3 DEF Arrived
<1>10. QED  BY <1>1, <1>2, <1>3, <1>4, <1>5, <1>6, <1>7, <1>8, <1>9

LEMMA KeepsArrive == ASSUME RunInv, Arrive  PROVE RunInv'
<1>1. PICK m : m = Head(coming)  OBVIOUS
<1>2. /\ pc = "arrive" /\ coming # <<>> /\ pc' = "open" /\ coming' = Tail(coming)
      /\ adding' = [Nobody EXCEPT !.m = m]
      /\ moves' = IF m \in Absent THEN moves \cup {<<m, "leaves">>, <<m, "returns">>} ELSE moves
      /\ UNCHANGED <<sent, pending, awaited, got, errors, musicians, out, producers, links, downs, secs, interrupted,
                     end, plugin_loaded, plugin_line, lists, engine, reports, struck>>
  BY <1>1 DEF Arrive, linkVars, endVars
<1>3. /\ Len(coming) \in 1 .. musicians - 1 /\ m \in 2 .. To /\ m \notin Arrived
      /\ coming' \in Seq(2 .. To) /\ Len(coming') = Len(coming) - 1 /\ DOMAIN coming' = 1 .. Len(coming) - 1
      /\ \A i \in 1 .. Len(coming) - 1 : coming'[i] = musicians - (Len(coming) - 1) + i
      /\ 2 .. musicians - (Len(coming) - 1) = Arrived \cup {m}
  BY <1>1, <1>2, ComingIs
<1>4. adding' = [m |-> m, rejoin |-> 0, voice |-> FALSE]
  BY <1>2 DEF Nobody
<1>5. Arrived' = Arrived \cup {m}  BY <1>2, <1>3 DEF Arrived
<1>6. pc \in Campaigning /\ pc \notin Over /\ pc' \in Campaigning /\ pc \notin Preparing /\ pc' \notin Preparing
  BY <1>2 DEF Campaigning, Over, Preparing
<1>7. ~sent /\ awaited = {} /\ got = {} /\ adding = Nobody /\ out = {} /\ secs = 0
  <2>1. ~sent  BY <1>2 DEF RunInv, Waits, Preparing
  <2>2. awaited = {} /\ got = {}  BY <2>1, NobodyWaits DEF RunInv
  <2>3. QED  BY <1>2, <2>1, <2>2 DEF RunInv, PlanInv, OnTheWay, InOrder
<1>8. Linked' /\ Unread' = Unread /\ Leaving' = Leaving  BY <1>2, <1>6, <1>7, LinkAlone
<1>9. RunTyped'
  <2>1. adding' \in [m : {0} \cup 2 .. To, rejoin : {0, 1}, voice : BOOLEAN]  BY <1>3, <1>4
  <2>2. moves' \subseteq Absent \X {"leaves", "returns"}  BY <1>2 DEF RunInv, RunTyped
  <2>3. QED  BY <1>2, <1>3, <2>1, <2>2 DEF RunInv, RunTyped, Campaigning
<1>10. StruckInv'  BY <1>2, <1>6 DEF RunInv, StruckInv, ReadingToCome, Refused
<1>11. \A x \in moves : x[1] \in Arrived  BY DEF RunInv, PlanInv, Moves
<1>12. <<m, "leaves">> \notin moves /\ <<m, "returns">> \notin moves  BY <1>3, <1>11
<1>13. InOrder'
  <2>1. coming = <<>> \/ secs = 0  BY <1>7
  <2>2. musicians \in Nat /\ Len(coming) \in Nat
    BY <1>3, RunBounds DEF RunInv, RunTyped
  <2>3. Len(coming') =< musicians' - 1  BY <1>2, <1>3, <2>2
  <2>4. \A i \in DOMAIN coming' : coming'[i] = musicians' - Len(coming') + i  BY <1>2, <1>3
  <2>5. ~(secs' > 0 \/ pc' = "sampling") /\ pc' # "arrive"  BY <1>2, <1>7
  <2>6. QED  BY <2>3, <2>4, <2>5, Zenon DEF InOrder
<1>14. Moves'
  <2>1. \A x \in moves' : x[1] \in Arrived'  BY <1>2, <1>5, <1>11
  <2>2. \A r \in Absent : <<r, "leaves">> \in moves' => <<r, "returns">> \in moves'
    BY <1>2 DEF RunInv, PlanInv, Moves
  <2>3. QED  BY <2>1, <2>2 DEF Moves
<1>15. Scheduled(m)' = Channels(m, 0)
  <2>1. <<m, "returns">> \in moves' <=> m \in Absent  BY <1>2, <1>12
  <2>2. <<m, "returns">> \in moves' => <<m, "leaves">> \in moves'  BY <1>2, <1>12
  <2>3. QED  BY <2>1, <2>2 DEF Scheduled, Pid, Channels
<1>16. \A r \in Arrived : Scheduled(r)' = Scheduled(r)
  <2> SUFFICES ASSUME NEW r \in Arrived  PROVE Scheduled(r)' = Scheduled(r)
    OBVIOUS
  <2>1. r # m  BY <1>3
  <2>2. \A x : <<r, x>> \in moves' <=> <<r, x>> \in moves  BY <1>2, <2>1
  <2>3. QED  BY <2>2 DEF Scheduled
<1>17. OnTheWay'
  <2>1. adding'.m = m /\ adding'.rejoin = 0 /\ adding'.voice = FALSE  BY <1>4
  <2>2. \A r \in Arrived' : r = adding'.m => Scheduled(r)' = Channels(r, adding'.rejoin)
    BY <1>15, <2>1
  <2>3. pc' \notin Preparing \cup {"arrive", "sampling"} /\ adding'.m \in Arrived'  BY <1>2, <1>5, <1>6, <2>1
  <2>4. out' = IF adding'.voice THEN {<<"stream", adding'.m, adding'.rejoin, FALSE>>} ELSE {}
    BY <1>2, <1>7, <2>1
  <2>5. adding'.voice => adding'.m \in Voiced  BY <2>1
  <2>6. QED  BY <2>2, <2>3, <2>4, <2>5, Zenon DEF OnTheWay
<1>18. Expected' = Expected
  <2>1. Arrived' \ {adding'.m} = Arrived /\ Arrived \ {adding.m} = Arrived
    BY <1>3, <1>4, <1>5, <1>7 DEF Nobody, Arrived
  <2>2. Expected' = UNION {Scheduled(r)' : r \in Arrived}  BY <2>1 DEF Expected
  <2>3. Expected = UNION {Scheduled(r) : r \in Arrived}  BY <2>1 DEF Expected
  <2>4. QED  BY <1>16, <2>2, <2>3
<1>19. Together'  BY <1>2, <1>6, <1>7, <1>18 DEF RunInv, PlanInv, Together
<1>20. Beginning'  BY <1>6 DEF Beginning
<1>21. EngineInv'
  <2>1. \A r \in Arrived : <<r, "leaves">> \in moves' => <<r, "leaves">> \in moves  BY <1>2, <1>3
  <2>2. QED  BY <1>2, <1>5, <1>6, <1>8, <2>1, EngineKept
<1>22. EndInv'  BY <1>2, <1>6, <1>8 DEF RunInv, EndInv
<1>23. QED  BY <1>8, <1>9, <1>10, <1>13, <1>14, <1>17, <1>19, <1>20, <1>21, <1>22 DEF RunInv, Linked, PlanInv

LEMMA ArrivedIn == ASSUME RunInv  PROVE Arrived \subseteq 2 .. To
<1>1. PICK n \in Nat : n = Len(coming)
  <2>1. \A q \in Seq(2 .. To) : Len(q) \in Nat  OBVIOUS
  <2>2. QED  BY <2>1 DEF RunInv, RunTyped
<1>2. PICK w \in From .. To : w = musicians  BY DEF RunInv, RunTyped
<1>3. \A i : i \in 2 .. w - n => i \in 2 .. To  BY <1>1, <1>2, RunBounds
<1>4. QED  BY <1>1, <1>2, <1>3 DEF Arrived
LEMMA NobodyAsks ==
  ASSUME RunInv, pc \in {"arrive", "sampling"}
  PROVE  /\ ~sent /\ awaited = {} /\ got = {} /\ adding = Nobody /\ out = {} /\ pending = {} /\ ~Refused
         /\ pc \in Campaigning /\ pc \notin Over /\ pc \notin Preparing
<1>1. ~sent  BY DEF RunInv, Waits, Preparing
<1>2. pc \in Campaigning /\ pc \notin Over /\ pc \notin Preparing  BY DEF Campaigning, Over, Preparing
<1>3. QED  BY <1>1, <1>2, NobodyWaits DEF RunInv, PlanInv, OnTheWay

LEMMA KeepsSample1 == ASSUME RunInv, Sample1  PROVE RunInv'
<1>1. /\ pc = "arrive" /\ coming = <<>> /\ pc' = "sampling" /\ secs' = StepSecs
      /\ UNCHANGED <<sent, pending, awaited, got, errors, musicians, coming, adding, out, producers, links, downs,
                     moves, interrupted, end, plugin_loaded, plugin_line, lists, engine, reports, struck>>
  BY DEF Sample1, linkVars, endVars
<1>2. ~sent /\ adding = Nobody /\ out = {} /\ pc \in Campaigning /\ pc \notin Over /\ pc \notin Preparing
  BY <1>1, NobodyAsks
<1>3. pc' \in Campaigning /\ pc' \notin Over /\ pc' \notin Preparing  BY <1>1 DEF Campaigning, Over, Preparing
<1>4. Linked' /\ Unread' = Unread /\ Leaving' = Leaving  BY <1>1, <1>2, <1>3, LinkAlone
<1>5. StepSecs \in Nat \ {0}  BY RunBounds
<1>6. RunTyped'  BY <1>1, <1>3, <1>5 DEF RunInv, RunTyped
<1>7. StruckInv'  BY <1>1, <1>2, <1>5 DEF RunInv, StruckInv, ReadingToCome, Refused
<1>8. Arrived' = Arrived  BY <1>1 DEF Arrived
<1>9. \A m : Scheduled(m)' = Scheduled(m)  BY <1>1 DEF Scheduled
<1>10. Expected' = Expected  BY <1>1, <1>8, <1>9 DEF Expected
<1>11. Together' /\ Beginning' /\ OnTheWay'
  BY <1>1, <1>2, <1>3, <1>10 DEF RunInv, PlanInv, Together, Beginning, OnTheWay
<1>12. InOrder' /\ Moves'  BY <1>1, <1>8 DEF RunInv, PlanInv, InOrder, Moves
<1>13. EngineInv'  BY <1>1, <1>2, <1>3, <1>4, <1>8, EngineKept
<1>14. EndInv'  BY <1>1, <1>3, <1>4 DEF RunInv, EndInv
<1>15. QED  BY <1>4, <1>6, <1>7, <1>11, <1>12, <1>13, <1>14 DEF RunInv, Linked, PlanInv

LEMMA BeingAdded ==
  ASSUME RunInv, pc = "open"
  PROVE  /\ Pid(adding) \in Pids /\ Pid(adding) \in Commands /\ Asks(Pid(adding))
         /\ Pid(adding) = <<"stream", adding.m, adding.rejoin, adding.voice>>
         /\ adding.m \in Arrived /\ adding.m \in 2 .. To /\ adding.rejoin \in {0, 1} /\ adding.voice \in BOOLEAN
         /\ pc \in Campaigning /\ pc \notin Over /\ pc \notin Preparing
<1>1. adding.m \in Arrived  BY DEF RunInv, PlanInv, OnTheWay
<1>2. adding.m \in 2 .. To  BY <1>1, ArrivedIn
<1>3. adding.rejoin \in {0, 1} /\ adding.voice \in BOOLEAN  BY DEF RunInv, RunTyped
<1>4. Pid(adding) = <<"stream", adding.m, adding.rejoin, adding.voice>>  BY DEF Pid
<1>5. Pid(adding) \in Pids  BY <1>2, <1>3, <1>4, PidOf
<1>6. Pid(adding) \in Commands  BY <1>5 DEF Commands
<1>7. Asks(Pid(adding))  BY <1>4 DEF Asks
<1>8. pc \in Campaigning /\ pc \notin Over /\ pc \notin Preparing  BY DEF Campaigning, Over, Preparing
<1>9. QED  BY <1>1, <1>2, <1>3, <1>4, <1>5, <1>6, <1>7, <1>8

LEMMA KeepsOpenDownlink == ASSUME RunInv, OpenDownlink  PROVE RunInv'
<1>1. PICK d : d = Pid(adding)  OBVIOUS
<1>2. /\ pc = "open" /\ ~sent /\ pc' = pc /\ downs' = downs \cup {d} /\ Ask(d, {d})
      /\ UNCHANGED <<errors, musicians, coming, adding, out, producers, links, moves, secs, interrupted, end,
                     plugin_loaded, plugin_line, lists, reports, struck>>
  BY <1>1 DEF OpenDownlink, endVars
<1>3. /\ d \in Pids /\ d \in Commands /\ Asks(d) /\ pc \in Campaigning /\ pc \notin Over /\ pc \notin Preparing
      /\ d = <<"stream", adding.m, adding.rejoin, adding.voice>>
  BY <1>1, <1>2, BeingAdded
<1>4. <<"unload">> # d /\ <<"stop">> # d /\ <<"load">> # d  BY <1>3
<1>5. /\ Linked' /\ sent' /\ got = {} /\ got' = {} /\ Leaving' = Leaving
      /\ engine'.linked = engine.linked /\ engine'.streams = engine.streams
      /\ engine'.plugin = engine.plugin /\ Unread' \subseteq Unread \cup {d}
  BY <1>1, <1>2, <1>3, <1>4, LinkAsks
<1>6. RunTyped'  BY <1>2, <1>5 DEF RunInv, RunTyped, Ask
<1>7. StruckInv'
  <2>1. ~Refused /\ ~Refused'  BY <1>5 DEF Refused
  <2>2. QED  BY <1>2, <2>1 DEF RunInv, StruckInv, ReadingToCome
<1>8. Arrived' = Arrived  BY <1>2 DEF Arrived
<1>9. \A m : Scheduled(m)' = Scheduled(m)  BY <1>2 DEF Scheduled
<1>10. Expected' = Expected  BY <1>2, <1>8, <1>9 DEF Expected
<1>11. Pid(adding)' = d  BY <1>2, <1>3 DEF Pid
<1>12. downs' = producers' \cup out' \cup (IF sent' THEN {Pid(adding)'} ELSE {})
  BY <1>2, <1>3, <1>5, <1>11 DEF RunInv, PlanInv, Together
<1>13. Together'  BY <1>2, <1>3, <1>10, <1>12 DEF RunInv, PlanInv, Together
<1>14. Beginning' /\ OnTheWay'  BY <1>2, <1>3, <1>8, <1>9 DEF RunInv, PlanInv, Beginning, OnTheWay
<1>15. InOrder' /\ Moves'  BY <1>2, <1>8 DEF RunInv, PlanInv, InOrder, Moves
<1>16. EngineInv'
  <2>1. \A y \in {"stop", "unload"} : <<y>> \in Unread' => <<y>> \in Unread  BY <1>4, <1>5
  <2>2. QED  BY <1>2, <1>3, <1>5, <1>8, <2>1, EngineKept
<1>17. EndInv'
  <2>1. <<"load">> \in Unread' => <<"load">> \in Unread  BY <1>4, <1>5
  <2>2. QED  BY <1>2, <1>3, <1>5, <2>1 DEF RunInv, EndInv
<1>18. QED  BY <1>5, <1>6, <1>7, <1>13, <1>14, <1>15, <1>16, <1>17 DEF RunInv, Linked, PlanInv

LEMMA KeepsAddFails == ASSUME RunInv, AddFails  PROVE RunInv'
<1>1. /\ pc = "open" /\ Forget /\ end' = "bench" /\ pc' = "clean" /\ adding' = Nobody /\ out' = {}
      /\ engine' = engine
      /\ UNCHANGED <<errors, musicians, coming, producers, links, downs, moves, secs, interrupted,
                     plugin_loaded, plugin_line, lists, engine, reports, struck>>
  BY DEF AddFails, CampaignFails
<1>2. pc' \in Over \ {"ended", "done"} /\ pc \notin Over /\ pc' # "sampling" /\ pc' \notin Preparing
  BY <1>1 DEF Over, Preparing
<1>3. Linked' /\ Unread' = Unread /\ Leaving' = Leaving /\ got' = {} /\ ~sent'  BY <1>1, <1>2, LinkForgets
<1>4. adding' \in [m : {0} \cup 2 .. To, rejoin : {0, 1}, voice : BOOLEAN]  BY <1>1 DEF Nobody
<1>5. RunTyped'  BY <1>1, <1>2, <1>4 DEF RunInv, RunTyped, Forget
<1>6. StruckInv'  BY <1>1, <1>2 DEF RunInv, StruckInv, ReadingToCome
<1>7. PlanInv'  BY <1>1, <1>2, PlanOver
<1>8. EngineInv'  BY <1>1, <1>2, <1>3, EngineOver
<1>9. EndInv'  BY <1>1, <1>2, <1>3 DEF RunInv, EndInv
<1>10. QED  BY <1>3, <1>5, <1>6, <1>7, <1>8, <1>9 DEF RunInv, Linked

LEMMA ChannelsAre ==
  ASSUME NEW m \in 2 .. To, NEW r \in {0, 1}
  PROVE  /\ m \in Voiced => Channels(m, r) = {<<"stream", m, r, FALSE>>, <<"stream", m, r, TRUE>>}
         /\ m \notin Voiced => Channels(m, r) = {<<"stream", m, r, FALSE>>}
         /\ Channels(m, r) \subseteq Pids
         /\ \A p \in Channels(m, r) : p[2] = m /\ p[3] = r
         /\ Channels(m, r) # {}
<1>1. m \in Voiced => Voices(m) = {FALSE, TRUE}  BY DEF Voices
<1>2. m \notin Voiced => Voices(m) = {FALSE}  BY DEF Voices
<1>3. m \in Voiced => Channels(m, r) = {<<"stream", m, r, FALSE>>, <<"stream", m, r, TRUE>>}
  BY <1>1 DEF Channels
<1>4. m \notin Voiced => Channels(m, r) = {<<"stream", m, r, FALSE>>}
  BY <1>2 DEF Channels
<1>5. <<"stream", m, r, FALSE>> \in Pids /\ <<"stream", m, r, TRUE>> \in Pids
  <2>1. FALSE \in BOOLEAN /\ TRUE \in BOOLEAN  OBVIOUS
  <2>2. QED  BY <2>1, PidOf
<1>6. \A v : <<"stream", m, r, v>>[2] = m /\ <<"stream", m, r, v>>[3] = r  OBVIOUS
<1>7. QED  BY <1>3, <1>4, <1>5, <1>6

LEMMA StartsFacts ==
  ASSUME RunInv, pc = "open", sent, Heard(awaited)
  PROVE  /\ \A p \in Pids : <<p, TRUE>> \in got <=> p = Pid(adding)
         /\ downs = producers \cup out \cup {Pid(adding)} /\ producers = Expected /\ links = Expected
         /\ out = IF adding.voice THEN {<<"stream", adding.m, adding.rejoin, FALSE>>} ELSE {}
<1>1. awaited = {Pid(adding)}  BY DEF RunInv, Waits
<1>2. got \subseteq {Pid(adding)} \X BOOLEAN /\ <<Pid(adding), TRUE>> \in got  BY <1>1 DEF RunInv, Answers, Heard
<1>3. \A p \in Pids : <<p, TRUE>> \in got <=> p = Pid(adding)  BY <1>2
<1>4. QED  BY <1>3 DEF RunInv, PlanInv, Together, OnTheWay, Campaigning

LEMMA KeepsStartDownlink == ASSUME RunInv, StartDownlink  PROVE RunInv'
<1>1. PICK d : d = Pid(adding)  OBVIOUS
<1>2. PICK m, r, v : m = adding.m /\ r = adding.rejoin /\ v = adding.voice  OBVIOUS
<1>3. /\ pc = "open" /\ sent /\ Heard(awaited) /\ Forget /\ engine' = engine
      /\ UNCHANGED <<errors, musicians, coming, downs, moves, secs, interrupted, end, plugin_loaded, plugin_line, lists,
                     engine, reports, struck>>
      /\ IF ~v /\ m \in Voiced
         THEN adding' = [adding EXCEPT !.voice = TRUE] /\ out' = out \cup {d} /\ UNCHANGED <<pc, producers, links>>
         ELSE /\ producers' = producers \cup (out \cup {d}) /\ links' = links \cup (out \cup {d})
              /\ adding' = Nobody /\ out' = {} /\ pc' = IF secs = 0 THEN "arrive" ELSE "sampling"
  BY <1>1, <1>2 DEF StartDownlink, endVars
<1>4. /\ d \in Pids /\ d = <<"stream", m, r, v>> /\ m \in Arrived /\ m \in 2 .. To /\ r \in {0, 1} /\ v \in BOOLEAN
      /\ pc \in Campaigning /\ pc \notin Over /\ pc \notin Preparing
  BY <1>1, <1>2, <1>3, BeingAdded
<1>5. /\ \A p \in Pids : <<p, TRUE>> \in got <=> p = d
      /\ downs = producers \cup out \cup {d} /\ producers = Expected /\ links = Expected
      /\ out = IF v THEN {<<"stream", m, r, FALSE>>} ELSE {}
  BY <1>1, <1>2, <1>3, StartsFacts
<1>6. /\ pc' \in Campaigning /\ pc' \notin Over /\ pc' \notin Preparing /\ pc' # "unload"
      /\ pc' = "sampling" => secs # 0
  BY <1>3, <1>4 DEF Campaigning, Over, Preparing
<1>7. Linked' /\ Unread' = Unread /\ Leaving' = Leaving /\ got' = {} /\ ~sent'
  BY <1>3, <1>4, <1>6, LinkForgets
<1>8. StruckInv'
  <2>1. ~Refused  BY <1>3, AllHeard DEF RunInv
  <2>2. ReadingToCome  BY <1>3, <1>4 DEF ReadingToCome
  <2>3. QED  BY <1>3, <1>4, <1>6, <2>1, <2>2 DEF RunInv, StruckInv
<1>9. Arrived' = Arrived /\ \A x : Scheduled(x)' = Scheduled(x)  BY <1>3 DEF Arrived, Scheduled
<1>10. secs \in Nat  BY DEF RunInv, RunTyped
<1>11. InOrder' /\ Moves'
  <2>1. pc' = "sampling" => coming = <<>>  BY <1>6, <1>10 DEF RunInv, PlanInv, InOrder
  <2>2. pc' = "arrive" => secs = 0  BY <1>3, <1>10
  <2>3. InOrder'  BY <1>3, <2>1, <2>2 DEF RunInv, PlanInv, InOrder
  <2>4. QED  BY <1>3, <1>9, <2>3 DEF RunInv, PlanInv, Moves
<1>12. Beginning'  BY <1>6 DEF Beginning
<1>13. EndInv'  BY <1>3, <1>6, <1>7 DEF RunInv, EndInv, Campaigning
<1>14. EngineInv'
  <2>1. \A p \in Pids : p \in producers' \cup out' \/ <<p, TRUE>> \in got'
                           <=> p \in producers \cup out \/ <<p, TRUE>> \in got
    <3>1. producers' \cup out' = producers \cup out \cup {d}
      <4>1. CASE ~v /\ m \in Voiced  BY <1>3, <4>1
      <4>2. CASE ~(~v /\ m \in Voiced)  BY <1>3, <4>2
      <4>3. QED  BY <4>1, <4>2
    <3>2. QED  BY <1>4, <1>5, <1>7, <3>1
  <2>2. QED  BY <1>3, <1>4, <1>6, <1>7, <1>9, <2>1, EngineKept
<1>15. sent' = FALSE  BY <1>3 DEF Forget
<1>16. CASE ~v /\ m \in Voiced
  <2>1. /\ adding' = [adding EXCEPT !.voice = TRUE] /\ out' = out \cup {d} /\ pc' = "open"
        /\ UNCHANGED <<producers, links>>
    BY <1>3, <1>16
  <2>2. /\ adding' \in [m : {0} \cup 2 .. To, rejoin : {0, 1}, voice : BOOLEAN]
        /\ adding'.m = m /\ adding'.rejoin = r /\ adding'.voice = TRUE
    BY <1>2, <2>1 DEF RunInv, RunTyped
  <2>3. RunTyped'
    <3>1. out' \subseteq Pids  BY <1>4, <2>1 DEF RunInv, RunTyped
    <3>2. QED  BY <1>3, <1>15, <2>1, <2>2, <3>1 DEF RunInv, RunTyped, Campaigning
  <2>4. out' = {<<"stream", m, r, FALSE>>}
    <3>1. v = FALSE  BY <1>4, <1>16
    <3>2. QED  BY <1>4, <1>5, <2>1, <3>1
  <2>5. OnTheWay'
    <3>1. \A x \in Arrived' : x = adding'.m => Scheduled(x)' = Channels(x, adding'.rejoin)
      BY <1>2, <1>3, <1>9, <2>2 DEF RunInv, PlanInv, OnTheWay
    <3>2. pc' \notin Preparing \cup {"arrive", "sampling"}  BY <1>6, <2>1
    <3>3. adding'.m \in Arrived' /\ (adding'.voice => adding'.m \in Voiced)  BY <1>4, <1>9, <1>16, <2>2
    <3>4. out' = IF adding'.voice THEN {<<"stream", adding'.m, adding'.rejoin, FALSE>>} ELSE {}
      BY <2>2, <2>4
    <3>5. QED  BY <3>1, <3>2, <3>3, <3>4, Zenon DEF OnTheWay
  <2>6. Expected' = Expected  BY <1>2, <1>9, <2>2 DEF Expected
  <2>7. Together'
    <3>1. downs' = producers' \cup out' \cup (IF sent' THEN {Pid(adding)'} ELSE {})
      BY <1>3, <1>5, <1>15, <2>1
    <3>2. QED  BY <1>5, <2>1, <2>6, <3>1 DEF Together
  <2>8. QED  BY <1>7, <1>8, <1>11, <1>12, <1>13, <1>14, <2>3, <2>5, <2>7 DEF RunInv, Linked, PlanInv
<1>17. CASE ~(~v /\ m \in Voiced)
  <2>1. /\ producers' = producers \cup (out \cup {d}) /\ links' = links \cup (out \cup {d})
        /\ adding' = Nobody /\ out' = {} /\ pc' = IF secs = 0 THEN "arrive" ELSE "sampling"
    BY <1>3, <1>17
  <2>2. adding' \in [m : {0} \cup 2 .. To, rejoin : {0, 1}, voice : BOOLEAN] /\ adding'.m = 0
    BY <2>1 DEF Nobody
  <2>3. RunTyped'
    <3>1. producers' \subseteq Pids /\ out' \subseteq Pids  BY <1>4, <2>1 DEF RunInv, RunTyped
    <3>2. QED  BY <1>3, <1>6, <1>15, <2>2, <3>1 DEF RunInv, RunTyped
  <2>4. out \cup {d} = Channels(m, r)
    <3>1. v => m \in Voiced  BY <1>2, <1>3 DEF RunInv, PlanInv, OnTheWay
    <3>2. CASE v = TRUE
      <4>1. Channels(m, r) = {<<"stream", m, r, FALSE>>, <<"stream", m, r, TRUE>>}  BY <1>4, <3>1, <3>2, ChannelsAre
      <4>2. d = <<"stream", m, r, TRUE>>  BY <1>4, <3>2
      <4>3. out = {<<"stream", m, r, FALSE>>}  BY <1>5, <3>2
      <4>4. QED  BY <4>1, <4>2, <4>3
    <3>3. CASE v = FALSE
      <4>1. m \notin Voiced /\ out = {}  BY <1>5, <1>17, <3>3
      <4>2. Channels(m, r) = {<<"stream", m, r, FALSE>>}  BY <1>4, <4>1, ChannelsAre
      <4>3. d = <<"stream", m, r, FALSE>>  BY <1>4, <3>3
      <4>4. QED  BY <4>1, <4>2, <4>3
    <3>4. QED  BY <1>4, <3>2, <3>3
  <2>5. Scheduled(m) = Channels(m, r)  BY <1>2, <1>3, <1>4 DEF RunInv, PlanInv, OnTheWay
  <2>6. Expected' = Expected \cup Scheduled(m)
    <3>1. 0 \notin Arrived  BY ArrivedIn
    <3>2. Arrived' \ {adding'.m} = (Arrived \ {m}) \cup {m}  BY <1>4, <1>9, <2>2, <3>1
    <3>3. Expected' = UNION {Scheduled(x) : x \in (Arrived \ {m}) \cup {m}}  BY <1>9, <3>2 DEF Expected
    <3>4. Expected = UNION {Scheduled(x) : x \in Arrived \ {m}}  BY <1>2 DEF Expected
    <3>5. ASSUME NEW y
          PROVE  y \in Expected' <=> y \in Expected \/ y \in Scheduled(m)
      <4>1. y \in Expected' <=> \E x \in (Arrived \ {m}) \cup {m} : y \in Scheduled(x)  BY <3>3
      <4>2. y \in Expected <=> \E x \in Arrived \ {m} : y \in Scheduled(x)  BY <3>4
      <4>3. QED  BY <4>1, <4>2
    <3>6. QED  BY <3>5
  <2>7. Together'
    <3>1. downs' = producers' \cup out' \cup (IF sent' THEN {Pid(adding)'} ELSE {})
      BY <1>3, <1>5, <1>15, <2>1
    <3>2. QED  BY <1>5, <2>1, <2>4, <2>5, <2>6, <3>1 DEF Together
  <2>8. OnTheWay'  BY <2>1 DEF OnTheWay
  <2>9. QED  BY <1>7, <1>8, <1>11, <1>12, <1>13, <1>14, <2>3, <2>7, <2>8 DEF RunInv, Linked, PlanInv
<1>18. QED  BY <1>16, <1>17

LEMMA ScheduledAre ==
  ASSUME NEW m \in 2 .. To
  PROVE  /\ \A p \in Scheduled(m) : p \in Pids /\ p[2] = m
         /\ <<m, "returns">> \in moves /\ <<m, "leaves">> \notin moves => Scheduled(m) = {}
         /\ <<m, "returns">> \in moves /\ <<m, "leaves">> \in moves => Scheduled(m) = Channels(m, 0)
         /\ m \in Absent /\ <<m, "returns">> \notin moves => Scheduled(m) = Channels(m, 1)
<1>1. <<m, "returns">> \in moves /\ <<m, "leaves">> \notin moves => Scheduled(m) = {}  BY DEF Scheduled
<1>2. <<m, "returns">> \in moves /\ <<m, "leaves">> \in moves => Scheduled(m) = Channels(m, 0)
  BY DEF Scheduled, Channels, Pid
<1>3. m \in Absent /\ <<m, "returns">> \notin moves => Scheduled(m) = Channels(m, 1)
  BY DEF Scheduled, Channels, Pid
<1>4. m \notin Absent /\ <<m, "returns">> \notin moves => Scheduled(m) = Channels(m, 0)
  BY DEF Scheduled, Channels, Pid
<1>5. \A r \in {0, 1} : \A p \in Channels(m, r) : p \in Pids /\ p[2] = m  BY ChannelsAre
<1>6. \A p \in Scheduled(m) : p \in Pids /\ p[2] = m  BY <1>1, <1>2, <1>3, <1>4, <1>5
<1>7. QED  BY <1>1, <1>2, <1>3, <1>6

LEMMA AtReading ==
  ASSUME RunInv, pc = "sampling"
  PROVE  /\ coming = <<>> /\ Arrived = 2 .. musicians /\ 0 \notin Arrived
         /\ producers = Expected /\ links = producers /\ downs = producers
         /\ \A p : p \in producers <=> \E m \in Arrived : p \in Scheduled(m)
         /\ musicians \in From .. To /\ secs \in Nat
<1>1. coming = <<>>  BY DEF RunInv, PlanInv, InOrder
<1>2. musicians \in From .. To /\ secs \in Nat  BY DEF RunInv, RunTyped
<1>3. Arrived = 2 .. musicians
  <2>1. Len(<<>>) = 0 /\ \A w \in Nat : w - 0 = w  OBVIOUS
  <2>2. musicians \in Nat  BY <1>2, RunBounds
  <2>3. QED  BY <1>1, <2>1, <2>2 DEF Arrived
<1>4. 0 \notin Arrived  BY ArrivedIn
<1>5. ~sent /\ adding = Nobody /\ out = {} /\ pc \in Campaigning  BY NobodyAsks
<1>6. producers = Expected /\ links = producers /\ downs = producers
  BY <1>5 DEF RunInv, PlanInv, Together
<1>7. adding.m = 0  BY <1>5 DEF Nobody
<1>8. Arrived \ {adding.m} = Arrived  BY <1>4, <1>7
<1>9. Expected = UNION {Scheduled(m) : m \in Arrived}  BY <1>8 DEF Expected
<1>10. \A p : p \in producers <=> \E m \in Arrived : p \in Scheduled(m)  BY <1>6, <1>9
<1>11. QED  BY <1>1, <1>2, <1>3, <1>4, <1>6, <1>10

LEMMA Departs ==
  ASSUME RunInv, pc = "sampling", NEW m, <<m, "leaves">> \in moves
  PROVE  /\ m \in Absent /\ m \in Arrived /\ m \in 2 .. To /\ <<m, "returns">> \in moves
         /\ StreamsOf(m) \in SUBSET Pids /\ StreamsOf(m) \subseteq producers
         /\ \A p \in StreamsOf(m) : p[2] = m /\ p[3] = 0
<1>1. m \in Absent  BY DEF RunInv, RunTyped
<1>2. m \in Arrived /\ <<m, "returns">> \in moves
  <2>1. <<m, "leaves">>[1] = m  OBVIOUS
  <2>2. QED  BY <1>1, <2>1 DEF RunInv, PlanInv, Moves
<1>3. m \in 2 .. To  BY <1>2, ArrivedIn
<1>4. StreamsOf(m) \in SUBSET Pids /\ StreamsOf(m) \subseteq producers  BY DEF RunInv, RunTyped, StreamsOf
<1>5. ASSUME NEW p \in StreamsOf(m)  PROVE p[2] = m /\ p[3] = 0
  <2>1. p \in producers /\ p[2] = m  BY <1>5 DEF StreamsOf
  <2>2. PICK x \in Arrived : p \in Scheduled(x)  BY <2>1, AtReading
  <2>3. x = m  BY <2>1, <2>2, ScheduledAre, ArrivedIn
  <2>4. Scheduled(m) = Channels(m, 0)  BY <1>2, <1>3, ScheduledAre
  <2>5. 0 \in {0, 1} /\ p \in Channels(m, 0)  BY <2>2, <2>3, <2>4
  <2>6. \A q \in Channels(m, 0) : q[2] = m /\ q[3] = 0  BY <1>3, <2>5, ChannelsAre
  <2>7. QED  BY <2>5, <2>6
<1>6. QED  BY <1>1, <1>2, <1>3, <1>4, <1>5

LEMMA KeepsLeave == ASSUME RunInv, NEW m \in 2 .. To, Leave(m)  PROVE RunInv'
<1>1. PICK ps : ps = StreamsOf(m)  OBVIOUS
<1>2. /\ pc = "sampling" /\ secs > 0 /\ <<m, "leaves">> \in moves /\ moves' = moves \ {<<m, "leaves">>}
      /\ engine' = Say(engine, Removals(ps))
      /\ producers' = producers \ ps /\ links' = links \ ps /\ downs' = downs \ ps
      /\ UNCHANGED <<pc, sent, pending, awaited, got, errors, musicians, coming, adding, out, secs, interrupted, end,
                     plugin_loaded, plugin_line, lists, reports, struck>>
  BY <1>1 DEF Leave, linkVars, endVars
<1>3. /\ m \in Absent /\ m \in Arrived /\ <<m, "returns">> \in moves /\ ps \in SUBSET Pids
      /\ \A p \in ps : p[2] = m /\ p[3] = 0
  BY <1>1, <1>2, Departs
<1>4. /\ EngineTyped' /\ ToCome' /\ engine'.linked = engine.linked /\ engine'.streams = engine.streams
      /\ engine'.plugin = engine.plugin
      /\ Leaving' = IF engine.linked THEN Leaving \cup ps ELSE Leaving
      /\ \A y : <<y>> \in Unread' => <<y>> \in Unread
  BY <1>2, <1>3, LinkRemoves
<1>5. Answers' /\ Waits'  BY <1>2, NobodyAsks DEF RunInv, Answers, Waits
<1>6. /\ coming = <<>> /\ 0 \notin Arrived /\ links = producers /\ downs = producers
      /\ \A p : p \in producers <=> \E x \in Arrived : p \in Scheduled(x)
  BY <1>2, AtReading
<1>7. /\ ~sent /\ got = {} /\ adding = Nobody /\ out = {} /\ pc \in Campaigning /\ pc \notin Over /\ pc \notin Preparing
  BY <1>2, NobodyAsks
<1>8. RunTyped'
  <2>1. producers' \subseteq Pids /\ moves' \subseteq Absent \X {"leaves", "returns"}  BY <1>2 DEF RunInv, RunTyped
  <2>2. QED  BY <1>2, <2>1 DEF RunInv, RunTyped
<1>9. StruckInv'  BY <1>2 DEF RunInv, StruckInv, ReadingToCome, Refused
<1>10. Arrived' = Arrived  BY <1>2 DEF Arrived
<1>11. Moves'
  <2>1. \A r \in Absent : <<r, "leaves">> \in moves' => <<r, "returns">> \in moves'
    BY <1>2 DEF RunInv, PlanInv, Moves
  <2>2. QED  BY <1>2, <1>10, <2>1 DEF RunInv, PlanInv, Moves
<1>12. InOrder'  BY <1>2 DEF RunInv, PlanInv, InOrder
<1>13. Beginning' /\ OnTheWay'  BY <1>2, <1>7 DEF Beginning, OnTheWay
<1>14. Expected' = producers'
  <2>1. Scheduled(m)' = {}  BY <1>2, <1>3 DEF Scheduled
  <2>2. \A x \in Arrived : x # m => Scheduled(x)' = Scheduled(x)
    <3> SUFFICES ASSUME NEW x \in Arrived, x # m  PROVE Scheduled(x)' = Scheduled(x)
      OBVIOUS
    <3>1. \A y : <<x, y>> \in moves' <=> <<x, y>> \in moves  BY <1>2
    <3>2. QED  BY <3>1 DEF Scheduled
  <2>3. Arrived' \ {adding'.m} = Arrived  BY <1>2, <1>6, <1>7, <1>10 DEF Nobody
  <2>4. Expected' = UNION {Scheduled(x)' : x \in Arrived}  BY <2>3 DEF Expected
  <2>5. ASSUME NEW p  PROVE p \in Expected' <=> p \in producers'
    <3>1. p \in Expected' <=> \E x \in Arrived : p \in Scheduled(x)'  BY <2>4
    <3>2. p \in Expected' <=> \E x \in Arrived : x # m /\ p \in Scheduled(x)  BY <2>1, <2>2, <3>1
    <3>3. \A x \in Arrived : p \in Scheduled(x) => p[2] = x  BY ScheduledAre, ArrivedIn
    <3>4. p \in producers' <=> p \in producers /\ ~(p[2] = m)  BY <1>1, <1>2 DEF StreamsOf
    <3>5. QED  BY <1>6, <3>2, <3>3, <3>4
  <2>6. QED  BY <2>5
<1>15. Together'
  <2>1. links' = producers' /\ downs' = producers' /\ out' = {} /\ ~sent'  BY <1>2, <1>6, <1>7
  <2>2. downs' = producers' \cup out' \cup (IF sent' THEN {Pid(adding)'} ELSE {})  BY <2>1
  <2>3. QED  BY <1>14, <2>1, <2>2 DEF Together
<1>16. EngineInv'
  <2>1. \A p \in Leaving' : p[2] \in Absent \cap Arrived' /\ p[3] = 0 /\ <<p[2], "leaves">> \notin moves'
    BY <1>2, <1>3, <1>4, <1>7, <1>10 DEF RunInv, EngineInv
  <2>2. engine'.linked => \A p \in Pids :
             p \in engine'.streams \ Leaving' <=> p \in producers' \cup out' \/ <<p, TRUE>> \in got'
    <3> SUFFICES ASSUME engine.linked, NEW p \in Pids
                 PROVE  p \in engine'.streams \ Leaving' <=> p \in producers' \cup out' \/ <<p, TRUE>> \in got'
      BY <1>4
    <3>1. p \in engine.streams \ Leaving <=> p \in producers  BY <1>7 DEF RunInv, EngineInv
    <3>2. out' = {} /\ got' = {} /\ Leaving' = Leaving \cup ps  BY <1>2, <1>4, <1>7
    <3>3. QED  BY <1>2, <1>4, <3>1, <3>2
  <2>3. <<"stop">> \notin Unread' /\ <<"unload">> \notin Unread'  BY <1>2, <1>4 DEF RunInv, EngineInv
  <2>4. QED  BY <1>2, <1>7, <2>1, <2>2, <2>3 DEF EngineInv
<1>17. EndInv'  BY <1>2, <1>4, <1>7 DEF RunInv, EndInv
<1>18. QED
  BY <1>4, <1>5, <1>8, <1>9, <1>11, <1>12, <1>13, <1>15, <1>16, <1>17 DEF RunInv, PlanInv

LEMMA KeepsLeaveFails == ASSUME RunInv, NEW m \in 2 .. To, LeaveFails(m)  PROVE RunInv'
<1>1. /\ pc = "sampling" /\ <<m, "leaves">> \in moves /\ moves' = moves \ {<<m, "leaves">>}
      /\ end' = "bench" /\ pc' = "clean" /\ adding' = Nobody /\ out' = {}
      /\ UNCHANGED <<sent, pending, awaited, got, errors, musicians, coming, producers, links, downs, secs,
                     interrupted, plugin_loaded, plugin_line, lists, reports, struck>>
  BY DEF LeaveFails, CampaignFails, linkVars
<1>2. PICK p \in StreamsOf(m) : engine' = Say(engine, Removals({p}))  BY DEF LeaveFails
<1>3. {p} \in SUBSET Pids  BY <1>1, <1>2, Departs
<1>4. /\ EngineTyped' /\ ToCome' /\ engine'.plugin = engine.plugin
      /\ \A y : <<y>> \in Unread' => <<y>> \in Unread
  BY <1>1, <1>2, <1>3, LinkRemoves
<1>5. /\ pc' \in Over \ {"ended", "done"} /\ pc \notin Over /\ pc' # "sampling" /\ pc' # "unload"
      /\ pc' \notin Preparing /\ ~sent /\ got = {} /\ awaited = {}
  BY <1>1, NobodyAsks DEF Over, Preparing
<1>6. Answers' /\ Waits'  BY <1>1, <1>5 DEF RunInv, Answers, Waits
<1>7. adding' \in [m : {0} \cup 2 .. To, rejoin : {0, 1}, voice : BOOLEAN]  BY <1>1 DEF Nobody
<1>8. RunTyped'
  <2>1. moves' \subseteq Absent \X {"leaves", "returns"} /\ out' \subseteq Pids  BY <1>1 DEF RunInv, RunTyped
  <2>2. QED  BY <1>1, <1>5, <1>7, <2>1 DEF RunInv, RunTyped
<1>9. StruckInv'  BY <1>1, <1>5 DEF RunInv, StruckInv, ReadingToCome
<1>10. PlanInv'
  <2>1. \A r \in Absent : <<r, "returns">> \in moves => <<r, "returns">> \in moves'  BY <1>1
  <2>2. QED  BY <1>1, <1>5, <2>1, PlanOver
<1>11. EngineInv'  BY <1>1, <1>4, <1>5, EngineOver
<1>12. EndInv'  BY <1>1, <1>4, <1>5 DEF RunInv, EndInv
<1>13. QED  BY <1>4, <1>6, <1>8, <1>9, <1>10, <1>11, <1>12 DEF RunInv

LEMMA KeepsReturn == ASSUME RunInv, NEW m \in 2 .. To, Return(m)  PROVE RunInv'
<1>1. /\ pc = "sampling" /\ secs > 0 /\ <<m, "returns">> \in moves /\ <<m, "leaves">> \notin moves
      /\ moves' = moves \ {<<m, "returns">>} /\ adding' = [m |-> m, rejoin |-> 1, voice |-> FALSE] /\ pc' = "open"
      /\ UNCHANGED <<sent, pending, awaited, got, errors, musicians, coming, out, producers, links, downs, secs,
                     interrupted, end, plugin_loaded, plugin_line, lists, engine, reports, struck>>
  BY DEF Return, linkVars, endVars
<1>2. m \in Absent /\ m \in Arrived
  <2>1. <<m, "returns">>[1] = m  OBVIOUS
  <2>2. QED  BY <1>1, <2>1 DEF RunInv, RunTyped, PlanInv, Moves
<1>3. /\ ~sent /\ got = {} /\ adding = Nobody /\ out = {} /\ pc \in Campaigning /\ pc \notin Over /\ pc \notin Preparing
      /\ ~Refused
  BY <1>1, NobodyAsks
<1>4. /\ coming = <<>> /\ 0 \notin Arrived /\ links = producers /\ downs = producers
      /\ \A p : p \in producers <=> \E x \in Arrived : p \in Scheduled(x)
  BY <1>1, AtReading
<1>5. pc' \in Campaigning /\ pc' \notin Over /\ pc' \notin Preparing  BY <1>1 DEF Campaigning, Over, Preparing
<1>6. Linked' /\ Unread' = Unread /\ Leaving' = Leaving  BY <1>1, <1>3, <1>5, LinkAlone
<1>7. RunTyped'
  <2>1. adding' \in [m : {0} \cup 2 .. To, rejoin : {0, 1}, voice : BOOLEAN]  BY <1>1
  <2>2. moves' \subseteq Absent \X {"leaves", "returns"}  BY <1>1 DEF RunInv, RunTyped
  <2>3. QED  BY <1>1, <1>5, <2>1, <2>2 DEF RunInv, RunTyped
<1>8. StruckInv'  BY <1>1, <1>3, <1>5 DEF RunInv, StruckInv, ReadingToCome, Refused
<1>9. Arrived' = Arrived  BY <1>1 DEF Arrived
<1>10. Moves'
  <2>1. \A r \in Absent : <<r, "leaves">> \in moves' => <<r, "returns">> \in moves'
    BY <1>1 DEF RunInv, PlanInv, Moves
  <2>2. QED  BY <1>1, <1>9, <2>1 DEF RunInv, PlanInv, Moves
<1>11. InOrder'
  <2>1. pc' # "arrive"  BY <1>1
  <2>2. QED  BY <1>1, <1>4, <2>1 DEF RunInv, PlanInv, InOrder
<1>12. Beginning'  BY <1>5 DEF Beginning
<1>13. adding'.m = m /\ adding'.rejoin = 1 /\ adding'.voice = FALSE  BY <1>1
<1>14. Scheduled(m)' = Channels(m, 1)
  <2>1. m \in Absent /\ <<m, "returns">> \notin moves'  BY <1>1, <1>2
  <2>2. QED  BY <2>1 DEF Scheduled, Channels, Pid
<1>15. OnTheWay'
  <2>1. \A x \in Arrived' : x = adding'.m => Scheduled(x)' = Channels(x, adding'.rejoin)  BY <1>13, <1>14
  <2>2. pc' \notin Preparing \cup {"arrive", "sampling"} /\ adding'.m \in Arrived'  BY <1>1, <1>2, <1>5, <1>9, <1>13
  <2>3. out' = IF adding'.voice THEN {<<"stream", adding'.m, adding'.rejoin, FALSE>>} ELSE {}
    BY <1>1, <1>3, <1>13
  <2>4. adding'.voice => adding'.m \in Voiced  BY <1>13
  <2>5. QED  BY <2>1, <2>2, <2>3, <2>4, Zenon DEF OnTheWay
<1>16. Expected' = producers'
  <2>1. Scheduled(m) = {}  BY <1>1, ScheduledAre
  <2>2. \A x \in Arrived : x # m => Scheduled(x)' = Scheduled(x)
    <3> SUFFICES ASSUME NEW x \in Arrived, x # m  PROVE Scheduled(x)' = Scheduled(x)
      OBVIOUS
    <3>1. \A y : <<x, y>> \in moves' <=> <<x, y>> \in moves  BY <1>1
    <3>2. QED  BY <3>1 DEF Scheduled
  <2>3. Arrived' \ {adding'.m} = Arrived \ {m}  BY <1>9, <1>13
  <2>4. Expected' = UNION {Scheduled(x)' : x \in Arrived \ {m}}  BY <2>3 DEF Expected
  <2>5. ASSUME NEW p  PROVE p \in Expected' <=> p \in producers
    <3>1. p \in Expected' <=> \E x \in Arrived \ {m} : p \in Scheduled(x)'  BY <2>4
    <3>2. p \in Expected' <=> \E x \in Arrived : x # m /\ p \in Scheduled(x)  BY <2>2, <3>1
    <3>3. QED  BY <1>4, <2>1, <3>2
  <2>6. QED  BY <1>1, <2>5
<1>17. Together'
  <2>1. links' = producers' /\ downs' = producers' /\ out' = {} /\ ~sent'  BY <1>1, <1>3, <1>4
  <2>2. downs' = producers' \cup out' \cup (IF sent' THEN {Pid(adding)'} ELSE {})  BY <2>1
  <2>3. QED  BY <1>16, <2>1, <2>2 DEF Together
<1>18. EngineInv'  BY <1>1, <1>3, <1>5, <1>6, <1>9, EngineKept
<1>19. EndInv'  BY <1>1, <1>5, <1>6 DEF RunInv, EndInv
<1>20. QED
  BY <1>6, <1>7, <1>8, <1>10, <1>11, <1>12, <1>15, <1>17, <1>18, <1>19 DEF RunInv, Linked, PlanInv

LEMMA KeepsRead == ASSUME RunInv, Read  PROVE RunInv'
<1>1. /\ pc = "sampling" /\ secs > 0 /\ secs' = secs - 1
      /\ UNCHANGED <<sent, pending, awaited, got, musicians, coming, adding, out, producers, links, downs, moves,
                     interrupted, plugin_loaded, plugin_line, lists, engine, reports, struck>>
  BY DEF Read
<1>2. /\ ~sent /\ adding = Nobody /\ out = {} /\ pc \in Campaigning /\ pc \notin Over /\ pc \notin Preparing /\ ~Refused
      /\ awaited = {} /\ got = {}
  BY <1>1, NobodyAsks
<1>3. secs \in Nat /\ secs' \in Nat /\ errors \in Nat /\ ReadingToCome
  BY <1>1, <1>2 DEF RunInv, RunTyped, ReadingToCome
<1>4. end = "none"  BY <1>2 DEF RunInv, StruckInv
<1>5. \/ errors > 0 /\ errors' = errors - 1 /\ end' = "engine" /\ pc' = "clean"
      \/ errors = 0 /\ errors' = errors /\ interrupted /\ end' = "interrupted" /\ pc' = "clean"
      \/ errors = 0 /\ errors' = errors /\ ~interrupted /\ end' = "none" /\ pc' = pc
  BY <1>3, <1>4 DEF Read
<1>6. errors' \in Nat  BY <1>3, <1>5
<1>7. /\ pc' # "unload" /\ pc' \notin Preparing /\ (pc' = "clean" => pc' \in Over) /\ pc' \in {"clean", "sampling"}
      /\ pc' \in {"clean", "sampling"} => pc' \in Preparing \cup Campaigning \cup Over
  BY <1>1, <1>5 DEF Over, Preparing, Campaigning
<1>8. Linked' /\ Unread' = Unread /\ Leaving' = Leaving  BY <1>1, <1>2, <1>7, LinkAlone
<1>9. RunTyped'  BY <1>1, <1>3, <1>6, <1>7 DEF RunInv, RunTyped
<1>10. EndInv'  BY <1>1, <1>2, <1>7, <1>8 DEF RunInv, EndInv
<1>11. CASE pc' = "clean"
  <2>1. StruckInv'  BY <1>1, <1>5, <1>7, <1>11 DEF StruckInv, ReadingToCome
  <2>2. PlanInv'  BY <1>1, <1>3, <1>7, <1>11, PlanOver
  <2>3. EngineInv'  BY <1>1, <1>2, <1>7, <1>8, <1>11, EngineOver
  <2>4. QED  BY <1>8, <1>9, <1>10, <2>1, <2>2, <2>3 DEF RunInv, Linked
<1>12. CASE pc' = "sampling"
  <2>1. errors = 0 /\ errors' = errors /\ ~interrupted /\ end' = "none"  BY <1>5, <1>12
  <2>2. ~struck  BY <1>2, <1>3, <2>1 DEF RunInv, StruckInv
  <2>3. StruckInv'  BY <1>1, <2>1, <2>2 DEF StruckInv
  <2>4. Arrived' = Arrived  BY <1>1 DEF Arrived
  <2>5. \A m : Scheduled(m)' = Scheduled(m)  BY <1>1 DEF Scheduled
  <2>6. Expected' = Expected  BY <1>1, <2>4, <2>5 DEF Expected
  <2>7. Together' /\ Beginning' /\ OnTheWay'
    BY <1>1, <1>2, <1>7, <1>12, <2>6 DEF RunInv, PlanInv, Together, Beginning, OnTheWay
  <2>8. InOrder' /\ Moves'  BY <1>1, <1>12, <2>4 DEF RunInv, PlanInv, InOrder, Moves
  <2>9. EngineInv'  BY <1>1, <1>2, <1>7, <1>8, <2>4, EngineKept
  <2>10. QED  BY <1>8, <1>9, <1>10, <2>3, <2>7, <2>8, <2>9 DEF RunInv, Linked, PlanInv
<1>13. QED  BY <1>7, <1>11, <1>12

LEMMA KeepsReadFails == ASSUME RunInv, ReadFails  PROVE RunInv'
<1>1. /\ pc = "sampling" /\ end' = "bench" /\ pc' = "clean" /\ adding' = Nobody /\ out' = {}
      /\ UNCHANGED <<sent, pending, awaited, got, errors, musicians, coming, producers, links, downs, moves, secs,
                     interrupted, plugin_loaded, plugin_line, lists, engine, reports, struck>>
  BY DEF ReadFails, CampaignFails, linkVars
<1>2. /\ pc' \in Over \ {"ended", "done"} /\ pc \notin Over /\ pc' # "sampling" /\ pc' # "unload"
      /\ pc' \notin Preparing /\ ~sent /\ got = {}
  BY <1>1, NobodyAsks DEF Over, Preparing
<1>3. Linked' /\ Unread' = Unread /\ Leaving' = Leaving  BY <1>1, <1>2, LinkAlone
<1>4. adding' \in [m : {0} \cup 2 .. To, rejoin : {0, 1}, voice : BOOLEAN]  BY <1>1 DEF Nobody
<1>5. RunTyped'  BY <1>1, <1>2, <1>4 DEF RunInv, RunTyped
<1>6. StruckInv'  BY <1>1, <1>2 DEF RunInv, StruckInv, ReadingToCome
<1>7. PlanInv'  BY <1>1, <1>2, PlanOver
<1>8. EngineInv'  BY <1>1, <1>2, <1>3, EngineOver
<1>9. EndInv'  BY <1>1, <1>2, <1>3 DEF RunInv, EndInv
<1>10. QED  BY <1>3, <1>5, <1>6, <1>7, <1>8, <1>9 DEF RunInv, Linked

LEMMA KeepsNextStep == ASSUME RunInv, NextStep  PROVE RunInv'
<1>1. /\ pc = "sampling" /\ secs = 0
      /\ UNCHANGED <<sent, pending, awaited, got, errors, adding, out, producers, links, downs, moves, secs, interrupted,
                     plugin_loaded, plugin_line, lists, engine, reports, struck>>
      /\ \/ musicians < To /\ musicians' = musicians + 1 /\ coming' = <<musicians + 1>> /\ pc' = "arrive" /\ end' = end
         \/ ~(musicians < To) /\ end' = "complete" /\ pc' = "clean" /\ UNCHANGED <<musicians, coming>>
  BY DEF NextStep, linkVars
<1>2. /\ ~sent /\ adding = Nobody /\ out = {} /\ pc \in Campaigning /\ pc \notin Over /\ pc \notin Preparing /\ ~Refused
      /\ got = {}
  BY <1>1, NobodyAsks
<1>3. /\ coming = <<>> /\ Arrived = 2 .. musicians /\ musicians \in From .. To /\ musicians \in Nat
      /\ From \in Nat /\ To \in Nat /\ 2 =< From
  BY <1>1, AtReading, RunBounds
<1>4. /\ pc' # "unload" /\ pc' \notin Preparing /\ (pc' = "clean" => pc' \in Over \ {"ended", "done"})
      /\ pc' \in Preparing \cup Campaigning \cup Over
  BY <1>1 DEF Over, Preparing, Campaigning
<1>5. Linked' /\ Unread' = Unread /\ Leaving' = Leaving  BY <1>1, <1>2, <1>4, LinkAlone
<1>6. EndInv'  BY <1>1, <1>2, <1>4, <1>5 DEF RunInv, EndInv
<1>7. CASE pc' = "clean"
  <2>1. musicians = To /\ end' = "complete" /\ UNCHANGED <<musicians, coming>>  BY <1>1, <1>3, <1>7
  <2>2. ~struck  BY <1>1, <2>1 DEF RunInv, StruckInv
  <2>3. StruckInv'  BY <1>1, <1>4, <1>7, <2>2 DEF StruckInv
  <2>4. PlanInv'  BY <1>1, <1>4, <1>7, <2>1, PlanOver
  <2>5. EngineInv'  BY <1>1, <1>2, <1>4, <1>5, <1>7, EngineOver
  <2>6. RunTyped'  BY <1>1, <1>4, <2>1 DEF RunInv, RunTyped
  <2>7. QED  BY <1>5, <1>6, <2>3, <2>4, <2>5, <2>6 DEF RunInv, Linked
<1>8. CASE pc' = "arrive"
  <2>1. musicians < To /\ musicians' = musicians + 1 /\ coming' = <<musicians + 1>> /\ end' = end  BY <1>1, <1>8
  <2>2. PICK w \in Nat : w = musicians + 1 /\ w \in 2 .. To /\ w \in From .. To /\ w - 1 = musicians /\ 1 =< w - 1
                         /\ w - 1 + 1 = w
    BY <1>3, <2>1
  <2>3. coming' = <<w>> /\ musicians' = w  BY <2>1, <2>2
  <2>4. \A S : \A x \in S : <<x>> \in Seq(S) /\ Len(<<x>>) = 1 /\ DOMAIN <<x>> = {1} /\ <<x>>[1] = x  OBVIOUS
  <2>5. coming' \in Seq(2 .. To) /\ Len(coming') = 1 /\ DOMAIN coming' = {1} /\ coming'[1] = w
    BY <2>2, <2>3, <2>4
  <2>6. RunTyped'  BY <1>1, <1>4, <2>2, <2>3, <2>5 DEF RunInv, RunTyped
  <2>7. pc' \in Campaigning /\ pc' \notin Over  BY <1>8 DEF Campaigning, Over
  <2>8. StruckInv'
    <3>1. musicians # To  BY <1>3, <2>1
    <3>2. ReadingToCome  BY <1>1, <1>2, <3>1 DEF ReadingToCome
    <3>3. QED  BY <1>1, <1>2, <1>8, <2>1, <2>7, <3>2 DEF RunInv, StruckInv
  <2>9. Arrived' = Arrived  BY <1>3, <2>2, <2>3, <2>5 DEF Arrived
  <2>10. \A m : Scheduled(m)' = Scheduled(m)  BY <1>1 DEF Scheduled
  <2>11. Expected' = Expected  BY <1>1, <2>9, <2>10 DEF Expected
  <2>12. Together' /\ Beginning' /\ OnTheWay'
    BY <1>1, <1>2, <1>4, <1>8, <2>11 DEF RunInv, PlanInv, Together, Beginning, OnTheWay
  <2>13. InOrder'
    <3>1. \A i \in DOMAIN coming' : coming'[i] = musicians' - Len(coming') + i  BY <2>2, <2>3, <2>5
    <3>2. Len(coming') =< musicians' - 1  BY <2>2, <2>3, <2>5
    <3>3. ~(secs' > 0 \/ pc' = "sampling") /\ secs' = 0  BY <1>1, <1>8
    <3>4. QED  BY <3>1, <3>2, <3>3, Zenon DEF InOrder
  <2>14. Moves'  BY <1>1, <2>9 DEF RunInv, PlanInv, Moves
  <2>15. EngineInv'  BY <1>1, <1>2, <1>4, <1>5, <2>9, EngineKept
  <2>16. QED  BY <1>5, <1>6, <2>6, <2>8, <2>12, <2>13, <2>14, <2>15 DEF RunInv, Linked, PlanInv
<1>9. QED  BY <1>1, <1>7, <1>8

\* The clean exit: the commands cs remove the streams ps and unload the plugin, once.
UnloadsAfter(cs, ps) ==
  /\ cs \in Seq(Commands) /\ OnceIn(cs)
  /\ \A i \in DOMAIN cs : cs[i] = <<"unload">> \/ (~Asks(cs[i]) /\ \E p \in ps : cs[i] = <<"remove", p>>)
LEMMA UnloadLast ==
  ASSUME NEW ps \in SUBSET Pids
  PROVE  UnloadsAfter(Append(Removals(ps), <<"unload">>), ps)
<1> DEFINE cs == Append(Removals(ps), <<"unload">>)
<1>1. PICK q \in Seq(Commands) :
        /\ q = Removals(ps) /\ {q[i] : i \in DOMAIN q} = {<<"remove", p>> : p \in ps}
        /\ \A i \in DOMAIN q : ~Asks(q[i])
  BY RemovalsAre
<1>2. PICK n \in Nat : n = Len(q) /\ DOMAIN q = 1 .. n  BY <1>1
<1>3. <<"unload">> \in Commands /\ Asks(<<"unload">>)  BY SimpleCommand
<1>4. /\ cs \in Seq(Commands) /\ DOMAIN cs = 1 .. n + 1 /\ cs[n + 1] = <<"unload">>
      /\ \A i \in 1 .. n : cs[i] = q[i]
  BY <1>1, <1>2, <1>3
<1> HIDE DEF cs
<1>5. \A i \in 1 .. n + 1 : i = n + 1 \/ i \in DOMAIN q  BY <1>2
<1>6. \A i \in DOMAIN q : ~Asks(q[i]) /\ \E p \in ps : q[i] = <<"remove", p>>  BY <1>1
<1>7. \A i \in DOMAIN cs : i = n + 1 \/ (~Asks(cs[i]) /\ \E p \in ps : cs[i] = <<"remove", p>>)
  BY <1>2, <1>4, <1>5, <1>6
<1>8. OnceIn(cs)
  <2> SUFFICES ASSUME NEW i \in DOMAIN cs, NEW j \in DOMAIN cs, i # j, Asks(cs[i])  PROVE cs[i] # cs[j]
    BY DEF OnceIn
  <2>1. i = n + 1 /\ ~Asks(cs[j])  BY <1>7
  <2>2. ASSUME cs[i] = cs[j]  PROVE FALSE  BY <2>1, <2>2
  <2>3. QED  BY <2>2
<1>9. UnloadsAfter(cs, ps)
  <2>1. \A i \in DOMAIN cs : cs[i] = <<"unload">> \/ (~Asks(cs[i]) /\ \E p \in ps : cs[i] = <<"remove", p>>)
    BY <1>4, <1>7
  <2>2. QED  BY <1>4, <1>8, <2>1, Zenon DEF UnloadsAfter
<1>10. QED  BY <1>9 DEF cs

LEMMA KeepsClean == ASSUME RunInv, Clean  PROVE RunInv'
<1>1. /\ pc = "clean"
      /\ UNCHANGED <<errors, musicians, coming, adding, out, producers, links, downs, moves, secs, interrupted, end,
                     plugin_loaded, plugin_line, lists, reports, struck>>
  BY DEF Clean, planVars, endVars
<1>2. producers \in SUBSET Pids /\ plugin_loaded \in BOOLEAN  BY DEF RunInv, RunTyped
<1>3. ~sent  BY <1>1 DEF RunInv, Waits, Preparing
<1>4. awaited = {} /\ got = {}  BY <1>3, NobodyWaits DEF RunInv
<1>5. <<"unload">> \notin Unread /\ <<"stop">> \notin Unread  BY <1>1 DEF RunInv, EngineInv
<1>6. CASE plugin_loaded
  <2>1. PICK cs : cs = Append(Removals(producers), <<"unload">>)  OBVIOUS
  <2>2. /\ pc' = "unload" /\ sent' = TRUE /\ awaited' = {<<"unload">>} /\ got' = {}
        /\ pending' = pending \cup {<<"unload">>} /\ engine' = Say(engine, cs)
    BY <1>6, <2>1 DEF Clean
  <2>3. /\ cs \in Seq(Commands) /\ OnceIn(cs)
        /\ \A i \in DOMAIN cs : cs[i] = <<"unload">> \/ (~Asks(cs[i]) /\ \E p \in producers : cs[i] = <<"remove", p>>)
    <3>1. producers \in SUBSET Pids  BY <1>2
    <3>2. UnloadsAfter(Append(Removals(producers), <<"unload">>), producers)  BY <3>1, UnloadLast
    <3>3. QED  BY <2>1, <3>2 DEF UnloadsAfter
  <2>4. \A i \in DOMAIN cs : Asks(cs[i]) => cs[i] \notin Unread  BY <1>5, <2>3
  <2>5. /\ EngineTyped' /\ Once' /\ engine'.linked = engine.linked /\ engine'.plugin = engine.plugin
        /\ engine'.inbox = IF engine.linked THEN engine.inbox \o cs ELSE engine.inbox
        /\ Unread' = IF engine.linked THEN Unread \cup {cs[i] : i \in DOMAIN cs} ELSE Unread
    BY <2>2, <2>3, <2>4, SayAdds DEF RunInv, ToCome
  <2>6. \A x \in Unread' : x \in Unread \/ x = <<"unload">> \/ (~Asks(x) /\ \E p \in producers : x = <<"remove", p>>)
    BY <2>3, <2>5
  <2>7. ToCome'
    <3>1. \A x \in Unread' : Asks(x) => x \in pending'  BY <2>2, <2>6 DEF RunInv, ToCome
    <3>2. ~engine'.linked => engine'.inbox = <<>>  BY <2>5 DEF RunInv, ToCome
    <3>3. QED  BY <2>5, <3>1, <3>2 DEF ToCome
  <2>8. \A y : y # "unload" /\ <<y>> \in Unread' => <<y>> \in Unread
    <3>1. \A y, p : <<y>> # <<"remove", p>>  OBVIOUS
    <3>2. \A y : <<y>> = <<"unload">> => y = "unload"  OBVIOUS
    <3>3. QED  BY <2>6, <3>1, <3>2
  <2>9. pc' \in Over /\ pc \notin Preparing /\ pc' # "sampling"  BY <1>1, <2>2 DEF Over, Preparing
  <2>10. Answers' /\ Waits'  BY <2>2 DEF Answers, Waits, Over, Preparing
  <2>11. RunTyped'  BY <1>1, <2>2, <2>9 DEF RunInv, RunTyped
  <2>12. StruckInv'  BY <1>1, <2>9 DEF RunInv, StruckInv, ReadingToCome
  <2>13. PlanInv'  BY <1>1, <2>9, PlanOver
  <2>14. EngineInv'
    <3>1. <<"stop">> \notin Unread'  BY <1>5, <2>8
    <3>2. QED  BY <2>2, <3>1 DEF EngineInv, Preparing, Campaigning
  <2>15. EndInv'
    <3>1. <<"load">> \in Unread' => <<"load">> \in Unread  BY <2>8
    <3>2. QED  BY <1>1, <1>6, <2>2, <3>1 DEF RunInv, EndInv, Preparing
  <2>16. QED  BY <2>5, <2>7, <2>10, <2>11, <2>12, <2>13, <2>14, <2>15 DEF RunInv
<1>7. CASE ~plugin_loaded
  <2>1. pc' = "stop" /\ engine' = Say(engine, Removals(producers)) /\ UNCHANGED <<sent, pending, awaited, got>>
    BY <1>7 DEF Clean
  <2>2. /\ EngineTyped' /\ ToCome' /\ engine'.plugin = engine.plugin
        /\ \A y : <<y>> \in Unread' => <<y>> \in Unread
    BY <1>2, <2>1, LinkRemoves
  <2>3. pc' \in Over /\ pc' \notin Preparing /\ pc' # "sampling"  BY <2>1 DEF Over, Preparing
  <2>4. Answers' /\ Waits'  BY <1>3, <1>4, <2>1, <2>3 DEF RunInv, Answers, Waits
  <2>5. RunTyped'  BY <1>1, <2>1, <2>3 DEF RunInv, RunTyped
  <2>6. StruckInv'  BY <1>1, <2>3 DEF RunInv, StruckInv, ReadingToCome
  <2>7. PlanInv'  BY <1>1, <2>3, PlanOver
  <2>8. EngineInv'
    <3>1. <<"stop">> \notin Unread'  BY <1>5, <2>2
    <3>2. QED  BY <2>1, <3>1 DEF EngineInv, Preparing, Campaigning
  <2>9. EndInv'  BY <1>1, <1>4, <1>7, <2>1, <2>3 DEF EndInv
  <2>10. QED  BY <2>2, <2>4, <2>5, <2>6, <2>7, <2>8, <2>9 DEF RunInv
<1>8. QED  BY <1>2, <1>6, <1>7

LEMMA KeepsUnloaded == ASSUME RunInv, Unloaded  PROVE RunInv'
<1>1. /\ pc = "unload" /\ Forget /\ pc' = "stop" /\ engine' = engine
      /\ plugin_line' = IF Heard(awaited) THEN "returned" ELSE "not returned"
      /\ UNCHANGED <<errors, musicians, coming, adding, out, producers, links, downs, moves, secs, interrupted, end,
                     plugin_loaded, lists, reports, struck>>
  BY DEF Unloaded, planVars
<1>2. pc' \in Over /\ pc' \notin Preparing /\ pc' # "sampling" /\ pc \notin Preparing  BY <1>1 DEF Over, Preparing
<1>3. Linked' /\ Unread' = Unread /\ Leaving' = Leaving /\ got' = {} /\ ~sent'  BY <1>1, <1>2, LinkForgets
<1>4. RunTyped'  BY <1>1, <1>2 DEF RunInv, RunTyped, Forget
<1>5. StruckInv'  BY <1>1, <1>2 DEF RunInv, StruckInv, ReadingToCome
<1>6. PlanInv'  BY <1>1, <1>2, PlanOver
<1>7. EngineInv'  BY <1>1, <1>3 DEF RunInv, EngineInv, Preparing, Campaigning
<1>8. Heard(awaited) => ~engine.plugin  BY <1>1 DEF RunInv, Waits, EndInv, Heard
<1>9. EndInv'  BY <1>1, <1>2, <1>3, <1>8 DEF RunInv, EndInv
<1>10. QED  BY <1>3, <1>4, <1>5, <1>6, <1>7, <1>9 DEF RunInv, Linked

LEMMA KeepsStop == ASSUME RunInv, Stop  PROVE RunInv'
<1>1. /\ pc = "stop" /\ pc' = "ended" /\ engine' = Say(engine, <<<<"stop">>>>)
      /\ UNCHANGED <<sent, pending, awaited, got, errors, musicians, coming, adding, out, producers, links, downs, moves,
                     secs, interrupted, end, plugin_loaded, plugin_line, lists, reports, struck>>
  BY DEF Stop, linkVars, planVars, endVars
<1>2. pc' \in Over /\ pc' \notin Preparing /\ pc' # "sampling" /\ pc \notin Preparing  BY <1>1 DEF Over, Preparing
<1>3. ~sent  BY <1>1 DEF RunInv, Waits, Preparing
<1>4. awaited = {} /\ got = {}  BY <1>3, NobodyWaits DEF RunInv
<1>5. <<"stop">> \in Commands /\ ~Asks(<<"stop">>) /\ <<"stop">> \notin Unread
  BY <1>1, SimpleCommand DEF RunInv, EngineInv, Asks
<1>6. /\ EngineTyped' /\ Once' /\ engine'.linked = engine.linked /\ engine'.plugin = engine.plugin
      /\ engine'.inbox = IF engine.linked THEN Append(engine.inbox, <<"stop">>) ELSE engine.inbox
      /\ Unread' = IF engine.linked THEN Unread \cup {<<"stop">>} ELSE Unread
  BY <1>1, <1>5, AskAdds DEF RunInv, ToCome
<1>7. ToCome'
  <2>1. \A x \in Unread' : Asks(x) => x \in pending'  BY <1>1, <1>5, <1>6 DEF RunInv, ToCome
  <2>2. ~engine'.linked => engine'.inbox = <<>>  BY <1>6 DEF RunInv, ToCome
  <2>3. QED  BY <1>6, <2>1, <2>2 DEF ToCome
<1>8. Answers' /\ Waits'  BY <1>1, <1>2, <1>3, <1>4 DEF RunInv, Answers, Waits
<1>9. RunTyped'  BY <1>1, <1>2 DEF RunInv, RunTyped
<1>10. StruckInv'  BY <1>1, <1>2 DEF RunInv, StruckInv, ReadingToCome
<1>11. PlanInv'  BY <1>1, <1>2, PlanOver
<1>12. EngineInv'  BY <1>1 DEF EngineInv, Preparing, Campaigning
<1>13. EndInv'
  <2>1. <<"load">> \in Unread' => <<"load">> \in Unread
    <3>1. <<"load">> # <<"stop">>  OBVIOUS
    <3>2. QED  BY <1>6, <3>1
  <2>2. engine'.linked => engine'.inbox # <<>> /\ engine'.inbox[Len(engine'.inbox)] = <<"stop">>
    <3>1. engine.inbox \in Seq(Commands)  BY DEF RunInv, EngineTyped
    <3>2. \A q \in Seq(Commands) : Append(q, <<"stop">>) # <<>>
                                   /\ Append(q, <<"stop">>)[Len(Append(q, <<"stop">>))] = <<"stop">>
      OBVIOUS
    <3>3. QED  BY <1>6, <3>1, <3>2
  <2>3. QED  BY <1>1, <1>2, <1>4, <1>6, <2>1, <2>2 DEF RunInv, EndInv
<1>14. QED  BY <1>6, <1>7, <1>8, <1>9, <1>10, <1>11, <1>12, <1>13 DEF RunInv

LEMMA KeepsExit == ASSUME RunInv, Exit  PROVE RunInv'
<1>1. /\ pc = "ended" /\ pc' = "done" /\ engine' = engine
      /\ UNCHANGED <<sent, pending, awaited, got, errors, musicians, coming, adding, out, producers, links, downs, moves,
                     secs, interrupted, end, plugin_loaded, plugin_line, lists, reports, struck>>
  BY DEF Exit, linkVars, planVars, endVars
<1>2. pc' \in Over /\ pc' \notin Preparing /\ pc' # "sampling" /\ pc \notin Preparing /\ pc' # "unload"
  BY <1>1 DEF Over, Preparing
<1>3. ~sent  BY <1>1 DEF RunInv, Waits, Preparing
<1>4. Linked' /\ Unread' = Unread /\ Leaving' = Leaving  BY <1>1, <1>2, <1>3, LinkAlone
<1>5. RunTyped'  BY <1>1, <1>2 DEF RunInv, RunTyped
<1>6. StruckInv'  BY <1>1, <1>2 DEF RunInv, StruckInv, ReadingToCome
<1>7. PlanInv'  BY <1>1, <1>2, PlanOver
<1>8. EngineInv'  BY <1>1 DEF EngineInv, Preparing, Campaigning
<1>9. EndInv'  BY <1>1, <1>2, <1>4 DEF RunInv, EndInv
<1>10. QED  BY <1>4, <1>5, <1>6, <1>7, <1>8, <1>9 DEF RunInv, Linked

\* The Audio Engine, and what may happen at any moment.
LEMMA PlanAlone ==
  ASSUME RunInv, UNCHANGED <<pc, sent, planVars>>
  PROVE  PlanInv' /\ Arrived' = Arrived
<1>1. UNCHANGED <<musicians, coming, adding, out, producers, links, downs, moves, secs>>  BY DEF planVars
<1>2. Arrived' = Arrived  BY <1>1 DEF Arrived
<1>3. \A m : Scheduled(m)' = Scheduled(m)  BY <1>1 DEF Scheduled
<1>4. Expected' = Expected  BY <1>1, <1>2, <1>3 DEF Expected
<1>5. Beginning' /\ InOrder' /\ Moves'  BY <1>1, <1>2 DEF RunInv, PlanInv, Beginning, InOrder, Moves
<1>6. OnTheWay'  BY <1>1, <1>2, <1>3 DEF RunInv, PlanInv, OnTheWay
<1>7. Pid(adding)' = Pid(adding)  BY <1>1 DEF Pid
<1>8. Together'  BY <1>1, <1>4, <1>7 DEF RunInv, PlanInv, Together
<1>9. QED  BY <1>2, <1>5, <1>6, <1>8 DEF PlanInv

\* Answers reach who waits for them.
LEMMA AnswersReach ==
  ASSUME RunInv, UNCHANGED <<pc, awaited>>, NEW K, NEW r \in BOOLEAN, pending' = pending \ K,
         \A x : x \in got' <=> x \in got \/ \E k \in K \cap pending \cap awaited : x = <<k, r>>
  PROVE  Answers' /\ got \subseteq got'
<1>1. /\ got \subseteq awaited \X BOOLEAN
      /\ \A k : <<k, TRUE>> \in got \/ <<k, FALSE>> \in got => k \notin pending
      /\ \A k : ~(<<k, TRUE>> \in got /\ <<k, FALSE>> \in got)
      /\ pc \notin Over => pending \subseteq awaited
  BY DEF RunInv, Answers
<1>2. got' \subseteq awaited' \X BOOLEAN  BY <1>1
<1>3. \A k, v : <<k, v>> \in got' => <<k, v>> \in got \/ (k \in K /\ k \in pending /\ v = r)
  OBVIOUS
<1>4. \A k : <<k, TRUE>> \in got' \/ <<k, FALSE>> \in got' => k \notin pending'  BY <1>1, <1>3
<1>5. \A k : ~(<<k, TRUE>> \in got' /\ <<k, FALSE>> \in got')
  <2> SUFFICES ASSUME NEW k, <<k, TRUE>> \in got', <<k, FALSE>> \in got'  PROVE FALSE
    OBVIOUS
  <2>1. <<k, TRUE>> \in got \/ (k \in pending /\ TRUE = r)  BY <1>3
  <2>2. <<k, FALSE>> \in got \/ (k \in pending /\ FALSE = r)  BY <1>3
  <2>3. QED  BY <1>1, <2>1, <2>2
<1>6. QED  BY <1>1, <1>2, <1>4, <1>5 DEF Answers
LEMMA ResolvesReach ==
  ASSUME NEW k, NEW r, Resolves(k, r)
  PROVE  /\ pending' = pending \ {k}
         /\ \A x : x \in got' <=> x \in got \/ \E j \in {k} \cap pending \cap awaited : x = <<j, r>>
<1>1. pending' = pending \ {k} /\ got' = IF k \in pending /\ k \in awaited THEN got \cup {<<k, r>>} ELSE got
  BY DEF Resolves
<1>2. CASE k \in pending /\ k \in awaited  BY <1>1, <1>2
<1>3. CASE ~(k \in pending /\ k \in awaited)  BY <1>1, <1>3
<1>4. QED  BY <1>2, <1>3

\* An error is seen by who waits for it, or queued.
LEMMA FailsReach ==
  ASSUME RunInv, NEW k, Fails(k), UNCHANGED <<pc, sent, awaited, planVars, endVars>>
  PROVE  /\ Answers' /\ StruckInv' /\ errors' \in Nat /\ struck' \in BOOLEAN /\ pending' = pending \ {k}
         /\ \A j : <<j, TRUE>> \in got' <=> <<j, TRUE>> \in got
<1>1. /\ Resolves(k, FALSE) /\ errors' = (IF k \in pending THEN errors ELSE errors + 1)
      /\ struck' = (struck \/ ReadingToCome)
  BY DEF Fails
<1>2. /\ pending' = pending \ {k}
      /\ \A x : x \in got' <=> x \in got \/ \E j \in {k} \cap pending \cap awaited : x = <<j, FALSE>>
  BY <1>1, ResolvesReach
<1>3. Answers' /\ got \subseteq got'
  <2>1. FALSE \in BOOLEAN  OBVIOUS
  <2>2. QED  BY <1>2, <2>1, AnswersReach
<1>4. errors \in Nat /\ struck \in BOOLEAN  BY DEF RunInv, RunTyped
<1>5. errors' \in Nat /\ struck' \in BOOLEAN /\ (errors > 0 => errors' > 0)  BY <1>1, <1>4
<1>6. \A j : <<j, TRUE>> \in got' <=> <<j, TRUE>> \in got
  <2>1. \A i, j : <<j, TRUE>> # <<i, FALSE>>  OBVIOUS
  <2>2. QED  BY <1>2, <2>1
<1>7. ReadingToCome' <=> ReadingToCome  BY DEF ReadingToCome, planVars
<1>8. ReadingToCome => errors' > 0 \/ Refused'
  <2>1. CASE k \notin pending  BY <1>1, <1>4, <2>1
  <2>2. CASE k \in pending /\ ReadingToCome
    <3>1. k \in awaited  BY <2>2 DEF RunInv, Answers, ReadingToCome
    <3>2. <<k, FALSE>> \in got'  BY <1>2, <2>2, <3>1
    <3>3. QED  BY <3>2 DEF Refused
  <2>3. QED  BY <2>1, <2>2
<1>9. StruckInv'
  <2>1. struck' /\ ReadingToCome' => errors' > 0 \/ interrupted' \/ Refused'  BY <1>7, <1>8
  <2>2. end = "complete" => ~ReadingToCome  BY DEF RunInv, StruckInv, ReadingToCome
  <2>3. pc = "sampling" /\ secs = 0 /\ musicians = To => ~ReadingToCome  BY DEF ReadingToCome
  <2>4. QED  BY <1>1, <2>1, <2>2, <2>3 DEF RunInv, StruckInv, planVars, endVars
<1>10. QED  BY <1>2, <1>3, <1>5, <1>6, <1>9

\* What was said last is read last.
LEMMA LastStays ==
  ASSUME NEW q \in Seq(Commands), q # <<>>, NEW z, z = Tail(q)
  PROVE  IF z = <<>> THEN Head(q) = q[Len(q)] ELSE z[Len(z)] = q[Len(q)]
<1>1. /\ Len(q) \in Nat \ {0} /\ z \in Seq(Commands) /\ Len(z) = Len(q) - 1 /\ Head(q) = q[1]
      /\ \A i \in 1 .. Len(q) - 1 : z[i] = q[i + 1]
  OBVIOUS
<1>2. CASE z = <<>>
  <2>1. Len(q) = 1
    <3>1. Len(<<>>) = 0  OBVIOUS
    <3>2. Len(z) = 0  BY <1>2, <3>1
    <3>3. Len(z) = Len(q) - 1 /\ Len(q) \in Nat  BY <1>1
    <3>4. QED  BY <3>2, <3>3
  <2>2. QED  BY <1>1, <1>2, <2>1
<1>3. CASE z # <<>>
  <2>1. Len(z) # 0  BY <1>1, <1>3
  <2>2. Len(q) - 1 \in 1 .. Len(q) - 1 /\ (Len(q) - 1) + 1 = Len(q)  BY <1>1, <2>1
  <2>3. QED  BY <1>1, <1>3, <2>2
<1>4. QED  BY <1>2, <1>3

LEMMA EngineAtEnd ==
  ASSUME RunInv, pc' = pc, pc \notin Preparing \cup Campaigning, Unread' \subseteq Unread
  PROVE  EngineInv'
BY DEF RunInv, EngineInv, Preparing

LEMMA KeepsRefuse == ASSUME RunInv, Refuse  PROVE RunInv'
<1>1. PICK c : c = Head(engine.inbox)  OBVIOUS
<1>2. /\ engine.inbox # <<>> /\ c[1] \in {"capture", "voice", "load", "stream"}
      /\ engine' = [engine EXCEPT !.inbox = Tail(@)] /\ Fails(c)
      /\ UNCHANGED <<pc, sent, awaited, planVars, endVars, reports>>
  BY <1>1 DEF Refuse
<1>3. /\ engine'.inbox = Tail(engine.inbox) /\ engine'.linked = engine.linked /\ engine'.streams = engine.streams
      /\ engine'.capture = engine.capture /\ engine'.plugin = engine.plugin
  BY <1>2 DEF RunInv, EngineTyped
<1>4. /\ c \in Commands /\ engine'.inbox \in Seq(Commands) /\ Once'
      /\ Unread = Unread' \cup {c} /\ (Asks(c) => c \notin Unread')
  BY <1>1, <1>2, <1>3, ReadsFirst DEF RunInv, ToCome
<1>5. EngineTyped'
  <2>1. PICK z \in Seq(Commands) : z = Tail(engine.inbox)  BY <1>3, <1>4
  <2>2. engine' = [engine EXCEPT !.inbox = z]  BY <1>2, <2>1
  <2>3. QED  BY <2>2 DEF RunInv, EngineTyped
<1>6. /\ Answers' /\ StruckInv' /\ errors' \in Nat /\ struck' \in BOOLEAN /\ pending' = pending \ {c}
      /\ \A j : <<j, TRUE>> \in got' <=> <<j, TRUE>> \in got
  BY <1>2, FailsReach
<1>7. Waits'  BY <1>2 DEF RunInv, Waits, planVars, Pid
<1>8. Asks(c)  BY <1>2 DEF Asks
<1>9. ToCome'
  <2>1. \A x \in Unread' : Asks(x) => x \in pending'  BY <1>4, <1>6, <1>8 DEF RunInv, ToCome
  <2>2. engine.linked  BY <1>2 DEF RunInv, ToCome
  <2>3. QED  BY <1>3, <1>4, <2>1, <2>2 DEF ToCome
<1>10. RunTyped'  BY <1>2, <1>6 DEF RunInv, RunTyped, planVars, endVars
<1>11. PlanInv' /\ Arrived' = Arrived  BY <1>2, PlanAlone
<1>12. EngineInv'
  <2>1. Leaving' = Leaving
    <3>1. \A p : <<"remove", p>> # c
      <4>1. \A p : <<"remove", p>>[1] = "remove"  OBVIOUS
      <4>2. QED  BY <1>2, <4>1
    <3>2. QED  BY <1>4, <3>1 DEF Leaving
  <2>2. CASE pc \in Preparing \cup Campaigning
    BY <1>2, <1>3, <1>4, <1>6, <1>11, <2>1, <2>2, EngineKept DEF planVars
  <2>3. CASE pc \notin Preparing \cup Campaigning  BY <1>2, <1>4, <2>3, EngineAtEnd
  <2>4. QED  BY <2>2, <2>3
<1>13. EndInv'
  <2>1. <<"load">> \in Unread' => <<"load">> \in Unread  BY <1>4
  <2>2. <<<<"unload">>, TRUE>> \in got' => ~engine'.plugin  BY <1>3, <1>6 DEF RunInv, EndInv
  <2>3. ASSUME pc' = "ended", engine'.linked
        PROVE  engine'.inbox # <<>> /\ engine'.inbox[Len(engine'.inbox)] = <<"stop">>
    <3>1. engine.inbox[Len(engine.inbox)] = <<"stop">>  BY <1>2, <1>3, <2>3 DEF RunInv, EndInv
    <3>2. c # <<"stop">>  BY <1>2
    <3>3. engine.inbox \in Seq(Commands)  BY DEF RunInv, EngineTyped
    <3>4. QED  BY <1>1, <1>2, <1>3, <3>1, <3>2, <3>3, LastStays
  <2>4. QED  BY <1>2, <1>3, <2>1, <2>2, <2>3 DEF RunInv, EndInv, endVars
<1>14. QED  BY <1>5, <1>6, <1>7, <1>9, <1>10, <1>11, <1>12, <1>13 DEF RunInv

LEMMA KeepsReport == ASSUME RunInv, Report  PROVE RunInv'
<1>1. /\ Fails(<<"report">>) /\ engine' = engine
      /\ UNCHANGED <<pc, sent, awaited, planVars, endVars>>
  BY DEF Report
<1>2. EngineTyped' /\ Once' /\ Unread' = Unread /\ Leaving' = Leaving  BY <1>1, EngineSame DEF RunInv, ToCome
<1>3. /\ Answers' /\ StruckInv' /\ errors' \in Nat /\ struck' \in BOOLEAN /\ pending' = pending \ {<<"report">>}
      /\ \A j : <<j, TRUE>> \in got' <=> <<j, TRUE>> \in got
  BY <1>1, FailsReach
<1>4. Waits'  BY <1>1 DEF RunInv, Waits, planVars, Pid
<1>5. ToCome'
  <2>1. \A x \in Unread : x \in Commands
    <3>1. engine.inbox \in Seq(Commands)  BY DEF RunInv, EngineTyped
    <3>2. \A q \in Seq(Commands) : \A i \in DOMAIN q : q[i] \in Commands  OBVIOUS
    <3>3. QED  BY <3>1, <3>2 DEF Unread
  <2>2. \A x \in Commands : x # <<"report">>
    <3>1. \A x \in Commands : x[1] # "report"  BY CommandIs, PidIs DEF Preparing
    <3>2. QED  BY <3>1
  <2>3. QED  BY <1>1, <1>2, <1>3, <2>1, <2>2 DEF RunInv, ToCome
<1>6. RunTyped'  BY <1>1, <1>3 DEF RunInv, RunTyped, planVars, endVars
<1>7. PlanInv' /\ Arrived' = Arrived  BY <1>1, PlanAlone
<1>8. EngineInv'
  <2>1. CASE pc \in Preparing \cup Campaigning
    BY <1>1, <1>2, <1>3, <1>7, <2>1, EngineKept DEF planVars
  <2>2. CASE pc \notin Preparing \cup Campaigning  BY <1>1, <1>2, <2>2, EngineAtEnd
  <2>3. QED  BY <2>1, <2>2
<1>9. EndInv'  BY <1>1, <1>2, <1>3 DEF RunInv, EndInv, endVars
<1>10. QED  BY <1>2, <1>3, <1>4, <1>5, <1>6, <1>7, <1>8, <1>9 DEF RunInv

LEMMA StreamlessIs ==
  ASSUME NEW e \in [linked : BOOLEAN, inbox : Seq(Commands), streams : SUBSET Pids, capture : BOOLEAN, plugin : BOOLEAN],
         NEW z, z = Streamless(e)
  PROVE  /\ z \in [linked : BOOLEAN, inbox : Seq(Commands), streams : SUBSET Pids, capture : BOOLEAN, plugin : BOOLEAN]
         /\ z.linked = e.linked /\ z.inbox = e.inbox /\ z.streams = {} /\ z.capture = FALSE /\ z.plugin = e.plugin
<1>1. z = [[e EXCEPT !.streams = {}] EXCEPT !.capture = FALSE]  BY DEF Streamless
<1>2. PICK y : y = [e EXCEPT !.streams = {}]  OBVIOUS
<1>3. /\ y \in [linked : BOOLEAN, inbox : Seq(Commands), streams : SUBSET Pids, capture : BOOLEAN, plugin : BOOLEAN]
      /\ y.linked = e.linked /\ y.inbox = e.inbox /\ y.streams = {} /\ y.plugin = e.plugin
  BY <1>2
<1>4. z = [y EXCEPT !.capture = FALSE]  BY <1>1, <1>2
<1>5. QED  BY <1>3, <1>4

\* One field changes, the others stay.
EngineRecords ==
  [linked : BOOLEAN, inbox : Seq(Commands), streams : SUBSET Pids, capture : BOOLEAN, plugin : BOOLEAN]
LEMMA CaptureOn ==
  ASSUME NEW e \in EngineRecords, NEW z, z = [e EXCEPT !.capture = TRUE]
  PROVE  z \in EngineRecords /\ z.linked = e.linked /\ z.inbox = e.inbox /\ z.streams = e.streams /\ z.plugin = e.plugin
BY DEF EngineRecords
LEMMA PluginIs ==
  ASSUME NEW e \in EngineRecords, NEW b \in BOOLEAN, NEW z, z = [e EXCEPT !.plugin = b]
  PROVE  z \in EngineRecords /\ z.linked = e.linked /\ z.inbox = e.inbox /\ z.streams = e.streams /\ z.plugin = b
BY DEF EngineRecords
Taken(c) ==
  /\ engine.inbox # <<>> /\ c \in Commands /\ engine' \in EngineRecords
  /\ engine'.linked = engine.linked /\ engine'.inbox = Tail(engine.inbox)
  /\ engine'.streams = IF c[1] = "stream" THEN engine.streams \cup {c}
                       ELSE IF c[1] = "remove" THEN engine.streams \ {c[2]}
                       ELSE IF c[1] = "stop" THEN {} ELSE engine.streams
  /\ c[1] = "stop" => ~engine'.capture
  /\ c[1] = "unload" => ~engine'.plugin
  /\ engine'.plugin => engine.plugin \/ c[1] = "load"
LEMMA AcceptIs ==
  ASSUME RunInv, Accept, NEW c, c = Head(engine.inbox)
  PROVE  Taken(c)
<1>1. PICK q \in Seq(Commands) : q = engine.inbox /\ q # <<>>  BY DEF Accept, RunInv, EngineTyped
<1>2. PICK r \in Seq(Commands) : r = Tail(q)
  <2>1. \A s \in Seq(Commands) : s # <<>> => Tail(s) \in Seq(Commands)  OBVIOUS
  <2>2. QED  BY <1>1, <2>1
<1>3. c \in Commands
  <2>1. \A s \in Seq(Commands) : s # <<>> => Head(s) \in Commands  OBVIOUS
  <2>2. QED  BY <1>1, <2>1
<1>4. PICK e : e = [engine EXCEPT !.inbox = r]  OBVIOUS
<1>5. /\ e \in EngineRecords /\ e.linked = engine.linked /\ e.inbox = Tail(engine.inbox) /\ e.streams = engine.streams
      /\ e.plugin = engine.plugin
  BY <1>1, <1>2, <1>4 DEF RunInv, EngineTyped, EngineRecords
<1>6. engine' = CASE c[1] = "capture" -> [e EXCEPT !.capture = TRUE]
                  [] c[1] = "load"    -> [e EXCEPT !.plugin = TRUE]
                  [] c[1] = "unload"  -> [e EXCEPT !.plugin = FALSE]
                  [] c[1] = "stream"  -> [e EXCEPT !.streams = @ \cup {c}]
                  [] c[1] = "remove"  -> [e EXCEPT !.streams = @ \ {c[2]}]
                  [] c[1] = "stop"    -> Streamless(e)
                  [] OTHER            -> e
  BY <1>1, <1>2, <1>4 DEF Accept
<1>7. CASE c[1] = "capture"
  <2>1. engine' = [e EXCEPT !.capture = TRUE]  BY <1>6, <1>7
  <2>2. QED  BY <1>1, <1>3, <1>5, <1>7, <2>1, CaptureOn DEF Taken
<1>8. CASE c[1] = "load"
  <2>1. engine' = [e EXCEPT !.plugin = TRUE]  BY <1>6, <1>8
  <2>2. TRUE \in BOOLEAN  OBVIOUS
  <2>3. QED  BY <1>1, <1>3, <1>5, <1>8, <2>1, <2>2, PluginIs DEF Taken
<1>9. CASE c[1] = "unload"
  <2>1. engine' = [e EXCEPT !.plugin = FALSE]  BY <1>6, <1>9
  <2>2. FALSE \in BOOLEAN  OBVIOUS
  <2>3. /\ engine' \in EngineRecords /\ engine'.linked = e.linked /\ engine'.inbox = e.inbox
        /\ engine'.streams = e.streams /\ engine'.plugin = FALSE
    BY <1>5, <2>1, <2>2, PluginIs
  <2>4. QED  BY <1>1, <1>3, <1>5, <1>9, <2>3 DEF Taken
<1>10. CASE c[1] = "stream"
  <2>1. PICK s : s = engine.streams \cup {c}  OBVIOUS
  <2>2. engine' = [e EXCEPT !.streams = s]  BY <1>5, <1>6, <1>10, <2>1
  <2>3. c \in Pids  BY <1>3, <1>10, CommandIs DEF Preparing
  <2>4. s \subseteq Pids  BY <2>1, <2>3 DEF RunInv, EngineTyped
  <2>5. /\ engine' \in EngineRecords /\ engine'.linked = e.linked /\ engine'.inbox = e.inbox
        /\ engine'.streams = s /\ engine'.plugin = e.plugin
    BY <1>5, <2>2, <2>4 DEF EngineRecords
  <2>6. QED  BY <1>1, <1>3, <1>5, <1>10, <2>1, <2>5 DEF Taken
<1>11. CASE c[1] = "remove"
  <2>1. PICK s : s = engine.streams \ {c[2]}  OBVIOUS
  <2>2. engine' = [e EXCEPT !.streams = s]  BY <1>5, <1>6, <1>11, <2>1
  <2>3. s \subseteq Pids  BY <2>1 DEF RunInv, EngineTyped
  <2>4. /\ engine' \in EngineRecords /\ engine'.linked = e.linked /\ engine'.inbox = e.inbox
        /\ engine'.streams = s /\ engine'.plugin = e.plugin
    BY <1>5, <2>2, <2>3 DEF EngineRecords
  <2>5. QED  BY <1>1, <1>3, <1>5, <1>11, <2>1, <2>4 DEF Taken
<1>12. CASE c[1] = "stop"
  <2>1. engine' = Streamless(e)  BY <1>6, <1>12
  <2>2. /\ engine' \in EngineRecords /\ engine'.linked = e.linked /\ engine'.inbox = e.inbox /\ engine'.streams = {}
        /\ engine'.capture = FALSE /\ engine'.plugin = e.plugin
    BY <1>5, <2>1, StreamlessIs DEF EngineRecords
  <2>3. QED  BY <1>1, <1>3, <1>5, <1>12, <2>2 DEF Taken
<1>13. CASE c[1] \notin {"capture", "load", "unload", "stream", "remove", "stop"}
  <2>1. engine' = e  BY <1>6, <1>13
  <2>2. QED  BY <1>1, <1>3, <1>5, <1>13, <2>1 DEF Taken
<1>14. QED  BY <1>7, <1>8, <1>9, <1>10, <1>11, <1>12, <1>13

\* Who is answered by what the Audio Engine takes.
Answered(c) == IF c[1] \in {"remove", "stop"} THEN {} ELSE IF c[1] = "capture" THEN KeysOf("capture") ELSE {c}
Reaches(K) ==
  /\ pending' = pending \ K
  /\ \A x : x \in got' <=> x \in got \/ \E k \in K \cap pending \cap awaited : x = <<k, TRUE>>
LEMMA AcceptAnswers ==
  ASSUME RunInv, Accept, NEW c, c = Head(engine.inbox), NEW K, K = Answered(c)
  PROVE  /\ Reaches(K)
         /\ UNCHANGED <<pc, sent, awaited, errors, planVars, endVars, reports, struck>>
<1>1. /\ CASE c[1] \in {"remove", "stop"} -> UNCHANGED <<pending, got>>
           [] c[1] = "capture" ->
               /\ pending' = pending \ KeysOf("capture")
               /\ got' = got \cup {<<k, TRUE>> : k \in KeysOf("capture") \cap pending \cap awaited}
           [] OTHER -> Resolves(c, TRUE)
      /\ UNCHANGED <<pc, sent, awaited, errors, planVars, endVars, reports, struck>>
  BY DEF Accept
<1>2. CASE c[1] \in {"remove", "stop"}
  <2>1. K = {} /\ UNCHANGED <<pending, got>>  BY <1>1, <1>2 DEF Answered
  <2>2. QED  BY <1>1, <2>1 DEF Reaches
<1>3. CASE c[1] = "capture"
  <2>1. /\ K = KeysOf("capture") /\ pending' = pending \ K
        /\ got' = got \cup {<<k, TRUE>> : k \in K \cap pending \cap awaited}
    BY <1>1, <1>3 DEF Answered
  <2>2. QED  BY <1>1, <2>1 DEF Reaches
<1>4. CASE c[1] \notin {"remove", "stop", "capture"}
  <2>1. K = {c} /\ Resolves(c, TRUE)  BY <1>1, <1>4 DEF Answered
  <2>2. QED  BY <1>1, <2>1, ResolvesReach DEF Reaches
<1>5. QED  BY <1>2, <1>3, <1>4

LEMMA KeepsAccept == ASSUME RunInv, Accept  PROVE RunInv'
<1>1. PICK c : c = Head(engine.inbox)  OBVIOUS
<1>2. Taken(c)  BY <1>1, AcceptIs
<1>3. PICK K : K = Answered(c)  OBVIOUS
<1>4. /\ pending' = pending \ K
      /\ \A x : x \in got' <=> x \in got \/ \E k \in K \cap pending \cap awaited : x = <<k, TRUE>>
      /\ UNCHANGED <<pc, sent, awaited, errors, planVars, endVars, reports, struck>>
  <2>1. Reaches(K) /\ UNCHANGED <<pc, sent, awaited, errors, planVars, endVars, reports, struck>>
    BY <1>1, <1>3, AcceptAnswers
  <2>2. QED  BY <2>1 DEF Reaches
<1>5. /\ engine.inbox # <<>> /\ engine'.inbox = Tail(engine.inbox) /\ c \in Commands
      /\ engine'.linked = engine.linked /\ EngineTyped'
  BY <1>2 DEF Taken, EngineTyped, EngineRecords
<1>6. Once' /\ Unread = Unread' \cup {c} /\ (Asks(c) => c \notin Unread')
  BY <1>1, <1>5, ReadsFirst DEF RunInv, ToCome
<1>7. Answers' /\ got \subseteq got'
  <2>1. TRUE \in BOOLEAN  OBVIOUS
  <2>2. QED  BY <1>4, <2>1, AnswersReach
<1>8. Waits'  BY <1>4 DEF RunInv, Waits, planVars, Pid
<1>9. \A x \in K : x = c \/ x = <<"capture-started">>  BY <1>3, CommandIs, <1>5 DEF Answered, KeysOf, Preparing
<1>10. \A x \in Unread : x \in Commands
  <2>1. engine.inbox \in Seq(Commands)  BY DEF RunInv, EngineTyped
  <2>2. \A q \in Seq(Commands) : \A i \in DOMAIN q : q[i] \in Commands  OBVIOUS
  <2>3. QED  BY <2>1, <2>2 DEF Unread
<1>11. <<"capture-started">> \notin Commands /\ <<"capture-started">> \notin Pids
  <2>1. <<"capture-started">>[1] = "capture-started"  OBVIOUS
  <2>2. QED  BY <2>1, CommandIs, PidIs DEF Preparing
<1>12. ToCome'
  <2>1. ASSUME NEW x \in Unread', Asks(x)  PROVE x \in pending'
    <3>1. x \in Unread /\ x \in Commands /\ x # c  BY <1>6, <1>10, <2>1
    <3>2. x \in pending  BY <2>1, <3>1 DEF RunInv, ToCome
    <3>3. QED  BY <1>4, <1>9, <1>11, <3>1, <3>2
  <2>2. engine.linked  BY <1>5 DEF RunInv, ToCome
  <2>3. QED  BY <1>5, <1>6, <2>1, <2>2 DEF ToCome
<1>13. RunTyped'  BY <1>4 DEF RunInv, RunTyped, planVars, endVars
<1>14. StruckInv'
  <2>1. Refused => Refused'  BY <1>7 DEF Refused
  <2>2. QED  BY <1>4, <2>1 DEF RunInv, StruckInv, ReadingToCome, planVars, endVars
<1>15. PlanInv' /\ Arrived' = Arrived  BY <1>4, PlanAlone
<1>16. UNCHANGED <<musicians, coming, moves, producers, out, plugin_loaded, plugin_line>>  BY <1>4 DEF planVars, endVars
<1>17. \A p \in Pids : p \in K => c = p  BY <1>9, <1>11
<1>18. EngineInv'
  <2>1. CASE pc \notin Preparing \cup Campaigning  BY <1>4, <1>6, <2>1, EngineAtEnd
  <2>2. CASE pc \in Preparing \cup Campaigning /\ c[1] = "remove"
    <3>1. PICK p \in Pids : c = <<"remove", p>> /\ c[2] = p  BY <1>5, <2>2, CommandIs, PidIs DEF Preparing
    <3>2. p \in Leaving /\ c \in Unread  BY <1>6, <3>1 DEF Leaving
    <3>3. \A r \in Pids : <<"remove", r>> = c => r = p  BY <3>1
    <3>4. Leaving' \subseteq Leaving /\ Leaving \subseteq Leaving' \cup {p}  BY <1>6, <3>3 DEF Leaving
    <3>5. engine'.streams = engine.streams \ {p}  BY <1>2, <2>2, <3>1 DEF Taken
    <3>6. \A r \in Pids : <<r, TRUE>> \in got' <=> <<r, TRUE>> \in got
      <4>1. \A r \in Pids : r # c  BY <2>2, PidIs
      <4>2. QED  BY <1>4, <1>17, <4>1
    <3>7. pc \notin {"ended", "done", "killed", "unload", "stop"}  BY <2>2 DEF Preparing, Campaigning
    <3>8. <<"stop">> \notin Unread' /\ <<"unload">> \notin Unread'  BY <1>6, <3>7 DEF RunInv, EngineInv
    <3>9. \A r \in Leaving' : r[2] \in Absent \cap Arrived' /\ r[3] = 0 /\ <<r[2], "leaves">> \notin moves'
      BY <1>15, <1>16, <2>2, <3>4 DEF RunInv, EngineInv
    <3>10. engine'.linked => \A r \in Pids :
             r \in engine'.streams \ Leaving' <=> r \in producers' \cup out' \/ <<r, TRUE>> \in got'
      <4>1. engine.linked => \A r \in Pids :
               r \in engine.streams \ Leaving <=> r \in producers \cup out \/ <<r, TRUE>> \in got
        BY <2>2 DEF RunInv, EngineInv
      <4>2. \A r \in Pids : r \in engine'.streams \ Leaving' <=> r \in engine.streams \ Leaving  BY <3>2, <3>4, <3>5
      <4>3. QED  BY <1>5, <1>16, <3>6, <4>1, <4>2
    <3>11. pc' \in Preparing => Leaving' = {}  BY <1>4, <3>4 DEF RunInv, EngineInv
    <3>12. QED  BY <3>8, <3>9, <3>10, <3>11 DEF EngineInv
  <2>3. ASSUME c[1] # "remove"  PROVE Leaving' = Leaving
    <3>1. \A p : <<"remove", p>> # c  BY <2>3
    <3>2. QED  BY <1>6, <3>1 DEF Leaving
  <2>4. CASE pc \in Preparing \cup Campaigning /\ c[1] = "stream"
    <3>1. c \in Pids /\ c \in Unread /\ Asks(c)
      BY <1>5, <1>6, <2>4, CommandIs DEF Preparing, Asks
    <3>2. pc \notin Over  BY <2>4 DEF Preparing, Campaigning, Over
    <3>3. c \in pending /\ c \in awaited  BY <3>1, <3>2 DEF RunInv, ToCome, Answers
    <3>4. pc \notin Preparing  BY <3>1, <3>3, NoStreamAwaited
    <3>5. pc = "open" /\ c = Pid(adding)
      <4>1. sent  BY <3>3 DEF RunInv, Waits
      <4>2. pc = "open"  BY <2>4, <3>4, <4>1 DEF RunInv, Waits, Campaigning
      <4>3. QED  BY <3>3, <4>1, <4>2 DEF RunInv, Waits
    <3>6. K = {c}  BY <1>3, <2>4 DEF Answered
    <3>7. \A r \in Pids : <<r, TRUE>> \in got' <=> <<r, TRUE>> \in got \/ r = c
      <4>1. K \cap pending \cap awaited = {c}  BY <3>3, <3>6
      <4>2. \A r : <<r, TRUE>> = <<c, TRUE>> <=> r = c  OBVIOUS
      <4>3. QED  BY <1>4, <4>1, <4>2
    <3>8. engine'.streams = engine.streams \cup {c}  BY <1>2, <2>4 DEF Taken
    <3>9. Leaving' = Leaving  BY <2>3, <2>4
    <3>10. \A p \in Leaving : p[2] \in Absent \cap Arrived /\ p[3] = 0 /\ <<p[2], "leaves">> \notin moves
      BY <2>4 DEF RunInv, EngineInv
    <3>11. c \notin Leaving
      <4>1. PICK m, r : m = adding.m /\ r = adding.rejoin /\ c[2] = m /\ c[3] = r /\ m \in Arrived /\ m \in 2 .. To
                        /\ r \in {0, 1}
        BY <3>5, BeingAdded
      <4>2. Scheduled(m) = Channels(m, r)  BY <3>5, <4>1 DEF RunInv, PlanInv, OnTheWay
      <4>3. SUFFICES ASSUME c \in Leaving  PROVE FALSE
        OBVIOUS
      <4>4. m \in Absent /\ r = 0 /\ <<m, "leaves">> \notin moves  BY <3>10, <4>1, <4>3
      <4>5. Channels(m, r) # {} /\ \A p \in Channels(m, r) : p[3] = 0  BY <4>1, <4>4, ChannelsAre
      <4>6. \A p \in Channels(m, 1) : p[3] = 1
        <5>1. 1 \in {0, 1}  OBVIOUS
        <5>2. QED  BY <4>1, <5>1, ChannelsAre
      <4>7. Scheduled(m) = {} \/ Scheduled(m) = Channels(m, 1)  BY <4>1, <4>4, ScheduledAre
      <4>8. QED  BY <4>2, <4>5, <4>6, <4>7
    <3>12. pc \notin {"ended", "done", "killed", "unload", "stop"}  BY <3>5
    <3>13. <<"stop">> \notin Unread' /\ <<"unload">> \notin Unread'  BY <1>6, <3>12 DEF RunInv, EngineInv
    <3>14. engine'.linked => \A r \in Pids :
             r \in engine'.streams \ Leaving' <=> r \in producers' \cup out' \/ <<r, TRUE>> \in got'
      <4>1. engine.linked => \A r \in Pids :
               r \in engine.streams \ Leaving <=> r \in producers \cup out \/ <<r, TRUE>> \in got
        BY <2>4 DEF RunInv, EngineInv
      <4>2. \A r \in Pids : r \in engine'.streams \ Leaving' <=> r \in engine.streams \ Leaving \/ r = c
        BY <3>8, <3>9, <3>11
      <4>3. QED  BY <1>5, <1>16, <3>7, <4>1, <4>2
    <3>15. \A p \in Leaving' : p[2] \in Absent \cap Arrived' /\ p[3] = 0 /\ <<p[2], "leaves">> \notin moves'
      BY <1>15, <1>16, <3>9, <3>10
    <3>16. QED  BY <1>4, <3>4, <3>13, <3>14, <3>15 DEF EngineInv
  <2>5. CASE pc \in Preparing \cup Campaigning /\ c[1] \notin {"remove", "stream"}
    <3>1. <<"stop">> \notin Unread /\ c \in Unread
      BY <1>6, <2>5 DEF RunInv, EngineInv, Preparing, Campaigning
    <3>2. c[1] # "stop"  BY <1>5, <3>1, CommandIs, PidIs DEF Preparing
    <3>3. engine'.streams = engine.streams  BY <1>2, <2>5, <3>2 DEF Taken
    <3>4. \A r \in Pids : <<r, TRUE>> \in got' <=> <<r, TRUE>> \in got
      <4>1. \A r \in Pids : r # c  BY <2>5, PidIs
      <4>2. QED  BY <1>4, <1>17, <4>1
    <3>5. Leaving' = Leaving  BY <2>3, <2>5
    <3>6. QED  BY <1>4, <1>5, <1>6, <1>15, <1>16, <2>5, <3>3, <3>4, <3>5, EngineKept
  <2>6. QED  BY <2>1, <2>2, <2>4, <2>5
<1>19. EndInv'
  <2>1. c \in Unread  BY <1>6
  <2>2. plugin_loaded => <<"load">> \notin Unread' /\ c[1] # "load"
    <3>1. plugin_loaded => <<"load">> \notin Unread  BY DEF RunInv, EndInv
    <3>2. c[1] = "load" => c = <<"load">>  BY <1>5, CommandIs, PidIs DEF Preparing
    <3>3. QED  BY <1>6, <2>1, <3>1, <3>2
  <2>3. plugin_loaded /\ ~engine.plugin => ~engine'.plugin  BY <1>2, <2>2 DEF Taken
  <2>4. ASSUME <<<<"unload">>, TRUE>> \in got'  PROVE ~engine'.plugin
    <3>1. CASE <<<<"unload">>, TRUE>> \in got
      <4>1. <<"unload">> \in awaited /\ ~engine.plugin  BY <3>1 DEF RunInv, Answers, EndInv
      <4>2. plugin_loaded  BY <4>1 DEF RunInv, Waits, EndInv
      <4>3. QED  BY <2>3, <4>1, <4>2
    <3>2. CASE <<<<"unload">>, TRUE>> \notin got
      <4>1. PICK k \in K : <<<<"unload">>, TRUE>> = <<k, TRUE>>  BY <1>4, <2>4, <3>2
      <4>2. <<"unload">> \in K  BY <4>1
      <4>3. <<"unload">> # <<"capture-started">>  OBVIOUS
      <4>4. c = <<"unload">>  BY <1>9, <4>2, <4>3
      <4>5. QED  BY <1>2, <4>4 DEF Taken
    <3>3. QED  BY <3>1, <3>2
  <2>5. ASSUME pc' = "ended", engine'.linked
        PROVE  IF engine'.inbox = <<>> THEN engine'.streams = {} /\ ~engine'.capture
               ELSE engine'.inbox[Len(engine'.inbox)] = <<"stop">>
    <3>1. engine.inbox[Len(engine.inbox)] = <<"stop">>  BY <1>4, <1>5, <2>5 DEF RunInv, EndInv
    <3>2. PICK q \in Seq(Commands) : q = engine.inbox  BY DEF RunInv, EngineTyped
    <3>3. PICK z : z = engine'.inbox /\ z = Tail(q)  BY <1>5, <3>2
    <3>4. IF z = <<>> THEN Head(q) = q[Len(q)] ELSE z[Len(z)] = q[Len(q)]  BY <1>5, <3>2, <3>3, LastStays
    <3>5. CASE z = <<>>
      <4>1. c = <<"stop">>  BY <1>1, <3>1, <3>2, <3>4, <3>5
      <4>2. QED  BY <1>2, <3>3, <3>5, <4>1 DEF Taken
    <3>6. CASE z # <<>>  BY <3>1, <3>2, <3>3, <3>4, <3>6
    <3>7. QED  BY <3>5, <3>6
  <2>6. /\ pc' \in Preparing => ~plugin_loaded'
        /\ pc' = "unload" => plugin_loaded'
        /\ plugin_loaded' /\ pc' \in {"stop", "ended", "done"} =>
             plugin_line' = "not returned" \/ (plugin_line' = "returned" /\ ~engine'.plugin)
    BY <1>4, <1>16, <2>3 DEF RunInv, EndInv
  <2>7. plugin_loaded' => <<"load">> \notin Unread'  BY <1>16, <2>2
  <2>8. QED  BY <2>4, <2>5, <2>6, <2>7 DEF EndInv
<1>20. QED  BY <1>5, <1>7, <1>8, <1>12, <1>13, <1>14, <1>15, <1>18, <1>19 DEF RunInv

LEMMA KeepsLoseLink == ASSUME RunInv, LoseLink  PROVE RunInv'
<1>1. /\ engine' = Streamless([engine EXCEPT !.linked = FALSE, !.inbox = <<>>])
      /\ got' = got \cup {<<k, FALSE>> : k \in pending \cap awaited} /\ pending' = {}
      /\ errors' = errors + 1 /\ struck' = (struck \/ ReadingToCome)
      /\ UNCHANGED <<pc, sent, awaited, planVars, endVars, reports>>
  BY DEF LoseLink
<1>2. PICK e, f : e = [engine EXCEPT !.linked = FALSE] /\ f = [e EXCEPT !.inbox = <<>>]  OBVIOUS
<1>3. e \in EngineRecords /\ e.plugin = engine.plugin /\ e.linked = FALSE
  BY <1>2 DEF RunInv, EngineTyped, EngineRecords
<1>4. f \in EngineRecords /\ f.plugin = engine.plugin /\ f.linked = FALSE /\ f.inbox = <<>>
  <2>1. <<>> \in Seq(Commands)  OBVIOUS
  <2>2. QED  BY <1>2, <1>3, <2>1 DEF EngineRecords
<1>5. engine' = Streamless(f)  BY <1>1, <1>2
<1>6. /\ engine' \in EngineRecords /\ engine'.linked = FALSE /\ engine'.inbox = <<>> /\ engine'.streams = {}
      /\ engine'.capture = FALSE /\ engine'.plugin = engine.plugin
  BY <1>4, <1>5, StreamlessIs DEF EngineRecords
<1>7. EngineTyped' /\ Once' /\ Unread' = {} /\ Leaving' = {}
  <2>1. DOMAIN engine'.inbox = {}
    <3>1. DOMAIN <<>> = {}  OBVIOUS
    <3>2. QED  BY <1>6, <3>1
  <2>2. Unread' = {} /\ Once'  BY <2>1 DEF Unread, Once
  <2>3. QED  BY <1>6, <2>2 DEF EngineTyped, EngineRecords, Leaving
<1>8. Answers' /\ got \subseteq got'
  <2>1. FALSE \in BOOLEAN  OBVIOUS
  <2>2. pending' = pending \ pending  BY <1>1
  <2>3. \A x : x \in got' <=> x \in got \/ \E k \in pending \cap pending \cap awaited : x = <<k, FALSE>>  BY <1>1
  <2>4. QED  BY <1>1, <2>1, <2>2, <2>3, AnswersReach
<1>9. Waits'  BY <1>1 DEF RunInv, Waits, planVars, Pid
<1>10. ToCome'  BY <1>6, <1>7 DEF ToCome
<1>11. errors \in Nat /\ errors' \in Nat /\ errors' > 0 /\ struck' \in BOOLEAN  BY <1>1 DEF RunInv, RunTyped
<1>12. RunTyped'  BY <1>1, <1>11 DEF RunInv, RunTyped, planVars, endVars
<1>13. StruckInv'
  <2>1. end = "complete" => ~ReadingToCome  BY DEF RunInv, StruckInv, ReadingToCome
  <2>2. pc = "sampling" /\ secs = 0 /\ musicians = To => ~ReadingToCome  BY DEF ReadingToCome
  <2>3. QED  BY <1>1, <1>11, <2>1, <2>2 DEF RunInv, StruckInv, planVars, endVars
<1>14. PlanInv' /\ Arrived' = Arrived  BY <1>1, PlanAlone
<1>15. EngineInv'  BY <1>6, <1>7 DEF EngineInv
<1>16. EndInv'
  <2>1. <<<<"unload">>, TRUE>> \in got' => <<<<"unload">>, TRUE>> \in got
    <3>1. \A k : <<<<"unload">>, TRUE>> # <<k, FALSE>>  OBVIOUS
    <3>2. QED  BY <1>1, <3>1
  <2>2. QED  BY <1>1, <1>6, <1>7, <2>1 DEF RunInv, EndInv, endVars
<1>17. QED  BY <1>7, <1>8, <1>9, <1>10, <1>12, <1>13, <1>14, <1>15, <1>16 DEF RunInv

LEMMA KeepsDisconnect == ASSUME RunInv, Disconnect  PROVE RunInv'
<1>1. /\ pc \in {"done", "killed"} /\ engine.inbox = <<>> /\ engine' = Streamless([engine EXCEPT !.linked = FALSE])
      /\ UNCHANGED <<pc, sent, pending, awaited, got, errors, planVars, endVars, reports, struck>>
  BY DEF Disconnect, linkVars
<1>2. PICK e : e = [engine EXCEPT !.linked = FALSE]  OBVIOUS
<1>3. e \in EngineRecords /\ e.plugin = engine.plugin /\ e.linked = FALSE /\ e.inbox = <<>>
  BY <1>1, <1>2 DEF RunInv, EngineTyped, EngineRecords
<1>4. /\ engine' \in EngineRecords /\ engine'.linked = FALSE /\ engine'.inbox = <<>> /\ engine'.streams = {}
      /\ engine'.capture = FALSE /\ engine'.plugin = engine.plugin
  BY <1>1, <1>2, <1>3, StreamlessIs DEF EngineRecords
<1>5. EngineTyped' /\ Once' /\ Unread' = {} /\ Leaving' = {}
  <2>1. DOMAIN engine'.inbox = {}
    <3>1. DOMAIN <<>> = {}  OBVIOUS
    <3>2. QED  BY <1>4, <3>1
  <2>2. Unread' = {} /\ Once'  BY <2>1 DEF Unread, Once
  <2>3. QED  BY <1>4, <2>2 DEF EngineTyped, EngineRecords, Leaving
<1>6. Answers' /\ Waits'  BY <1>1 DEF RunInv, Answers, Waits, planVars, Pid
<1>7. ToCome'  BY <1>4, <1>5 DEF ToCome
<1>8. RunTyped'  BY <1>1 DEF RunInv, RunTyped, planVars, endVars
<1>9. StruckInv'  BY <1>1 DEF RunInv, StruckInv, ReadingToCome, Refused, planVars, endVars
<1>10. PlanInv' /\ Arrived' = Arrived  BY <1>1, PlanAlone
<1>11. EngineInv'  BY <1>4, <1>5 DEF EngineInv
<1>12. EndInv'  BY <1>1, <1>4, <1>5 DEF RunInv, EndInv, endVars
<1>13. QED  BY <1>5, <1>6, <1>7, <1>8, <1>9, <1>10, <1>11, <1>12 DEF RunInv

LEMMA KeepsCtrlC == ASSUME RunInv, CtrlC  PROVE RunInv'
<1>1. /\ pc \notin Over /\ ~interrupted /\ engine' = engine
      /\ UNCHANGED <<sent, pending, awaited, got, errors, planVars, end, plugin_loaded, plugin_line, lists, reports>>
      /\ IF pc \in Preparing THEN pc' = "killed" /\ UNCHANGED <<interrupted, struck>>
         ELSE interrupted' = TRUE /\ struck' = (struck \/ ReadingToCome) /\ UNCHANGED pc
  BY PreparingIs DEF CtrlC, linkVars
<1>2. EngineTyped' /\ Once' /\ Unread' = Unread /\ Leaving' = Leaving  BY <1>1, EngineSame DEF RunInv, ToCome
<1>3. ToCome'  BY <1>1, <1>2 DEF RunInv, ToCome
<1>4. CASE pc \in Preparing
  <2>1. pc' = "killed" /\ UNCHANGED <<interrupted, struck>>  BY <1>1, <1>4
  <2>2. pc' \in Over /\ pc' \notin Preparing /\ pc' # "sampling" /\ pc # "unload"  BY <1>4, <2>1 DEF Over, Preparing
  <2>3. Answers'  BY <1>1, <2>2 DEF RunInv, Answers
  <2>4. Waits'  BY <1>1, <2>1, <2>2 DEF RunInv, Waits
  <2>5. RunTyped'  BY <1>1, <2>1, <2>2 DEF RunInv, RunTyped, planVars
  <2>6. StruckInv'  BY <1>1, <2>1, <2>2 DEF RunInv, StruckInv, ReadingToCome
  <2>7. PlanInv'  BY <1>1, <2>2, PlanOver DEF planVars
  <2>8. EngineInv'
    <3>1. pc' \in Over \ {"ended", "done"} /\ pc \notin {"ended", "done", "killed", "stop", "unload"}
      BY <1>4, <2>1 DEF Over, Preparing
    <3>2. QED  BY <1>2, <3>1, EngineOver
  <2>9. EndInv'  BY <1>1, <1>2, <2>1, <2>2 DEF RunInv, EndInv
  <2>10. QED  BY <1>2, <1>3, <2>3, <2>4, <2>5, <2>6, <2>7, <2>8, <2>9 DEF RunInv
<1>5. CASE pc \notin Preparing
  <2>1. interrupted' = TRUE /\ struck' = (struck \/ ReadingToCome) /\ pc' = pc  BY <1>1, <1>5
  <2>2. Answers' /\ Waits'  BY <1>1, <2>1 DEF RunInv, Answers, Waits, planVars, Pid
  <2>3. RunTyped'
    <3>1. struck' \in BOOLEAN /\ interrupted' \in BOOLEAN  BY <2>1 DEF RunInv, RunTyped
    <3>2. QED  BY <1>1, <2>1, <3>1 DEF RunInv, RunTyped, planVars
  <2>4. StruckInv'
    <3>1. end = "none"  BY <1>1 DEF RunInv, StruckInv
    <3>2. pc = "sampling" /\ secs = 0 /\ musicians = To => ~ReadingToCome  BY DEF ReadingToCome
    <3>3. QED  BY <1>1, <2>1, <3>1, <3>2 DEF RunInv, StruckInv, planVars
  <2>5. PlanInv' /\ Arrived' = Arrived  BY <1>1, <2>1, PlanAlone
  <2>6. pc \in Campaigning  BY <1>1, <1>5 DEF RunInv, RunTyped
  <2>7. EngineInv'  BY <1>1, <1>2, <2>1, <2>5, <2>6, EngineKept DEF planVars
  <2>8. EndInv'  BY <1>1, <1>2, <2>1 DEF RunInv, EndInv
  <2>9. QED  BY <1>2, <1>3, <2>2, <2>3, <2>4, <2>5, <2>7, <2>8 DEF RunInv
<1>6. QED  BY <1>4, <1>5

LEMMA KeepsStutter == ASSUME RunInv, UNCHANGED vars  PROVE RunInv'
<1>1. /\ engine' = engine
      /\ UNCHANGED <<pc, sent, pending, awaited, got, errors, planVars, endVars, struck>>
  BY DEF vars, linkVars
<1>2. EngineTyped' /\ Once' /\ Unread' = Unread /\ Leaving' = Leaving  BY <1>1, EngineSame DEF RunInv, ToCome
<1>3. Answers' /\ Waits'  BY <1>1 DEF RunInv, Answers, Waits, planVars, Pid
<1>4. ToCome'  BY <1>1, <1>2 DEF RunInv, ToCome
<1>5. RunTyped'  BY <1>1 DEF RunInv, RunTyped, planVars, endVars
<1>6. StruckInv'  BY <1>1 DEF RunInv, StruckInv, ReadingToCome, Refused, planVars, endVars
<1>7. PlanInv' /\ Arrived' = Arrived  BY <1>1, PlanAlone
<1>8. EngineInv'
  <2>1. CASE pc \in Preparing \cup Campaigning  BY <1>1, <1>2, <1>7, <2>1, EngineKept DEF planVars
  <2>2. CASE pc \notin Preparing \cup Campaigning  BY <1>1, <1>2, <2>2, EngineAtEnd
  <2>3. QED  BY <2>1, <2>2
<1>9. EndInv'  BY <1>1, <1>2 DEF RunInv, EndInv, endVars
<1>10. QED  BY <1>2, <1>3, <1>4, <1>5, <1>6, <1>7, <1>8, <1>9 DEF RunInv

LEMMA RunStays == RunInv /\ [Next]_vars => RunInv'
<1> SUFFICES ASSUME RunInv, [Next]_vars  PROVE RunInv'
  OBVIOUS
<1>1. CASE \E m \in 2 .. To : Leave(m) \/ LeaveFails(m) \/ Return(m)
  BY <1>1, KeepsLeave, KeepsLeaveFails, KeepsReturn
<1>2. CASE Request \/ Prepared \/ NoPlugin \/ GiveUp \/ CtrlC
  BY <1>2, KeepsRequest, KeepsPrepared, KeepsNoPlugin, KeepsGiveUp, KeepsCtrlC
<1>3. CASE Arrive \/ Sample1 \/ OpenDownlink \/ StartDownlink \/ AddFails
  BY <1>3, KeepsArrive, KeepsSample1, KeepsOpenDownlink, KeepsStartDownlink, KeepsAddFails
<1>4. CASE Read \/ ReadFails \/ NextStep
  BY <1>4, KeepsRead, KeepsReadFails, KeepsNextStep
<1>5. CASE Clean \/ Unloaded \/ Stop \/ Exit
  BY <1>5, KeepsClean, KeepsUnloaded, KeepsStop, KeepsExit
<1>6. CASE Accept \/ Refuse \/ Report \/ LoseLink \/ Disconnect
  BY <1>6, KeepsAccept, KeepsRefuse, KeepsReport, KeepsLoseLink, KeepsDisconnect
<1>7. CASE UNCHANGED vars  BY <1>7, KeepsStutter
<1>8. QED  BY <1>1, <1>2, <1>3, <1>4, <1>5, <1>6, <1>7 DEF Next, Bench, Engine

LEMMA RunTells == RunInv => RunIsTrue
<1> SUFFICES ASSUME RunInv  PROVE RunIsTrue
  OBVIOUS
<1>1. NoErrorSwallowed  BY DEF NoErrorSwallowed, RunInv, StruckInv
<1>2. WhoPlays
  <2> SUFFICES ASSUME pc = "sampling"
               PROVE  LET there == UNION {Scheduled(m) : m \in 2 .. musicians} IN
                        /\ producers = there /\ links = there /\ downs = there
                        /\ engine.linked /\ engine.inbox = <<>> => engine.streams = there
    BY DEF WhoPlays
  <2>1. /\ Arrived = 2 .. musicians /\ 0 \notin Arrived /\ producers = Expected /\ links = producers /\ downs = producers
    BY AtReading
  <2>2. adding = Nobody /\ out = {} /\ got = {} /\ pc \in Campaigning  BY NobodyAsks
  <2>3. Arrived \ {adding.m} = 2 .. musicians  BY <2>1, <2>2 DEF Nobody
  <2>4. Expected = UNION {Scheduled(m) : m \in 2 .. musicians}  BY <2>3 DEF Expected
  <2>5. ASSUME engine.linked, engine.inbox = <<>>  PROVE engine.streams = producers
    <3>1. DOMAIN engine.inbox = {}
      <4>1. DOMAIN <<>> = {}  OBVIOUS
      <4>2. QED  BY <2>5, <4>1
    <3>2. Leaving = {}  BY <3>1 DEF Leaving, Unread
    <3>3. \A p \in Pids : p \in engine.streams <=> p \in producers  BY <2>2, <2>5, <3>2 DEF RunInv, EngineInv
    <3>4. engine.streams \subseteq Pids /\ producers \subseteq Pids  BY DEF RunInv, EngineTyped, RunTyped
    <3>5. QED  BY <3>3, <3>4
  <2>6. QED  BY <2>1, <2>4, <2>5
<1>3. NothingLeftBehind  BY DEF NothingLeftBehind, Quiet, RunInv, EndInv
<1>4. QED  BY <1>1, <1>2, <1>3 DEF RunIsTrue

\* What a run of the bench says is true, whatever the number of musicians and the order of
\* the answers: once the Audio Engine has reported an error, the link is lost or Ctrl-C was
\* pressed, no reading ends a step as if nothing had happened; the streams measured are those of
\* the musicians said to be there; and the plugin and the streams are gone at the end, or the
\* run says so (the driver's run, add_musicians, open_downlink and clean_up).
THEOREM RunsAreTrue == Spec => []RunIsTrue
<1>1. Init => RunInv  BY RunStarts
<1>2. RunInv /\ [Next]_vars => RunInv'  BY RunStays
<1>3. RunInv => RunIsTrue  BY RunTells
<1>4. QED  BY <1>1, <1>2, <1>3, PTL DEF Spec

-----------------------------------------------------------------------------
(* The second machine of a bench on two (BenchCalls).                      *)

\* The second machine: a campaign has one command on its way at most, or its answer.
CallTypes ==
  /\ client \in [Campaigns -> {"off", "on", "closed", "vanished"}]
  /\ calls \in [Campaigns -> Nat] /\ waiting \in [Campaigns -> BOOLEAN]
  /\ answers \in [Campaigns -> Seq(Nat \X Nat)]
  /\ requests \in [Campaigns -> Seq(Nat)] /\ replies \in [Campaigns -> Seq(Nat)]
  /\ backlog \in Seq(Campaigns) /\ serving \in Campaigns \cup {NoCampaign}
Idle(c) == requests[c] = <<>> /\ replies[c] = <<>>
OnTheirWay(c) ==
  \/ requests[c] = <<calls[c]>> /\ replies[c] = <<>>
  \/ requests[c] = <<>> /\ replies[c] = <<calls[c]>>
OneCall ==
  \A c \in Campaigns :
    /\ client[c] = "off" => Idle(c) /\ ~waiting[c]
    /\ client[c] = "on" /\ ~waiting[c] => Idle(c)
    /\ client[c] = "on" /\ waiting[c] => OnTheirWay(c)
CallInv ==
  CallTypes /\ OneCall /\ Calls!AnswersMatch /\ Calls!OneCampaign /\ opened \subseteq Campaigns

LEMMA CallBounds == NoCampaign \notin Campaigns
BY BenchAssumption DEF Calls!CallsConstants

LEMMA NoCommand == <<>> \in Seq(Nat)
OBVIOUS

LEMMA CallsStart == Calls!Init => CallInv
<1> SUFFICES ASSUME Calls!Init  PROVE CallInv
  OBVIOUS
<1> USE DEF Calls!Init
<1>1. \A S : <<>> \in Seq(S)  OBVIOUS
<1>2. <<>> \in Seq(Nat \X Nat) /\ <<>> \in Seq(Nat) /\ <<>> \in Seq(Campaigns)  BY <1>1, Zenon
<1>3. answers \in [Campaigns -> Seq(Nat \X Nat)]  BY <1>2
<1>4. requests \in [Campaigns -> Seq(Nat)] /\ replies \in [Campaigns -> Seq(Nat)]  BY <1>2
<1>5. CallTypes  BY <1>2, <1>3, <1>4 DEF CallTypes
<1>6. OneCall  BY DEF OneCall, Idle
<1>7. \A c \in Campaigns : answers[c] = <<>>  OBVIOUS
<1>8. Calls!AnswersMatch  BY <1>7 DEF Calls!AnswersMatch
<1>9. QED  BY <1>5, <1>6, <1>8 DEF CallInv, Calls!OneCampaign

\* What an answer adds to those a campaign had.
LEMMA OneMore ==
  ASSUME NEW S, NEW q \in Seq(S), NEW x \in S
  PROVE  /\ Append(q, x) \in Seq(S)
         /\ \A i \in DOMAIN Append(q, x) :
              (i \in DOMAIN q /\ Append(q, x)[i] = q[i]) \/ Append(q, x)[i] = x
OBVIOUS

LEMMA CallKeeps == ASSUME CallInv, NEW c \in Campaigns, Calls!Call(c)  PROVE CallInv'
<1> USE DEF CallInv
<1>1. requests[c] = <<>> /\ replies[c] = <<>>  BY DEF Calls!Call, OneCall, Idle
<1>2. calls[c] \in Nat /\ calls[c] + 1 \in Nat  BY DEF CallTypes
<1>3. requests' = [requests EXCEPT ![c] = <<calls[c] + 1>>]
  <2>1. Append(requests[c], calls[c] + 1) = <<calls[c] + 1>>  BY <1>1, <1>2
  <2>2. QED  BY <2>1 DEF Calls!Call
<1>4. <<calls[c] + 1>> \in Seq(Nat)  BY <1>2
<1>5. /\ calls' = [calls EXCEPT ![c] = @ + 1] /\ waiting' = [waiting EXCEPT ![c] = TRUE]
      /\ UNCHANGED <<client, answers, replies, backlog, serving, opened>>
  BY DEF Calls!Call
<1>6. requests' \in [Campaigns -> Seq(Nat)]  BY <1>3, <1>4 DEF CallTypes
<1>7. CallTypes'  BY <1>2, <1>5, <1>6 DEF CallTypes
<1>8. OneCall'
  <2> SUFFICES ASSUME NEW d \in Campaigns
               PROVE  /\ client'[d] = "off" => Idle(d)' /\ ~waiting'[d]
                      /\ client'[d] = "on" /\ ~waiting'[d] => Idle(d)'
                      /\ client'[d] = "on" /\ waiting'[d] => OnTheirWay(d)'
    BY DEF OneCall, Idle, OnTheirWay
  <2>1. CASE d = c
    <3>1. client'[c] = "on" /\ waiting'[c]  BY <1>5 DEF Calls!Call, CallTypes
    <3>2. requests'[c] = <<calls'[c]>> /\ replies'[c] = <<>>
      BY <1>1, <1>3, <1>5 DEF CallTypes
    <3>3. QED  BY <2>1, <3>1, <3>2 DEF OnTheirWay
  <2>2. CASE d # c
    <3>1. /\ client'[d] = client[d] /\ waiting'[d] = waiting[d] /\ calls'[d] = calls[d]
          /\ requests'[d] = requests[d] /\ replies'[d] = replies[d]
      BY <1>3, <1>5, <2>2 DEF CallTypes
    <3>2. QED  BY <3>1 DEF OneCall, Idle, OnTheirWay
  <2>3. QED  BY <2>1, <2>2
<1>9. QED  BY <1>5, <1>7, <1>8 DEF Calls!AnswersMatch, Calls!OneCampaign

\* The answer taken is to the one command on its way.
LEMMA AnsweredKeeps == ASSUME CallInv, NEW c \in Campaigns, Calls!Answered(c)  PROVE CallInv'
<1> USE DEF CallInv
<1>1. client[c] = "on" /\ waiting[c] /\ replies[c] = <<calls[c]>> /\ requests[c] = <<>>
  BY DEF Calls!Answered, OneCall, OnTheirWay
<1>2. calls[c] \in Nat  BY DEF CallTypes
<1>3. Head(replies[c]) = calls[c] /\ Tail(replies[c]) = <<>>  BY <1>1, <1>2
<1>4. /\ answers' = [answers EXCEPT ![c] = Append(@, <<calls[c], calls[c]>>)]
      /\ replies' = [replies EXCEPT ![c] = <<>>] /\ waiting' = [waiting EXCEPT ![c] = FALSE]
      /\ UNCHANGED <<client, calls, requests, backlog, serving, opened>>
  BY <1>3 DEF Calls!Answered
<1>5. <<calls[c], calls[c]>> \in Nat \X Nat  BY <1>2
<1>6. answers[c] \in Seq(Nat \X Nat)  BY DEF CallTypes
<1> DEFINE now == Append(answers[c], <<calls[c], calls[c]>>)
<1>7. /\ now \in Seq(Nat \X Nat)
      /\ \A i \in DOMAIN now : (i \in DOMAIN answers[c] /\ now[i] = answers[c][i])
                               \/ now[i] = <<calls[c], calls[c]>>
  BY <1>5, <1>6, OneMore
<1>8. answers' = [answers EXCEPT ![c] = now]  BY <1>4
<1> HIDE DEF now
<1>9. answers' \in [Campaigns -> Seq(Nat \X Nat)]  BY <1>7, <1>8 DEF CallTypes
<1>10. replies' \in [Campaigns -> Seq(Nat)]  BY <1>4, NoCommand DEF CallTypes
<1>11. CallTypes'  BY <1>4, <1>9, <1>10 DEF CallTypes
<1>12. OneCall'
  <2> SUFFICES ASSUME NEW d \in Campaigns
               PROVE  /\ client'[d] = "off" => Idle(d)' /\ ~waiting'[d]
                      /\ client'[d] = "on" /\ ~waiting'[d] => Idle(d)'
                      /\ client'[d] = "on" /\ waiting'[d] => OnTheirWay(d)'
    BY DEF OneCall, Idle, OnTheirWay
  <2>1. CASE d = c
    <3>1. client'[c] = "on" /\ ~waiting'[c] /\ requests'[c] = <<>> /\ replies'[c] = <<>>
      BY <1>1, <1>4 DEF CallTypes
    <3>2. QED  BY <2>1, <3>1 DEF Idle
  <2>2. CASE d # c
    <3>1. /\ client'[d] = client[d] /\ waiting'[d] = waiting[d] /\ calls'[d] = calls[d]
          /\ requests'[d] = requests[d] /\ replies'[d] = replies[d]
      BY <1>4, <2>2 DEF CallTypes
    <3>2. QED  BY <3>1 DEF OneCall, Idle, OnTheirWay
  <2>3. QED  BY <2>1, <2>2
<1>13. Calls!AnswersMatch'
  <2>1. \A d \in Campaigns : answers'[d] = IF d = c THEN now ELSE answers[d]
    BY <1>8 DEF CallTypes
  <2>2. \A i \in DOMAIN now : now[i][1] = now[i][2]
    <3> SUFFICES ASSUME NEW i \in DOMAIN now  PROVE now[i][1] = now[i][2]
      OBVIOUS
    <3>1. CASE i \in DOMAIN answers[c] /\ now[i] = answers[c][i]
      BY <3>1 DEF Calls!AnswersMatch
    <3>2. CASE now[i] = <<calls[c], calls[c]>>  BY <3>2
    <3>3. QED  BY <1>7, <3>1, <3>2
  <2>3. QED  BY <2>1, <2>2 DEF Calls!AnswersMatch
<1>14. QED  BY <1>4, <1>11, <1>12, <1>13 DEF Calls!OneCampaign

\* A line is done and answered: the answer is on its way in its place.
LEMMA HandleKeeps == ASSUME CallInv, Calls!Handle  PROVE CallInv'
<1> USE DEF CallInv
<1> DEFINE c == serving
<1>1. c \in Campaigns /\ requests[c] # <<>>  BY DEF Calls!Handle, CallTypes
<1>2. requests[c] \in Seq(Nat) /\ replies[c] \in Seq(Nat)  BY <1>1 DEF CallTypes
<1>3. Head(requests[c]) \in Nat /\ Tail(requests[c]) \in Seq(Nat)  BY <1>1, <1>2
<1>4. Append(replies[c], Head(requests[c])) \in Seq(Nat)  BY <1>2, <1>3
<1>5. /\ requests' = [requests EXCEPT ![c] = Tail(requests[c])]
      /\ replies' = [replies EXCEPT ![c] = Append(replies[c], Head(requests[c]))]
      /\ opened' = opened \cup {c}
      /\ UNCHANGED <<client, calls, waiting, answers, backlog, serving>>
  BY DEF Calls!Handle
<1>6. requests' \in [Campaigns -> Seq(Nat)]  BY <1>3, <1>5 DEF CallTypes
<1>7. replies' \in [Campaigns -> Seq(Nat)]  BY <1>4, <1>5 DEF CallTypes
<1>8. CallTypes'  BY <1>5, <1>6, <1>7 DEF CallTypes
<1>9. client[c] # "off" /\ ~(client[c] = "on" /\ ~waiting[c])  BY <1>1 DEF OneCall, Idle
<1>10. client[c] = "on" => requests'[c] = <<>> /\ replies'[c] = <<calls[c]>>
  <2> SUFFICES ASSUME client[c] = "on"  PROVE requests'[c] = <<>> /\ replies'[c] = <<calls[c]>>
    OBVIOUS
  <2>1. waiting[c]  BY <1>1, <1>9 DEF CallTypes
  <2>2. requests[c] = <<calls[c]>> /\ replies[c] = <<>>
    BY <1>1, <2>1 DEF OneCall, OnTheirWay
  <2>3. calls[c] \in Nat  BY <1>1 DEF CallTypes
  <2>4. Head(requests[c]) = calls[c] /\ Tail(requests[c]) = <<>>  BY <2>2, <2>3
  <2>5. Append(replies[c], Head(requests[c])) = <<calls[c]>>  BY <2>2, <2>3, <2>4
  <2>6. QED  BY <1>1, <1>5, <2>4, <2>5 DEF CallTypes
<1>11. OneCall'
  <2> SUFFICES ASSUME NEW d \in Campaigns
               PROVE  /\ client'[d] = "off" => Idle(d)' /\ ~waiting'[d]
                      /\ client'[d] = "on" /\ ~waiting'[d] => Idle(d)'
                      /\ client'[d] = "on" /\ waiting'[d] => OnTheirWay(d)'
    BY DEF OneCall, Idle, OnTheirWay
  <2>1. CASE d = c
    <3>1. client' = client /\ waiting' = waiting /\ calls' = calls  BY <1>5
    <3>2. QED  BY <1>9, <1>10, <2>1, <3>1 DEF OnTheirWay
  <2>2. CASE d # c
    <3>1. /\ client'[d] = client[d] /\ waiting'[d] = waiting[d] /\ calls'[d] = calls[d]
          /\ requests'[d] = requests[d] /\ replies'[d] = replies[d]
      BY <1>5, <2>2 DEF CallTypes
    <3>2. QED  BY <3>1 DEF OneCall, Idle, OnTheirWay
  <2>3. QED  BY <2>1, <2>2
<1>12. Calls!AnswersMatch'  BY <1>5 DEF Calls!AnswersMatch
<1>13. Calls!OneCampaign' /\ opened' \subseteq Campaigns
  BY <1>1, <1>5 DEF Calls!OneCampaign
<1>14. QED  BY <1>8, <1>11, <1>12, <1>13

\* A campaign comes, ends, or is gone; the machine takes the next one, or lets go of one.
LEMMA ComeAndGo ==
  ASSUME CallInv, NEW c \in Campaigns, Calls!Connect(c) \/ Calls!Close(c) \/ Calls!Vanish(c)
  PROVE  CallInv'
<1> USE DEF CallInv
<1>1. UNCHANGED <<calls, answers, requests, replies, serving, opened>>
  BY DEF Calls!Connect, Calls!Close, Calls!Vanish
<1>2. backlog' \in Seq(Campaigns)
  <2>1. CASE Calls!Connect(c)
    <3>1. backlog' = Append(backlog, c) /\ backlog \in Seq(Campaigns)
      BY <2>1 DEF Calls!Connect, CallTypes
    <3>2. QED  BY <3>1
  <2>2. CASE Calls!Close(c) \/ Calls!Vanish(c)
    BY <2>2 DEF Calls!Close, Calls!Vanish, CallTypes
  <2>3. QED  BY <2>1, <2>2
<1>3. /\ client' \in [Campaigns -> {"off", "on", "closed", "vanished"}]
      /\ waiting' \in [Campaigns -> BOOLEAN]
  BY DEF Calls!Connect, Calls!Close, Calls!Vanish, CallTypes
<1>4. CallTypes'  BY <1>1, <1>2, <1>3 DEF CallTypes
<1>5. OneCall'
  <2> SUFFICES ASSUME NEW d \in Campaigns
               PROVE  /\ client'[d] = "off" => Idle(d)' /\ ~waiting'[d]
                      /\ client'[d] = "on" /\ ~waiting'[d] => Idle(d)'
                      /\ client'[d] = "on" /\ waiting'[d] => OnTheirWay(d)'
    BY DEF OneCall, Idle, OnTheirWay
  <2>1. CASE d # c
    <3>1. client'[d] = client[d] /\ waiting'[d] = waiting[d]
      BY <2>1 DEF Calls!Connect, Calls!Close, Calls!Vanish, CallTypes
    <3>2. QED  BY <1>1, <3>1 DEF OneCall, Idle, OnTheirWay
  <2>2. CASE d = c /\ Calls!Connect(c)
    <3>1. client[c] = "off" /\ client'[c] = "on" /\ waiting' = waiting
      BY <2>2 DEF Calls!Connect, CallTypes
    <3>2. QED  BY <1>1, <2>2, <3>1 DEF OneCall, Idle, OnTheirWay
  <2>3. CASE d = c /\ (Calls!Close(c) \/ Calls!Vanish(c))
    <3>1. client'[c] \in {"closed", "vanished"}
      BY <2>3 DEF Calls!Close, Calls!Vanish, CallTypes
    <3>2. QED  BY <2>3, <3>1
  <2>4. QED  BY <2>1, <2>2, <2>3
<1>6. QED  BY <1>1, <1>4, <1>5 DEF Calls!AnswersMatch, Calls!OneCampaign

LEMMA SessionKeeps == ASSUME CallInv, Calls!Accept \/ Calls!EndSession  PROVE CallInv'
<1> USE DEF CallInv
<1>1. UNCHANGED <<client, calls, waiting, answers, requests, replies>>
  BY DEF Calls!Accept, Calls!EndSession
<1>2. /\ backlog' \in Seq(Campaigns) /\ serving' \in Campaigns \cup {NoCampaign}
      /\ opened' = {}
  <2>1. CASE Calls!Accept
    <3>1. backlog \in Seq(Campaigns) /\ backlog # <<>>  BY <2>1 DEF Calls!Accept, CallTypes
    <3>2. Head(backlog) \in Campaigns /\ Tail(backlog) \in Seq(Campaigns)  BY <3>1
    <3>3. opened = {}  BY <2>1, CallBounds DEF Calls!Accept, Calls!OneCampaign
    <3>4. QED  BY <2>1, <3>2, <3>3 DEF Calls!Accept
  <2>2. CASE Calls!EndSession  BY <2>2 DEF Calls!EndSession, CallTypes
  <2>3. QED  BY <2>1, <2>2
<1>3. CallTypes'  BY <1>1, <1>2 DEF CallTypes
<1>4. QED
  BY <1>1, <1>2, <1>3 DEF OneCall, Idle, OnTheirWay, Calls!AnswersMatch, Calls!OneCampaign

LEMMA CallSteps == CallInv /\ [Calls!Next]_Calls!vars => CallInv'
<1> SUFFICES ASSUME CallInv, [Calls!Next]_Calls!vars  PROVE CallInv'
  OBVIOUS
<1>1. CASE Calls!Server
  BY <1>1, HandleKeeps, SessionKeeps DEF Calls!Server
<1>2. ASSUME NEW c \in Campaigns,
             Calls!Connect(c) \/ Calls!Campaign(c) \/ Calls!Vanish(c)
      PROVE  CallInv'
  BY <1>2, CallKeeps, AnsweredKeeps, ComeAndGo DEF Calls!Campaign, Calls!CallFails, Calls!EndCampaign
<1>3. CASE UNCHANGED Calls!vars
  BY <1>3 DEF Calls!vars, CallInv, CallTypes, OneCall, Idle, OnTheirWay, Calls!AnswersMatch,
              Calls!OneCampaign
<1>4. QED  BY <1>1, <1>2, <1>3 DEF Calls!Next

\* Whatever the campaigns that share the second machine do, each answer taken is to the
\* command just sent and nothing of a campaign is served within another's (remote.rs, serve).
THEOREM CampaignsAreServed == Calls!Spec => []CampaignServed
<1>1. CallInv => CampaignServed  BY DEF CallInv, CampaignServed
<1>2. QED  BY CallsStart, CallSteps, <1>1, PTL DEF Calls!Spec

-----------------------------------------------------------------------------
(* The verdicts of the campaigns (BenchCampaign).                          *)

\* A passage keeps what its scenario gave, all of it measured or none.
Ends == UNION {Results[name] : name \in DOMAIN Results}
Statuses == {"complete", "stopped", "failed"}
Passage ==
  [name : DOMAIN Results, fingerprint : Nat, status : Statuses, csv : Ends,
   metrics : Ends \cup {Several!Blind(r) : r \in Ends}]
Faithful(e) == e.status = e.csv.status /\ e.metrics \in {e.csv, Several!Blind(e.csv)}
Passages == {e \in Passage : Faithful(e)}
Kinds == {"rapide", "bruit", "importee"}
CampaignType == [kind : Kinds, setup : 1 .. 2, entries : Seq(Passages)]

VerdictTypes ==
  /\ campaigns \in Seq(CampaignType) /\ setup \in 1 .. 2 /\ library \in Nat
  /\ running \in 0 .. Len(campaigns) /\ reference \in 0 .. Len(campaigns)
\* The campaign being run is judged when it is over; until then nothing is said.
NotYetJudged ==
  running # 0 =>
    /\ said = Several!Silent /\ campaigns[running].kind \in {"rapide", "bruit"}
    /\ Len(campaigns[running].entries) =< Len(Several!Entries(campaigns[running].kind))
Judged ==
  said.outcome = "no regression" =>
    /\ said.of \in DOMAIN campaigns /\ said.against \in DOMAIN campaigns
    /\ \A c, r : c = campaigns[said.of] /\ r = campaigns[said.against] => Several!Earned(c, r)
VerdictInv == VerdictTypes /\ NotYetJudged /\ Judged

\* An element of a sequence, and what one more, or another in its place, makes of it.
LEMMA ElementOf == ASSUME NEW S, NEW q \in Seq(S), NEW i \in 1 .. Len(q)  PROVE q[i] \in S
OBVIOUS
LEMMA LenOf == ASSUME NEW S, NEW q \in Seq(S)  PROVE Len(q) \in Nat /\ DOMAIN q = 1 .. Len(q)
OBVIOUS
LEMMA Within == \A n \in Nat : 0 \in 0 .. n /\ \A k \in 0 .. n : k = 0 \/ k \in 1 .. n
OBVIOUS
LEMMA Further == \A n \in Nat : n + 1 \in 1 .. n + 1 /\ \A k \in 1 .. n : k \in 1 .. n + 1
OBVIOUS
LEMMA NoZeroth == \A n \in Nat : 0 \notin 1 .. n
OBVIOUS
LEMMA OneMoreOf ==
  ASSUME NEW S, NEW q \in Seq(S), NEW x \in S
  PROVE  /\ Append(q, x) \in Seq(S) /\ Len(Append(q, x)) = Len(q) + 1 /\ Len(q) \in Nat
         /\ Append(q, x)[Len(q) + 1] = x /\ \A i \in 1 .. Len(q) : Append(q, x)[i] = q[i]
OBVIOUS
LEMMA OtherAt ==
  ASSUME NEW S, NEW q \in Seq(S), NEW i \in 1 .. Len(q), NEW x \in S
  PROVE  /\ [q EXCEPT ![i] = x] \in Seq(S) /\ Len([q EXCEPT ![i] = x]) = Len(q)
         /\ [q EXCEPT ![i] = x][i] = x
OBVIOUS

\* What a scenario leaves, and its metrics.
LEMMA EndFields ==
  ASSUME Several!CampaignConstants, NEW r \in Ends
  PROVE  /\ r.status \in Statuses /\ r.fails \in BOOLEAN /\ r.precise \in BOOLEAN
         /\ \A s \in DOMAIN r.streams : r.streams[s] \in Nat
         /\ Several!Blind(r).fails = r.fails /\ Several!Blind(r).precise = r.precise
         /\ Several!Blind(r).streams = [s \in DOMAIN r.streams |-> Several!Unknown]
<1>1. Several!Result(r)  BY DEF Ends, Several!CampaignConstants
<1>2. /\ r.status \in Statuses /\ r.fails \in BOOLEAN /\ r.precise \in BOOLEAN
      /\ \A s \in DOMAIN r.streams : r.streams[s] \in Nat
  BY <1>1 DEF Several!Result, Statuses
<1>3. r = [status |-> r.status, streams |-> r.streams, fails |-> r.fails, precise |-> r.precise]
  BY <1>1 DEF Several!Result
<1>4. \A a, b, c, d, x : LET q == [status |-> a, streams |-> b, fails |-> c, precise |-> d]
                             z == [q EXCEPT !.streams = x]
                         IN  z.fails = c /\ z.precise = d /\ z.streams = x
  OBVIOUS
<1>5. \A x : LET z == [r EXCEPT !.streams = x] IN z.fails = r.fails /\ z.precise = r.precise /\ z.streams = x
  <2> DEFINE a == r.status
             b == r.streams
             c == r.fails
             d == r.precise
  <2>1. r = [status |-> a, streams |-> b, fails |-> c, precise |-> d]  BY <1>3
  <2> HIDE DEF a, b, c, d
  <2>2. r.fails = c /\ r.precise = d  BY <2>1
  <2>3. QED  BY <1>4, <2>1, <2>2
<1>6. Several!Blind(r) = [r EXCEPT !.streams = [s \in DOMAIN r.streams |-> Several!Unknown]]
  BY DEF Several!Blind
<1>7. QED  BY <1>2, <1>5, <1>6

LEMMA PassageFields ==
  ASSUME Several!CampaignConstants, NEW e \in Passages
  PROVE  /\ e.csv \in Ends /\ e.status = e.csv.status /\ e.status \in Statuses
         /\ e.metrics.fails = e.csv.fails /\ e.metrics.precise = e.csv.precise
         /\ e.metrics.fails \in BOOLEAN /\ e.metrics.precise \in BOOLEAN
         /\ DOMAIN e.metrics.streams = DOMAIN e.csv.streams
         /\ \A s \in DOMAIN e.csv.streams :
              /\ e.csv.streams[s] \in Nat
              /\ e.metrics.streams[s] # Several!Unknown => e.metrics.streams[s] = e.csv.streams[s]
<1>1. e.csv \in Ends /\ Faithful(e)  BY DEF Passages, Passage
<1> DEFINE r == e.csv
           m == e.metrics
<1>2. r \in Ends /\ e.status = r.status /\ (m = r \/ m = Several!Blind(r))  BY <1>1 DEF Faithful
<1> HIDE DEF r, m
<1>3. /\ r.status \in Statuses /\ r.fails \in BOOLEAN /\ r.precise \in BOOLEAN
      /\ \A s \in DOMAIN r.streams : r.streams[s] \in Nat
      /\ Several!Blind(r).fails = r.fails /\ Several!Blind(r).precise = r.precise
      /\ Several!Blind(r).streams = [s \in DOMAIN r.streams |-> Several!Unknown]
  BY <1>2, EndFields
<1>4. /\ m.fails = r.fails /\ m.precise = r.precise /\ DOMAIN m.streams = DOMAIN r.streams
      /\ \A s \in DOMAIN r.streams : m.streams[s] # Several!Unknown => m.streams[s] = r.streams[s]
  <2>1. CASE m = r  BY <2>1
  <2>2. CASE m = Several!Blind(r)  BY <1>3, <2>2
  <2>3. QED  BY <1>2, <2>1, <2>2
<1>5. QED  BY <1>2, <1>3, <1>4 DEF r, m

\* What is judged without regression is compared with a passage of the reference, under the
\* same conditions, and not worse.
LEMMA ComparedWell ==
  ASSUME Several!CampaignConstants, NEW e \in Passages, NEW refs \in SUBSET Passages,
         Several!CompareScenario(e, refs) = "no regression"
  PROVE  \E x \in refs :
           /\ x.fingerprint = e.fingerprint /\ Several!Complete(e)
           /\ e.csv.precise /\ x.csv.precise /\ (e.csv.fails => x.csv.fails)
           /\ \A s \in DOMAIN e.csv.streams :
                /\ s \in DOMAIN x.csv.streams
                /\ e.metrics.streams[s] # Several!Unknown =>
                     /\ x.metrics.streams[s] # Several!Unknown
                     /\ ~(e.csv.streams[s] - x.csv.streams[s] > Several!Allowed(e.name, s))
<1>1. refs # {}  BY DEF Several!CompareScenario
<1> DEFINE x == CHOOSE y \in refs : TRUE
<1>2. x \in refs /\ x \in Passages  BY <1>1
<1>3. /\ ~(~Several!Complete(e) \/ e.fingerprint # x.fingerprint \/ ~e.metrics.precise \/ ~x.metrics.precise)
      /\ ~("worse" \in Several!StreamChecks(e, x) \/ (e.metrics.fails /\ ~x.metrics.fails))
      /\ "unmeasured" \notin Several!StreamChecks(e, x)
  BY <1>1 DEF Several!CompareScenario
<1> HIDE DEF x
<1>4. /\ e.metrics.fails = e.csv.fails /\ e.metrics.precise = e.csv.precise
      /\ DOMAIN e.metrics.streams = DOMAIN e.csv.streams
      /\ \A s \in DOMAIN e.csv.streams :
           /\ e.csv.streams[s] \in Nat
           /\ e.metrics.streams[s] # Several!Unknown => e.metrics.streams[s] = e.csv.streams[s]
  BY PassageFields
<1>5. /\ x.metrics.fails = x.csv.fails /\ x.metrics.precise = x.csv.precise
      /\ DOMAIN x.metrics.streams = DOMAIN x.csv.streams
      /\ \A s \in DOMAIN x.csv.streams :
           /\ x.csv.streams[s] \in Nat
           /\ x.metrics.streams[s] # Several!Unknown => x.metrics.streams[s] = x.csv.streams[s]
  BY <1>2, PassageFields
<1>6. ASSUME NEW s \in DOMAIN e.csv.streams
      PROVE  /\ s \in DOMAIN x.csv.streams
             /\ e.metrics.streams[s] # Several!Unknown =>
                  /\ x.metrics.streams[s] # Several!Unknown
                  /\ ~(e.csv.streams[s] - x.csv.streams[s] > Several!Allowed(e.name, s))
  <2> DEFINE check == IF s \in DOMAIN x.metrics.streams
                      THEN Several!Check(e.name, s, e.metrics.streams[s], x.metrics.streams[s])
                      ELSE "worse"
  <2>1. check \in Several!StreamChecks(e, x)
    BY <1>4, <1>6 DEF Several!StreamChecks
  <2>2. check # "worse" /\ check # "unmeasured"  BY <1>3, <2>1
  <2>3. s \in DOMAIN x.metrics.streams  BY <2>2
  <2>4. Several!Check(e.name, s, e.metrics.streams[s], x.metrics.streams[s]) \notin {"worse", "unmeasured"}
    BY <2>2, <2>3
  <2>5. ASSUME e.metrics.streams[s] # Several!Unknown
        PROVE  /\ x.metrics.streams[s] # Several!Unknown
               /\ ~(e.metrics.streams[s] - x.metrics.streams[s] > Several!Allowed(e.name, s))
    BY <2>4, <2>5 DEF Several!Check
  <2>6. QED  BY <1>4, <1>5, <2>3, <2>5
<1>7. QED  BY <1>2, <1>3, <1>4, <1>5, <1>6

\* The passages of a campaign, and those its metrics are taken from.
LEMMA RanOf ==
  ASSUME NEW c \in CampaignType
  PROVE  /\ Several!Ran(c) \subseteq Passages
         /\ \A name : Several!MetricsOf(c, name) \subseteq Passages
         /\ \A name : \A x \in Several!MetricsOf(c, name) : x \in Several!Ran(c) /\ x.name = name
<1>1. c.entries \in Seq(Passages)  BY DEF CampaignType
<1>2. \A i \in DOMAIN c.entries : c.entries[i] \in Passages  BY <1>1
<1>3. QED  BY <1>2 DEF Several!Ran, Several!MetricsOf, Several!First

\* "No regression": said of a campaign that was all run, and compared.
LEMMA JudgedWell ==
  ASSUME Several!CampaignConstants, VerdictTypes, NEW c \in CampaignType,
         NEW ref \in 0 .. Len(campaigns), Several!Outcome(c, ref) = "no regression"
  PROVE  ref # 0 /\ Several!Earned(c, campaigns[ref])
<1> DEFINE os == Several!Outcomes(c, ref)
<1>1. "regression" \notin os /\ os # {} /\ "inconclusive" \notin os
  BY DEF Several!Outcome
<1>2. Several!Asked(c.kind) \ {e.name : e \in Several!Ran(c)} = {}
  BY <1>1 DEF Several!Outcomes
<1>3. \A n \in Several!Asked(c.kind) : \E e \in Several!Ran(c) : e.name = n
  BY <1>2
<1> DEFINE Outcome(e) ==
             IF ~Several!Written(e) \/ (ref # Several!NoRecord /\ campaigns[ref].setup # c.setup) THEN "inconclusive"
             ELSE Several!CompareScenario(e, IF ref = Several!NoRecord THEN {}
                                              ELSE Several!MetricsOf(campaigns[ref], e.name))
<1>4. os = {Outcome(e) : e \in Several!Ran(c)}
  BY <1>2 DEF Several!Outcomes
<1>5. \A e \in Several!Ran(c) : Outcome(e) # "regression" /\ Outcome(e) # "inconclusive"
  BY <1>1, <1>4
<1>6. \E e \in Several!Ran(c) : TRUE  BY <1>1, <1>4
<1>7. Several!NoRecord = 0  BY DEF Several!NoRecord
<1> HIDE DEF os
<1>8. ref # 0
  <2> SUFFICES ASSUME ref = 0  PROVE FALSE
    OBVIOUS
  <2>1. PICK e \in Several!Ran(c) : TRUE  BY <1>6
  <2>2. Several!CompareScenario(e, {}) = "inconclusive"  BY DEF Several!CompareScenario
  <2>3. Outcome(e) = "inconclusive"  BY <1>7, <2>2
  <2>4. QED  BY <1>5, <2>1, <2>3
<1>9. campaigns[ref] \in CampaignType
  <2> HIDE DEF Outcome
  <2>1. campaigns \in Seq(CampaignType)  BY DEF VerdictTypes
  <2>2. Len(campaigns) \in Nat  BY <2>1, LenOf
  <2>3. ref \in 1 .. Len(campaigns)  BY <1>8, <2>2, Within, Zenon
  <2>4. QED  BY <2>1, <2>3, ElementOf
<1>10. \A e \in Several!Ran(c) :
         /\ campaigns[ref].setup = c.setup
         /\ Several!CompareScenario(e, Several!MetricsOf(campaigns[ref], e.name)) \notin {"regression", "inconclusive"}
  BY <1>5, <1>7, <1>8
<1>11. \A e, refs : Several!CompareScenario(e, refs) \in {"regression", "inconclusive", "no regression"}
  BY DEF Several!CompareScenario
<1>12. campaigns[ref].setup = c.setup  BY <1>6, <1>10
<1>13. ASSUME NEW e \in Several!Ran(c)
       PROVE  \E x \in Several!Ran(campaigns[ref]) :
                /\ x.name = e.name /\ x.fingerprint = e.fingerprint /\ Several!Complete(e)
                /\ e.csv.precise /\ x.csv.precise /\ (e.csv.fails => x.csv.fails)
                /\ \A s \in DOMAIN e.csv.streams :
                     /\ s \in DOMAIN x.csv.streams
                     /\ e.metrics.streams[s] # Several!Unknown =>
                          /\ x.metrics.streams[s] # Several!Unknown
                          /\ ~(e.csv.streams[s] - x.csv.streams[s] > Several!Allowed(e.name, s))
  <2> DEFINE refs == Several!MetricsOf(campaigns[ref], e.name)
  <2>1. Several!CompareScenario(e, refs) = "no regression"  BY <1>10, <1>11, <1>13
  <2>2. refs \in SUBSET Passages /\ e \in Passages /\ \A x \in refs : x \in Several!Ran(campaigns[ref]) /\ x.name = e.name
    BY <1>9, <1>13, RanOf
  <2> HIDE DEF refs
  <2>3. PICK x \in refs :
           /\ x.fingerprint = e.fingerprint /\ Several!Complete(e)
           /\ e.csv.precise /\ x.csv.precise /\ (e.csv.fails => x.csv.fails)
           /\ \A s \in DOMAIN e.csv.streams :
                /\ s \in DOMAIN x.csv.streams
                /\ e.metrics.streams[s] # Several!Unknown =>
                     /\ x.metrics.streams[s] # Several!Unknown
                     /\ ~(e.csv.streams[s] - x.csv.streams[s] > Several!Allowed(e.name, s))
    BY <2>1, <2>2, ComparedWell
  <2>4. QED  BY <2>2, <2>3
<1>14. QED  BY <1>3, <1>8, <1>12, <1>13 DEF Several!Earned

-----------------------------------------------------------------------------
\* The scenarios of a campaign are those of the series.
LEMMA AskedOf ==
  ASSUME Several!CampaignConstants, NEW kind \in {"rapide", "bruit"}
  PROVE  /\ Len(Several!Entries(kind)) \in Nat
         /\ \A i \in 1 .. Len(Several!Entries(kind)) : Several!Entries(kind)[i] \in DOMAIN Results
<1>1. Series \in Seq(DOMAIN Results) /\ Len(Series) \in Nat \ {0} /\ NoiseRuns \in Nat \ {0}
  BY DEF Several!CampaignConstants
<1>2. CASE kind = "rapide"
  <2>1. Several!Entries(kind) = Series  BY <1>2 DEF Several!Entries
  <2>2. QED  BY <1>1, <2>1, ElementOf
<1>3. CASE kind = "bruit"
  <2> DEFINE n == NoiseRuns * Len(Series)
             l == Len(Series)
  <2>1. n \in Nat /\ l \in Nat \ {0}  BY <1>1
  <2> HIDE DEF n, l
  <2>2. Several!Entries(kind) = [i \in 1 .. n |-> Series[1 + ((i - 1) % l)]]
    BY <1>3 DEF Several!Entries, n, l
  <2>3. Len(Several!Entries(kind)) = n  BY <2>1, <2>2
  <2>4. \A i \in 1 .. n : 1 + ((i - 1) % l) \in 1 .. l  BY <2>1
  <2>5. \A j \in 1 .. l : Series[j] \in DOMAIN Results  BY <1>1, ElementOf DEF l
  <2>6. QED  BY <2>1, <2>2, <2>3, <2>4, <2>5
<1>4. QED  BY <1>2, <1>3

LEMMA NewEntry ==
  ASSUME Several!CampaignConstants, VerdictTypes, NEW name \in DOMAIN Results, NEW e0 \in Results[name]
  PROVE  Several!Entry(name, e0) \in Passages
<1>1. e0 \in Ends /\ e0.status \in Statuses  BY EndFields DEF Ends
<1>2. Several!Metrics(e0) \in {e0, Several!Blind(e0)}  BY DEF Several!Metrics
<1> DEFINE e == Several!Entry(name, e0)
<1>3. e = [name |-> name, fingerprint |-> library, status |-> e0.status, csv |-> e0,
           metrics |-> Several!Metrics(e0)]
  BY DEF Several!Entry
<1>4. e \in Passage  BY <1>1, <1>2, <1>3 DEF Passage, VerdictTypes
<1>5. Faithful(e)  BY <1>2, <1>3 DEF Faithful
<1>6. QED  BY <1>4, <1>5 DEF Passages

LEMMA VerdictStarts == Several!Init => VerdictInv
<1> SUFFICES ASSUME Several!Init  PROVE VerdictInv
  OBVIOUS
<1>1. campaigns = <<>> /\ running = 0 /\ reference = 0 /\ setup = 1 /\ library = 1 /\ said = Several!Silent
  BY DEF Several!Init, Several!NoRecord
<1>2. campaigns \in Seq(CampaignType) /\ Len(campaigns) = 0  BY <1>1
<1>3. VerdictTypes  BY <1>1, <1>2 DEF VerdictTypes
<1>4. Judged  BY <1>1 DEF Judged, Several!Silent
<1>5. QED  BY <1>1, <1>3, <1>4 DEF VerdictInv, NotYetJudged

\* What is tolerated does not change: what was earned still is.
LEMMA EarnedStays ==
  ASSUME NEW c, NEW r, Several!Earned(c, r), UNCHANGED tolerances
  PROVE  Several!Earned(c, r)'
<1>1. \A n, s : Several!Allowed(n, s)' = Several!Allowed(n, s)  BY DEF Several!Allowed
<1>2. Several!Ran(c)' = Several!Ran(c) /\ Several!Ran(r)' = Several!Ran(r)
      /\ Several!Asked(c.kind)' = Several!Asked(c.kind)
  BY DEF Several!Ran, Several!Asked, Several!Entries
<1>3. \A e : Several!Complete(e)' = Several!Complete(e)  BY DEF Several!Complete
<1>4. QED  BY <1>1, <1>2, <1>3 DEF Several!Earned, Several!Unknown

\* The verdict written of a campaign, by whatever is there.
LEMMA WrittenWell ==
  ASSUME Several!CampaignConstants, VerdictTypes, NEW i \in 1 .. Len(campaigns),
         Several!WriteVerdict(i), UNCHANGED campaigns
  PROVE  Judged'
<1> SUFFICES ASSUME said'.outcome = "no regression"
             PROVE  /\ said'.of \in DOMAIN campaigns' /\ said'.against \in DOMAIN campaigns'
                    /\ \A c, r : c = campaigns'[said'.of] /\ r = campaigns'[said'.against]
                                 => Several!Earned(c, r)'
  BY DEF Judged
<1>1. campaigns[i].kind # "bruit"
  <2>1. ASSUME campaigns[i].kind = "bruit"  PROVE said'.outcome = "measured"
    BY <2>1 DEF Several!WriteVerdict, Several!Silent
  <2>2. QED  BY <2>1
<1>2. /\ said' = [outcome |-> Several!Outcome(campaigns[i], Several!Against(i)), of |-> i,
                  against |-> Several!Against(i)]
      /\ UNCHANGED tolerances
  BY <1>1 DEF Several!WriteVerdict
<1>3. campaigns \in Seq(CampaignType) /\ reference \in 0 .. Len(campaigns)  BY DEF VerdictTypes
<1>4. Len(campaigns) \in Nat /\ DOMAIN campaigns = 1 .. Len(campaigns)  BY <1>3, LenOf
<1>5. PICK ref : ref = Several!Against(i)  OBVIOUS
<1>6. ref \in 0 .. Len(campaigns)
  BY <1>3, <1>4, <1>5, Within, Zenon DEF Several!Against, Several!NoRecord
<1>7. PICK c : c = campaigns[i]  OBVIOUS
<1>8. c \in CampaignType  BY <1>3, <1>7, ElementOf
<1>9. Several!Outcome(c, ref) = "no regression" /\ said'.of = i /\ said'.against = ref
  BY <1>2, <1>5, <1>7
<1>10. ref # 0 /\ Several!Earned(c, campaigns[ref])  BY <1>6, <1>8, <1>9, JudgedWell
<1>11. PICK r : r = campaigns[ref] /\ Several!Earned(c, r)  BY <1>10
<1>12. Several!Earned(c, r)'  BY <1>2, <1>11, EarnedStays
<1>13. campaigns'[said'.of] = c /\ campaigns'[said'.against] = r  BY <1>7, <1>9, <1>11
<1>14. said'.of \in DOMAIN campaigns' /\ said'.against \in DOMAIN campaigns'
  <2>1. ref \in 1 .. Len(campaigns)  BY <1>4, <1>6, <1>10, Within, Zenon
  <2>2. campaigns' = campaigns /\ DOMAIN campaigns' = 1 .. Len(campaigns)  BY <1>4
  <2>3. QED  BY <1>9, <2>1, <2>2, Zenon
<1>15. QED  BY <1>12, <1>13, <1>14

-----------------------------------------------------------------------------
\* Nothing is said, or what was said stays and what it was said of too.
LEMMA SilenceIsFair == ASSUME said' = Several!Silent  PROVE Judged'
BY DEF Judged, Several!Silent
LEMMA SaidStays ==
  ASSUME Judged, UNCHANGED <<said, campaigns, tolerances>>
  PROVE  Judged'
<1> SUFFICES ASSUME said'.outcome = "no regression"
             PROVE  /\ said'.of \in DOMAIN campaigns' /\ said'.against \in DOMAIN campaigns'
                    /\ \A c, r : c = campaigns'[said'.of] /\ r = campaigns'[said'.against]
                                 => Several!Earned(c, r)'
  BY DEF Judged
<1>1. \A c, r : c = campaigns'[said'.of] /\ r = campaigns'[said'.against] => Several!Earned(c, r)
  BY DEF Judged
<1>2. ASSUME NEW c, NEW r, c = campaigns'[said'.of], r = campaigns'[said'.against]
      PROVE  Several!Earned(c, r)'
  BY <1>1, <1>2, EarnedStays
<1>3. QED  BY <1>2 DEF Judged

LEMMA CampaignWith ==
  ASSUME NEW c \in CampaignType, NEW x \in Seq(Passages)
  PROVE  /\ [c EXCEPT !.entries = x] \in CampaignType
         /\ [c EXCEPT !.entries = x].kind = c.kind /\ [c EXCEPT !.entries = x].entries = x
BY DEF CampaignType

\* The campaigns are still campaigns, with one more.
LEMMA MoreCampaigns ==
  ASSUME VerdictTypes, NEW c \in CampaignType, campaigns' = Append(campaigns, c), UNCHANGED <<setup, library>>
  PROVE  /\ campaigns' \in Seq(CampaignType) /\ Len(campaigns') = Len(campaigns) + 1
         /\ Len(campaigns) \in Nat /\ DOMAIN campaigns = 1 .. Len(campaigns)
         /\ DOMAIN campaigns' = 1 .. Len(campaigns) + 1
         /\ campaigns'[Len(campaigns) + 1] = c /\ \A i \in 1 .. Len(campaigns) : campaigns'[i] = campaigns[i]
         /\ running \in 0 .. Len(campaigns') /\ reference \in 0 .. Len(campaigns')
<1>1. campaigns \in Seq(CampaignType)  BY DEF VerdictTypes
<1>2. /\ campaigns' \in Seq(CampaignType) /\ Len(campaigns') = Len(campaigns) + 1
      /\ Len(campaigns) \in Nat /\ campaigns'[Len(campaigns) + 1] = c
      /\ \A i \in 1 .. Len(campaigns) : campaigns'[i] = campaigns[i]
  BY <1>1, OneMoreOf
<1>3. DOMAIN campaigns = 1 .. Len(campaigns) /\ DOMAIN campaigns' = 1 .. Len(campaigns')
  BY <1>1, <1>2, LenOf
<1>4. \A n \in Nat : \A k \in 0 .. n : k \in 0 .. n + 1  OBVIOUS
<1>5. running \in 0 .. Len(campaigns') /\ reference \in 0 .. Len(campaigns')
  BY <1>2, <1>4 DEF VerdictTypes
<1>6. QED  BY <1>2, <1>3, <1>5

LEMMA StartKeeps ==
  ASSUME Several!CampaignConstants, VerdictInv, NEW kind \in {"rapide", "bruit"}, Several!Start(kind)
  PROVE  VerdictInv'
<1> DEFINE c == [kind |-> kind, setup |-> setup, entries |-> <<>>]
<1>1. /\ said' = Several!Silent /\ campaigns' = Append(campaigns, c) /\ running' = Len(campaigns')
      /\ UNCHANGED <<reference, tolerances, setup, library>>
  BY DEF Several!Start, Several!worldVars
<1>2. VerdictTypes  BY DEF VerdictInv
<1>3. <<>> \in Seq(Passages)  OBVIOUS
<1>4. c \in CampaignType /\ c.kind = kind /\ c.entries = <<>>
  BY <1>2, <1>3 DEF CampaignType, Kinds, VerdictTypes
<1> HIDE DEF c
<1>5. /\ campaigns' \in Seq(CampaignType) /\ Len(campaigns') = Len(campaigns) + 1 /\ Len(campaigns) \in Nat
      /\ campaigns'[Len(campaigns) + 1] = c /\ reference \in 0 .. Len(campaigns')
  BY <1>1, <1>2, <1>4, MoreCampaigns
<1>6. running' \in 0 .. Len(campaigns')  BY <1>1, <1>5
<1>7. VerdictTypes'  BY <1>1, <1>2, <1>5, <1>6 DEF VerdictTypes
<1>8. NotYetJudged'
  <2>1. campaigns'[running'] = c  BY <1>1, <1>5
  <2>2. Len(c.entries) = 0  BY <1>4
  <2>3. Len(Several!Entries(kind)) \in Nat  BY AskedOf
  <2>4. 0 =< Len(Several!Entries(kind))  BY <2>3
  <2>5. PICK x : x = campaigns'[running']  OBVIOUS
  <2>6. x.kind = kind /\ Len(x.entries) =< Len(Several!Entries(kind))
    BY <1>4, <2>1, <2>2, <2>4, <2>5
  <2>7. QED  BY <1>1, <1>4, <2>1, <2>2, <2>4 DEF NotYetJudged, Several!Silent, Several!Entries, Several!NoRecord
<1>9. QED  BY <1>1, <1>7, <1>8, SilenceIsFair DEF VerdictInv

LEMMA RunKeeps ==
  ASSUME Several!CampaignConstants, VerdictInv, Several!RunScenario
  PROVE  VerdictInv'
<1>1. VerdictTypes /\ running # 0 /\ said = Several!Silent
  BY DEF VerdictInv, NotYetJudged, Several!RunScenario, Several!NoRecord
<1>2. campaigns \in Seq(CampaignType) /\ Len(campaigns) \in Nat /\ running \in 0 .. Len(campaigns)
  BY <1>1, LenOf DEF VerdictTypes
<1>3. running \in 1 .. Len(campaigns)  BY <1>1, <1>2, Within, Zenon
<1>4. PICK c \in CampaignType : c = campaigns[running]  BY <1>2, <1>3, ElementOf
<1>5. /\ c.kind \in {"rapide", "bruit"} /\ Len(c.entries) =< Len(Several!Entries(c.kind))
  BY <1>1, <1>4 DEF VerdictInv, NotYetJudged
<1> DEFINE n == Len(c.entries)
           m == Len(Several!Entries(c.kind))
<1>6. c.entries \in Seq(Passages) /\ n \in Nat /\ m \in Nat /\ n # m
  <2>1. c.entries \in Seq(Passages)  BY DEF CampaignType
  <2>2. n # m
    BY <1>4 DEF Several!RunScenario, Several!Finished, Several!Present
  <2>3. QED  BY <1>5, <2>1, <2>2, LenOf, AskedOf
<1>7. n + 1 \in 1 .. m /\ n + 1 =< m  BY <1>5, <1>6
<1> DEFINE name == Several!Entries(c.kind)[n + 1]
<1>8. name \in DOMAIN Results  BY <1>5, <1>7, AskedOf
<1>9. PICK e0 \in Results[name] :
        campaigns' = [campaigns EXCEPT ![running].entries = Append(@, Several!Entry(name, e0))]
  BY <1>4 DEF Several!RunScenario, Several!Present
<1>10. Several!Entry(name, e0) \in Passages  BY <1>1, <1>8, <1>9, NewEntry
<1>11. PICK x \in Seq(Passages) : x = Append(c.entries, Several!Entry(name, e0)) /\ Len(x) = n + 1
  <2>1. PICK q : q = Append(c.entries, Several!Entry(name, e0))  OBVIOUS
  <2> HIDE DEF name
  <2>2. q \in Seq(Passages) /\ Len(q) = Len(c.entries) + 1  BY <1>6, <1>10, <2>1, OneMoreOf
  <2>3. QED  BY <1>5, <2>1, <2>2, Zenon
<1> DEFINE new == [c EXCEPT !.entries = x]
<1>12. new \in CampaignType /\ new.kind = c.kind /\ new.entries = x  BY CampaignWith
<1>13. campaigns' = [campaigns EXCEPT ![running] = new]  BY <1>4, <1>9, <1>11
<1> HIDE DEF n, m, name, new
<1>14. campaigns' \in Seq(CampaignType) /\ Len(campaigns') = Len(campaigns) /\ campaigns'[running] = new
  BY <1>2, <1>3, <1>12, <1>13, OtherAt
<1>15. UNCHANGED <<running, reference, tolerances, said, setup, library>>
  BY DEF Several!RunScenario, Several!worldVars
<1>16. VerdictTypes'  BY <1>1, <1>14, <1>15 DEF VerdictTypes
<1>17. NotYetJudged'
  <2>1. campaigns'[running'] = new  BY <1>14, <1>15
  <2>2. Len(new.entries) =< Len(Several!Entries(new.kind))  BY <1>7, <1>11, <1>12 DEF m
  <2>3. new.kind \in {"rapide", "bruit"}  BY <1>5, <1>12
  <2>4. said' = Several!Silent  BY <1>1, <1>15
  <2>5. QED  BY <2>1, <2>2, <2>3, <2>4 DEF NotYetJudged, Several!Silent, Several!Entries, Several!NoRecord
<1>18. QED  BY <1>1, <1>15, <1>16, <1>17, SilenceIsFair DEF VerdictInv

\* A campaign ends, or is judged again.
LEMMA JudgeKeeps ==
  ASSUME Several!CampaignConstants, VerdictInv,
         Several!Finish \/ \E i \in 1 .. MaxCampaigns : Several!Recompute(i)
  PROVE  VerdictInv'
<1>1. VerdictTypes  BY DEF VerdictInv
<1>2. campaigns \in Seq(CampaignType) /\ Len(campaigns) \in Nat /\ running \in 0 .. Len(campaigns)
      /\ DOMAIN campaigns = 1 .. Len(campaigns)
  BY <1>1, LenOf DEF VerdictTypes
<1>3. /\ UNCHANGED <<campaigns, reference, setup, library>> /\ running' = 0
      /\ \E i \in 1 .. Len(campaigns) : Several!WriteVerdict(i)
  <2>1. CASE Several!Finish
    <3>1. running # 0  BY <2>1 DEF Several!Finish, Several!NoRecord
    <3>2. running \in 1 .. Len(campaigns)  BY <1>2, <3>1, Within, Zenon
    <3>3. QED  BY <2>1, <3>2 DEF Several!Finish, Several!NoRecord, Several!worldVars
  <2>2. CASE \E i \in 1 .. MaxCampaigns : Several!Recompute(i)
    BY <1>2, <2>2 DEF Several!Recompute, Several!Command, Several!NoRecord, Several!worldVars
  <2>3. QED  BY <2>1, <2>2
<1>4. 0 \in 0 .. Len(campaigns)  BY <1>2, Within, Zenon
<1>5. VerdictTypes'  BY <1>1, <1>3, <1>4 DEF VerdictTypes
<1>6. Judged'  BY <1>1, <1>3, WrittenWell
<1>7. QED  BY <1>3, <1>5, <1>6 DEF VerdictInv, NotYetJudged

\* A run by hand is a campaign of one passage, judged at once.
LEMMA ImportKeeps ==
  ASSUME Several!CampaignConstants, VerdictInv, Several!Import
  PROVE  VerdictInv'
<1>1. VerdictTypes  BY DEF VerdictInv
<1>2. PICK name \in Several!Asked("rapide") : \E e0 \in {r \in Results[name] : Several!Written(r)} :
        campaigns' = Append(campaigns, [kind |-> "importee", setup |-> setup,
                                        entries |-> <<Several!Entry(name, e0)>>])
  BY DEF Several!Import
<1>3. PICK e0 \in Results[name] :
        campaigns' = Append(campaigns, [kind |-> "importee", setup |-> setup,
                                        entries |-> <<Several!Entry(name, e0)>>])
  BY <1>2
<1>4. name \in DOMAIN Results
  <2>1. Series \in Seq(DOMAIN Results) /\ Several!Entries("rapide") = Series
    BY DEF Several!CampaignConstants, Several!Entries
  <2>2. \A i \in DOMAIN Series : Series[i] \in DOMAIN Results  BY <2>1
  <2>3. QED  BY <1>2, <2>1, <2>2 DEF Several!Asked
<1>5. Several!Entry(name, e0) \in Passages  BY <1>1, <1>3, <1>4, NewEntry
<1>6. <<Several!Entry(name, e0)>> \in Seq(Passages)  BY <1>5
<1>7. PICK c \in CampaignType : campaigns' = Append(campaigns, c)
  BY <1>1, <1>3, <1>6 DEF CampaignType, Kinds, VerdictTypes
<1>8. UNCHANGED <<running, reference, tolerances, setup, library>> /\ running = 0
  BY DEF Several!Import, Several!worldVars, Several!NoRecord
<1>9. /\ campaigns' \in Seq(CampaignType) /\ Len(campaigns') = Len(campaigns) + 1
      /\ Len(campaigns) \in Nat /\ DOMAIN campaigns = 1 .. Len(campaigns)
      /\ DOMAIN campaigns' = 1 .. Len(campaigns) + 1
      /\ campaigns'[Len(campaigns) + 1] = c /\ \A i \in 1 .. Len(campaigns) : campaigns'[i] = campaigns[i]
      /\ running \in 0 .. Len(campaigns') /\ reference \in 0 .. Len(campaigns')
  BY <1>1, <1>7, <1>8, MoreCampaigns
<1>10. VerdictTypes'  BY <1>1, <1>8, <1>9 DEF VerdictTypes
<1>11. PICK i \in Nat : i = Len(campaigns) + 1  BY <1>9
<1>12. PICK ref : ref = Several!Against(i)  OBVIOUS
<1>13. ref \in 0 .. Len(campaigns)
  <2>1. reference \in 0 .. Len(campaigns)  BY <1>1 DEF VerdictTypes
  <2>2. QED  BY <1>9, <1>12, <2>1, Within, Zenon DEF Several!Against, Several!NoRecord
<1>14. said' = [outcome |-> Several!Outcome(c, ref), of |-> i, against |-> ref]
  <2>1. Len(campaigns') = i /\ campaigns'[i] = c  BY <1>9, <1>11
  <2>2. QED  BY <1>12, <2>1 DEF Several!Import
<1>15. Judged'
  <2> SUFFICES ASSUME said'.outcome = "no regression"
               PROVE  /\ said'.of \in DOMAIN campaigns' /\ said'.against \in DOMAIN campaigns'
                      /\ \A d, r : d = campaigns'[said'.of] /\ r = campaigns'[said'.against]
                                   => Several!Earned(d, r)'
    BY DEF Judged
  <2>1. Several!Outcome(c, ref) = "no regression" /\ said'.of = i /\ said'.against = ref  BY <1>14
  <2>2. ref # 0 /\ Several!Earned(c, campaigns[ref])  BY <1>1, <1>13, <2>1, JudgedWell
  <2>3. PICK r : r = campaigns[ref] /\ Several!Earned(c, r)  BY <2>2
  <2>4. Several!Earned(c, r)'  BY <1>8, <2>3, EarnedStays
  <2>5. ref \in 1 .. Len(campaigns)  BY <1>9, <1>13, <2>2, Within, Zenon
  <2>6. campaigns'[said'.of] = c /\ campaigns'[said'.against] = r
    <3>1. campaigns'[i] = c  BY <1>9, <1>11, Zenon
    <3>2. campaigns'[ref] = campaigns[ref]  BY <1>9, <2>5, Zenon
    <3>3. QED  BY <2>1, <2>3, <3>1, <3>2, Zenon
  <2>8. said'.of \in DOMAIN campaigns' /\ said'.against \in DOMAIN campaigns'
    BY <1>9, <1>11, <2>1, <2>5, Further, Zenon
  <2>9. QED  BY <2>4, <2>6, <2>8
<1>16. QED  BY <1>8, <1>10, <1>15 DEF VerdictInv, NotYetJudged

\* The metrics read again are those of the same scenario.
LEMMA ReanalyzeKeeps ==
  ASSUME Several!CampaignConstants, VerdictInv, NEW i \in 1 .. MaxCampaigns, Several!Reanalyze(i)
  PROVE  VerdictInv'
<1>1. VerdictTypes  BY DEF VerdictInv
<1>2. campaigns \in Seq(CampaignType) /\ Len(campaigns) \in Nat /\ DOMAIN campaigns = 1 .. Len(campaigns)
  BY <1>1, LenOf DEF VerdictTypes
<1>3. i \in 1 .. Len(campaigns) /\ running = 0 /\ said' = Several!Silent
      /\ UNCHANGED <<running, reference, tolerances, setup, library>>
  BY <1>2 DEF Several!Reanalyze, Several!Command, Several!NoRecord, Several!worldVars
<1>4. PICK c \in CampaignType : c = campaigns[i]  BY <1>2, <1>3, ElementOf
<1>5. c.entries \in Seq(Passages)  BY DEF CampaignType
<1>6. PICK k \in DOMAIN c.entries :
        campaigns' = [campaigns EXCEPT ![i].entries[k].metrics = Several!Metrics(c.entries[k].csv)]
  BY <1>4 DEF Several!Reanalyze
<1>7. k \in 1 .. Len(c.entries)  BY <1>5, <1>6, LenOf
<1>8. PICK e \in Passages : e = c.entries[k]  BY <1>5, <1>7, ElementOf
<1> DEFINE other == [e EXCEPT !.metrics = Several!Metrics(e.csv)]
<1>9. other \in Passages
  <2>1. e.csv \in Ends /\ e \in Passage /\ Faithful(e)  BY DEF Passages, Passage
  <2>2. PICK x \in {e.csv, Several!Blind(e.csv)} : x = Several!Metrics(e.csv)
    BY DEF Several!Metrics
  <2>3. x \in Ends \cup {Several!Blind(r) : r \in Ends}  BY <2>1, <2>2
  <2>4. other \in Passage /\ other.metrics = x /\ other.csv = e.csv /\ other.status = e.status
    BY <2>1, <2>2, <2>3 DEF Passage
  <2> HIDE DEF other
  <2>5. Faithful(other)  BY <2>1, <2>2, <2>4 DEF Faithful
  <2>6. QED  BY <2>4, <2>5 DEF Passages
<1> DEFINE new == [c EXCEPT !.entries = [c.entries EXCEPT ![k] = other]]
<1>10. campaigns' = [campaigns EXCEPT ![i] = new]  BY <1>4, <1>6, <1>8
<1> HIDE DEF other
<1>11. [c.entries EXCEPT ![k] = other] \in Seq(Passages)  BY <1>5, <1>7, <1>9, OtherAt
<1>12. new \in CampaignType  BY <1>11, CampaignWith
<1> HIDE DEF new
<1>13. campaigns' \in Seq(CampaignType) /\ Len(campaigns') = Len(campaigns)
  BY <1>2, <1>3, <1>10, <1>12, OtherAt
<1>14. VerdictTypes'  BY <1>1, <1>3, <1>13 DEF VerdictTypes
<1>15. QED  BY <1>3, <1>14, SilenceIsFair DEF VerdictInv, NotYetJudged

\* The rest of what happens to a machine.
LEMMA WorldKeeps ==
  ASSUME VerdictInv,
         Several!Crash \/ Several!Change \/ \E i \in 1 .. MaxCampaigns : Several!SetReference(i)
  PROVE  VerdictInv'
<1>1. VerdictTypes /\ Judged  BY DEF VerdictInv
<1>2. campaigns \in Seq(CampaignType) /\ Len(campaigns) \in Nat /\ DOMAIN campaigns = 1 .. Len(campaigns)
  BY <1>1, LenOf DEF VerdictTypes
<1>3. 0 \in 0 .. Len(campaigns) /\ \A k \in 1 .. Len(campaigns) : k \in 0 .. Len(campaigns)
  BY <1>2
<1>4. campaigns' = campaigns /\ running' = 0 /\ tolerances' = tolerances
      /\ (said' = Several!Silent \/ said' = said)
  BY DEF Several!Crash, Several!Change, Several!SetReference, Several!Command, Several!NoRecord
<1>5. reference' \in 0 .. Len(campaigns)
  BY <1>1, <1>2, <1>3 DEF Several!Crash, Several!Change, Several!SetReference, Several!Command, VerdictTypes
<1>6. setup' \in 1 .. 2 /\ library' \in Nat
  <2>1. setup \in 1 .. 2 /\ library \in Nat  BY <1>1 DEF VerdictTypes
  <2>2. 3 - setup \in 1 .. 2 /\ library + 1 \in Nat  BY <2>1
  <2>3. QED
    BY <2>1, <2>2 DEF Several!Crash, Several!Change, Several!SetReference, Several!worldVars
<1>7. VerdictTypes'  BY <1>2, <1>3, <1>4, <1>5, <1>6 DEF VerdictTypes
<1>8. Judged'  BY <1>1, <1>4, SilenceIsFair, SaidStays
<1>9. QED  BY <1>4, <1>7, <1>8 DEF VerdictInv, NotYetJudged

LEMMA VerdictSteps ==
  ASSUME Several!CampaignConstants, VerdictInv, [Several!Next]_Several!vars
  PROVE  VerdictInv'
<1>1. CASE \E kind \in {"rapide", "bruit"} : Several!Start(kind)  BY <1>1, StartKeeps
<1>2. CASE Several!RunScenario  BY <1>2, RunKeeps
<1>3. CASE Several!Finish \/ \E i \in 1 .. MaxCampaigns : Several!Recompute(i)  BY <1>3, JudgeKeeps
<1>4. CASE Several!Import  BY <1>4, ImportKeeps
<1>5. CASE \E i \in 1 .. MaxCampaigns : Several!Reanalyze(i)  BY <1>5, ReanalyzeKeeps
<1>6. CASE Several!Crash \/ Several!Change \/ \E i \in 1 .. MaxCampaigns : Several!SetReference(i)
  BY <1>6, WorldKeeps
<1>7. CASE UNCHANGED Several!vars
  <2>1. UNCHANGED <<campaigns, running, reference, tolerances, said, setup, library>>
    BY <1>7 DEF Several!vars
  <2>2. VerdictTypes' /\ NotYetJudged'
    BY <2>1 DEF VerdictInv, VerdictTypes, NotYetJudged, Several!Silent, Several!Entries, Several!NoRecord
  <2>3. QED  BY <2>1, <2>2, SaidStays DEF VerdictInv
<1>8. QED  BY <1>1, <1>2, <1>3, <1>4, <1>5, <1>6, <1>7 DEF Several!Next

\* For any series of scenarios, any results of theirs and whatever changes between two
\* campaigns, "no regression" is written only of what was run to its end, under the
\* conditions of the reference, and compared (campaign.rs:483).
THEOREM VerdictsAreEarned == Several!Spec => [](part # "noisy" => VerdictIsEarned)
<1>1. Several!CampaignConstants  BY BenchAssumption
<1>2. VerdictInv /\ [Several!Next]_Several!vars => VerdictInv'  BY <1>1, VerdictSteps
<1>3. VerdictInv => Several!VerdictIsEarned
  <2> SUFFICES ASSUME VerdictInv, said.outcome = "no regression"
               PROVE  said.against # Several!NoRecord
                      /\ Several!Earned(campaigns[said.of], campaigns[said.against])
    BY DEF Several!VerdictIsEarned
  <2>1. said.against \in DOMAIN campaigns
        /\ Several!Earned(campaigns[said.of], campaigns[said.against])
    BY DEF VerdictInv, Judged
  <2>2. campaigns \in Seq(CampaignType)  BY DEF VerdictInv, VerdictTypes
  <2>3. said.against # 0  BY <2>1, <2>2, NoZeroth, LenOf, Zenon
  <2>4. QED  BY <2>1, <2>3 DEF Several!NoRecord
<1>4. VerdictInv => (part # "noisy" => VerdictIsEarned)  BY <1>3 DEF VerdictIsEarned
<1>5. QED  BY VerdictStarts, <1>2, <1>4, PTL DEF Several!Spec
=============================================================================
