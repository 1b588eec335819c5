---------------------------- MODULE BenchCampaign ----------------------------
(***************************************************************************)
(* The version campaigns of the bench (jamodio-bench/src/campaign.rs,      *)
(* tools.rs): a series of scenarios run one after the other on a machine,  *)
(* written as it goes, the verdict against the reference of the machine    *)
(* within tolerances measured by a noise campaign, and what may change     *)
(* from one campaign to the next: the machine's devices, the library of    *)
(* scenarios, the bench itself, the reference, a crash in the middle.      *)
(*                                                                         *)
(* One machine.  Of a scenario's measures are kept one figure per stream,  *)
(* one criterion and the precision class; a figure is unknown (Unknown) in *)
(* the metrics of a bench older than the measure, until they are read      *)
(* again from the CSV.                                                     *)
(***************************************************************************)
EXTENDS Integers, Sequences, FiniteSets

LOCAL INSTANCE SequencesExt
LOCAL INSTANCE FiniteSetsExt

CONSTANTS
  Series,        \* RAPIDE: the scenarios of a quick campaign, in order
  NoiseRuns,     \* NOISE_RUNS
  Results,       \* scenario -> how its runs may end: [status, streams, fails, precise]
  Floor,         \* TOL_FLOOR
  Margin,        \* NOISE_MARGIN
  MaxCampaigns,  \* bound
  MaxChanges     \* bound: changes of devices, library or bench

Result(r) ==
  /\ r = [status |-> r.status, streams |-> r.streams, fails |-> r.fails, precise |-> r.precise]
  /\ r.status \in {"complete", "stopped", "failed"} /\ r.fails \in BOOLEAN /\ r.precise \in BOOLEAN
  /\ \A s \in DOMAIN r.streams : r.streams[s] \in Nat
CampaignConstants ==
  /\ Series \in Seq(DOMAIN Results) /\ \A name \in DOMAIN Results : \A r \in Results[name] : Result(r)
  /\ Len(Series) > 0 /\ NoiseRuns \in Nat \ {0} /\ Floor \in Nat /\ Margin \in Nat
  /\ MaxCampaigns \in Nat /\ MaxChanges \in Nat

VARIABLES
  campaigns,    \* folders of campagnes/: kind, setup, entries
  running,      \* the campaign being run; 0 none
  reference,    \* references.json: the current one; 0 none
  tolerances,   \* tolerances/<machine>.json: <<>> none, else scenario -> stream -> tolerance
  said,         \* the verdict the last command wrote and printed
  setup,        \* machine.json
  library,      \* version of the scenarios (their fingerprint)
  measures,     \* the bench measures every figure
  changes

vars == <<campaigns, running, reference, tolerances, said, setup, library, measures, changes>>

Unknown  == -1
NoRecord == 0
Silent   == [outcome |-> "none", of |-> NoRecord, against |-> NoRecord]

Init ==
  /\ campaigns = <<>> /\ running = NoRecord /\ reference = NoRecord /\ tolerances = <<>>
  /\ said = Silent /\ setup = 1 /\ library = 1 /\ measures \in BOOLEAN /\ changes = 0

\* The scenarios of a campaign, in order; noise goes round the series.
Entries(kind) ==
  CASE kind = "rapide" -> Series
    [] kind = "bruit"  -> [i \in 1..(NoiseRuns * Len(Series)) |-> Series[1 + ((i - 1) % Len(Series))]]
    [] OTHER           -> <<>>

Complete(e) == e.status = "complete"
Written(e)  == e.status # "failed"
Blind(csv)  == [csv EXCEPT !.streams = [s \in DOMAIN @ |-> Unknown]]
Metrics(csv) == IF measures THEN csv ELSE Blind(csv)

Ran(c)      == {c.entries[i] : i \in DOMAIN c.entries}
Asked(kind) == {Entries(kind)[i] : i \in DOMAIN Entries(kind)}
\* The first passage of that name, if its metrics can be read.
First(c, name) ==
  {i \in DOMAIN c.entries : c.entries[i].name = name /\ \A j \in 1..(i - 1) : c.entries[j].name # name}
MetricsOf(c, name) == {e \in {c.entries[i] : i \in First(c, name)} : Written(e)}

(* Tolerances. *)

Figures(es, s) == {es[i].metrics.streams[s] : i \in {j \in DOMAIN es : s \in DOMAIN es[j].metrics.streams}}
Known(es, s) == {i \in DOMAIN es : s \in DOMAIN es[i].metrics.streams /\ es[i].metrics.streams[s] # Unknown}
Largest(a, b) == IF a >= b THEN a ELSE b
Tolerance(es, s) ==
  LET v == Figures(es, s) \ {Unknown}
  IN IF Cardinality(Known(es, s)) < 2 THEN Floor ELSE Largest(Margin * (Max(v) - Min(v)), Floor)
Runs(c, name) == SelectSeq(c.entries, LAMBDA e : e.name = name /\ Complete(e))
NoiseTolerances(c) ==
  [n \in {e.name : e \in {x \in Ran(c) : Complete(x)}} |->
     [s \in UNION {DOMAIN e.metrics.streams : e \in ToSet(Runs(c, n))} |-> Tolerance(Runs(c, n), s)]]
Allowed(name, s) ==
  IF name \in DOMAIN tolerances THEN IF s \in DOMAIN tolerances[name] THEN tolerances[name][s] ELSE Floor
  ELSE Floor

(* Comparison. *)

\* compare_scenario(): metrics m of entry e against those of the reference.
Check(name, s, c, r) ==
  CASE c = Unknown /\ r = Unknown -> "same"
    [] c = Unknown                -> "worse"
    [] r = Unknown                -> "unmeasured"
    [] c - r > Allowed(name, s)   -> "worse"
    [] OTHER                      -> "same"
StreamChecks(e, r) ==
  {IF s \in DOMAIN r.metrics.streams
   THEN Check(e.name, s, e.metrics.streams[s], r.metrics.streams[s]) ELSE "worse" :
     s \in DOMAIN e.metrics.streams}

CompareScenario(e, refs) ==
  IF refs = {} THEN "inconclusive"
  ELSE LET r == CHOOSE x \in refs : TRUE IN
       IF ~Complete(e) \/ e.fingerprint # r.fingerprint \/ ~e.metrics.precise \/ ~r.metrics.precise
       THEN "inconclusive"
       ELSE IF "worse" \in StreamChecks(e, r) \/ (e.metrics.fails /\ ~r.metrics.fails) THEN "regression"
       ELSE IF "unmeasured" \in StreamChecks(e, r) THEN "inconclusive" ELSE "no regression"

\* Wrong: only what was run is judged.
OutcomesOfRuns(c, ref) ==
  {IF ref # NoRecord /\ campaigns[ref].setup # c.setup THEN "inconclusive"
   ELSE CompareScenario(e, IF ref = NoRecord THEN {} ELSE MetricsOf(campaigns[ref], e.name)) :
     e \in {x \in Ran(c) : Written(x)}}
\* compare_campaign().
Outcomes(c, ref) ==
  {IF ~Written(e) \/ (ref # NoRecord /\ campaigns[ref].setup # c.setup) THEN "inconclusive"
   ELSE CompareScenario(e, IF ref = NoRecord THEN {} ELSE MetricsOf(campaigns[ref], e.name)) :
     e \in Ran(c)}
  \cup {"inconclusive" : n \in Asked(c.kind) \ {e.name : e \in Ran(c)}}
Outcome(c, ref) ==
  LET os == Outcomes(c, ref) IN
  IF "regression" \in os THEN "regression"
  ELSE IF os = {} \/ "inconclusive" \in os THEN "inconclusive" ELSE "no regression"

\* write_verdict(), of what folder i holds: a noise campaign only measures.
Against(i) == IF reference = i THEN NoRecord ELSE reference
WriteVerdict(i) ==
  IF campaigns[i].kind = "bruit"
  THEN tolerances' = NoiseTolerances(campaigns[i]) /\ said' = [Silent EXCEPT !.outcome = "measured", !.of = i]
  ELSE /\ said' = [outcome |-> Outcome(campaigns[i], Against(i)), of |-> i, against |-> Against(i)]
       /\ UNCHANGED tolerances

(* A campaign. *)

worldVars == <<setup, library, measures, changes>>

Start(kind) ==
  /\ running = NoRecord /\ Len(campaigns) < MaxCampaigns /\ said' = Silent
  /\ campaigns' = Append(campaigns, [kind |-> kind, setup |-> setup, entries |-> <<>>])
  /\ running' = Len(campaigns')
  /\ UNCHANGED <<reference, tolerances, worldVars>>

Present  == campaigns[running]
Finished == \/ Present.entries # <<>> /\ ~Complete(Last(Present.entries))
            \/ Len(Present.entries) = Len(Entries(Present.kind))
Entry(name, end) ==
  [name |-> name, fingerprint |-> library, status |-> end.status, csv |-> end, metrics |-> Metrics(end)]

\* A scenario ends complete, stopped with partial results, or failed with none.
RunScenario ==
  /\ running # NoRecord /\ ~Finished
  /\ LET name == Entries(Present.kind)[Len(Present.entries) + 1] IN
     \E end \in Results[name] :
       campaigns' = [campaigns EXCEPT ![running].entries = Append(@, Entry(name, end))]
  /\ UNCHANGED <<running, reference, tolerances, said, worldVars>>

Finish ==
  /\ running # NoRecord /\ Finished
  /\ WriteVerdict(running) /\ running' = NoRecord
  /\ UNCHANGED <<campaigns, reference, worldVars>>

\* The bench dies: what was written stays.
Crash ==
  /\ running # NoRecord /\ running' = NoRecord
  /\ UNCHANGED <<campaigns, reference, tolerances, said, worldVars>>

\* A scenario run by hand becomes a campaign, its metrics read from its CSV.
Import ==
  /\ running = NoRecord /\ Len(campaigns) < MaxCampaigns
  /\ \E name \in Asked("rapide") : \E end \in {r \in Results[name] : Written(r)} :
       campaigns' = Append(campaigns, [kind |-> "importee", setup |-> setup, entries |-> <<Entry(name, end)>>])
  /\ LET i == Len(campaigns') IN
     said' = [outcome |-> Outcome(campaigns'[i], Against(i)), of |-> i, against |-> Against(i)]
  /\ UNCHANGED <<running, reference, tolerances, worldVars>>

(* Commands, on any campaign whose campagne.json is there. *)

Command(i) == running = NoRecord /\ i \in DOMAIN campaigns /\ campaigns[i].entries # <<>>

Recompute(i) ==
  /\ Command(i) /\ WriteVerdict(i)
  /\ UNCHANGED <<campaigns, running, reference, worldVars>>

SetReference(i) ==
  /\ Command(i) /\ campaigns[i].kind # "bruit"
  /\ reference' = i /\ said' = Silent
  /\ UNCHANGED <<campaigns, running, tolerances, worldVars>>

\* "reanalyser": the metrics of a scenario read again from its CSV.
Reanalyze(i) ==
  /\ Command(i) /\ said' = Silent
  /\ \E k \in DOMAIN campaigns[i].entries :
       /\ Written(campaigns[i].entries[k])
       /\ campaigns' = [campaigns EXCEPT ![i].entries[k].metrics = Metrics(campaigns[i].entries[k].csv)]
  /\ UNCHANGED <<running, reference, tolerances, worldVars>>

\* Other devices, an edited library, a newer bench.
Change ==
  /\ running = NoRecord /\ changes < MaxChanges /\ changes' = changes + 1 /\ said' = Silent
  /\ \/ setup' = 3 - setup /\ UNCHANGED <<library, measures>>
     \/ library' = library + 1 /\ UNCHANGED <<setup, measures>>
     \/ ~measures /\ measures' = TRUE /\ UNCHANGED <<setup, library>>
  /\ UNCHANGED <<campaigns, running, reference, tolerances>>

Next ==
  \/ \E kind \in {"rapide", "bruit"} : Start(kind)
  \/ RunScenario \/ Finish \/ Crash \/ Import \/ Change
  \/ \E i \in 1..MaxCampaigns : Recompute(i) \/ SetReference(i) \/ Reanalyze(i)
Spec == Init /\ [][Next]_vars

(* What a verdict promises. *)

\* campaign.rs:483 "jamais conclure « aucune régression »" of what was not compared: when
\* "no regression" is written, every scenario of the series was run to its end under the
\* conditions and in the version of the reference, no criterion it held fails, and no
\* stream measured is worse than there by more than is tolerated.
Earned(c, r) ==
  /\ r.setup = c.setup
  /\ \A n \in Asked(c.kind) : \E e \in Ran(c) : e.name = n
  /\ \A e \in Ran(c) : \E x \in Ran(r) :
       /\ x.name = e.name /\ x.fingerprint = e.fingerprint /\ Complete(e)
       /\ e.csv.precise /\ x.csv.precise /\ (e.csv.fails => x.csv.fails)
       /\ \A s \in DOMAIN e.csv.streams :
            /\ s \in DOMAIN x.csv.streams
            /\ e.metrics.streams[s] # Unknown =>
                 /\ x.metrics.streams[s] # Unknown
                 /\ ~(e.csv.streams[s] - x.csv.streams[s] > Allowed(e.name, s))
VerdictIsEarned ==
  said.outcome = "no regression" =>
    said.against # NoRecord /\ Earned(campaigns[said.of], campaigns[said.against])
==============================================================================
