----------------------------- MODULE BenchCalls -----------------------------
(***************************************************************************)
(* The bench's second machine (jamodio-bench/src/remote.rs, relay.rs): it  *)
(* listens for campaigns, serves one at a time -- the next waits -- and    *)
(* answers a line for each line it reads; when the campaign's connection   *)
(* closes, what it opened for it is stopped before the next one is heard.  *)
(* A campaign waits five seconds for an answer.  Nothing in a line says    *)
(* which command it answers: only the order does.                          *)
(***************************************************************************)
EXTENDS Naturals, Sequences

CONSTANTS
  Campaigns,  \* benches that use the machine
  NoCampaign,
  MaxCalls,   \* bound: commands of a campaign
  MayVanish   \* a campaign's machine may go without closing its connection

CallsConstants == NoCampaign \notin Campaigns /\ MaxCalls \in Nat /\ MayVanish \in BOOLEAN

VARIABLES
  client,   \* of each campaign: "off", "on", "closed", "vanished"
  calls,    \* commands it sent
  waiting,  \* it waits for the answer to the last one
  answers,  \* history: the command it had just sent and the one answered, at each answer
  requests, replies,  \* lines on their way
  backlog,  \* connections not accepted yet
  serving,
  opened    \* what the session holds: the campaigns it was opened for

vars == <<client, calls, waiting, answers, requests, replies, backlog, serving, opened>>

Init ==
  /\ client = [c \in Campaigns |-> "off"] /\ calls = [c \in Campaigns |-> 0]
  /\ waiting = [c \in Campaigns |-> FALSE] /\ answers = [c \in Campaigns |-> <<>>]
  /\ requests = [c \in Campaigns |-> <<>>] /\ replies = [c \in Campaigns |-> <<>>]
  /\ backlog = <<>> /\ serving = NoCampaign /\ opened = {}

(* A campaign. *)

\* The connection opens even while another campaign is served.
Connect(c) ==
  /\ client[c] = "off"
  /\ client' = [client EXCEPT ![c] = "on"] /\ backlog' = Append(backlog, c)
  /\ UNCHANGED <<calls, waiting, answers, requests, replies, serving, opened>>

Call(c) ==
  /\ client[c] = "on" /\ ~waiting[c] /\ calls[c] < MaxCalls
  /\ calls' = [calls EXCEPT ![c] = @ + 1] /\ waiting' = [waiting EXCEPT ![c] = TRUE]
  /\ requests' = [requests EXCEPT ![c] = Append(@, calls[c] + 1)]
  /\ UNCHANGED <<client, answers, replies, backlog, serving, opened>>

Answered(c) ==
  /\ client[c] = "on" /\ waiting[c] /\ replies[c] # <<>>
  /\ answers' = [answers EXCEPT ![c] = Append(@, <<calls[c], Head(replies[c])>>)]
  /\ replies' = [replies EXCEPT ![c] = Tail(@)] /\ waiting' = [waiting EXCEPT ![c] = FALSE]
  /\ UNCHANGED <<client, calls, requests, backlog, serving, opened>>

Close(c) ==
  /\ client' = [client EXCEPT ![c] = "closed"] /\ waiting' = [waiting EXCEPT ![c] = FALSE]
  /\ UNCHANGED <<calls, answers, requests, replies, backlog, serving, opened>>

\* Wrong: no answer in time, and the campaign asks for something else.
CallAgain(c) ==
  /\ client[c] = "on" /\ waiting[c] /\ replies[c] = <<>>
  /\ waiting' = [waiting EXCEPT ![c] = FALSE]
  /\ UNCHANGED <<client, calls, answers, requests, replies, backlog, serving, opened>>
\* No answer in time: the campaign asks nothing more and ends.
CallFails(c) == client[c] = "on" /\ waiting[c] /\ replies[c] = <<>> /\ Close(c)
\* The campaign is over.
EndCampaign(c) == client[c] = "on" /\ ~waiting[c] /\ Close(c)

Vanish(c) ==
  /\ MayVanish /\ client[c] = "on"
  /\ client' = [client EXCEPT ![c] = "vanished"]
  /\ UNCHANGED <<calls, waiting, answers, requests, replies, backlog, serving, opened>>

(* serve() and its session. *)

Accept ==
  /\ serving = NoCampaign /\ backlog # <<>>
  /\ serving' = Head(backlog) /\ backlog' = Tail(backlog)
  /\ UNCHANGED <<client, calls, waiting, answers, requests, replies, opened>>

\* A line is read, done and answered.
Handle ==
  /\ serving # NoCampaign /\ requests[serving] # <<>>
  /\ requests' = [requests EXCEPT ![serving] = Tail(@)]
  /\ replies' = [replies EXCEPT ![serving] = Append(@, Head(requests[serving]))]
  /\ opened' = opened \cup {serving}
  /\ UNCHANGED <<client, calls, waiting, answers, backlog, serving>>

\* No line is left and the connection is closed: all is stopped and joined.
EndSession ==
  /\ serving # NoCampaign /\ client[serving] = "closed" /\ requests[serving] = <<>>
  /\ opened' = {} /\ serving' = NoCampaign
  /\ UNCHANGED <<client, calls, waiting, answers, requests, replies, backlog>>

Server == Accept \/ Handle \/ EndSession
Campaign(c) == Call(c) \/ Answered(c) \/ CallFails(c) \/ EndCampaign(c)
Next == Server \/ \E c \in Campaigns : Connect(c) \/ Campaign(c) \/ Vanish(c)
Fairness == WF_vars(Server) /\ \A c \in Campaigns : WF_vars(Campaign(c))
Spec == Init /\ [][Next]_vars /\ Fairness

(* What the second machine promises. *)

\* Every answer a campaign takes is to the command it has just sent.
AnswersMatch == \A c \in Campaigns : \A i \in DOMAIN answers[c] : answers[c][i][1] = answers[c][i][2]

\* remote.rs:97 "une campagne à la fois": nothing of a campaign plays in another's session.
OneCampaign == opened \subseteq {serving}

\* As long as none vanished, what a campaign opened does not outlive it.
MachineFreed ==
  []<>(\/ \E d \in Campaigns : client[d] = "vanished"
       \/ \A c \in Campaigns : client[c] = "closed" => requests[c] = <<>> /\ c \notin opened)
=============================================================================
