------------------------------- MODULE AgentChat -------------------------------
(***************************************************************************)
(* The chat page that follows a workflow (AgentChatPage), the events the   *)
(* worker tells it (AgentEventsService) and the stream that carries them   *)
(* (AgentController.stream), over AgentWorkflow.                           *)
(*                                                                         *)
(* An event says only that something changed: the page fetches the row     *)
(* again.  The worker tells after its transaction, approve and answer tell *)
(* nobody.  The server sends the stream's headers, which open it in the    *)
(* browser, without waiting for its SUBSCRIBE.                             *)
(***************************************************************************)
EXTENDS AgentWorkflow

VARIABLES
  told,            \* processedIds: the rows each tick has, or has committed, and not told
  chat,            \* each workflow's page: its stream, and whether a fetch is due
  unseen           \* ghost: workflows a tick has committed since their page's last fetch,
                   \* unless the event or the fetch that it owes the page is lost

feed == <<told, chat, unseen>>
chatVars == <<vars, feed>>

Chat == [feed: {"none", "lost", "open", "live", "closed"}, due: BOOLEAN]

ChatTypeOK ==
  /\ TypeOK
  /\ told \in [Ticks -> SUBSET Workflows]
  /\ chat \in [Workflows -> Chat]
  /\ unseen \subseteq Workflows

-------------------------------------------------------------------------------
(* The page *)

\* handleSubmit has the id: the page fetches the workflow and subscribes to it.
OpenChat(w) ==
  /\ row[w].status # "none"
  /\ chat[w].feed = "none"
  /\ chat' = [chat EXCEPT ![w] = [feed |-> "lost", due |-> TRUE]]
  /\ UNCHANGED <<vars, told, unseen>>

\* EventSource opens, again if need be, and fetches; SUBSCRIBE comes later or came
\* before.
Connect(w) ==
  /\ chat[w].feed = "lost"
  /\ \E f \in {"open", "live"} : chat' = [chat EXCEPT ![w] = [feed |-> f, due |-> TRUE]]
  /\ UNCHANGED <<vars, told, unseen>>

\* An answer other than 200 (the rate limit's, the token's, a failure's) closes
\* EventSource for good.
Refused(w) ==
  /\ chat[w].feed = "lost"
  /\ chat' = [chat EXCEPT ![w].feed = "closed"]
  /\ UNCHANGED <<vars, told, unseen>>

Subscribe(w) ==
  /\ chat[w].feed = "open"
  /\ chat' = [chat EXCEPT ![w].feed = "live"]
  /\ UNCHANGED <<vars, told, unseen>>

\* The connection breaks; or the server loses its own to Redis and has to subscribe
\* again, behind a stream that stays open.
Drop(w) ==
  /\ faults < MaxFaults
  /\ faults' = faults + 1
  /\ \/ /\ chat[w].feed \in {"open", "live"}
        /\ chat' = [chat EXCEPT ![w].feed = "lost"]
     \/ /\ chat[w].feed = "live"
        /\ chat' = [chat EXCEPT ![w].feed = "open"]
  /\ UNCHANGED <<row, tick, console, api, approved, told, unseen>>

Fetched(w) ==
  /\ chat[w].due
  /\ chat' = [chat EXCEPT ![w].due = FALSE]
  /\ unseen' = unseen \ {w}
  /\ UNCHANGED <<row, tick, console, api, approved, told>>

\* refresh: GET /agent/workflows/:id.
Refresh(w) == Fetched(w) /\ UNCHANGED faults

\* One that fails is forgotten: the page has learnt nothing and is owed nothing more.
RefreshFails(w) == Fetched(w) /\ faults < MaxFaults /\ faults' = faults + 1

\* handleApprove and handleAnswer fetch after their answer; another tab's do not.
SaveAndRefresh(c) ==
  /\ SaveUpdate(c)
  /\ LET w == console[c].of IN
       \E d \in {chat[w].due, chat[w].feed # "none"} : chat' = [chat EXCEPT ![w].due = d]
  /\ UNCHANGED <<told, unseen>>

-------------------------------------------------------------------------------
(* The worker *)

\* The next tick waits for the last one's events.
ClaimToTell(t) ==
  /\ told[t] = {}
  /\ Claim(t)
  /\ told' = [told EXCEPT ![t] = DOMAIN tick'[t].copy]
  /\ UNCHANGED <<chat, unseen>>

CommitUntold(t) ==
  /\ Commit(t)
  /\ unseen' = unseen \cup {w \in DOMAIN tick[t].copy : chat[w].feed # "none"}
  /\ UNCHANGED <<told, chat>>

\* Mutant: the events are published inside the transaction.
Anytime(t) == TRUE

Committed(t) == tick[t] = NoTick

\* publish reaches the streams that are subscribed.  One that has opened, fetched and
\* not yet subscribed never learns of it.
Tell(t, w) ==
  /\ Committed(t)
  /\ w \in told[t]
  /\ told' = [told EXCEPT ![t] = @ \ {w}]
  /\ chat' = [chat EXCEPT ![w].due = @ \/ chat[w].feed = "live"]
  /\ unseen' = IF chat[w].feed = "open" THEN unseen \ {w} ELSE unseen
  /\ UNCHANGED vars

\* A batch that is rolled back has no events.
AbortUntold(t) ==
  /\ Abort(t)
  /\ told' = [told EXCEPT ![t] = {}]
  /\ UNCHANGED <<chat, unseen>>

\* The worker dies, or loses Redis, between its commit and its events.
LoseEvents(t) ==
  /\ Committed(t) /\ told[t] # {}
  /\ faults < MaxFaults
  /\ faults' = faults + 1
  /\ told' = [told EXCEPT ![t] = {}]
  /\ unseen' = unseen \ told[t]
  /\ UNCHANGED <<row, tick, console, api, approved, chat>>

-------------------------------------------------------------------------------
(* The specification *)

ChatInit ==
  /\ Init
  /\ told = [t \in Ticks |-> {}]
  /\ chat = [w \in Workflows |-> [feed |-> "none", due |-> FALSE]]
  /\ unseen = {}

\* What touches neither page nor events.
Aside ==
  /\ \/ \E w \in Workflows : Create(w) \/ Serve(w) \/ StoreLost(w) \/ ServerFails(w)
     \/ \E t \in Ticks : Resume(t) \/ ReceiveConfirm(t) \/ Turn(t) \/ LoseAnswer(t)
     \/ \E c \in Consoles :
          \/ \E w \in Workflows : ApproveRead(c, w) \/ AnswerRead(c, w)
          \/ SaveSelect(c)
     \/ \E h \in Holds : Expire(h)
  /\ UNCHANGED feed

ChatWork(t) ==
  \/ ClaimToTell(t) \/ CommitUntold(t)
  \/ \E w \in Workflows : Tell(t, w)
  \/ (Resume(t) \/ ReceiveConfirm(t) \/ Turn(t)) /\ UNCHANGED feed

\* An attempt to open the stream, which succeeds or is refused, and its SUBSCRIBE.
Follow(w) == Connect(w) \/ Refused(w) \/ Subscribe(w)

ChatNext ==
  \/ Aside
  \/ \E t \in Ticks : ChatWork(t) \/ AbortUntold(t) \/ LoseEvents(t)
  \/ \E w \in Workflows :
       OpenChat(w) \/ Follow(w) \/ Drop(w) \/ Refresh(w) \/ RefreshFails(w)
  \/ \E c \in Consoles : SaveAndRefresh(c)

ChatSpec == ChatInit /\ [][ChatNext]_chatVars

\* setInterval starts ticks again and again, the LLM and the API answer, pages fetch
\* what is due, and EventSource tries until it is answered: with a stream, or with a
\* refusal that ends it.  Nothing makes a user approve or answer.
ChatFairness ==
  /\ \A t \in Ticks : WF_chatVars(ChatWork(t))
  /\ \A w \in Workflows :
       /\ WF_chatVars(Serve(w) /\ UNCHANGED feed)
       /\ WF_chatVars(Follow(w)) /\ WF_chatVars(Refresh(w))

ChatFairSpec == ChatSpec /\ ChatFairness

-------------------------------------------------------------------------------
(* Properties *)

\* What a tick commits is fetched by the page that follows it, however its event
\* falls among connections that drop, pages that open and saves that tell nobody, or
\* the page's stream has been refused and is closed for good.  Four failures keep it
\* from a page besides: a worker that dies before it tells, a stream that is open
\* while the server has not subscribed, or has to again, and a GET that fails.
EveryTurnIsFetched ==
  \A w \in Workflows :
    w \in unseen ~> w \notin unseen \/ chat[w].feed = "closed"
================================================================================
