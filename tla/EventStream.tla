----------------------------- MODULE EventStream -----------------------------
(***************************************************************************)
(* Events in real time: what the four publishers of the service send over  *)
(* the Redis event bus (core/events.py, api/webhooks.py, agent_manager.py, *)
(* engine_service.py), and what GET /events/stream (api/events.py) forwards*)
(* to its clients, which connect, lose their connection and come back.     *)
(*                                                                         *)
(* Type filters are left out: a client that sets none gets every type.     *)
(***************************************************************************)
EXTENDS Naturals, Sequences

CONSTANTS
    Companies,      \* company ids
    Org,            \* the id of their organisation, no company's id
    Clients,        \* open pages of the web client
    MaxEvents       \* bound: events published

None == ""      \* an absent field or query parameter

VARIABLES
    published,      \* what Redis got, oldest first, and who listened to the company concerned
    company,        \* per client, its query parameter company_id
    channel,        \* per client, the channel it is subscribed to; "closed" without a connection
    buffer,         \* per client, the events Redis has sent it and the generator not yet read
    forwarded       \* per client, the events forwarded since it connected

vars == <<published, company, channel, buffer, forwarded>>

Init ==
    /\ published = <<>>
    /\ company = [c \in Clients |-> None]
    /\ channel = [c \in Clients |-> "closed"]
    /\ buffer = [c \in Clients |-> <<>>]
    /\ forwarded = [c \in Clients |-> {}]

-----------------------------------------------------------------------------
\* The publishers: the channel, and the company_id of the event if it has one.
Event(c, ch, field) ==
    [channel |-> ch, company_id |-> field,
     audience |-> {client \in Clients : company[client] = c /\ channel[client] # "closed"}]

\* _emit_webhook_event: the channel is the company that the payload names, or the
\* workspace or channel of the tool that it names instead, or "system".
WebhookEvents(c) == {Event(c, ch, None) : ch \in {c, "workspace", "system"}}

\* AgentManager passes the type of the event where publish wants the company.
ManagerEvent(c) == Event(c, "agent.state_changed", c)

\* dispatch_trigger, if the payload names the company.
TriggeredEvent(c) == Event(c, c, None)

\* _publish_state_changed
EngineEvent(c) == Event(c, "agent_events", None)

\* EventBus.publish: Redis hands the event to the subscribers of the moment.
\* A failure is logged and forgotten.
Publish(e) ==
    \/ /\ Len(published) < MaxEvents
       /\ published' = Append(published, e)
       /\ buffer' = [c \in Clients |->
                        IF channel[c] = e.channel THEN Append(buffer[c], Len(published')) ELSE buffer[c]]
    \/ UNCHANGED <<published, buffer>>

\* A webhook is answered alike whether its event was published or not.
Webhook(c) ==
    /\ \E e \in WebhookEvents(c) : Publish(e)
    /\ UNCHANGED <<company, channel, forwarded>>

Operate(c) ==
    /\ \E e \in {ManagerEvent(c), TriggeredEvent(c), EngineEvent(c)} : Publish(e)
    /\ UNCHANGED <<company, channel, forwarded>>

-----------------------------------------------------------------------------
\* stream_events: the channel of the company asked for, or of the organisation.
Connect(c, target) ==
    /\ channel[c] = "closed"
    /\ company' = [company EXCEPT ![c] = target]
    /\ channel' = [channel EXCEPT ![c] = IF target # None THEN target ELSE Org]
    /\ buffer' = [buffer EXCEPT ![c] = <<>>]
    /\ forwarded' = [forwarded EXCEPT ![c] = {}]
    /\ UNCHANGED published

\* The stream passes on what concerns the company asked for.
Passes(c, e) == company[c] # None => e.company_id = company[c]

\* The generator reads one event and forwards it if it passes.
Forward(c) ==
    /\ buffer[c] # <<>>
    /\ forwarded' = IF Passes(c, published[Head(buffer[c])])
                    THEN [forwarded EXCEPT ![c] = @ \union {Head(buffer[c])}] ELSE forwarded
    /\ buffer' = [buffer EXCEPT ![c] = Tail(@)]
    /\ UNCHANGED <<published, company, channel>>

\* The connection of the client, or that to Redis, breaks.
Disconnect(c) ==
    /\ channel[c] # "closed"
    /\ channel' = [channel EXCEPT ![c] = "closed"]
    /\ buffer' = [buffer EXCEPT ![c] = <<>>]
    /\ UNCHANGED <<published, company, forwarded>>

Next ==
    \/ \E c \in Companies : Webhook(c) \/ Operate(c)
    \/ \E c \in Clients :
          \/ Forward(c) \/ Disconnect(c)
          \/ \E target \in Companies \union {None} : Connect(c, target)

\* asyncio resumes a generator whose event is there.
Spec == Init /\ [][Next]_vars /\ \A c \in Clients : WF_vars(Forward(c))

-----------------------------------------------------------------------------
\* "Publishing structured events to a Redis channel so SSE subscribers receive
\* them in real time" (core/events.py:4): an event that Redis accepted reaches
\* the clients that listened to its company then and stay connected.
EventsReachSubscribers ==
    \A c \in Clients, n \in 1..MaxEvents :
        (n \in DOMAIN published /\ c \in published[n].audience)
            ~> (n \in forwarded[c] \/ channel[c] = "closed")
=============================================================================
