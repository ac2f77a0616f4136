------------------------------ MODULE ToolCalls ------------------------------
(***************************************************************************)
(* Tool calls of agent runs: the tools built for a company                 *)
(* (engine/tool_definitions.py), the executor that resolves and runs them  *)
(* (engine/tool_registry.py), the HTTP requests of the four tool adapters  *)
(* (adapters/*.py) and the services behind them, whose answers can be late,*)
(* lost or errors, while adapters are replaced and runs are cancelled.     *)
(*                                                                         *)
(* An argument is its name, a request reads or writes.  A run goes from    *)
(* one await to the next: the call up to its first request is one step.    *)
(***************************************************************************)
EXTENDS Naturals, Sequences

CONSTANTS
    Runs,           \* the agents of a company, of each of which one run is under way
    Tools,          \* the tools the model may call; others behave alike
    MaxCalls,       \* bound: calls of all runs
    MaxInstances,   \* bound: adapters registered in turn for one service
    MaxPosts        \* bound: posts in the chat

-----------------------------------------------------------------------------
\* The tools of build_registry_for_company: per service, the arguments that
\* the schema given to the LLM requires.
PlaneTools ==
    [create_issue |-> {"project_id", "title"}, update_issue |-> {"issue_id"},
     get_issue |-> {"issue_id"}, add_comment |-> {"issue_id", "text"},
     list_issues |-> {"project_id"}]

OutlineTools ==
    [search_documents |-> {"query"}, create_document |-> {"title", "text"},
     get_document |-> {"doc_id"}, update_document |-> {"doc_id"}]

MattermostTools ==
    [send_message |-> {"channel_id", "message"}, search_posts |-> {"terms"},
     reply_to_message |-> {"post_id", "message"}]

MeilisearchTools ==
    [search_all |-> {"query", "company_id"}, search |-> {"index", "query"}]

Schemas == [plane |-> PlaneTools, outline |-> OutlineTools,
            mattermost |-> MattermostTools, meilisearch |-> MeilisearchTools]

\* The arguments without which the handler raises before it calls the adapter.
PlaneChecks ==
    [create_issue |-> {"project_id", "title"}, update_issue |-> {"issue_id"},
     get_issue |-> {"issue_id"}, add_comment |-> {"issue_id", "text"},
     list_issues |-> {"project_id"}]

OutlineChecks ==
    [search_documents |-> {"query"}, create_document |-> {"title"},
     get_document |-> {"doc_id"}, update_document |-> {"doc_id"}]

MattermostChecks ==
    [send_message |-> {"channel_id", "message"}, search_posts |-> {"terms"},
     reply_to_message |-> {"post_id", "message"}]

MeilisearchChecks ==
    [search_all |-> {"query", "company_id"}, search |-> {"index", "query"}]

Checks == [plane |-> PlaneChecks, outline |-> OutlineChecks,
           mattermost |-> MattermostChecks, meilisearch |-> MeilisearchChecks]

\* The HTTP requests each operation of an adapter makes, in order.
PlaneRequests ==
    [create_issue |-> <<"write">>, update_issue |-> <<"write">>,
     get_issue |-> <<"read">>, add_comment |-> <<"write">>,
     list_issues |-> <<"read">>]

OutlineRequests ==
    [search_documents |-> <<"read">>, create_document |-> <<"write">>,
     get_document |-> <<"read">>, update_document |-> <<"write">>]

\* A reply first reads the post it replies to.
MattermostRequests ==
    [send_message |-> <<"write">>, search_posts |-> <<"read">>,
     reply_to_message |-> <<"read", "write">>]

MeilisearchRequests == [search_all |-> <<"read">>, search |-> <<"read">>]

Requests == [plane |-> PlaneRequests, outline |-> OutlineRequests,
             mattermost |-> MattermostRequests, meilisearch |-> MeilisearchRequests]

Services == DOMAIN Schemas

AllTools == UNION {DOMAIN Schemas[s] : s \in Services}

ServiceOf(t) == CHOOSE s \in Services : t \in DOMAIN Schemas[s]

Schema(t) == Schemas[ServiceOf(t)][t]
CheckedArguments(t) == Checks[ServiceOf(t)][t]
RequestsOf(t) == Requests[ServiceOf(t)][t]

ASSUME ToolsAssumption ==
    /\ Tools \subseteq AllTools
    /\ MaxCalls \in Nat /\ MaxInstances \in Nat \ {0} /\ MaxPosts \in Nat \ {0}
    \* Arguments that satisfy the schema satisfy the handler, and a call that
    \* arrives without any is not sent.
    /\ \A t \in AllTools : CheckedArguments(t) \subseteq Schema(t) /\ CheckedArguments(t) # {}

-----------------------------------------------------------------------------
VARIABLES
    client,     \* per service, the HTTP client of each adapter registered in turn
    current,    \* per service, which of them is registered; 0 is none
    held,       \* per run, the adapters its tools close over; <<>> before they are built
    calls,      \* the calls made and what became of them
    pending,    \* per run, its call under way; 0 is none
    step,       \* per run, how many requests that call has sent
    reply,      \* per run, the response to the last of them
    wire,       \* requests sent that no service has processed yet
    posts       \* the root of each post of the chat; 0 for a post that is a root

adapterVars == <<client, current, held>>
vars == <<adapterVars, calls, pending, step, reply, wire, posts>>

Pending(r) == pending[r] # 0

\* The run's pending call, and whether the request it waits for reads or writes.
CallOf(r) == calls[pending[r]]
Kind(r) == RequestsOf(CallOf(r).tool)[step[r]]

Init ==
    /\ client = [s \in Services |-> <<"open">>]
    /\ current = [s \in Services |-> 1]
    /\ held = [r \in Runs |-> <<>>]
    /\ calls = <<>>
    /\ pending = [r \in Runs |-> 0]
    /\ step = [r \in Runs |-> 0]
    /\ reply = [r \in Runs |-> "none"]
    /\ wire = {}
    /\ posts = <<0>>

-----------------------------------------------------------------------------
\* build_registry_for_company: the tools close over the adapters of the moment.
Build(r) ==
    /\ held[r] = <<>>
    /\ held' = [held EXCEPT ![r] = current]
    /\ UNCHANGED <<client, current, calls, pending, step, reply, wire, posts>>

\* The registered adapter is shut down, to be removed or replaced.
ShutDown(s) ==
    /\ current[s] # 0
    /\ client' = [client EXCEPT ![s][current[s]] = "closed"]
    /\ current' = [current EXCEPT ![s] = 0]
    /\ UNCHANGED <<held, calls, pending, step, reply, wire, posts>>

Register(s) ==
    /\ current[s] = 0 /\ Len(client[s]) < MaxInstances
    /\ client' = [client EXCEPT ![s] = Append(@, "open")]
    /\ current' = [current EXCEPT ![s] = Len(client[s]) + 1]
    /\ UNCHANGED <<held, calls, pending, step, reply, wire, posts>>

-----------------------------------------------------------------------------
\* Whether a tool of this service can send a request in this run: the tool is
\* registered and the client it closes over is open.
Usable(r, s) == held[r][s] # 0 /\ client[s][held[r][s]] = "open"

\* The posts a tool can be asked to reply to; 0 where it replies to none.
Targets(t) == IF t = "reply_to_message" THEN DOMAIN posts ELSE {0}

Request(n, k, root) == [call |-> n, kind |-> k, root |-> root]

NewCall(t, post, status) == [tool |-> t, post |-> post, status |-> status, effects |-> 0]

\* execute: a tool that is not registered, an argument that the handler or the
\* adapter misses (arguments names those that are not blank) and a client that
\* is closed are errors before anything is sent.
Call(r, t, post, arguments) ==
    /\ held[r] # <<>> /\ ~Pending(r) /\ Len(calls) < MaxCalls
    /\ LET sends == Usable(r, ServiceOf(t)) /\ CheckedArguments(t) \subseteq arguments
           n == Len(calls) + 1
       IN  /\ calls' = Append(calls, NewCall(t, post, IF sends THEN "pending" ELSE "unsent"))
           /\ pending' = [pending EXCEPT ![r] = IF sends THEN n ELSE 0]
           /\ step' = [step EXCEPT ![r] = IF sends THEN 1 ELSE 0]
           /\ wire' = IF sends THEN wire \union {Request(n, RequestsOf(t)[1], 0)} ELSE wire
    /\ UNCHANGED <<adapterVars, reply, posts>>

-----------------------------------------------------------------------------
\* Whether the run still waits for the response to a request.
Awaits(r, q) == pending[r] = q.call /\ Kind(r) = q.kind /\ reply[r] = "none"

Responses == {"ok", "refused", "failed", "none"}

\* A service processes a request, in time or long after its caller gave up.
\* It does what it is asked ("ok"), declines ("refused"), or fails, before or
\* after having done it ("failed": a status of 500 and above); its response can
\* get lost ("none").  That a service which answers with a status from 300 to
\* 499 has not done what it was asked is assumed of the services.
Process(q, response, acts) ==
    /\ q \in wire
    /\ response = "ok" => acts
    /\ response = "refused" => ~acts
    /\ wire' = wire \ {q}
    /\ reply' = [r \in Runs |-> IF Awaits(r, q) THEN response ELSE reply[r]]
    /\ calls' = IF acts /\ q.kind = "write"
                THEN [calls EXCEPT ![q.call].effects = @ + 1] ELSE calls
    /\ posts' = IF acts /\ q.kind = "write" /\ q.root # 0
                THEN Append(posts, q.root) ELSE posts
    /\ Len(posts') <= MaxPosts
    /\ UNCHANGED <<adapterVars, pending, step>>

-----------------------------------------------------------------------------
\* The run's pending call is over.
EndCall(r, status) ==
    /\ calls' = [calls EXCEPT ![pending[r]].status = status]
    /\ pending' = [pending EXCEPT ![r] = 0]
    /\ step' = [step EXCEPT ![r] = 0]
    /\ reply' = [reply EXCEPT ![r] = "none"]
    /\ UNCHANGED <<wire, posts>>

Answer(r, status) == EndCall(r, status) /\ UNCHANGED adapterVars

\* Mutant: an error names the operation, by its first request.
FailureOfFirst(r) == IF RequestsOf(CallOf(r).tool)[1] = "write" THEN "write failed" ELSE "read failed"

\* An AdapterError says which request failed, by its method and path or by the
\* action of the service.
FailureOf(r) == IF Kind(r) = "write" THEN "write failed" ELSE "read failed"

\* Mutant: a reply hangs under the post it replies to.
RootAsGiven(post) == post

\* root_id of a reply: a reply to a reply goes to the root of its thread.
RootOf(post) == IF posts[post] # 0 THEN posts[post] ELSE post

\* reply_to_message sends its second request.
SendNext(r, c) ==
    /\ wire' = wire \union {Request(pending[r], RequestsOf(c.tool)[step[r] + 1], RootOf(c.post))}
    /\ step' = [step EXCEPT ![r] = @ + 1]
    /\ reply' = [reply EXCEPT ![r] = "none"]
    /\ UNCHANGED <<adapterVars, calls, pending, posts>>

\* A successful response ends the call, or lets its next request follow.
Continue(r) ==
    /\ Pending(r) /\ reply[r] = "ok"
    /\ LET c == CallOf(r)
       IN  \/ step[r] = Len(RequestsOf(c.tool)) /\ Answer(r, "ok")
           \/ /\ step[r] < Len(RequestsOf(c.tool))
              /\ IF Usable(r, ServiceOf(c.tool)) THEN SendNext(r, c) ELSE Answer(r, "unsent")

\* _raise_for_status: the error tells the status.
ErrorStatus(r) ==
    /\ Pending(r) /\ reply[r] \in {"refused", "failed"}
    /\ Answer(r, IF reply[r] = "refused" THEN "declined" ELSE FailureOf(r))

\* Mutant: a request that timed out is sent again.
TimedOutRetried(r) ==
    /\ Pending(r) /\ reply[r] = "none"
    /\ wire' = wire \union {Request(pending[r], Kind(r), CallOf(r).post)}
    /\ UNCHANGED <<adapterVars, calls, pending, step, reply, posts>>

\* Mutant: a closed client does not give up.
TimedOutIfOpen(r) ==
    /\ Pending(r) /\ reply[r] = "none" /\ Usable(r, ServiceOf(CallOf(r).tool))
    /\ Answer(r, FailureOf(r))

\* httpx.TimeoutException: the response is too late, whatever becomes of the request.
TimedOut(r) ==
    /\ Pending(r) /\ reply[r] = "none"
    /\ Answer(r, FailureOf(r))

\* The connection breaks under the request (httpx.RequestError), also because
\* the adapter is shut down.
Disconnected(r) ==
    /\ Pending(r)
    /\ Answer(r, FailureOf(r))

\* An exception that is no AdapterError names neither request nor status: the
\* body of a response is no JSON, or of a post without a channel, or Retry-After
\* is no number.
RawError(r) ==
    /\ Pending(r) /\ reply[r] \in {"ok", "refused"}
    /\ Answer(r, "raw error")

\* The run is cancelled, and the next run builds its tools anew.  CancelledError
\* is no Exception: there is no result.
Cancel(r) ==
    /\ Pending(r)
    /\ EndCall(r, "abandoned")
    /\ held' = [held EXCEPT ![r] = <<>>]
    /\ UNCHANGED <<client, current>>

Next ==
    \/ \E t \in Tools : ShutDown(ServiceOf(t)) \/ Register(ServiceOf(t))
    \/ \E r \in Runs :
          \/ Build(r) \/ Continue(r) \/ ErrorStatus(r)
          \/ TimedOut(r) \/ Disconnected(r) \/ RawError(r) \/ Cancel(r)
          \/ \E t \in Tools : \E post \in Targets(t), arguments \in {{}, Schema(t)} :
                Call(r, t, post, arguments)
    \/ \E q \in wire, response \in Responses, acts \in BOOLEAN : Process(q, response, acts)

Spec == Init /\ [][Next]_vars

\* httpx gives up on a response after its timeouts, and asyncio resumes a
\* coroutine whose response is there.
FairSpec ==
    /\ Spec
    /\ \A r \in Runs : WF_vars(TimedOut(r)) /\ WF_vars(Continue(r)) /\ WF_vars(ErrorStatus(r))
-----------------------------------------------------------------------------
\* What the result of a call (success, output) tells: that nothing was sent, the
\* status with which the service declined, which request failed, or none of it.
Results == {"ok", "unsent", "declined", "read failed", "write failed", "raw error"}

Statuses == {"pending", "abandoned"} \union Results

CallRecords ==
    [tool : Tools, post : 0..MaxPosts, status : Statuses, effects : Nat]

Requested ==
    [call : 1..MaxCalls, kind : {"read", "write"}, root : 0..MaxPosts]

AdaptersOK ==
    /\ client \in [Services -> Seq({"open", "closed"})]
    /\ current \in [Services -> Nat] /\ \A s \in Services : current[s] \in 0..Len(client[s])
    /\ held \in [Runs -> {<<>>} \union [Services -> Nat]]
    /\ \A r \in Runs : held[r] # <<>> => \A s \in Services : held[r][s] \in 0..Len(client[s])

CallsOK ==
    /\ calls \in Seq(CallRecords) /\ Len(calls) <= MaxCalls
    /\ pending \in [Runs -> 0..MaxCalls]
    /\ \A r \in Runs : Pending(r) =>
          /\ pending[r] \in DOMAIN calls /\ CallOf(r).status = "pending"
          /\ step[r] \in DOMAIN RequestsOf(CallOf(r).tool)
    /\ step \in [Runs -> Nat]
    /\ reply \in [Runs -> Responses]
    /\ wire \subseteq Requested
    /\ posts \in Seq(Nat) /\ Len(posts) \in 1..MaxPosts
    /\ \A p \in DOMAIN posts : posts[p] < p

\* Type invariant: a call that a run waits for is pending, and the run waits
\* for one of its requests.
TypeOK == AdaptersOK /\ CallsOK

\* No operation is carried out twice, however slow or lost its requests and
\* responses are and whatever is shut down meanwhile: no adapter, handler or
\* executor sends a request again.
DoneAtMostOnce ==
    \A n \in DOMAIN calls : calls[n].effects <= 1

\* reply_to_message keeps threads flat: the root of every post is a root,
\* whichever post of a thread is replied to while other replies are under way.
ThreadsStayFlat ==
    \A p \in DOMAIN posts : posts[p] # 0 => posts[posts[p]] = 0

\* Every tool call comes to an end, whether its request or its response is
\* lost, its service fails or its adapter is shut down under it.
EveryCallAnswered == \A r \in Runs : Pending(r) ~> ~Pending(r)

\* The calls that change something in a service.
Writes(n) ==
    n \in DOMAIN calls /\ \E i \in DOMAIN RequestsOf(calls[n].tool) : RequestsOf(calls[n].tool)[i] = "write"

\* What a reader of the result may conclude of the effect.
RuledOut == {"unsent", "declined", "read failed"}
LeftOpen == {"write failed", "raw error"}

Conclusion(status) ==
    IF status \in RuledOut THEN "refused"
    ELSE IF status \in LeftOpen THEN "unclear" ELSE status

RemoteStatus == [n \in 1..MaxCalls |-> IF Writes(n) THEN Conclusion(calls[n].status) ELSE "none"]
RemoteEffect == [n \in 1..MaxCalls |-> Writes(n) /\ calls[n].effects > 0]

Remote == INSTANCE RemoteCall WITH
              Calls <- 1..MaxCalls, status <- RemoteStatus, effect <- RemoteEffect

\* The result of a call is enough to tell what became of it, as far as that can
\* be told: a call reported as done is done; after an error raised before
\* anything was sent, an error status below 500 or an error that names a request
\* which only reads, the effect never happens, not even later; after an error
\* that names the write or names nothing it may be there or still come.
ImplementsRemoteCall == Remote!Spec
=============================================================================
