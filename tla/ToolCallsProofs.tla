--------------------------- MODULE ToolCallsProofs ---------------------------
(***************************************************************************)
(* Proofs about the tools a run calls and the conversation it calls them   *)
(* from.  Tool calls, for any number of runs, calls, adapters and posts:   *)
(* no operation is carried out twice, threads stay flat, and what is known *)
(* of a call is true of it (ToolCalls implements RemoteCall).              *)
(* Conversations, of any length and with any number of calls per step: the *)
(* roles on the wire alternate, and the results of a step are the end of   *)
(* the next request, wherever compaction cuts.                             *)
(***************************************************************************)
EXTENDS ToolCalls, Conversation, FiniteSetTheorems, TLAPS

\* The shapes of an operation's requests.
Shapes == {<<"read">>, <<"write">>, <<"read", "write">>}

\* Every tool has one of the shapes, and only replies make two requests.
LEMMA ToolTable ==
    ASSUME NEW t \in Tools
    PROVE  /\ ServiceOf(t) \in Services
           /\ RequestsOf(t) \in Shapes
           /\ RequestsOf(t) = <<"read", "write">> => t = "reply_to_message"
<1>1. t \in AllTools
  BY ToolsAssumption
<1>2. PICK s \in Services : t \in DOMAIN Schemas[s]
  BY <1>1 DEF AllTools
<1>3. ServiceOf(t) \in Services /\ t \in DOMAIN Schemas[ServiceOf(t)]
  BY <1>2 DEF ServiceOf
<1>4. Services = {"plane", "outline", "mattermost", "meilisearch"}
  BY DEF Services, Schemas
<1> DEFINE s0 == ServiceOf(t)
<1>5. CASE s0 = "plane"
  <2>1. t \in {"create_issue", "update_issue", "get_issue", "add_comment", "list_issues"}
    BY <1>3, <1>5 DEF Schemas, PlaneTools
  <2>2. RequestsOf(t) = PlaneRequests[t]
    BY <1>5 DEF RequestsOf, Requests
  <2>3. QED
    BY <1>3, <2>1, <2>2 DEF PlaneRequests, Shapes
<1>6. CASE s0 = "outline"
  <2>1. t \in {"search_documents", "create_document", "get_document", "update_document"}
    BY <1>3, <1>6 DEF Schemas, OutlineTools
  <2>2. RequestsOf(t) = OutlineRequests[t]
    BY <1>6 DEF RequestsOf, Requests
  <2>3. QED
    BY <1>3, <2>1, <2>2 DEF OutlineRequests, Shapes
<1>7. CASE s0 = "mattermost"
  <2>1. t \in {"send_message", "search_posts", "reply_to_message"}
    BY <1>3, <1>7 DEF Schemas, MattermostTools
  <2>2. RequestsOf(t) = MattermostRequests[t]
    BY <1>7 DEF RequestsOf, Requests
  <2>3. QED
    BY <1>3, <2>1, <2>2 DEF MattermostRequests, Shapes
<1>8. CASE s0 = "meilisearch"
  <2>1. t \in {"search_all", "search"}
    BY <1>3, <1>8 DEF Schemas, MeilisearchTools
  <2>2. RequestsOf(t) = MeilisearchRequests[t]
    BY <1>8 DEF RequestsOf, Requests
  <2>3. QED
    BY <1>3, <2>1, <2>2 DEF MeilisearchRequests, Shapes
<1>9. QED
  BY <1>3, <1>4, <1>5, <1>6, <1>7, <1>8


-----------------------------------------------------------------------------
\* The calls whose effect may still come.
Unsettled == {"pending", "abandoned"} \cup LeftOpen

\* A request under way has had no effect yet and may still have one, and a run
\* that waits for a write has sent it last.
WireInv ==
    \A q \in wire :
        /\ q.call \in DOMAIN calls
        /\ q.root # 0 => q.root \in DOMAIN posts /\ posts[q.root] = 0
        /\ q.kind = "write" =>
              /\ Writes(q.call)
              /\ calls[q.call].effects = 0
              /\ calls[q.call].status \in Unsettled
              /\ \A r \in Runs : pending[r] = q.call => Kind(r) = "write" /\ reply[r] = "none"

\* A call sends one write at most.
OneWrite ==
    \A q1, q2 \in wire :
        q1.kind = "write" /\ q2.kind = "write" /\ q1.call = q2.call => q1 = q2

\* What is known of a call is true of it.
CallInv ==
    \A n \in DOMAIN calls :
        /\ calls[n].effects <= 1
        /\ calls[n].effects # 0 =>
              Writes(n) /\ calls[n].status \in Unsettled \cup {"ok"}
        /\ calls[n].status = "ok" /\ Writes(n) => calls[n].effects = 1
        /\ calls[n].tool = "reply_to_message" => calls[n].post \in DOMAIN posts

\* What the response to a pending call tells of its effect.
RunInv ==
    \A r \in Runs : Pending(r) =>
        /\ Kind(r) = "read" => CallOf(r).effects = 0
        /\ Kind(r) = "write" /\ reply[r] = "ok" => CallOf(r).effects = 1
        /\ Kind(r) = "write" /\ reply[r] = "refused" => CallOf(r).effects = 0
        /\ \A s \in Runs : pending[s] = pending[r] => s = r

\* No response is left over for the next call.
IdleInv == \A r \in Runs : ~Pending(r) => reply[r] = "none"

\* The inductive invariant.
IInv == TypeOK /\ WireInv /\ OneWrite /\ CallInv /\ RunInv /\ IdleInv /\ ThreadsStayFlat

\* A result rules the effect out, or leaves it open, or tells it.
LEMMA Conclusions ==
    /\ Statuses = {"pending", "ok", "abandoned"} \cup RuledOut \cup LeftOpen
    /\ \A s \in RuledOut : Conclusion(s) = "refused"
    /\ \A s \in LeftOpen : Conclusion(s) = "unclear"
    /\ \A s \in {"pending", "ok", "abandoned"} : Conclusion(s) = s
    /\ "unsent" \in RuledOut
<1>1. Statuses = {"pending", "ok", "abandoned"} \cup RuledOut \cup LeftOpen
  BY DEF Statuses, Results, RuledOut, LeftOpen
<1>2. \A s \in RuledOut : Conclusion(s) = "refused"
  BY DEF Conclusion
<1>3. \A s \in LeftOpen : Conclusion(s) = "unclear"
  BY DEF Conclusion, RuledOut, LeftOpen
<1>4. \A s \in {"pending", "ok", "abandoned"} : Conclusion(s) = s
  BY DEF Conclusion, RuledOut, LeftOpen
<1>5. QED
  BY <1>1, <1>2, <1>3, <1>4 DEF RuledOut

-----------------------------------------------------------------------------
\* A pending call waits for one of the requests of its tool; the last one is
\* a write exactly if the call writes.
LEMMA PendingKind ==
    ASSUME TypeOK, NEW r \in Runs, Pending(r)
    PROVE  /\ pending[r] \in DOMAIN calls /\ CallOf(r) \in CallRecords
           /\ Kind(r) \in {"read", "write"}
           /\ Kind(r) = "write" => Writes(pending[r]) /\ step[r] = Len(RequestsOf(CallOf(r).tool))
           /\ step[r] = Len(RequestsOf(CallOf(r).tool)) /\ Writes(pending[r]) => Kind(r) = "write"
           /\ step[r] < Len(RequestsOf(CallOf(r).tool)) =>
                 /\ Kind(r) = "read" /\ step[r] + 1 \in DOMAIN RequestsOf(CallOf(r).tool)
                 /\ RequestsOf(CallOf(r).tool)[step[r] + 1] = "write"
                 /\ CallOf(r).tool = "reply_to_message" /\ Writes(pending[r])
<1>1. /\ pending[r] \in DOMAIN calls /\ CallOf(r) \in CallRecords
      /\ step[r] \in DOMAIN RequestsOf(CallOf(r).tool)
  BY DEF TypeOK, CallsOK, CallOf
<1>2. CallOf(r).tool \in Tools
  BY <1>1 DEF CallRecords
<1>3. /\ RequestsOf(CallOf(r).tool) \in Shapes
      /\ RequestsOf(CallOf(r).tool) = <<"read", "write">> => CallOf(r).tool = "reply_to_message"
  BY <1>2, ToolTable
<1> DEFINE R == RequestsOf(CallOf(r).tool)
<1>4. /\ Kind(r) = R[step[r]]
      /\ Writes(pending[r]) <=> \E i \in DOMAIN R : R[i] = "write"
  BY <1>1 DEF Kind, Writes, CallOf
<1> HIDE DEF R
<1>5. R \in Shapes /\ step[r] \in DOMAIN R /\ (R = <<"read", "write">> => CallOf(r).tool = "reply_to_message")
  BY <1>1, <1>3 DEF R
<1>6. /\ Kind(r) \in {"read", "write"}
      /\ Kind(r) = "write" => Writes(pending[r]) /\ step[r] = Len(R)
      /\ step[r] = Len(R) /\ Writes(pending[r]) => Kind(r) = "write"
      /\ step[r] < Len(R) =>
            /\ Kind(r) = "read" /\ step[r] + 1 \in DOMAIN R /\ R[step[r] + 1] = "write"
            /\ CallOf(r).tool = "reply_to_message" /\ Writes(pending[r])
  <2>1. CASE R = <<"read">>
    BY <1>4, <1>5, <2>1
  <2>2. CASE R = <<"write">>
    BY <1>4, <1>5, <2>2
  <2>3. CASE R = <<"read", "write">>
    BY <1>4, <1>5, <2>3
  <2>4. QED
    BY <1>5, <2>1, <2>2, <2>3 DEF Shapes
<1>7. QED
  BY <1>1, <1>6 DEF R

\* Whether a call writes depends on its tool alone.
LEMMA WritesKept ==
    ASSUME NEW n \in DOMAIN calls, n \in DOMAIN calls', calls'[n].tool = calls[n].tool
    PROVE  Writes(n)' <=> Writes(n)
  BY DEF Writes, RequestsOf, ServiceOf


\* So does what a run waits for.
LEMMA KindKept ==
    ASSUME NEW r \in Runs, pending'[r] = pending[r], step'[r] = step[r],
           calls'[pending[r]].tool = calls[pending[r]].tool
    PROVE  Kind(r)' = Kind(r)
  BY DEF Kind, CallOf, RequestsOf, ServiceOf

-----------------------------------------------------------------------------
LEMMA InitIInv == Init => IInv
<1> SUFFICES ASSUME Init PROVE IInv
  OBVIOUS
<1>1. AdaptersOK
  BY DEF Init, AdaptersOK
<1>2. CallsOK
  BY ToolsAssumption DEF Init, CallsOK, Pending, Responses
<1>3. WireInv /\ OneWrite /\ CallInv /\ RunInv /\ IdleInv /\ ThreadsStayFlat
  BY DEF Init, WireInv, OneWrite, CallInv, RunInv, IdleInv, Pending, ThreadsStayFlat
<1>4. QED
  BY <1>1, <1>2, <1>3 DEF IInv, TypeOK

\* The adapters of a service are replaced, and tools are built.
LEMMA AdaptersKept ==
    ASSUME AdaptersOK,
           \/ \E s \in Services : ShutDown(s) \/ Register(s)
           \/ \E r \in Runs : Build(r)
    PROVE  AdaptersOK' /\ UNCHANGED <<calls, pending, step, reply, wire, posts>>
<1>1. CASE \E s \in Services : ShutDown(s)
  <2>1. PICK s \in Services : ShutDown(s)
    BY <1>1
  <2>2. /\ client[s] \in Seq({"open", "closed"}) /\ current[s] \in 1..Len(client[s])
    BY <2>1 DEF ShutDown, AdaptersOK
  <2>3. client' \in [Services -> Seq({"open", "closed"})] /\ \A t \in Services : Len(client'[t]) = Len(client[t])
    BY <2>1, <2>2 DEF ShutDown, AdaptersOK
  <2>4. QED
    BY <2>1, <2>3 DEF ShutDown, AdaptersOK
<1>2. CASE \E s \in Services : Register(s)
  <2>1. PICK s \in Services : Register(s)
    BY <1>2
  <2>2. client[s] \in Seq({"open", "closed"})
    BY DEF AdaptersOK
  <2>3. /\ client' \in [Services -> Seq({"open", "closed"})]
        /\ Len(client'[s]) = Len(client[s]) + 1
        /\ \A t \in Services : t # s => Len(client'[t]) = Len(client[t])
    BY <2>1, <2>2 DEF Register, AdaptersOK
  <2>4. \A t \in Services : Len(client[t]) \in Nat
    BY DEF AdaptersOK
  <2>5. QED
    BY <2>1, <2>3, <2>4 DEF Register, AdaptersOK
<1>3. CASE \E r \in Runs : Build(r)
  BY <1>3 DEF Build, AdaptersOK
<1>4. QED
  BY <1>1, <1>2, <1>3

\* The end of a call: what is reported has to be true of it.
LEMMA EndCallKept ==
    ASSUME IInv, NEW r \in Runs, Pending(r), AdaptersOK',
           NEW status \in Statuses \ {"pending"}, EndCall(r, status),
           status = "ok" /\ Writes(pending[r]) => CallOf(r).effects = 1,
           status \in RuledOut =>
               /\ CallOf(r).effects = 0
               /\ \A q \in wire : q.kind = "write" => q.call # pending[r]
    PROVE  IInv'
<1> DEFINE n == pending[r]
<1>1. /\ calls \in Seq(CallRecords) /\ n \in DOMAIN calls /\ n \in 1..MaxCalls
      /\ pending \in [Runs -> 0..MaxCalls] /\ step \in [Runs -> Nat] /\ reply \in [Runs -> Responses]
      /\ calls[n] \in CallRecords
  BY DEF IInv, TypeOK, CallsOK, Pending
<1>2. /\ calls' \in Seq(CallRecords) /\ Len(calls') = Len(calls) /\ DOMAIN calls' = DOMAIN calls
      /\ calls'[n] = [calls[n] EXCEPT !.status = status]
      /\ \A m \in DOMAIN calls : m # n => calls'[m] = calls[m]
  <2>1. [calls[n] EXCEPT !.status = status] \in CallRecords
    BY <1>1 DEF CallRecords, Statuses, Results
  <2>2. calls' = [calls EXCEPT ![n] = [calls[n] EXCEPT !.status = status]]
    BY <1>1 DEF EndCall
  <2>3. QED
    BY <1>1, <2>1, <2>2
<1>3. /\ pending' = [pending EXCEPT ![r] = 0] /\ step' = [step EXCEPT ![r] = 0]
      /\ reply' = [reply EXCEPT ![r] = "none"] /\ UNCHANGED <<wire, posts>>
  BY DEF EndCall
<1>4. /\ \A m \in DOMAIN calls : calls'[m].tool = calls[m].tool /\ calls'[m].effects = calls[m].effects
                                 /\ calls'[m].post = calls[m].post
      /\ calls'[n].status = status
  BY <1>1, <1>2 DEF CallRecords
<1>5. \A m \in DOMAIN calls : Writes(m)' <=> Writes(m)
  BY <1>2, <1>4, WritesKept
<1>6. \A s \in Runs : Pending(s)' =>
          /\ s # r /\ Pending(s) /\ pending'[s] = pending[s] /\ pending[s] # n /\ pending[s] \in DOMAIN calls
          /\ CallOf(s)' = CallOf(s) /\ step'[s] = step[s] /\ reply'[s] = reply[s] /\ Kind(s)' = Kind(s)
  <2>1. SUFFICES ASSUME NEW s \in Runs, Pending(s)'
                 PROVE  /\ s # r /\ Pending(s) /\ pending'[s] = pending[s] /\ pending[s] # n
                        /\ pending[s] \in DOMAIN calls
                        /\ CallOf(s)' = CallOf(s) /\ step'[s] = step[s] /\ reply'[s] = reply[s]
                        /\ Kind(s)' = Kind(s)
    OBVIOUS
  <2>2. s # r /\ pending'[s] = pending[s] /\ Pending(s) /\ step'[s] = step[s] /\ reply'[s] = reply[s]
    BY <1>1, <1>3, <2>1 DEF Pending
  <2>3. pending[s] # n /\ pending[s] \in DOMAIN calls
    BY <2>2 DEF IInv, RunInv, TypeOK, CallsOK
  <2>4. CallOf(s)' = CallOf(s)
    BY <1>2, <2>2, <2>3 DEF CallOf
  <2>5. Kind(s)' = Kind(s)
    BY <1>4, <2>2, <2>3, KindKept
  <2>6. QED
    BY <2>2, <2>3, <2>4, <2>5
<1>7. CallsOK'
  <2>1. \A s \in Runs : Pending(s)' =>
            /\ pending'[s] \in DOMAIN calls' /\ CallOf(s)'.status = "pending"
            /\ step'[s] \in DOMAIN RequestsOf(CallOf(s)'.tool)
    BY <1>2, <1>6 DEF IInv, TypeOK, CallsOK
  <2>2. calls' \in Seq(CallRecords) /\ Len(calls') <= MaxCalls
    BY <1>2 DEF IInv, TypeOK, CallsOK
  <2>3. /\ pending' \in [Runs -> 0..MaxCalls] /\ step' \in [Runs -> Nat]
        /\ reply' \in [Runs -> Responses]
    BY <1>1, <1>3, ToolsAssumption DEF Responses
  <2>4. /\ wire' \subseteq Requested
        /\ posts' \in Seq(Nat) /\ Len(posts') \in 1..MaxPosts
        /\ \A p \in DOMAIN posts' : posts'[p] < p
    BY <1>3 DEF IInv, TypeOK, CallsOK
  <2>5. QED
    BY <2>1, <2>2, <2>3, <2>4 DEF CallsOK
<1>8. WireInv'
  <2>1. SUFFICES ASSUME NEW q \in wire
                 PROVE  /\ q.call \in DOMAIN calls'
                        /\ q.root # 0 => q.root \in DOMAIN posts' /\ posts'[q.root] = 0
                        /\ q.kind = "write" =>
                              /\ Writes(q.call)'
                              /\ calls'[q.call].effects = 0
                              /\ calls'[q.call].status \in Unsettled
                              /\ \A s \in Runs : pending'[s] = q.call => Kind(s)' = "write" /\ reply'[s] = "none"
    BY <1>3 DEF WireInv
  <2>2. q.call \in DOMAIN calls' /\ (q.root # 0 => q.root \in DOMAIN posts' /\ posts'[q.root] = 0)
    BY <1>2, <1>3 DEF IInv, WireInv
  <2>3. ASSUME q.kind = "write"
        PROVE  /\ Writes(q.call)' /\ calls'[q.call].effects = 0
               /\ calls'[q.call].status \in Unsettled
    <3>1. q.call \in DOMAIN calls /\ Writes(q.call) /\ calls[q.call].effects = 0
          /\ calls[q.call].status \in Unsettled
      BY <2>3 DEF IInv, WireInv
    <3>2. q.call = n => status \in Unsettled
      <4>1. SUFFICES ASSUME q.call = n PROVE status \in Unsettled
        OBVIOUS
      <4>2. status \notin RuledOut
        BY <2>3, <4>1
      <4>3. status # "ok"
        BY <3>1, <4>1 DEF CallOf
      <4>4. QED
        BY <4>2, <4>3, Conclusions DEF Unsettled
    <3>3. QED
      BY <1>2, <1>4, <1>5, <3>1, <3>2
  <2>4. ASSUME q.kind = "write", NEW s \in Runs, pending'[s] = q.call
        PROVE  Kind(s)' = "write" /\ reply'[s] = "none"
    <3>1. q.call # 0
      BY <1>1, <2>2, <1>2
    <3>2. Pending(s)'
      BY <2>4, <3>1 DEF Pending
    <3>3. QED
      BY <1>6, <2>4, <3>2 DEF IInv, WireInv
  <2>5. QED
    BY <2>2, <2>3, <2>4
<1>9. CallInv'
  <2>1. SUFFICES ASSUME NEW m \in DOMAIN calls
                 PROVE  /\ calls'[m].effects <= 1
                        /\ calls'[m].effects # 0 =>
                              Writes(m)' /\ calls'[m].status \in Unsettled \cup {"ok"}
                        /\ calls'[m].status = "ok" /\ Writes(m)' => calls'[m].effects = 1
                        /\ calls'[m].tool = "reply_to_message" => calls'[m].post \in DOMAIN posts'
    BY <1>2 DEF CallInv
  <2>2. CASE m = n
    BY <1>3, <1>4, <1>5, <2>2 DEF IInv, CallInv, CallOf, Statuses, Results, RuledOut, LeftOpen, Unsettled
  <2>3. CASE m # n
    BY <1>2, <1>3, <1>5, <2>3 DEF IInv, CallInv
  <2>4. QED
    BY <2>2, <2>3
<1>10. RunInv'
  BY <1>3, <1>6 DEF IInv, RunInv, Pending
<1>11. OneWrite' /\ ThreadsStayFlat'
  BY <1>3 DEF IInv, OneWrite, ThreadsStayFlat
<1>12. IdleInv'
  BY <1>1, <1>3 DEF IInv, IdleInv, Pending
<1>13. QED
  BY <1>7, <1>8, <1>9, <1>10, <1>11, <1>12 DEF IInv, TypeOK


\* A request that reads, or that declines a write, settles that the call had no
\* effect.
LEMMA NoEffectYet ==
    ASSUME IInv, NEW r \in Runs, Pending(r), Kind(r) = "read" \/ reply[r] # "none"
    PROVE  /\ \A q \in wire : q.kind = "write" => q.call # pending[r]
           /\ Kind(r) = "read" \/ reply[r] = "refused" => CallOf(r).effects = 0
  BY PendingKind DEF IInv, WireInv, RunInv

\* An error is reported as what it is.
LEMMA FailureKept ==
    ASSUME IInv, NEW r \in Runs, Pending(r), Answer(r, FailureOf(r))
    PROVE  IInv'
<1>1. AdaptersOK'
  BY DEF Answer, adapterVars, IInv, TypeOK, AdaptersOK
<1>2. FailureOf(r) \in {"write failed", "read failed"} /\ (FailureOf(r) = "read failed" => Kind(r) = "read")
  BY PendingKind DEF FailureOf, IInv
<1>3. FailureOf(r) \in RuledOut =>
          /\ CallOf(r).effects = 0
          /\ \A q \in wire : q.kind = "write" => q.call # pending[r]
  BY <1>2, NoEffectYet DEF RuledOut
<1>4. QED
  BY <1>1, <1>2, <1>3, EndCallKept DEF Answer, Statuses, Results

\* An exception that tells nothing leaves everything open.
LEMMA RawErrorKept ==
    ASSUME IInv, NEW r \in Runs, RawError(r)
    PROVE  IInv'
<1>1. Pending(r) /\ EndCall(r, "raw error") /\ UNCHANGED adapterVars
  BY DEF RawError, Answer
<1>2. AdaptersOK'
  BY <1>1 DEF adapterVars, IInv, TypeOK, AdaptersOK
<1>3. QED
  BY <1>1, <1>2, EndCallKept DEF Statuses, Results, RuledOut

LEMMA ErrorStatusKept ==
    ASSUME IInv, NEW r \in Runs, ErrorStatus(r)
    PROVE  IInv'
<1>1. CASE reply[r] = "refused"
  <2>1. Pending(r) /\ EndCall(r, "declined") /\ UNCHANGED adapterVars
    BY <1>1 DEF ErrorStatus, Answer
  <2>2. AdaptersOK'
    BY <2>1 DEF adapterVars, IInv, TypeOK, AdaptersOK
  <2>3. CallOf(r).effects = 0 /\ \A q \in wire : q.kind = "write" => q.call # pending[r]
    BY <1>1, <2>1, NoEffectYet
  <2>4. QED
    BY <2>1, <2>2, <2>3, EndCallKept DEF Statuses, Results
<1>2. CASE reply[r] # "refused"
  BY <1>2, FailureKept DEF ErrorStatus
<1>3. QED
  BY <1>1, <1>2

LEMMA CancelKept ==
    ASSUME IInv, NEW r \in Runs, Cancel(r)
    PROVE  IInv'
<1>1. AdaptersOK'
  BY DEF Cancel, IInv, TypeOK, AdaptersOK
<1>2. QED
  BY <1>1, EndCallKept DEF Cancel, Statuses, Results, RuledOut

\* The write of a reply follows its read.
LEMMA SendNextKept ==
    ASSUME IInv, NEW r \in Runs, Pending(r), reply[r] = "ok",
           step[r] < Len(RequestsOf(CallOf(r).tool)), SendNext(r, CallOf(r))
    PROVE  IInv'
<1> DEFINE n == pending[r]
           R == RequestsOf(CallOf(r).tool)
           post == CallOf(r).post
           request == Request(n, "write", RootOf(post))
<1>1. /\ n \in DOMAIN calls /\ CallOf(r) \in CallRecords /\ CallOf(r).status = "pending"
      /\ Kind(r) = "read" /\ step[r] + 1 \in DOMAIN R /\ R[step[r] + 1] = "write"
      /\ CallOf(r).tool = "reply_to_message" /\ Writes(n)
  BY PendingKind DEF IInv, TypeOK, CallsOK
<1>2. /\ wire' = wire \union {request}
      /\ step' = [step EXCEPT ![r] = step[r] + 1] /\ reply' = [reply EXCEPT ![r] = "none"]
      /\ UNCHANGED <<adapterVars, calls, pending, posts>>
  BY <1>1 DEF SendNext
<1>3. /\ post \in DOMAIN posts /\ posts \in Seq(Nat) /\ Len(posts) \in 1..MaxPosts
      /\ posts[RootOf(post)] = 0 /\ RootOf(post) \in DOMAIN posts
  <2>1. post \in DOMAIN posts
    BY <1>1 DEF IInv, CallInv, CallOf
  <2>2. posts \in Seq(Nat) /\ Len(posts) \in 1..MaxPosts /\ \A p \in DOMAIN posts : posts[p] < p
    BY DEF IInv, TypeOK, CallsOK
  <2>3. CASE posts[post] = 0
    BY <2>1, <2>2, <2>3 DEF RootOf
  <2>4. CASE posts[post] # 0
    <3>1. posts[post] \in Nat /\ posts[post] < post /\ posts[posts[post]] = 0
      BY <2>1, <2>2, <2>4 DEF IInv, ThreadsStayFlat
    <3>2. QED
      BY <2>1, <2>2, <2>4, <3>1 DEF RootOf
  <2>5. QED
    BY <2>1, <2>2, <2>3, <2>4
<1>4. /\ request.call = n /\ request.kind = "write" /\ request.root = RootOf(post)
      /\ request \in Requested
  <2>1. n \in 1..MaxCalls /\ RootOf(post) \in 0..MaxPosts
    BY <1>1, <1>3, ToolsAssumption DEF IInv, TypeOK, CallsOK
  <2>2. QED
    BY <2>1 DEF Request, Requested
<1> HIDE DEF request
<1>5. \A q \in wire : q.kind = "write" => q.call # n
  BY <1>1, NoEffectYet
<1>6. CallOf(r).effects = 0
  BY <1>1, NoEffectYet
<1>7. \A s \in Runs : s # r /\ Pending(s) =>
          /\ pending[s] # n /\ step'[s] = step[s] /\ reply'[s] = reply[s] /\ Kind(s)' = Kind(s)
  <2>1. ASSUME NEW s \in Runs, s # r, Pending(s)
        PROVE  pending[s] # n /\ step'[s] = step[s] /\ reply'[s] = reply[s] /\ Kind(s)' = Kind(s)
    <3>1. pending[s] # n
      BY <2>1 DEF IInv, RunInv
    <3>2. step'[s] = step[s] /\ reply'[s] = reply[s]
      BY <1>2, <2>1 DEF IInv, TypeOK, CallsOK
    <3>3. QED
      BY <1>2, <2>1, <3>1, <3>2, KindKept
  <2>2. QED
    BY <2>1
<1>8. step'[r] = step[r] + 1 /\ reply'[r] = "none" /\ Kind(r)' = "write"
  <2>1. step'[r] = step[r] + 1 /\ reply'[r] = "none"
    BY <1>2 DEF IInv, TypeOK, CallsOK
  <2>2. QED
    BY <1>1, <1>2, <2>1 DEF Kind, CallOf, RequestsOf, ServiceOf
<1>9. AdaptersOK'
  BY <1>2 DEF adapterVars, IInv, TypeOK, AdaptersOK
<1>10. CallsOK'
  <2>1. ASSUME NEW s \in Runs, Pending(s)'
        PROVE  /\ pending'[s] \in DOMAIN calls' /\ CallOf(s)'.status = "pending"
               /\ step'[s] \in DOMAIN RequestsOf(CallOf(s)'.tool)
    <3>1. Pending(s) /\ CallOf(s)' = CallOf(s)
      BY <1>2, <2>1 DEF Pending, CallOf
    <3>2. CASE s = r
      BY <1>1, <1>2, <1>8, <3>1, <3>2
    <3>3. CASE s # r
      BY <1>2, <1>7, <3>1, <3>3 DEF IInv, TypeOK, CallsOK
    <3>4. QED
      BY <3>2, <3>3
  <2>2. step' \in [Runs -> Nat] /\ reply' \in [Runs -> Responses]
    BY <1>2 DEF IInv, TypeOK, CallsOK, Responses
  <2>3. wire' \subseteq Requested
    BY <1>2, <1>4 DEF IInv, TypeOK, CallsOK
  <2>4. QED
    BY <1>2, <2>1, <2>2, <2>3 DEF IInv, TypeOK, CallsOK
<1>11. \A m : Writes(m)' <=> Writes(m)
  BY <1>2 DEF Writes, RequestsOf, ServiceOf
<1>12. WireInv'
  <2>1. SUFFICES ASSUME NEW q \in wire'
                 PROVE  /\ q.call \in DOMAIN calls
                        /\ q.root # 0 => q.root \in DOMAIN posts /\ posts[q.root] = 0
                        /\ q.kind = "write" =>
                              /\ Writes(q.call) /\ calls[q.call].effects = 0
                              /\ calls[q.call].status \in Unsettled
                              /\ \A s \in Runs : pending[s] = q.call => Kind(s)' = "write" /\ reply'[s] = "none"
    BY <1>2, <1>11 DEF WireInv
  <2>2. CASE q = request
    <3>1. ASSUME NEW s \in Runs, pending[s] = n PROVE s = r
      BY <3>1 DEF IInv, RunInv
    <3>2. QED
      BY <1>1, <1>3, <1>4, <1>6, <1>8, <2>2, <3>1 DEF CallOf, Unsettled
  <2>3. CASE q \in wire
    <3>1. ASSUME q.kind = "write", NEW s \in Runs, pending[s] = q.call
          PROVE  Kind(s)' = "write" /\ reply'[s] = "none"
      <4>1. s # r /\ Pending(s)
        BY <1>5, <2>3, <3>1 DEF Pending, IInv, WireInv, TypeOK, CallsOK
      <4>2. QED
        BY <1>7, <2>3, <3>1, <4>1 DEF IInv, WireInv
    <3>2. QED
      BY <2>3, <3>1 DEF IInv, WireInv
  <2>4. QED
    BY <1>2, <2>2, <2>3
<1>13. OneWrite'
  BY <1>2, <1>4, <1>5 DEF IInv, OneWrite
<1>14. RunInv'
  <2>1. SUFFICES ASSUME NEW s \in Runs, Pending(s)
                 PROVE  /\ Kind(s)' = "read" => CallOf(s).effects = 0
                        /\ Kind(s)' = "write" /\ reply'[s] = "ok" => CallOf(s).effects = 1
                        /\ Kind(s)' = "write" /\ reply'[s] = "refused" => CallOf(s).effects = 0
                        /\ \A t \in Runs : pending[t] = pending[s] => t = s
    BY <1>2 DEF RunInv, Pending, CallOf
  <2>2. CASE s = r
    BY <1>8, <2>2 DEF IInv, RunInv
  <2>3. CASE s # r
    BY <1>7, <2>1, <2>3 DEF IInv, RunInv
  <2>4. QED
    BY <2>2, <2>3
<1>15. CallInv' /\ ThreadsStayFlat'
  BY <1>2, <1>11 DEF IInv, CallInv, ThreadsStayFlat
<1>16. IdleInv'
  BY <1>2 DEF IInv, IdleInv, Pending, TypeOK, CallsOK
<1>17. QED
  BY <1>9, <1>10, <1>12, <1>13, <1>14, <1>15, <1>16 DEF IInv, TypeOK

LEMMA ContinueKept ==
    ASSUME IInv, NEW r \in Runs, Continue(r)
    PROVE  IInv'
<1> DEFINE R == RequestsOf(CallOf(r).tool)
<1>1. Pending(r) /\ reply[r] = "ok"
  BY DEF Continue
<1>2. CASE step[r] = Len(R) /\ Answer(r, "ok")
  <2>1. AdaptersOK'
    BY <1>2 DEF Answer, adapterVars, IInv, TypeOK, AdaptersOK
  <2>2. Writes(pending[r]) => CallOf(r).effects = 1
    BY <1>1, <1>2, PendingKind DEF IInv, RunInv
  <2>3. QED
    BY <1>1, <1>2, <2>1, <2>2, EndCallKept DEF Answer, Statuses, Results, RuledOut
<1>3. CASE step[r] < Len(R) /\ Answer(r, "unsent")
  <2>1. AdaptersOK'
    BY <1>3 DEF Answer, adapterVars, IInv, TypeOK, AdaptersOK
  <2>2. CallOf(r).effects = 0 /\ \A q \in wire : q.kind = "write" => q.call # pending[r]
    BY <1>1, <1>3, PendingKind, NoEffectYet DEF IInv
  <2>3. QED
    BY <1>1, <1>3, <2>1, <2>2, EndCallKept DEF Answer, Statuses, Results, RuledOut
<1>4. CASE step[r] < Len(R) /\ SendNext(r, CallOf(r))
  BY <1>1, <1>4, SendNextKept
<1>5. QED
  BY <1>2, <1>3, <1>4 DEF Continue

\* A new call: either it sends its first request, or it is over.
LEMMA CallKept ==
    ASSUME IInv, NEW r \in Runs, NEW t \in Tools, NEW post \in Targets(t), NEW arguments,
           Call(r, t, post, arguments)
    PROVE  IInv'
<1> DEFINE n == Len(calls) + 1
           sends == Usable(r, ServiceOf(t)) /\ CheckedArguments(t) \subseteq arguments
           status == IF sends THEN "pending" ELSE "unsent"
           new == NewCall(t, post, status)
           request == Request(n, RequestsOf(t)[1], 0)
<1>1. /\ ~Pending(r) /\ n <= MaxCalls /\ calls' = Append(calls, new)
      /\ pending' = [pending EXCEPT ![r] = IF sends THEN n ELSE 0]
      /\ step' = [step EXCEPT ![r] = IF sends THEN 1 ELSE 0]
      /\ wire' = IF sends THEN wire \union {request} ELSE wire
      /\ UNCHANGED <<adapterVars, reply, posts>>
  BY ToolsAssumption DEF Call, IInv, TypeOK, CallsOK
<1>2. /\ calls \in Seq(CallRecords) /\ Len(calls) \in Nat /\ n \in 1..MaxCalls
      /\ pending \in [Runs -> 0..MaxCalls] /\ step \in [Runs -> Nat] /\ reply \in [Runs -> Responses]
      /\ posts \in Seq(Nat) /\ Len(posts) \in 1..MaxPosts
  BY <1>1, ToolsAssumption DEF IInv, TypeOK, CallsOK
<1>3. post \in 0..MaxPosts /\ (t = "reply_to_message" => post \in DOMAIN posts)
  BY <1>2, ToolsAssumption DEF Targets
<1>4. /\ new \in CallRecords /\ new.tool = t /\ new.post = post /\ new.status = status
      /\ new.effects = 0
  BY <1>3 DEF NewCall, CallRecords, Statuses, Results
<1>5. /\ RequestsOf(t) \in Shapes /\ RequestsOf(t)[1] \in {"read", "write"}
      /\ 1 \in DOMAIN RequestsOf(t)
  BY ToolTable DEF Shapes
<1>6. /\ request \in Requested /\ request.call = n /\ request.kind = RequestsOf(t)[1]
      /\ request.root = 0
  BY <1>2, <1>5, ToolsAssumption DEF Request, Requested
<1> HIDE DEF new, request, status, sends
<1>7. /\ calls' \in Seq(CallRecords) /\ Len(calls') = n /\ DOMAIN calls' = 1..n /\ calls'[n] = new
      /\ DOMAIN calls = 1..Len(calls) /\ n \notin DOMAIN calls
      /\ \A m \in DOMAIN calls : m \in DOMAIN calls' /\ calls'[m] = calls[m]
  BY <1>1, <1>2, <1>4
<1>8. \A m \in DOMAIN calls : Writes(m)' <=> Writes(m)
  BY <1>7, WritesKept
<1>9. \A s \in Runs : s # r /\ Pending(s)' =>
          /\ Pending(s) /\ pending'[s] = pending[s] /\ pending[s] \in DOMAIN calls
          /\ CallOf(s)' = CallOf(s) /\ step'[s] = step[s] /\ Kind(s)' = Kind(s)
  <2>1. SUFFICES ASSUME NEW s \in Runs, s # r, Pending(s)'
                 PROVE  /\ Pending(s) /\ pending'[s] = pending[s] /\ pending[s] \in DOMAIN calls
                        /\ CallOf(s)' = CallOf(s) /\ step'[s] = step[s] /\ Kind(s)' = Kind(s)
    OBVIOUS
  <2>2. Pending(s) /\ pending'[s] = pending[s] /\ step'[s] = step[s]
    BY <1>1, <1>2, <2>1 DEF Pending
  <2>3. pending[s] \in DOMAIN calls
    BY <2>2 DEF IInv, TypeOK, CallsOK
  <2>4. CallOf(s)' = CallOf(s)
    BY <1>7, <2>2, <2>3 DEF CallOf
  <2>5. Kind(s)' = Kind(s)
    BY <1>7, <2>2, <2>3, KindKept
  <2>6. QED
    BY <2>2, <2>3, <2>4, <2>5
<1>10. Pending(r)' =>
          /\ sends /\ status = "pending" /\ pending'[r] = n /\ CallOf(r)' = new /\ step'[r] = 1
          /\ Kind(r)' = RequestsOf(t)[1] /\ reply'[r] = "none"
  <2>1. SUFFICES ASSUME Pending(r)'
                 PROVE  /\ sends /\ status = "pending" /\ pending'[r] = n /\ CallOf(r)' = new
                        /\ step'[r] = 1 /\ Kind(r)' = RequestsOf(t)[1] /\ reply'[r] = "none"
    OBVIOUS
  <2>2. sends /\ status = "pending" /\ pending'[r] = n /\ step'[r] = 1
    BY <1>1, <1>2, <2>1 DEF Pending, status
  <2>3. CallOf(r)' = new
    BY <1>7, <2>2 DEF CallOf
  <2>4. Kind(r)' = RequestsOf(t)[1]
    BY <1>4, <2>2, <2>3 DEF Kind, RequestsOf, ServiceOf
  <2>5. reply'[r] = "none"
    BY <1>1 DEF IInv, IdleInv
  <2>6. QED
    BY <2>2, <2>3, <2>4, <2>5
<1>11. AdaptersOK'
  BY <1>1 DEF adapterVars, IInv, TypeOK, AdaptersOK
<1>12. CallsOK'
  <2>1. ASSUME NEW s \in Runs, Pending(s)'
        PROVE  /\ pending'[s] \in DOMAIN calls' /\ CallOf(s)'.status = "pending"
               /\ step'[s] \in DOMAIN RequestsOf(CallOf(s)'.tool)
    <3>1. CASE s = r
      BY <1>2, <1>4, <1>5, <1>7, <1>10, <2>1, <3>1
    <3>2. CASE s # r
      BY <1>7, <1>9, <2>1, <3>2 DEF IInv, TypeOK, CallsOK
    <3>3. QED
      BY <3>1, <3>2
  <2>2. pending' \in [Runs -> 0..MaxCalls] /\ step' \in [Runs -> Nat]
    <3>1. n \in 0..MaxCalls /\ 0 \in 0..MaxCalls
      BY <1>2, ToolsAssumption
    <3>2. QED
      BY <1>1, <1>2, <3>1
  <2>3. wire' \subseteq Requested
    BY <1>1, <1>6 DEF IInv, TypeOK, CallsOK
  <2>4. /\ reply' \in [Runs -> Responses] /\ posts' \in Seq(Nat) /\ Len(posts') \in 1..MaxPosts
        /\ \A p \in DOMAIN posts' : posts'[p] < p
    BY <1>1, <1>2 DEF IInv, TypeOK, CallsOK
  <2>5. QED
    BY <1>1, <1>7, <2>1, <2>2, <2>3, <2>4 DEF CallsOK
<1>13. WireInv'
  <2>1. ASSUME NEW q \in wire
        PROVE  /\ q.call \in DOMAIN calls' /\ q.call # n
               /\ q.root # 0 => q.root \in DOMAIN posts' /\ posts'[q.root] = 0
               /\ q.kind = "write" =>
                     /\ Writes(q.call)' /\ calls'[q.call].effects = 0
                     /\ calls'[q.call].status \in Unsettled
                     /\ \A s \in Runs : pending'[s] = q.call => Kind(s)' = "write" /\ reply'[s] = "none"
    <3>1. /\ q.call \in DOMAIN calls /\ q.call \in DOMAIN calls' /\ q.call # n /\ q.call # 0
          /\ q.root # 0 => q.root \in DOMAIN posts' /\ posts'[q.root] = 0
      BY <1>1, <1>7 DEF IInv, WireInv
    <3>2. ASSUME q.kind = "write", NEW s \in Runs, pending'[s] = q.call
          PROVE  Kind(s)' = "write" /\ reply'[s] = "none"
      <4>1. Pending(s)'
        BY <3>1, <3>2 DEF Pending
      <4>2. s # r
        BY <1>10, <3>1, <3>2, <4>1
      <4>3. QED
        BY <1>1, <1>9, <3>2, <4>1, <4>2 DEF IInv, WireInv
    <3>3. q.kind = "write" =>
             /\ Writes(q.call)' /\ calls'[q.call].effects = 0
             /\ calls'[q.call].status \in Unsettled
      BY <1>7, <1>8, <3>1 DEF IInv, WireInv
    <3>4. QED
      BY <3>1, <3>2, <3>3
  <2>2. ASSUME NEW q, sends, q = request
        PROVE  /\ q.call \in DOMAIN calls'
               /\ q.root = 0
               /\ q.kind = "write" =>
                     /\ Writes(q.call)' /\ calls'[q.call].effects = 0
                     /\ calls'[q.call].status \in Unsettled
                     /\ \A s \in Runs : pending'[s] = q.call => Kind(s)' = "write" /\ reply'[s] = "none"
    <3>1. q.call \in DOMAIN calls' /\ calls'[q.call] = new
      BY <1>2, <1>6, <1>7, <2>2
    <3>2. q.kind = "write" => Writes(q.call)'
      BY <1>4, <1>5, <1>6, <2>2, <3>1 DEF Writes
    <3>3. ASSUME q.kind = "write", NEW s \in Runs, pending'[s] = q.call
          PROVE  Kind(s)' = "write" /\ reply'[s] = "none"
      <4>1. Pending(s)'
        BY <1>2, <1>6, <2>2, <3>3 DEF Pending
      <4>2. s = r
        BY <1>6, <1>7, <1>9, <2>2, <3>3, <4>1
      <4>3. QED
        BY <1>6, <1>10, <2>2, <3>3, <4>1, <4>2
    <3>4. QED
      BY <1>4, <1>6, <2>2, <3>1, <3>2, <3>3 DEF status, Unsettled
  <2>3. \A q \in wire' : q \in wire \/ (sends /\ q = request)
    BY <1>1
  <2>4. SUFFICES ASSUME NEW q \in wire'
                 PROVE  /\ q.call \in DOMAIN calls'
                        /\ q.root # 0 => q.root \in DOMAIN posts' /\ posts'[q.root] = 0
                        /\ q.kind = "write" =>
                              /\ Writes(q.call)'
                              /\ calls'[q.call].effects = 0
                              /\ calls'[q.call].status \in Unsettled
                              /\ \A s \in Runs : pending'[s] = q.call => Kind(s)' = "write" /\ reply'[s] = "none"
    BY DEF WireInv
  <2>5. CASE q \in wire
    BY <2>1, <2>5
  <2>6. CASE sends /\ q = request
    BY <2>2, <2>6
  <2>7. QED
    BY <2>3, <2>5, <2>6
<1>14. OneWrite'
  <2>1. \A q \in wire : q.call # request.call
    BY <1>6, <1>7 DEF IInv, WireInv
  <2>2. QED
    BY <1>1, <2>1 DEF IInv, OneWrite
<1>15. CallInv'
  <2>1. SUFFICES ASSUME NEW m \in DOMAIN calls'
                 PROVE  /\ calls'[m].effects <= 1
                        /\ calls'[m].effects # 0 =>
                              Writes(m)' /\ calls'[m].status \in Unsettled \cup {"ok"}
                        /\ calls'[m].status = "ok" /\ Writes(m)' => calls'[m].effects = 1
                        /\ calls'[m].tool = "reply_to_message" => calls'[m].post \in DOMAIN posts'
    BY DEF CallInv
  <2>2. CASE m = n
    BY <1>1, <1>3, <1>4, <1>7, <2>2 DEF status
  <2>3. CASE m \in DOMAIN calls
    BY <1>1, <1>7, <1>8, <2>3 DEF IInv, CallInv
  <2>4. QED
    BY <1>2, <1>7, <2>2, <2>3
<1>16. RunInv'
  <2>1. SUFFICES ASSUME NEW s \in Runs, Pending(s)'
                 PROVE  /\ Kind(s)' = "read" => CallOf(s)'.effects = 0
                        /\ Kind(s)' = "write" /\ reply'[s] = "ok" => CallOf(s)'.effects = 1
                        /\ Kind(s)' = "write" /\ reply'[s] = "refused" => CallOf(s)'.effects = 0
                        /\ \A u \in Runs : pending'[u] = pending'[s] => u = s
    BY DEF RunInv
  <2>2. CASE s = r
    <3>1. ASSUME NEW u \in Runs, pending'[u] = pending'[s] PROVE u = s
      BY <1>7, <1>9, <1>10, <2>1, <2>2, <3>1 DEF Pending
    <3>2. QED
      BY <1>4, <1>10, <2>1, <2>2, <3>1
  <2>3. CASE s # r
    <3>1. ASSUME NEW u \in Runs, pending'[u] = pending'[s] PROVE u = s
      <4>1. Pending(u)'
        BY <2>1, <3>1 DEF Pending
      <4>2. u # r
        BY <1>7, <1>9, <1>10, <2>1, <2>3, <3>1, <4>1
      <4>3. QED
        BY <1>9, <2>1, <2>3, <3>1, <4>1, <4>2 DEF IInv, RunInv
    <3>2. QED
      BY <1>1, <1>9, <2>1, <2>3, <3>1 DEF IInv, RunInv
  <2>4. QED
    BY <2>2, <2>3
<1>17. IdleInv' /\ ThreadsStayFlat'
  BY <1>1, <1>2 DEF IInv, IdleInv, Pending, ThreadsStayFlat
<1>18. QED
  BY <1>11, <1>12, <1>13, <1>14, <1>15, <1>16, <1>17 DEF IInv, TypeOK

\* A service processes a request.
LEMMA ProcessKept ==
    ASSUME IInv, NEW q \in wire, NEW response \in Responses, NEW acts \in BOOLEAN,
           Process(q, response, acts)
    PROVE  IInv'
<1> DEFINE done == acts /\ q.kind = "write"
<1>1. /\ wire' = wire \ {q} /\ (response = "ok" => acts) /\ (response = "refused" => ~acts)
      /\ reply' = [r \in Runs |-> IF Awaits(r, q) THEN response ELSE reply[r]]
      /\ posts' = IF done /\ q.root # 0 THEN Append(posts, q.root) ELSE posts
      /\ Len(posts') <= MaxPosts
      /\ UNCHANGED <<adapterVars, pending, step>>
  BY DEF Process
<1>2. /\ calls \in Seq(CallRecords) /\ pending \in [Runs -> 0..MaxCalls] /\ reply \in [Runs -> Responses]
      /\ posts \in Seq(Nat) /\ Len(posts) \in 1..MaxPosts /\ \A p \in DOMAIN posts : posts[p] < p
  BY DEF IInv, TypeOK, CallsOK
<1>3. /\ q.call \in DOMAIN calls /\ q.call # 0 /\ calls[q.call] \in CallRecords
      /\ q.root # 0 => q.root \in DOMAIN posts /\ posts[q.root] = 0
      /\ q.kind = "write" =>
            /\ Writes(q.call)
            /\ calls[q.call].effects = 0
            /\ calls[q.call].status \in Unsettled
            /\ \A r \in Runs : pending[r] = q.call => Kind(r) = "write" /\ reply[r] = "none"
      /\ \A p \in wire : p # q /\ p.kind = "write" /\ q.kind = "write" => p.call # q.call
  BY <1>2 DEF IInv, WireInv, OneWrite
<1>4. /\ calls' \in Seq(CallRecords) /\ Len(calls') = Len(calls) /\ DOMAIN calls' = DOMAIN calls
      /\ \A m \in DOMAIN calls :
            /\ calls'[m].tool = calls[m].tool /\ calls'[m].status = calls[m].status
            /\ calls'[m].post = calls[m].post
            /\ calls'[m].effects = IF done /\ m = q.call THEN 1 ELSE calls[m].effects
  <2>1. CASE done
    <3>1. calls' = [calls EXCEPT ![q.call] = [calls[q.call] EXCEPT !.effects = 1]]
      <4>1. acts /\ q.kind = "write" /\ calls[q.call].effects = 0
        BY <1>3, <2>1
      <4>2. calls' = [calls EXCEPT ![q.call].effects = calls[q.call].effects + 1]
        BY <1>3, <4>1 DEF Process
      <4>3. calls[q.call].effects + 1 = 1
        BY <4>1
      <4>4. QED
        BY <4>2, <4>3
    <3>2. [calls[q.call] EXCEPT !.effects = 1] \in CallRecords
      BY <1>3 DEF CallRecords
    <3>3. \A m \in DOMAIN calls : calls[m] \in CallRecords
      BY <1>2
    <3>4. /\ calls' \in Seq(CallRecords) /\ Len(calls') = Len(calls) /\ DOMAIN calls' = DOMAIN calls
          /\ calls'[q.call] = [calls[q.call] EXCEPT !.effects = 1]
          /\ \A m \in DOMAIN calls : m # q.call => calls'[m] = calls[m]
      BY <1>2, <1>3, <3>1, <3>2
    <3>5. ASSUME NEW m \in DOMAIN calls
          PROVE  /\ calls'[m].tool = calls[m].tool /\ calls'[m].status = calls[m].status
                 /\ calls'[m].post = calls[m].post
                 /\ calls'[m].effects = IF m = q.call THEN 1 ELSE calls[m].effects
      <4>1. CASE m = q.call
        BY <3>3, <3>4, <4>1 DEF CallRecords
      <4>2. CASE m # q.call
        BY <3>4, <4>2
      <4>3. QED
        BY <4>1, <4>2
    <3>6. QED
      BY <2>1, <3>4, <3>5
  <2>2. CASE ~done
    BY <1>2, <2>2 DEF Process
  <2>3. QED
    BY <2>1, <2>2
<1>5. \A m \in DOMAIN calls : Writes(m)' <=> Writes(m)
  BY <1>4, WritesKept
<1>6. \A r \in Runs : Pending(r)' =>
          /\ Pending(r) /\ pending[r] \in DOMAIN calls /\ Kind(r)' = Kind(r)
          /\ CallOf(r)'.status = CallOf(r).status /\ CallOf(r)'.tool = CallOf(r).tool
          /\ CallOf(r)'.effects = IF done /\ pending[r] = q.call THEN 1 ELSE CallOf(r).effects
  <2>1. SUFFICES ASSUME NEW r \in Runs, Pending(r)'
                 PROVE  /\ Pending(r) /\ pending[r] \in DOMAIN calls /\ Kind(r)' = Kind(r)
                        /\ CallOf(r)'.status = CallOf(r).status /\ CallOf(r)'.tool = CallOf(r).tool
                        /\ CallOf(r)'.effects = IF done /\ pending[r] = q.call THEN 1 ELSE CallOf(r).effects
    OBVIOUS
  <2>2. Pending(r) /\ pending'[r] = pending[r] /\ step'[r] = step[r]
    BY <1>1, <2>1 DEF Pending
  <2>3. pending[r] \in DOMAIN calls
    BY <2>2 DEF IInv, TypeOK, CallsOK
  <2>4. Kind(r)' = Kind(r)
    BY <1>4, <2>2, <2>3, KindKept
  <2>5. QED
    BY <1>4, <2>2, <2>3, <2>4 DEF CallOf
<1>7. \A r \in Runs : reply'[r] = IF Awaits(r, q) THEN response ELSE reply[r]
  BY <1>1
<1>8. /\ posts' \in Seq(Nat) /\ Len(posts') \in 1..MaxPosts /\ \A p \in DOMAIN posts' : posts'[p] < p
      /\ \A p \in DOMAIN posts : p \in DOMAIN posts' /\ posts'[p] = posts[p]
      /\ \A p \in DOMAIN posts' : p \in DOMAIN posts \/ (q.root # 0 /\ posts'[p] = q.root)
  <2>1. CASE done /\ q.root # 0
    <3>1. posts' = Append(posts, q.root) /\ q.root \in 1..Len(posts)
      BY <1>1, <1>2, <1>3, <2>1
    <3>2. QED
      BY <1>1, <1>2, <3>1, <2>1
  <2>2. CASE ~(done /\ q.root # 0)
    BY <1>1, <1>2, <2>2
  <2>3. QED
    BY <2>1, <2>2
<1>9. AdaptersOK'
  BY <1>1 DEF adapterVars, IInv, TypeOK, AdaptersOK
<1>10. CallsOK'
  <2>1. ASSUME NEW r \in Runs, Pending(r)'
        PROVE  /\ pending'[r] \in DOMAIN calls' /\ CallOf(r)'.status = "pending"
               /\ step'[r] \in DOMAIN RequestsOf(CallOf(r)'.tool)
    BY <1>1, <1>4, <1>6, <2>1 DEF IInv, TypeOK, CallsOK
  <2>2. reply' \in [Runs -> Responses]
    BY <1>1, <1>2
  <2>3. wire' \subseteq Requested /\ Len(calls') <= MaxCalls /\ pending' \in [Runs -> 0..MaxCalls]
        /\ step' \in [Runs -> Nat]
    BY <1>1, <1>4 DEF IInv, TypeOK, CallsOK
  <2>4. QED
    BY <1>4, <1>8, <2>1, <2>2, <2>3 DEF CallsOK
<1>11. WireInv'
  <2>1. SUFFICES ASSUME NEW p \in wire'
                 PROVE  /\ p.call \in DOMAIN calls'
                        /\ p.root # 0 => p.root \in DOMAIN posts' /\ posts'[p.root] = 0
                        /\ p.kind = "write" =>
                              /\ Writes(p.call)'
                              /\ calls'[p.call].effects = 0
                              /\ calls'[p.call].status \in Unsettled
                              /\ \A r \in Runs : pending'[r] = p.call => Kind(r)' = "write" /\ reply'[r] = "none"
    BY DEF WireInv
  <2>2. p \in wire /\ p # q
    BY <1>1
  <2>3. p.call \in DOMAIN calls /\ (p.root # 0 => p.root \in DOMAIN posts /\ posts[p.root] = 0)
    BY <2>2 DEF IInv, WireInv
  <2>4. ASSUME p.kind = "write"
        PROVE  /\ Writes(p.call)' /\ calls'[p.call].effects = 0
               /\ calls'[p.call].status \in Unsettled
    <3>1. done => p.call # q.call
      BY <1>3, <2>2, <2>4
    <3>2. QED
      BY <1>4, <1>5, <2>2, <2>3, <2>4, <3>1 DEF IInv, WireInv
  <2>5. ASSUME p.kind = "write", NEW r \in Runs, pending'[r] = p.call
        PROVE  Kind(r)' = "write" /\ reply'[r] = "none"
    <3>1. Kind(r) = "write" /\ reply[r] = "none" /\ pending[r] = p.call
      BY <1>1, <2>2, <2>5 DEF IInv, WireInv
    <3>2. Pending(r)'
      BY <1>2, <2>3, <2>5 DEF Pending
    <3>3. ~Awaits(r, q)
      BY <1>3, <2>2, <2>5, <3>1 DEF Awaits
    <3>4. QED
      BY <1>6, <1>7, <3>1, <3>2, <3>3
  <2>6. QED
    BY <1>4, <1>8, <2>3, <2>4, <2>5
<1>12. OneWrite'
  BY <1>1 DEF IInv, OneWrite
<1>13. CallInv'
  <2>1. SUFFICES ASSUME NEW m \in DOMAIN calls
                 PROVE  /\ calls'[m].effects <= 1
                        /\ calls'[m].effects # 0 =>
                              Writes(m)' /\ calls'[m].status \in Unsettled \cup {"ok"}
                        /\ calls'[m].status = "ok" /\ Writes(m)' => calls'[m].effects = 1
                        /\ calls'[m].tool = "reply_to_message" => calls'[m].post \in DOMAIN posts'
    BY <1>4 DEF CallInv
  <2>2. calls'[m].tool = calls[m].tool /\ calls'[m].status = calls[m].status
        /\ calls'[m].post = calls[m].post /\ (Writes(m)' <=> Writes(m))
    BY <1>4, <1>5
  <2>3. calls'[m].tool = "reply_to_message" => calls'[m].post \in DOMAIN posts'
    BY <1>8, <2>2 DEF IInv, CallInv
  <2>4. CASE done /\ m = q.call
    <3>1. calls'[m].effects = 1
      BY <1>4, <2>4
    <3>2. Writes(m)' /\ calls'[m].status \in Unsettled
      BY <1>3, <2>2, <2>4
    <3>3. QED
      BY <2>3, <3>1, <3>2
  <2>5. CASE ~(done /\ m = q.call)
    <3>1. calls'[m].effects = calls[m].effects
      BY <1>4, <2>5
    <3>2. /\ calls[m].effects <= 1
          /\ calls[m].effects # 0 => Writes(m) /\ calls[m].status \in Unsettled \cup {"ok"}
          /\ calls[m].status = "ok" /\ Writes(m) => calls[m].effects = 1
      BY DEF IInv, CallInv
    <3>3. QED
      BY <2>2, <2>3, <3>1, <3>2
  <2>6. QED
    BY <2>4, <2>5
<1>14. RunInv'
  <2>1. SUFFICES ASSUME NEW r \in Runs, Pending(r)'
                 PROVE  /\ Kind(r)' = "read" => CallOf(r)'.effects = 0
                        /\ Kind(r)' = "write" /\ reply'[r] = "ok" => CallOf(r)'.effects = 1
                        /\ Kind(r)' = "write" /\ reply'[r] = "refused" => CallOf(r)'.effects = 0
                        /\ \A s \in Runs : pending'[s] = pending'[r] => s = r
    BY DEF RunInv
  <2>2. /\ Pending(r) /\ Kind(r)' = Kind(r) /\ pending[r] \in DOMAIN calls
        /\ CallOf(r)'.effects = IF done /\ pending[r] = q.call THEN 1 ELSE CallOf(r).effects
    BY <1>6, <2>1
  <2>3. /\ Kind(r) = "read" => CallOf(r).effects = 0
        /\ Kind(r) = "write" /\ reply[r] = "ok" => CallOf(r).effects = 1
        /\ Kind(r) = "write" /\ reply[r] = "refused" => CallOf(r).effects = 0
        /\ \A s \in Runs : pending'[s] = pending'[r] => s = r
    BY <1>1, <2>2 DEF IInv, RunInv
  <2>4. CASE Awaits(r, q)
    BY <1>1, <1>3, <1>7, <2>2, <2>3, <2>4 DEF Awaits, CallOf
  <2>5. CASE ~Awaits(r, q)
    <3>1. done /\ pending[r] = q.call => FALSE
      BY <1>3, <2>5 DEF Awaits
    <3>2. QED
      BY <1>7, <2>2, <2>3, <2>5, <3>1
  <2>6. QED
    BY <2>4, <2>5
<1>15. IdleInv'
  BY <1>1, <1>3, <1>7 DEF IInv, IdleInv, Pending, Awaits
<1>16. ThreadsStayFlat'
  <2>1. SUFFICES ASSUME NEW p \in DOMAIN posts', posts'[p] # 0
                 PROVE  posts'[posts'[p]] = 0
    BY DEF ThreadsStayFlat
  <2>2. CASE p \in DOMAIN posts
    <3>1. posts'[p] = posts[p] /\ posts[p] \in DOMAIN posts /\ posts[posts[p]] = 0
      BY <1>2, <1>8, <2>1, <2>2 DEF IInv, ThreadsStayFlat
    <3>2. QED
      BY <1>8, <3>1
  <2>3. CASE q.root # 0 /\ posts'[p] = q.root
    BY <1>3, <1>8, <2>3
  <2>4. QED
    BY <1>8, <2>2, <2>3
<1>17. QED
  BY <1>9, <1>10, <1>11, <1>12, <1>13, <1>14, <1>15, <1>16 DEF IInv, TypeOK

-----------------------------------------------------------------------------
LEMMA NextIInv == IInv /\ [Next]_vars => IInv'
<1> SUFFICES ASSUME IInv, [Next]_vars PROVE IInv'
  OBVIOUS
<1>1. ASSUME \/ \E s \in Services : ShutDown(s) \/ Register(s)
             \/ \E r \in Runs : Build(r)
      PROVE  IInv'
  <2>1. AdaptersOK' /\ UNCHANGED <<calls, pending, step, reply, wire, posts>>
    BY <1>1, AdaptersKept DEF IInv, TypeOK
  <2>2. \A n : Writes(n)' <=> Writes(n)
    BY <2>1 DEF Writes
  <2>3. \A r : /\ Pending(r)' <=> Pending(r)
               /\ Kind(r)' = Kind(r) /\ CallOf(r)' = CallOf(r)
    BY <2>1 DEF Pending, Kind, CallOf
  <2>4. CallsOK'
    BY <2>1, <2>3 DEF IInv, TypeOK, CallsOK
  <2>5. WireInv' /\ OneWrite' /\ CallInv'
    BY <2>1, <2>2, <2>3 DEF IInv, WireInv, OneWrite, CallInv
  <2>6. RunInv' /\ IdleInv' /\ ThreadsStayFlat'
    BY <2>1, <2>3 DEF IInv, RunInv, IdleInv, ThreadsStayFlat
  <2>7. QED
    BY <2>1, <2>4, <2>5, <2>6 DEF IInv, TypeOK
<1>2. ASSUME NEW t \in Tools, ShutDown(ServiceOf(t)) \/ Register(ServiceOf(t))
      PROVE  IInv'
  BY <1>1, <1>2, ToolTable
<1>3. ASSUME NEW r \in Runs, Build(r) PROVE IInv'
  BY <1>1, <1>3
<1>4. ASSUME NEW r \in Runs, Continue(r) PROVE IInv'
  BY <1>4, ContinueKept
<1>5. ASSUME NEW r \in Runs, ErrorStatus(r) PROVE IInv'
  BY <1>5, ErrorStatusKept
<1>6. ASSUME NEW r \in Runs, TimedOut(r) PROVE IInv'
  BY <1>6, FailureKept DEF TimedOut
<1>7. ASSUME NEW r \in Runs, Disconnected(r) \/ RawError(r) PROVE IInv'
  <2>1. CASE Disconnected(r)
    BY <2>1, FailureKept DEF Disconnected
  <2>2. CASE RawError(r)
    BY <2>2, RawErrorKept
  <2>3. QED
    BY <1>7, <2>1, <2>2
<1>8. ASSUME NEW r \in Runs, Cancel(r) PROVE IInv'
  BY <1>8, CancelKept
<1>9. ASSUME NEW r \in Runs, NEW t \in Tools, NEW post \in Targets(t),
             NEW arguments \in {{}, Schema(t)}, Call(r, t, post, arguments)
      PROVE  IInv'
  BY <1>9, CallKept
<1>10. ASSUME NEW q \in wire, NEW response \in Responses, NEW acts \in BOOLEAN,
              Process(q, response, acts)
       PROVE  IInv'
  BY <1>10, ProcessKept
<1>11. ASSUME UNCHANGED vars PROVE IInv'
  <2>1. UNCHANGED <<client, current, held, calls, pending, step, reply, wire, posts>>
    BY <1>11 DEF vars, adapterVars
  <2>2. \A n : Writes(n)' <=> Writes(n)
    BY <2>1 DEF Writes
  <2>3. \A r : /\ Pending(r)' <=> Pending(r)
               /\ Kind(r)' = Kind(r) /\ CallOf(r)' = CallOf(r)
    BY <2>1 DEF Pending, Kind, CallOf
  <2>4. AdaptersOK' /\ CallsOK'
    BY <2>1, <2>3 DEF IInv, TypeOK, AdaptersOK, CallsOK
  <2>5. WireInv' /\ OneWrite' /\ CallInv'
    BY <2>1, <2>2, <2>3 DEF IInv, WireInv, OneWrite, CallInv
  <2>6. RunInv' /\ IdleInv' /\ ThreadsStayFlat'
    BY <2>1, <2>3 DEF IInv, RunInv, IdleInv, ThreadsStayFlat
  <2>7. QED
    BY <2>4, <2>5, <2>6 DEF IInv, TypeOK
<1>12. QED
  BY <1>2, <1>3, <1>4, <1>5, <1>6, <1>7, <1>8, <1>9, <1>10, <1>11 DEF Next

\* The inductive invariant holds in every reachable state.
THEOREM IInvInvariant == Spec => []IInv
<1>1. Init => IInv
  BY InitIInv
<1>2. IInv /\ [Next]_vars => IInv'
  BY NextIInv
<1>3. QED
  BY <1>1, <1>2, PTL DEF Spec

\* Type correctness: a pending call waits for one of the requests of its tool.
THEOREM TypeCorrect == Spec => []TypeOK
<1>1. IInv => TypeOK
  BY DEF IInv
<1>2. QED
  BY <1>1, IInvInvariant, PTL

\* No operation of a service is carried out twice, for any number of runs,
\* tools and adapters, whatever gets lost or late (tool_registry.py, adapters/).
THEOREM NothingDoneTwice == Spec => []DoneAtMostOnce
<1>1. IInv => DoneAtMostOnce
  BY DEF IInv, CallInv, DoneAtMostOnce
<1>2. QED
  BY <1>1, IInvInvariant, PTL

\* Replies of any number of agents under any posts keep threads flat
\* (reply_to_message of adapters/mattermost.py).
THEOREM FlatThreads == Spec => []ThreadsStayFlat
<1>1. IInv => ThreadsStayFlat
  BY DEF IInv
<1>2. QED
  BY <1>1, IInvInvariant, PTL

-----------------------------------------------------------------------------
\* A step that changes neither the status nor the effect of a call that writes
\* is none of RemoteCall's.
LEMMA RemoteStutters ==
    ASSUME \A m \in 1..MaxCalls :
               /\ Writes(m)' <=> Writes(m)
               /\ Writes(m) => /\ calls'[m].status = calls[m].status
                               /\ calls'[m].effects = calls[m].effects
    PROVE  UNCHANGED Remote!vars
<1>1. RemoteStatus' = RemoteStatus
  BY DEF RemoteStatus
<1>2. RemoteEffect' = RemoteEffect
  BY DEF RemoteEffect
<1>3. QED
  BY <1>1, <1>2 DEF Remote!vars

\* A step that changes the status of one call.
LEMMA RemoteBecomes ==
    ASSUME NEW n \in 1..MaxCalls, NEW status,
           Writes(n)', calls'[n].status = status, RemoteEffect'[n] = RemoteEffect[n],
           \A m \in 1..MaxCalls : m # n =>
               /\ Writes(m)' <=> Writes(m)
               /\ Writes(m) => /\ calls'[m].status = calls[m].status
                               /\ calls'[m].effects = calls[m].effects
    PROVE  Remote!Become(n, Conclusion(status))
<1>1. RemoteStatus' = [RemoteStatus EXCEPT ![n] = Conclusion(status)]
  BY DEF RemoteStatus
<1>2. \A m \in 1..MaxCalls : RemoteEffect'[m] = RemoteEffect[m]
  <2>1. ASSUME NEW m \in 1..MaxCalls, m # n PROVE RemoteEffect'[m] = RemoteEffect[m]
    BY <2>1 DEF RemoteEffect
  <2>2. QED
    BY <2>1
<1>3. RemoteEffect' = RemoteEffect
  <2>1. RemoteEffect = [m \in 1..MaxCalls |-> RemoteEffect[m]]
    BY DEF RemoteEffect
  <2>2. RemoteEffect' = [m \in 1..MaxCalls |-> RemoteEffect'[m]]
    BY DEF RemoteEffect
  <2>3. QED
    BY <1>2, <2>1, <2>2
<1>4. QED
  BY <1>1, <1>3 DEF Remote!Become

\* The end of a call is the step of RemoteCall that its status names.
LEMMA EndCallRefines ==
    ASSUME IInv, NEW r \in Runs, Pending(r),
           NEW status \in Statuses \ {"pending"}, EndCall(r, status),
           status = "ok" /\ Writes(pending[r]) => CallOf(r).effects = 1,
           status \in RuledOut => CallOf(r).effects = 0
    PROVE  [Remote!Next]_Remote!vars
<1>1. PICK n \in 1..MaxCalls : n = pending[r]
  BY DEF IInv, TypeOK, CallsOK, Pending
<1>2. /\ calls \in Seq(CallRecords) /\ n \in DOMAIN calls /\ calls[n].status = "pending"
      /\ calls[n] \in CallRecords
  BY <1>1 DEF IInv, TypeOK, CallsOK, CallOf
<1>3. /\ calls' = [calls EXCEPT ![n] = [calls[n] EXCEPT !.status = status]]
      /\ DOMAIN calls' = DOMAIN calls
  BY <1>1, <1>2 DEF EndCall
<1>4. /\ calls'[n].status = status /\ calls'[n].effects = calls[n].effects
      /\ calls'[n].tool = calls[n].tool
  BY <1>2, <1>3 DEF CallRecords
<1>5. \A m : m # n => (Writes(m)' <=> Writes(m)) /\ (Writes(m) => calls'[m] = calls[m])
  BY <1>3 DEF Writes
<1>6. Writes(n)' <=> Writes(n)
  BY <1>2, <1>3, <1>4, WritesKept
<1>7. CASE ~Writes(n)
  BY <1>5, <1>6, <1>7, RemoteStutters
<1>8. CASE Writes(n)
  <2>1. RemoteStatus[n] = "pending" /\ (RemoteEffect[n] <=> calls[n].effects > 0)
        /\ (RemoteEffect'[n] = RemoteEffect[n])
    BY <1>2, <1>4, <1>6, <1>8, Conclusions DEF RemoteStatus, RemoteEffect
  <2>2. Remote!Become(n, Conclusion(status))
    BY <1>4, <1>5, <1>6, <1>8, <2>1, RemoteBecomes
  <2>3. Remote!Step(n)
    <3>1. CASE status = "ok"
      BY <1>1, <1>8, <2>1, <2>2, <3>1, Conclusions DEF CallOf, Remote!Step, Remote!Succeed
    <3>2. CASE status \in RuledOut
      BY <1>1, <2>1, <2>2, <3>2, Conclusions DEF CallOf, Remote!Step, Remote!Refuse
    <3>3. CASE status \in LeftOpen
      BY <2>1, <2>2, <3>3, Conclusions DEF Remote!Step, Remote!LoseTrack
    <3>4. CASE status = "abandoned"
      BY <2>1, <2>2, <3>4, Conclusions DEF Remote!Step, Remote!Abandon
    <3>5. QED
      BY <3>1, <3>2, <3>3, <3>4, Conclusions
  <2>4. QED
    BY <2>3 DEF Remote!Next
<1>9. QED
  BY <1>7, <1>8

LEMMA FailureRefines ==
    ASSUME IInv, NEW r \in Runs, Pending(r), Answer(r, FailureOf(r))
    PROVE  [Remote!Next]_Remote!vars
<1>1. FailureOf(r) \in {"write failed", "read failed"} /\ (FailureOf(r) = "read failed" => Kind(r) = "read")
  BY PendingKind DEF FailureOf, IInv
<1>2. FailureOf(r) \in RuledOut => CallOf(r).effects = 0
  BY <1>1, NoEffectYet DEF RuledOut
<1>3. QED
  BY <1>1, <1>2, EndCallRefines DEF Answer, Statuses, Results

LEMMA ContinueRefines ==
    ASSUME IInv, NEW r \in Runs, Continue(r)
    PROVE  [Remote!Next]_Remote!vars
<1> DEFINE R == RequestsOf(CallOf(r).tool)
<1>1. Pending(r) /\ reply[r] = "ok"
  BY DEF Continue
<1>2. CASE step[r] = Len(R) /\ Answer(r, "ok")
  <2>1. Writes(pending[r]) => CallOf(r).effects = 1
    BY <1>1, <1>2, PendingKind DEF IInv, RunInv
  <2>2. QED
    BY <1>1, <1>2, <2>1, EndCallRefines DEF Answer, Statuses, Results, RuledOut
<1>3. CASE step[r] < Len(R) /\ Answer(r, "unsent")
  <2>1. CallOf(r).effects = 0
    BY <1>1, <1>3, PendingKind, NoEffectYet DEF IInv
  <2>2. QED
    BY <1>1, <1>3, <2>1, EndCallRefines DEF Answer, Statuses, Results, RuledOut
<1>4. CASE SendNext(r, CallOf(r))
  <2>1. calls' = calls
    BY <1>4 DEF SendNext
  <2>2. \A m : Writes(m)' <=> Writes(m)
    BY <2>1 DEF Writes
  <2>3. QED
    BY <2>1, <2>2, RemoteStutters
<1>5. QED
  BY <1>2, <1>3, <1>4 DEF Continue

LEMMA CallRefines ==
    ASSUME IInv, NEW r \in Runs, NEW t \in Tools, NEW post \in Targets(t), NEW arguments,
           Call(r, t, post, arguments)
    PROVE  [Remote!Next]_Remote!vars
<1>1. PICK n \in 1..MaxCalls : n = Len(calls) + 1
  BY ToolsAssumption DEF Call, IInv, TypeOK, CallsOK
<1>2. PICK status \in {"pending", "unsent"} : calls' = Append(calls, NewCall(t, post, status))
  <2>1. CASE Usable(r, ServiceOf(t)) /\ CheckedArguments(t) \subseteq arguments
    BY <2>1 DEF Call
  <2>2. CASE ~(Usable(r, ServiceOf(t)) /\ CheckedArguments(t) \subseteq arguments)
    BY <2>2 DEF Call
  <2>3. QED
    BY <2>1, <2>2
<1>3. calls \in Seq(CallRecords)
  BY DEF IInv, TypeOK, CallsOK
<1>4. /\ n \notin DOMAIN calls /\ n \in DOMAIN calls' /\ calls'[n] = NewCall(t, post, status)
      /\ \A m : m # n => (m \in DOMAIN calls' <=> m \in DOMAIN calls)
      /\ \A m \in DOMAIN calls : calls'[m] = calls[m]
  BY <1>1, <1>2, <1>3
<1>5. calls'[n].status = status /\ calls'[n].effects = 0
  BY <1>4 DEF NewCall
<1>6. \A m : m # n => (Writes(m)' <=> Writes(m)) /\ (Writes(m) => calls'[m] = calls[m])
  BY <1>4 DEF Writes
<1>7. ~Writes(n)
  BY <1>4 DEF Writes
<1>8. CASE ~Writes(n)'
  BY <1>6, <1>7, <1>8, RemoteStutters
<1>9. CASE Writes(n)'
  <2>1. RemoteStatus[n] = "none" /\ RemoteEffect[n] = FALSE /\ RemoteEffect'[n] = FALSE
    <3>1. RemoteStatus[n] = "none"
      BY <1>7 DEF RemoteStatus
    <3>2. RemoteEffect[n] = FALSE
      BY <1>7 DEF RemoteEffect
    <3>3. ~(calls'[n].effects > 0)
      BY <1>5
    <3>4. RemoteEffect'[n] = FALSE
      BY <3>3 DEF RemoteEffect
    <3>5. QED
      BY <3>1, <3>2, <3>4
  <2>2. Remote!Become(n, Conclusion(status))
    BY <1>5, <1>6, <1>9, <2>1, RemoteBecomes
  <2>3. Remote!Step(n)
    BY <2>1, <2>2, Conclusions DEF Remote!Step, Remote!Invoke, Remote!TurnDown
  <2>4. QED
    BY <2>3 DEF Remote!Next
<1>10. QED
  BY <1>8, <1>9

\* A write that acts is the effect of its call; it finds the call under way,
\* given up on or abandoned.
LEMMA ProcessRefines ==
    ASSUME IInv, NEW q \in wire, NEW response \in Responses, NEW acts \in BOOLEAN,
           Process(q, response, acts)
    PROVE  [Remote!Next]_Remote!vars
<1>1. CASE ~(acts /\ q.kind = "write")
  <2>1. calls' = calls
    BY <1>1 DEF Process
  <2>2. \A m : Writes(m)' <=> Writes(m)
    BY <2>1 DEF Writes
  <2>3. QED
    BY <2>1, <2>2, RemoteStutters
<1>2. CASE acts /\ q.kind = "write"
  <2>1. /\ calls \in Seq(CallRecords) /\ Len(calls) <= MaxCalls
        /\ q.call \in DOMAIN calls /\ Writes(q.call) /\ calls[q.call].effects = 0
        /\ calls[q.call].status \in Unsettled
    BY <1>2 DEF IInv, TypeOK, CallsOK, WireInv
  <2>2. PICK n \in 1..MaxCalls : n = q.call
    BY <2>1, ToolsAssumption
  <2>3. calls[n] \in CallRecords
    BY <2>1, <2>2
  <2>4. calls' = [calls EXCEPT ![n] = [calls[n] EXCEPT !.effects = 1]]
    <3>1. calls' = [calls EXCEPT ![n].effects = calls[n].effects + 1]
      BY <1>2, <2>2 DEF Process
    <3>2. calls[n].effects + 1 = 1
      BY <2>1, <2>2
    <3>3. QED
      BY <3>1, <3>2
  <2>5. /\ DOMAIN calls' = DOMAIN calls /\ calls'[n].effects = 1 /\ calls'[n].status = calls[n].status
        /\ calls'[n].tool = calls[n].tool
    BY <2>1, <2>2, <2>3, <2>4 DEF CallRecords
  <2>6. \A m : m # n => (Writes(m)' <=> Writes(m)) /\ (Writes(m) => calls'[m] = calls[m])
    BY <2>4, <2>5 DEF Writes
  <2>7. Writes(n)' /\ Writes(n)
    BY <2>1, <2>2, <2>5, WritesKept
  <2>8. RemoteStatus' = RemoteStatus
    BY <2>5, <2>6, <2>7 DEF RemoteStatus
  <2>9. RemoteEffect' = [RemoteEffect EXCEPT ![n] = TRUE]
    <3>1. calls'[n].effects > 0
      BY <2>5
    <3>2. RemoteEffect'[n] = TRUE
      BY <2>7, <3>1 DEF RemoteEffect
    <3>3. \A m \in 1..MaxCalls : m # n => RemoteEffect'[m] = RemoteEffect[m]
      BY <2>6 DEF RemoteEffect
    <3>4. RemoteEffect' = [m \in 1..MaxCalls |-> RemoteEffect'[m]]
      BY DEF RemoteEffect
    <3>5. RemoteEffect = [m \in 1..MaxCalls |-> RemoteEffect[m]]
      BY DEF RemoteEffect
    <3>6. QED
      BY <3>2, <3>3, <3>4, <3>5
  <2>10. RemoteStatus[n] \in {"pending", "unclear", "abandoned"} /\ ~RemoteEffect[n]
    <3>1. ~(calls[n].effects > 0)
      BY <2>1, <2>2
    <3>2. ~RemoteEffect[n]
      BY <3>1 DEF RemoteEffect
    <3>3. RemoteStatus[n] = Conclusion(calls[n].status)
      BY <2>7 DEF RemoteStatus
    <3>4. calls[n].status \in {"pending", "abandoned"} \cup LeftOpen
      BY <2>1, <2>2 DEF Unsettled
    <3>5. QED
      BY <3>2, <3>3, <3>4, Conclusions
  <2>11. Remote!Apply(n)
    BY <2>8, <2>9, <2>10 DEF Remote!Apply
  <2>12. QED
    BY <2>11 DEF Remote!Step, Remote!Next
<1>3. QED
  BY <1>1, <1>2

\* The result of a tool call is true of its effect, now and later: what the text
\* of execute's result or error (tool_registry.py, AdapterError) allows to
\* conclude is what RemoteCall allows.  A service that answers with a status from
\* 300 to 499 is assumed to have done nothing.
THEOREM ResultsAreTrue == Spec => ImplementsRemoteCall
<1>1. Init => Remote!Init
  <2>1. SUFFICES ASSUME Init PROVE Remote!Init
    OBVIOUS
  <2>2. \A n : ~Writes(n)
    BY <2>1 DEF Init, Writes
  <2>3. RemoteStatus = [c \in 1..MaxCalls |-> "none"] /\ RemoteEffect = [c \in 1..MaxCalls |-> FALSE]
    BY <2>2 DEF RemoteStatus, RemoteEffect
  <2>4. QED
    BY <2>3 DEF Remote!Init
<1>2. IInv /\ [Next]_vars => [Remote!Next]_Remote!vars
  <2>1. SUFFICES ASSUME IInv, [Next]_vars PROVE [Remote!Next]_Remote!vars
    OBVIOUS
  <2>2. ASSUME calls' = calls PROVE UNCHANGED Remote!vars
    <3>1. \A m : Writes(m)' <=> Writes(m)
      BY <2>2 DEF Writes
    <3>2. QED
      BY <2>2, <3>1, RemoteStutters
  <2>3. ASSUME NEW t \in Tools, ShutDown(ServiceOf(t)) \/ Register(ServiceOf(t))
        PROVE  UNCHANGED Remote!vars
    BY <2>2, <2>3 DEF ShutDown, Register
  <2>4. ASSUME NEW r \in Runs, Build(r) PROVE UNCHANGED Remote!vars
    BY <2>2, <2>4 DEF Build
  <2>5. ASSUME NEW r \in Runs, Continue(r) PROVE [Remote!Next]_Remote!vars
    BY <2>1, <2>5, ContinueRefines
  <2>6. ASSUME NEW r \in Runs, ErrorStatus(r) PROVE [Remote!Next]_Remote!vars
    <3>1. CASE reply[r] = "refused"
      <4>1. Pending(r) /\ EndCall(r, "declined")
        BY <2>6, <3>1 DEF ErrorStatus, Answer
      <4>2. CallOf(r).effects = 0
        BY <2>1, <3>1, <4>1, NoEffectYet
      <4>3. QED
        BY <2>1, <4>1, <4>2, EndCallRefines DEF Statuses, Results
    <3>2. CASE reply[r] # "refused"
      BY <2>1, <2>6, <3>2, FailureRefines DEF ErrorStatus
    <3>3. QED
      BY <3>1, <3>2
  <2>7. ASSUME NEW r \in Runs, TimedOut(r) PROVE [Remote!Next]_Remote!vars
    BY <2>1, <2>7, FailureRefines DEF TimedOut
  <2>8. ASSUME NEW r \in Runs, Disconnected(r) \/ RawError(r) PROVE [Remote!Next]_Remote!vars
    <3>1. CASE Disconnected(r)
      BY <2>1, <3>1, FailureRefines DEF Disconnected
    <3>2. CASE RawError(r)
      BY <2>1, <3>2, EndCallRefines DEF RawError, Answer, Statuses, Results, RuledOut
    <3>3. QED
      BY <2>8, <3>1, <3>2
  <2>9. ASSUME NEW r \in Runs, Cancel(r) PROVE [Remote!Next]_Remote!vars
    BY <2>1, <2>9, EndCallRefines DEF Cancel, Statuses, Results, RuledOut
  <2>10. ASSUME NEW r \in Runs, NEW t \in Tools, NEW post \in Targets(t),
                NEW arguments \in {{}, Schema(t)}, Call(r, t, post, arguments)
         PROVE  [Remote!Next]_Remote!vars
    BY <2>1, <2>10, CallRefines
  <2>11. ASSUME NEW q \in wire, NEW response \in Responses, NEW acts \in BOOLEAN,
                Process(q, response, acts)
         PROVE  [Remote!Next]_Remote!vars
    BY <2>1, <2>11, ProcessRefines
  <2>12. ASSUME UNCHANGED vars PROVE UNCHANGED Remote!vars
    BY <2>2, <2>12 DEF vars
  <2>13. QED
    BY <2>1, <2>3, <2>4, <2>5, <2>6, <2>7, <2>8, <2>9, <2>10, <2>11, <2>12 DEF Next
<1>3. QED
  BY <1>1, <1>2, IInvInvariant, PTL DEF Spec, ImplementsRemoteCall, Remote!Spec


-----------------------------------------------------------------------------
(* The fold that makes the wire of the messages.  FoldLeft is a recursive
   function on the sets of indices of a sequence; that the recursion has a
   solution, and what it is on the first k indices, follows from the least
   element of a nonempty set of numbers. *)

\* Nat has no infinite descent, so its nonempty subsets have a least element.
LEMMA LeastNat ==
  ASSUME NEW T \in SUBSET Nat, T # {}
  PROVE  \E n \in T : \A m \in T : n <= m
<1> DEFINE Below == {ss \in Nat \X Nat : ss[1] < ss[2]}
<1>1. IsWellFoundedOn(Below, Nat)
  BY NatLessThanWellFounded DEF OpToRel
<1>2. \A m \in T, n \in T : m < n => <<m, n>> \in Below
  OBVIOUS
<1> HIDE DEF Below
<1>3. PICK n \in T : \A m \in T : ~(<<m, n>> \in Below)
  BY <1>1, WFMin
<1>4. \A m \in T : ~(m < n)
  BY <1>2, <1>3
<1> QED BY <1>4

\* A set of indices has a largest one.
LEMMA LargestIndex ==
  ASSUME NEW n \in Nat, NEW s \in SUBSET (1..n), s # {}
  PROVE  Max(s) \in s /\ \A x \in s : x <= Max(s)
<1> DEFINE T == {n - x : x \in s}
<1>1. T \in SUBSET Nat /\ T # {}
  <2>1. \A x \in s : x \in Int /\ 1 <= x /\ x <= n
    OBVIOUS
  <2>2. \A x \in s : n - x \in Nat
    BY <2>1
  <2> QED BY <2>2
<1>2. PICK m \in T : \A k \in T : m <= k
  <2> HIDE DEF T
  <2> QED BY <1>1, LeastNat
<1>3. PICK x \in s : m = n - x
  BY <1>2
<1>4. \A y \in s : x >= y
  <2> SUFFICES ASSUME NEW y \in s PROVE x >= y
    OBVIOUS
  <2>1. n - x <= n - y
    BY <1>2, <1>3
  <2> QED BY <2>1
<1>5. Max(s) \in s /\ \A y \in s : Max(s) >= y
  BY <1>3, <1>4 DEF Max
<1> QED BY <1>5

\* One step of the recursion that folds seq.
FoldStep(g, seq) ==
    [s \in SUBSET DOMAIN seq |->
        IF s = {} THEN <<>> ELSE Join(g[s \ {Max(s)}], seq[Max(s)])]

FoldOf(seq) == CHOOSE g : g = FoldStep(g, seq)

LEMMA WireIsFold ==
  ASSUME NEW seq
  PROVE  FoldLeft(Join, <<>>, seq) = FoldOf(seq)[DOMAIN seq]
  BY DEF FoldLeft, MapThenFoldSet, FoldOf, FoldStep

\* The recursion has a solution: k steps of it are right on subsets of 1..k.
LEMMA FoldRecursion ==
  ASSUME NEW seq, NEW n \in Nat, DOMAIN seq = 1..n
  PROVE  FoldOf(seq) = FoldStep(FoldOf(seq), seq)
<1> DEFINE RightTo(g, k) ==
        \A s \in SUBSET (1..n) : s \in SUBSET (1..k) => g[s] = FoldStep(g, seq)[s]
      Bad == {k \in Nat : ~ \E g : RightTo(g, k)}
<1>1. \A s \in SUBSET (1..n) : s # {} =>
         Max(s) \in s /\ s \ {Max(s)} \in SUBSET (1..n) /\ \A x \in s : x <= Max(s)
  BY LargestIndex
<1>2. 0 \notin Bad
  <2> DEFINE g == [s \in SUBSET (1..n) |-> <<>>]
  <2>1. \A s \in SUBSET (1..0) : s = {}
    OBVIOUS
  <2>2. RightTo(g, 0)
    BY <2>1 DEF FoldStep
  <2> QED BY <2>2
<1>3. ASSUME NEW k \in Nat, NEW g, RightTo(g, k) PROVE RightTo(FoldStep(g, seq), k + 1)
  <2> DEFINE h == FoldStep(g, seq)
  <2> SUFFICES ASSUME NEW s \in SUBSET (1..n), s \in SUBSET (1..(k + 1))
               PROVE  h[s] = FoldStep(h, seq)[s]
    OBVIOUS
  <2>1. CASE s = {}
    BY <2>1 DEF FoldStep
  <2>2. CASE s # {}
    <3>1. s \ {Max(s)} \in SUBSET (1..n) /\ s \ {Max(s)} \in SUBSET (1..k)
      <4>1. ASSUME NEW x \in s \ {Max(s)} PROVE x \in 1..k
        <5>1. x <= Max(s) /\ x # Max(s) /\ Max(s) \in 1..(k + 1) /\ x \in 1..(k + 1)
          BY <1>1, <2>2
        <5> QED BY <5>1
      <4> QED BY <4>1
    <3>2. g[s \ {Max(s)}] = h[s \ {Max(s)}]
      BY <1>3, <3>1
    <3> QED BY <2>2, <3>2 DEF FoldStep
  <2> QED BY <2>1, <2>2
<1>4. Bad = {}
  <2> SUFFICES ASSUME Bad # {} PROVE FALSE
    OBVIOUS
  <2>1. PICK k \in Bad : \A m \in Bad : k <= m
    <3>1. Bad \in SUBSET Nat
      OBVIOUS
    <3> HIDE DEF Bad
    <3> QED BY <3>1, LeastNat
  <2>2. k - 1 \in Nat /\ k - 1 \notin Bad
    <3> HIDE DEF RightTo
    <3>1. k \in Nat /\ k # 0
      BY <1>2, <2>1
    <3>2. k - 1 \in Nat /\ ~(k <= k - 1)
      BY <3>1
    <3> QED BY <2>1, <3>2
  <2>3. PICK g : RightTo(g, k - 1)
    BY <2>2
  <2>4. RightTo(FoldStep(g, seq), (k - 1) + 1)
    <3> HIDE DEF RightTo
    <3> QED BY <1>3, <2>2, <2>3
  <2>5. (k - 1) + 1 = k /\ k \in Nat
    BY <2>1
  <2> QED BY <2>1, <2>4, <2>5
<1>5. PICK g : RightTo(g, n)
  BY <1>4
<1> DEFINE h == FoldStep(g, seq)
<1>6. \A s \in SUBSET (1..n) : g[s] = h[s]
  BY <1>5
<1>7. h = FoldStep(h, seq)
  BY <1>1, <1>6 DEF FoldStep
<1> QED BY <1>7 DEF FoldOf

\* The wire is made message by message.
LEMMA WireSteps ==
  ASSUME NEW seq, NEW n \in Nat, DOMAIN seq = 1..n
  PROVE  \E W : /\ W[0] = <<>>
                /\ \A k \in 1..n : W[k] = Join(W[k - 1], seq[k])
                /\ FoldLeft(Join, <<>>, seq) = W[n]
<1> DEFINE g == FoldOf(seq)
           W == [k \in 0..n |-> g[1..k]]
<1>1. \A s \in SUBSET (1..n) : g[s] = IF s = {} THEN <<>> ELSE Join(g[s \ {Max(s)}], seq[Max(s)])
  <2>1. g = FoldStep(g, seq)
    BY FoldRecursion
  <2> HIDE DEF g
  <2>2. \A s \in SUBSET (1..n) :
           FoldStep(g, seq)[s] = IF s = {} THEN <<>> ELSE Join(g[s \ {Max(s)}], seq[Max(s)])
    BY DEF FoldStep
  <2> QED BY <2>1, <2>2, Zenon
<1>2. FoldLeft(Join, <<>>, seq) = g[1..n]
  BY WireIsFold
<1> HIDE DEF g
<1>3. W[0] = <<>>
  <2>1. 1..0 = {} /\ 0 \in 0..n
    OBVIOUS
  <2>2. W[0] = g[1..0]
    BY <2>1
  <2>3. g[{}] = <<>>
    BY <1>1
  <2> QED BY <2>1, <2>2, <2>3
<1>4. ASSUME NEW k \in 1..n PROVE W[k] = Join(W[k - 1], seq[k])
  <2>0. k \in Nat /\ 1 <= k /\ k <= n
    OBVIOUS
  <2>1. 1..k \in SUBSET (1..n) /\ 1..k # {}
    BY <2>0
  <2>2. Max(1..k) = k
    <3>1. Max(1..k) \in 1..k /\ \A x \in 1..k : x <= Max(1..k)
      BY <2>0, <2>1, LargestIndex
    <3>2. k <= Max(1..k) /\ Max(1..k) <= k /\ Max(1..k) \in Nat
      BY <2>0, <3>1
    <3> QED BY <2>0, <3>2
  <2>3. (1..k) \ {k} = 1..(k - 1)
    OBVIOUS
  <2>4. g[1..k] = Join(g[1..(k - 1)], seq[k])
    BY <1>1, <2>1, <2>2, <2>3
  <2>5. k \in 0..n /\ k - 1 \in 0..n
    BY <2>0
  <2> QED BY <2>4, <2>5
<1>5. W[n] = g[1..n]
  OBVIOUS
<1> HIDE DEF W
<1> QED BY <1>2, <1>3, <1>4, <1>5

-----------------------------------------------------------------------------
(* The shape of the conversation, and of what the adapters make of it. *)

Messages == [role : {"user", "assistant", "tool"}, call : Nat]

WireMessages == [role : {"user", "assistant"}, content : Seq(Nat)]

\* The user begins; then the assistant never speaks twice without a tool result.
WellFormed(seq) ==
    /\ seq \in Seq(Messages) /\ Len(seq) \in Nat \ {0}
    /\ seq[1] = UserText
    /\ \A i \in 2..Len(seq) : seq[i].role \in {"assistant", "tool"}
    /\ \A i \in 1..(Len(seq) - 1) : ~(seq[i].role = "assistant" /\ seq[i + 1].role = "assistant")

\* The roles on the wire alternate, and the last one is the assistant's when the
\* last message is.
Alternates(w, m) ==
    /\ w \in Seq(WireMessages) /\ Len(w) \in Nat \ {0}
    /\ \A i \in 1..Len(w) : w[i].role = IF i % 2 = 1 THEN "user" ELSE "assistant"
    /\ Last(w).role = IF m.role = "assistant" THEN "assistant" ELSE "user"

\* The last k of the first n messages are tool results.
ResultsAt(seq, n, k) == \A i \in 0..(k - 1) : seq[n - i].role = "tool"

\* The blocks end with the results of the last k of the first n messages.
EndsWith(blocks, seq, n, k) ==
    /\ k <= Len(blocks)
    /\ \A i \in 0..(k - 1) : blocks[Len(blocks) - i] = seq[n - i].call

\* What Join makes of a wire that alternates.
LEMMA JoinAssistant ==
  ASSUME NEW w \in Seq(WireMessages), NEW m \in Messages, m.role # "tool"
  PROVE  /\ Join(w, m) \in Seq(WireMessages)
         /\ Len(Join(w, m)) = Len(w) + 1
         /\ \A i \in 1..Len(w) : Join(w, m)[i] = w[i]
         /\ Join(w, m)[Len(w) + 1] = [role |-> m.role, content |-> <<m.call>>]
<1>1. Join(w, m) = Append(w, [role |-> m.role, content |-> <<m.call>>])
  BY DEF Join, Blocks
<1>2. [role |-> m.role, content |-> <<m.call>>] \in WireMessages
  BY DEF Messages, WireMessages
<1> QED BY <1>1, <1>2

LEMMA JoinFirstResult ==
  ASSUME NEW w \in Seq(WireMessages), w # <<>>, Last(w).role = "assistant",
         NEW m \in Messages, m.role = "tool"
  PROVE  /\ Join(w, m) \in Seq(WireMessages)
         /\ Len(Join(w, m)) = Len(w) + 1
         /\ \A i \in 1..Len(w) : Join(w, m)[i] = w[i]
         /\ Join(w, m)[Len(w) + 1] = [role |-> "user", content |-> <<m.call>>]
<1>1. Join(w, m) = Append(w, [role |-> "user", content |-> <<m.call>>])
  BY DEF Join, Blocks
<1>2. [role |-> "user", content |-> <<m.call>>] \in WireMessages
  BY DEF Messages, WireMessages
<1> QED BY <1>1, <1>2

LEMMA JoinNextResult ==
  ASSUME NEW w \in Seq(WireMessages), w # <<>>, Last(w).role = "user",
         NEW m \in Messages, m.role = "tool"
  PROVE  /\ Join(w, m) \in Seq(WireMessages)
         /\ Len(Join(w, m)) = Len(w)
         /\ \A i \in 1..Len(w) : Join(w, m)[i].role = w[i].role
         /\ Join(w, m)[Len(w)].content = Last(w).content \o <<m.call>>
<1> DEFINE new == [Last(w) EXCEPT !.content = @ \o <<m.call>>]
<1>1. Join(w, m) = [w EXCEPT ![Len(w)] = new]
  BY DEF Join, Blocks, ReplaceAt
<1>2. Len(w) \in Nat \ {0} /\ Last(w) = w[Len(w)] /\ Last(w) \in WireMessages
  BY DEF Last
<1>3. Last(w).content \o <<m.call>> \in Seq(Nat)
  BY <1>2 DEF Messages, WireMessages
<1>4. new \in WireMessages /\ new.role = Last(w).role /\ new.content = Last(w).content \o <<m.call>>
  BY <1>2, <1>3 DEF WireMessages
<1> HIDE DEF new
<1> QED BY <1>1, <1>2, <1>4

\* One message more.
LEMMA JoinAlternates ==
  ASSUME NEW w, NEW p \in Messages, NEW m \in Messages, Alternates(w, p),
         m.role \in {"assistant", "tool"}, ~(p.role = "assistant" /\ m.role = "assistant")
  PROVE  Alternates(Join(w, m), m)
<1>1. /\ w \in Seq(WireMessages) /\ Len(w) \in Nat \ {0} /\ w # <<>>
      /\ \A i \in 1..Len(w) : w[i].role = IF i % 2 = 1 THEN "user" ELSE "assistant"
      /\ w[Len(w)].role = IF p.role = "assistant" THEN "assistant" ELSE "user"
  BY DEF Alternates, Last
<1> DEFINE v == Join(w, m)
           n == Len(w)
<1> SUFFICES Alternates(v, m)
  OBVIOUS
<1>2. ASSUME v \in Seq(WireMessages), Len(v) = n + 1, \A i \in 1..n : v[i] = w[i],
             v[n + 1].role = IF m.role = "assistant" THEN "assistant" ELSE "user",
             w[n].role # v[n + 1].role
      PROVE  Alternates(v, m)
  <2> HIDE DEF v
  <2>1. n \in Nat /\ n >= 1 /\ w[n].role = IF n % 2 = 1 THEN "user" ELSE "assistant"
    BY <1>1
  <2>2. v[n + 1].role = IF (n + 1) % 2 = 1 THEN "user" ELSE "assistant"
    BY <1>2, <2>1
  <2>3. \A i \in 1..Len(v) : v[i].role = IF i % 2 = 1 THEN "user" ELSE "assistant"
    BY <1>1, <1>2, <2>1, <2>2
  <2> QED BY <1>2, <2>1, <2>3 DEF Alternates, Last
<1>3. CASE m.role = "assistant"
  <2>1. [role |-> m.role, content |-> <<m.call>>].role = m.role
    OBVIOUS
  <2> QED BY <1>1, <1>2, <1>3, <2>1, JoinAssistant
<1>4. CASE m.role = "tool" /\ p.role = "assistant"
  <2>1. Last(w).role = "assistant"
    BY <1>1, <1>4 DEF Last
  <2>2. /\ v \in Seq(WireMessages) /\ Len(v) = n + 1 /\ \A i \in 1..n : v[i] = w[i]
        /\ v[n + 1] = [role |-> "user", content |-> <<m.call>>]
    BY <1>1, <1>4, <2>1, JoinFirstResult
  <2> HIDE DEF v
  <2>3. v[n + 1].role = "user"
    BY <2>2
  <2> QED BY <1>1, <1>2, <1>4, <2>2, <2>3
<1>5. CASE m.role = "tool" /\ p.role # "assistant"
  <2>1. Last(w).role = "user"
    BY <1>1, <1>5 DEF Last
  <2>2. v \in Seq(WireMessages) /\ Len(v) = n /\ \A i \in 1..n : v[i].role = w[i].role
    BY <1>1, <1>5, <2>1, JoinNextResult
  <2> HIDE DEF v
  <2> QED BY <1>1, <1>5, <2>2 DEF Alternates, Last
<1> QED BY <1>3, <1>4, <1>5

LEMMA JoinEnds ==
  ASSUME NEW seq, NEW n \in Nat \ {0}, seq[n] \in Messages, seq[n + 1] \in Messages,
         seq[n + 1].role \in {"assistant", "tool"},
         NEW w, Alternates(w, seq[n]),
         \A k \in 0..(n - 1) : ResultsAt(seq, n, k) => EndsWith(Last(w).content, seq, n, k),
         NEW k \in 0..n, ResultsAt(seq, n + 1, k)
  PROVE  EndsWith(Last(Join(w, seq[n + 1])).content, seq, n + 1, k)
<1> DEFINE m == seq[n + 1]
           v == Join(w, m)
           b == Last(v).content
           c == Last(w).content
<1> SUFFICES EndsWith(b, seq, n + 1, k)
  OBVIOUS
<1>1. /\ w \in Seq(WireMessages) /\ Len(w) \in Nat \ {0} /\ w # <<>>
      /\ Last(w).role = IF seq[n].role = "assistant" THEN "assistant" ELSE "user"
      /\ m \in Messages /\ m.role \in {"assistant", "tool"} /\ m.call \in Nat
  BY DEF Alternates, Messages
<1>0. c \in Seq(Nat)
  <2>1. w[Len(w)] \in WireMessages
    BY <1>1
  <2> QED BY <2>1 DEF Last, WireMessages
<1>2. CASE k = 0
  <2>1. v \in Seq(WireMessages) /\ Len(v) \in {Len(w), Len(w) + 1}
    <3> HIDE DEF v, m
    <3>1. CASE m.role = "assistant"
      BY <1>1, <3>1, JoinAssistant DEF v
    <3>2. CASE m.role = "tool" /\ Last(w).role = "assistant"
      BY <1>1, <3>2, JoinFirstResult DEF v
    <3>3. CASE m.role = "tool" /\ Last(w).role = "user"
      BY <1>1, <3>3, JoinNextResult DEF v
    <3> QED BY <1>1, <3>1, <3>2, <3>3
  <2>2. b \in Seq(Nat)
    <3> HIDE DEF v
    <3>1. v[Len(v)] \in WireMessages
      BY <1>1, <2>1
    <3> QED BY <3>1 DEF Last, WireMessages
  <2> QED BY <1>2, <2>2 DEF EndsWith
<1>3. CASE k # 0
  <2>1. m.role = "tool" /\ k - 1 \in 0..(n - 1)
    <3>1. 0 \in 0..(k - 1)
      BY <1>3
    <3> QED BY <3>1 DEF ResultsAt
  <2>2. \A i \in 0..(k - 2) : seq[n - i].role = "tool"
    <3> SUFFICES ASSUME NEW i \in 0..(k - 2) PROVE seq[n - i].role = "tool"
      OBVIOUS
    <3>1. i + 1 \in 0..(k - 1) /\ (n + 1) - (i + 1) = n - i
      OBVIOUS
    <3> QED BY <3>1 DEF ResultsAt
  <2>3. CASE seq[n].role = "assistant"
    <3>1. k = 1
      <4>1. k > 1 => 0 \in 0..(k - 2)
        OBVIOUS
      <4> QED BY <1>3, <2>2, <2>3, <4>1
    <3>2. Len(v) = Len(w) + 1 /\ v[Len(w) + 1] = [role |-> "user", content |-> <<m.call>>]
      <4> HIDE DEF m
      <4> QED BY <1>1, <2>1, <2>3, JoinFirstResult
    <3>3. b = <<m.call>>
      <4> HIDE DEF v
      <4> QED BY <3>2 DEF Last
    <3> QED BY <3>1, <3>3 DEF EndsWith
  <2>4. CASE seq[n].role # "assistant"
    <3>1. b = c \o <<m.call>>
      <4>1. Len(v) = Len(w) /\ v[Len(w)].content = c \o <<m.call>>
        <5> HIDE DEF m
        <5> QED BY <1>1, <2>1, <2>4, JoinNextResult
      <4> HIDE DEF v
      <4> QED BY <4>1 DEF Last
    <3>2. EndsWith(Last(w).content, seq, n, k - 1)
      <4>1. (k - 1) - 1 = k - 2
        OBVIOUS
      <4> QED BY <2>1, <2>2, <4>1 DEF ResultsAt
    <3> HIDE DEF c, v, m
    <3>4. /\ Len(c) \in Nat /\ Len(b) = Len(c) + 1 /\ b[Len(c) + 1] = m.call
          /\ \A i \in 1..Len(c) : b[i] = c[i]
      BY <1>0, <1>1, <3>1
    <3> HIDE DEF b
    <3>5. k - 1 <= Len(c) /\ \A i \in 0..(k - 2) : c[Len(c) - i] = seq[n - i].call
      <4>1. (k - 1) - 1 = k - 2
        OBVIOUS
      <4>2. k - 1 <= Len(c) /\ \A i \in 0..((k - 1) - 1) : c[Len(c) - i] = seq[n - i].call
        BY <3>2 DEF EndsWith, c
      <4> QED BY <4>1, <4>2
    <3>6. ASSUME NEW i \in 0..(k - 1) PROVE b[Len(b) - i] = seq[(n + 1) - i].call
      <4>1. CASE i = 0
        BY <3>4, <4>1 DEF m
      <4>2. CASE i # 0
        <5>1. /\ i - 1 \in 0..(k - 2) /\ Len(b) - i = Len(c) - (i - 1)
              /\ Len(c) - (i - 1) \in 1..Len(c) /\ (n + 1) - i = n - (i - 1)
          BY <3>4, <3>5, <4>2
        <5> QED BY <3>4, <3>5, <5>1
      <4> QED BY <4>1, <4>2
    <3> QED BY <3>4, <3>5, <3>6 DEF EndsWith
  <2> QED BY <2>3, <2>4
<1> QED BY <1>2, <1>3

\* The wire of a well-formed conversation alternates, and its last message ends
\* with the results at the end of the conversation.
LEMMA WireShape ==
  ASSUME NEW seq, WellFormed(seq)
  PROVE  LET w == FoldLeft(Join, <<>>, seq)
             n == Len(seq)
         IN  /\ Alternates(w, seq[n])
             /\ \A k \in 0..(n - 1) : ResultsAt(seq, n, k) => EndsWith(Last(w).content, seq, n, k)
<1> DEFINE n == Len(seq)
<1>1. n \in Nat \ {0} /\ DOMAIN seq = 1..n /\ \A i \in 1..n : seq[i] \in Messages
  BY DEF WellFormed
<1>2. PICK W : /\ W[0] = <<>>
               /\ \A k \in 1..n : W[k] = Join(W[k - 1], seq[k])
               /\ FoldLeft(Join, <<>>, seq) = W[n]
  BY <1>1, WireSteps
<1> DEFINE Good(k) ==
             /\ Alternates(W[k], seq[k])
             /\ \A j \in 0..(k - 1) : ResultsAt(seq, k, j) => EndsWith(Last(W[k]).content, seq, k, j)
           Bad == {k \in 1..n : ~Good(k)}
<1>3. Good(1)
  <2>1. W[1] = Join(<<>>, UserText)
    <3>1. 1 \in 1..n /\ 1 - 1 = 0 /\ seq[1] = UserText
      BY <1>1 DEF WellFormed
    <3> QED BY <1>2, <3>1
  <2>2. W[1] = <<[role |-> "user", content |-> <<0>>]>>
    BY <2>1 DEF Join, UserText, Blocks
  <2>3. [role |-> "user", content |-> <<0>>] \in WireMessages
    BY DEF WireMessages
  <2>4. Alternates(W[1], seq[1])
    <3>1. seq[1].role = "user"
      BY DEF WellFormed, UserText
    <3>2. W[1] \in Seq(WireMessages) /\ Len(W[1]) = 1 /\ W[1][1].role = "user"
      BY <2>2, <2>3
    <3>3. \A i \in 1..1 : i = 1
      OBVIOUS
    <3> QED BY <3>1, <3>2, <3>3 DEF Alternates, Last
  <2>5. EndsWith(Last(W[1]).content, seq, 1, 0)
    BY <2>2 DEF Last, EndsWith
  <2> QED BY <2>4, <2>5
<1>4. ASSUME NEW k \in 1..(n - 1), Good(k) PROVE Good(k + 1)
  <2>1. /\ k \in Nat \ {0} /\ k + 1 \in 2..n /\ k \in 1..n /\ k + 1 \in 1..n
        /\ (k + 1) - 1 = k
    BY <1>1
  <2>2. W[k + 1] = Join(W[k], seq[k + 1])
    BY <1>2, <2>1
  <2>3. /\ seq[k + 1].role \in {"assistant", "tool"}
        /\ ~(seq[k].role = "assistant" /\ seq[k + 1].role = "assistant")
        /\ seq[k] \in Messages /\ seq[k + 1] \in Messages
    BY <1>1, <2>1 DEF WellFormed
  <2>4. Alternates(W[k + 1], seq[k + 1])
    BY <1>4, <2>2, <2>3, JoinAlternates
  <2>5. ASSUME NEW j \in 0..k, ResultsAt(seq, k + 1, j)
        PROVE  EndsWith(Last(W[k + 1]).content, seq, k + 1, j)
    BY <1>4, <2>1, <2>2, <2>3, <2>5, JoinEnds
  <2> QED BY <2>1, <2>4, <2>5
<1> HIDE DEF Good
<1>5. Bad = {}
  <2> SUFFICES ASSUME Bad # {} PROVE FALSE
    OBVIOUS
  <2>1. Bad \in SUBSET Nat
    OBVIOUS
  <2>2. PICK k \in Bad : \A m \in Bad : k <= m
    <3> HIDE DEF Bad
    <3> QED BY <2>1, LeastNat
  <2>3. k \in 1..n /\ k # 1 /\ ~Good(k)
    BY <1>3, <2>2
  <2>4. k - 1 \in 1..(n - 1) /\ k - 1 \in 1..n /\ ~(k <= k - 1) /\ (k - 1) + 1 = k
    BY <1>1, <2>3
  <2>5. Good(k - 1)
    BY <2>2, <2>4
  <2>6. Good((k - 1) + 1)
    BY <1>4, <2>4, <2>5
  <2> QED BY <2>3, <2>4, <2>6
<1>6. Good(n)
  BY <1>1, <1>5
<1> QED BY <1>2, <1>6 DEF Good

-----------------------------------------------------------------------------
(* The invariant of a run. *)

\* Results of the last response that are at the end of the messages: all of
\* them until the next step begins, and then as many as compaction keeps.
Fresh ==
    CASE pc \in {"act", "head"} -> Len(answered)
      [] pc = "think" -> IF Len(answered) > MIN_MESSAGES_TO_KEEP
                         THEN MIN_MESSAGES_TO_KEEP ELSE Len(answered)
      [] pc = "done" -> 0

\* The conversation is well formed, and ends with the results that are fresh.
MessagesInv ==
    /\ WellFormed(messages)
    /\ Fresh < Len(messages)
    /\ \A i \in 0..(Fresh - 1) :
          messages[Len(messages) - i] = ToolResult(answered[Len(answered) - i])
    /\ pc \in {"head", "think"} => messages[Len(messages)].role # "assistant"

\* The calls of the last response are numbered in order: those executed, then
\* those to execute.
CallsInv ==
    /\ answered \in Seq(Nat) /\ asked \in Seq(Nat)
    /\ pc = "act" <=> asked # <<>>
    /\ Len(answered) + Len(asked) <= numbered
    /\ \A i \in 1..Len(answered) : answered[i] = numbered - Len(answered) - Len(asked) + i
    /\ \A i \in 1..Len(asked) : asked[i] = numbered - Len(asked) + i

\* Every step makes at most CallsPerStep calls.
NumberInv ==
    /\ numbered \in Nat /\ stepCount \in 0..MaxSteps
    /\ pc \in {"head", "think", "act", "done"}
    /\ numbered <= stepCount * CallsPerStep
    /\ pc = "think" => stepCount > 0 /\ numbered <= (stepCount - 1) * CallsPerStep

CInv == MessagesInv /\ CallsInv /\ NumberInv

LEMMA AfterFirst ==
  ASSUME NEW S, NEW e \in S, NEW rest \in Seq(S)
  PROVE  /\ Len(<<e>> \o rest) = 1 + Len(rest)
         /\ \A i \in 1..Len(rest) : (<<e>> \o rest)[i + 1] = rest[i]
<1>1. Len(rest) \in Nat
  OBVIOUS
<1>2. /\ <<e>> \o rest \in Seq(S)
      /\ Len(<<e>> \o rest) = Len(rest) + 1
      /\ \A i \in 1..Len(rest) : (<<e>> \o rest)[i + 1] = rest[i]
  OBVIOUS
<1> QED BY <1>1, <1>2

\* A compacted conversation begins with the summary and ends as before.
LEMMA CompactedEnds ==
  ASSUME NEW msgs, WellFormed(msgs)
  PROVE  LET C == Compacted(msgs)
             kept == IF Len(msgs) > MIN_MESSAGES_TO_KEEP THEN MIN_MESSAGES_TO_KEEP
                     ELSE Len(msgs) - 1
         IN  /\ C \in Seq(Messages) /\ Len(C) = kept + 1
             /\ C[1] = UserText
             /\ \A i \in 1..kept : C[i + 1] = msgs[Len(msgs) - kept + i]
<1> DEFINE split == IF Len(msgs) > MIN_MESSAGES_TO_KEEP
                    THEN Len(msgs) - MIN_MESSAGES_TO_KEEP ELSE 1
           rest == SubSeq(msgs, split + 1, Len(msgs))
<1>1. /\ msgs \in Seq(Messages) /\ Len(msgs) \in Nat \ {0}
      /\ split \in Nat /\ 1 <= split /\ split <= Len(msgs)
  BY DEF WellFormed, MIN_MESSAGES_TO_KEEP
<1>2. Compacted(msgs) = <<UserText>> \o rest
  BY DEF Compacted
<1>3. UserText \in Messages
  BY DEF UserText, Messages
<1>4. Len(msgs) - split = IF Len(msgs) > MIN_MESSAGES_TO_KEEP THEN MIN_MESSAGES_TO_KEEP
                          ELSE Len(msgs) - 1
  BY <1>1 DEF MIN_MESSAGES_TO_KEEP
<1> HIDE DEF split
<1>5. /\ rest \in Seq(Messages) /\ Len(rest) = Len(msgs) - split
      /\ \A i \in 1..(Len(msgs) - split) : rest[i] = msgs[split + i]
  BY <1>1
<1> HIDE DEF rest
<1>6. /\ <<UserText>> \o rest \in Seq(Messages)
      /\ Len(<<UserText>> \o rest) = Len(rest) + 1
      /\ (<<UserText>> \o rest)[1] = UserText
      /\ \A i \in 1..Len(rest) : (<<UserText>> \o rest)[i + 1] = rest[i]
  BY <1>3, <1>5
<1>7. \A i \in 1..(Len(msgs) - split) :
         Compacted(msgs)[i + 1] = msgs[Len(msgs) - (Len(msgs) - split) + i]
  BY <1>1, <1>2, <1>5, <1>6
<1> QED BY <1>2, <1>4, <1>5, <1>6, <1>7

\* Compaction may cut anywhere, also between a tool call and its results.
LEMMA CompactedWellFormed ==
  ASSUME NEW msgs, WellFormed(msgs)
  PROVE  WellFormed(Compacted(msgs))
<1> DEFINE C == Compacted(msgs)
           kept == IF Len(msgs) > MIN_MESSAGES_TO_KEEP THEN MIN_MESSAGES_TO_KEEP
                   ELSE Len(msgs) - 1
           d == Len(msgs) - kept
<1>1. /\ C \in Seq(Messages) /\ Len(C) = kept + 1 /\ C[1] = UserText
      /\ \A i \in 1..kept : C[i + 1] = msgs[d + i]
  BY CompactedEnds
<1>2. kept \in Nat /\ d \in Nat \ {0} /\ d + kept = Len(msgs)
  BY DEF WellFormed, MIN_MESSAGES_TO_KEEP
<1> HIDE DEF C, kept, d
<1>3. ASSUME NEW i \in 2..Len(C) PROVE C[i].role \in {"assistant", "tool"}
  <2>1. i - 1 \in 1..kept /\ (i - 1) + 1 = i /\ d + (i - 1) \in 2..Len(msgs)
    BY <1>1, <1>2
  <2> QED BY <1>1, <2>1 DEF WellFormed
<1>4. ASSUME NEW i \in 1..(Len(C) - 1)
      PROVE  ~(C[i].role = "assistant" /\ C[i + 1].role = "assistant")
  <2>1. CASE i = 1
    BY <1>1, <2>1 DEF UserText
  <2>2. CASE i # 1
    <3>1. /\ i - 1 \in 1..kept /\ (i - 1) + 1 = i /\ i \in 1..kept
          /\ d + (i - 1) \in 1..(Len(msgs) - 1) /\ (d + (i - 1)) + 1 = d + i
      BY <1>1, <1>2, <2>2
    <3> QED BY <1>1, <3>1 DEF WellFormed
  <2> QED BY <2>1, <2>2
<1>5. WellFormed(C)
  BY <1>1, <1>2, <1>3, <1>4 DEF WellFormed
<1> QED BY <1>5 DEF C

LEMMA AppendWellFormed ==
  ASSUME NEW seq, WellFormed(seq), NEW m \in Messages, m.role \in {"assistant", "tool"},
         ~(seq[Len(seq)].role = "assistant" /\ m.role = "assistant")
  PROVE  /\ WellFormed(Append(seq, m))
         /\ Len(Append(seq, m)) = Len(seq) + 1
         /\ Append(seq, m)[Len(seq) + 1] = m
         /\ \A i \in 1..Len(seq) : Append(seq, m)[i] = seq[i]
<1> DEFINE s == Append(seq, m)
           n == Len(seq)
<1>1. /\ n \in Nat \ {0} /\ s \in Seq(Messages) /\ Len(s) = n + 1 /\ s[n + 1] = m
      /\ \A i \in 1..n : s[i] = seq[i]
  BY DEF WellFormed
<1> HIDE DEF s
<1>2. s[1] = UserText
  BY <1>1 DEF WellFormed
<1>3. \A i \in 2..Len(s) : s[i].role \in {"assistant", "tool"}
  BY <1>1 DEF WellFormed
<1>4. ASSUME NEW i \in 1..(Len(s) - 1)
      PROVE  ~(s[i].role = "assistant" /\ s[i + 1].role = "assistant")
  <2>1. CASE i = n
    BY <1>1, <2>1
  <2>2. CASE i # n
    <3>1. i \in 1..(n - 1) /\ i \in 1..n /\ i + 1 \in 1..n
      BY <1>1, <2>2
    <3> QED BY <1>1, <3>1 DEF WellFormed
  <2> QED BY <2>1, <2>2
<1>5. WellFormed(s)
  BY <1>1, <1>2, <1>3, <1>4 DEF WellFormed
<1> QED BY <1>1, <1>5 DEF s

-----------------------------------------------------------------------------
\* The initial state satisfies the invariant.
LEMMA ConversationInitInv == ConversationInit => CInv
<1> SUFFICES ASSUME ConversationInit PROVE CInv
  OBVIOUS
<1> USE DEF ConversationInit
<1>1. MessagesInv
  <2>1. messages \in Seq(Messages) /\ Len(messages) = 1 /\ messages[1] = UserText
    BY DEF UserText, Messages
  <2>2. Fresh = 0
    BY DEF Fresh
  <2> QED BY <2>1, <2>2 DEF MessagesInv, WellFormed, UserText
<1>2. CallsInv
  BY DEF CallsInv
<1>3. NumberInv
  BY ConversationAssumption DEF NumberInv
<1> QED BY <1>1, <1>2, <1>3 DEF CInv

\* A step begins, with or without a compaction.
LEMMA LoopHeadInv ==
  ASSUME CInv, LoopHead
  PROVE  CInv'
<1> USE DEF CInv
<1>1. CallsInv'
  BY DEF LoopHead, CallsInv
<1>2. NumberInv'
  <2>1. stepCount \in Nat /\ stepCount' = stepCount + 1 /\ numbered' = numbered /\ numbered \in Nat
        /\ numbered <= stepCount * CallsPerStep /\ stepCount' \in 0..MaxSteps
        /\ pc' = "think"
    BY ConversationAssumption DEF LoopHead, NumberInv
  <2>2. stepCount' - 1 = stepCount /\ stepCount' > 0
    BY <2>1
  <2>3. stepCount' * CallsPerStep = stepCount * CallsPerStep + CallsPerStep
        /\ stepCount * CallsPerStep \in Nat
    BY <2>1, ConversationAssumption
  <2> QED BY <2>1, <2>2, <2>3, ConversationAssumption DEF NumberInv
<1>3. MessagesInv'
  <2> DEFINE f == IF Len(answered) > MIN_MESSAGES_TO_KEEP
                  THEN MIN_MESSAGES_TO_KEEP ELSE Len(answered)
  <2>1. /\ pc = "head" /\ pc' = "think" /\ answered' = answered
        /\ messages' = messages \/ messages' = Compacted(messages)
    BY DEF LoopHead
  <2>2. Len(answered) \in Nat /\ f \in Nat /\ f <= Len(answered) /\ f <= MIN_MESSAGES_TO_KEEP
    BY DEF CallsInv, MIN_MESSAGES_TO_KEEP
  <2>3. /\ WellFormed(messages) /\ Len(answered) < Len(messages)
        /\ \A i \in 0..(Len(answered) - 1) :
              messages[Len(messages) - i] = ToolResult(answered[Len(answered) - i])
        /\ messages[Len(messages)].role # "assistant"
        /\ Len(messages) \in Nat \ {0}
    BY <2>1 DEF MessagesInv, Fresh, WellFormed
  <2>4. Fresh' = f
    BY <2>1 DEF Fresh
  <2> HIDE DEF f
  <2>5. CASE messages' = messages
    BY <2>1, <2>2, <2>3, <2>4, <2>5 DEF MessagesInv
  <2>6. CASE messages' = Compacted(messages)
    <3> DEFINE C == Compacted(messages)
               kept == IF Len(messages) > MIN_MESSAGES_TO_KEEP THEN MIN_MESSAGES_TO_KEEP
                       ELSE Len(messages) - 1
    <3>1. /\ Len(C) = kept + 1 /\ C[1] = UserText
          /\ \A i \in 1..kept : C[i + 1] = messages[Len(messages) - kept + i]
      BY <2>3, CompactedEnds
    <3>2. kept \in Nat /\ f <= kept /\ kept < Len(messages)
      BY <2>2, <2>3 DEF MIN_MESSAGES_TO_KEEP
    <3>3. WellFormed(C)
      BY <2>3, CompactedWellFormed
    <3> HIDE DEF C, kept
    <3>4. ASSUME NEW i \in 0..(f - 1) PROVE C[Len(C) - i] = ToolResult(answered[Len(answered) - i])
      <4>1. /\ kept - i \in 1..kept /\ Len(C) - i = (kept - i) + 1
            /\ Len(messages) - kept + (kept - i) = Len(messages) - i
            /\ i \in 0..(Len(answered) - 1)
        BY <2>2, <2>3, <3>1, <3>2
      <4> QED BY <2>3, <3>1, <4>1
    <3>5. C[Len(C)].role # "assistant"
      <4>1. CASE kept = 0
        BY <3>1, <4>1 DEF UserText
      <4>2. CASE kept # 0
        <5>1. kept \in 1..kept /\ Len(messages) - kept + kept = Len(messages)
          BY <2>3, <3>2, <4>2
        <5> QED BY <2>3, <3>1, <5>1
      <4> QED BY <4>1, <4>2
    <3>6. messages' = C
      BY <2>6 DEF C
    <3>7. WellFormed(messages') /\ messages'[Len(messages')].role # "assistant"
      BY <3>3, <3>5, <3>6
    <3>8. Fresh' < Len(messages')
      BY <2>2, <2>4, <3>1, <3>2, <3>6
    <3>9. \A i \in 0..(Fresh' - 1) :
             messages'[Len(messages') - i] = ToolResult(answered'[Len(answered') - i])
      BY <2>1, <2>4, <3>4, <3>6
    <3> QED BY <3>7, <3>8, <3>9 DEF MessagesInv
  <2> QED BY <2>1, <2>5, <2>6
<1> QED BY <1>1, <1>2, <1>3

\* The LLM answers.
LEMMA ThinkInv ==
  ASSUME CInv, NEW n \in 0..CallsPerStep, Think(n)
  PROVE  CInv'
<1> USE DEF CInv
<1>1. /\ n \in Nat /\ n <= CallsPerStep /\ numbered \in Nat
      /\ pc = "think" /\ pc' = IF n = 0 THEN "done" ELSE "act"
      /\ messages' = Append(messages, AssistantText) /\ answered' = <<>>
      /\ asked' = [i \in 1..n |-> numbered + i] /\ numbered' = numbered + n
      /\ stepCount' = stepCount
  BY ConversationAssumption DEF Think, NumberInv, ToolCalls
<1>2. CallsInv'
  <2>1. asked' \in Seq(Nat) /\ Len(asked') = n /\ \A i \in 1..n : asked'[i] = numbered + i
    BY <1>1
  <2>2. Len(answered') = 0 /\ answered' \in Seq(Nat)
    BY <1>1
  <2>3. n = 0 <=> asked' = <<>>
    BY <1>1, <2>1
  <2>4. \A i \in 1..Len(asked') : asked'[i] = numbered' - Len(asked') + i
    BY <1>1, <2>1
  <2>5. \A i \in 1..Len(answered') :
           answered'[i] = numbered' - Len(answered') - Len(asked') + i
    BY <2>2
  <2>6. Len(answered') + Len(asked') <= numbered'
    BY <1>1, <2>1, <2>2
  <2>7. pc' = "act" <=> asked' # <<>>
    BY <1>1, <2>3
  <2> QED BY <2>1, <2>2, <2>4, <2>5, <2>6, <2>7 DEF CallsInv
<1>3. NumberInv'
  <2>1. /\ stepCount \in 0..MaxSteps /\ stepCount > 0
        /\ numbered <= (stepCount - 1) * CallsPerStep
    BY <1>1 DEF NumberInv
  <2>2. (stepCount - 1) * CallsPerStep + CallsPerStep = stepCount * CallsPerStep
        /\ (stepCount - 1) * CallsPerStep \in Nat
    BY <2>1, ConversationAssumption
  <2> QED BY <1>1, <2>1, <2>2, ConversationAssumption DEF NumberInv
<1>4. MessagesInv'
  <2>1. WellFormed(messages) /\ messages[Len(messages)].role # "assistant"
    BY <1>1 DEF MessagesInv
  <2>2. AssistantText \in Messages /\ AssistantText.role = "assistant"
    BY DEF AssistantText, Messages
  <2>3. WellFormed(messages')
    BY <1>1, <2>1, <2>2, AppendWellFormed
  <2>4. Fresh' = 0
    BY <1>1 DEF Fresh
  <2> QED BY <1>1, <2>3, <2>4 DEF MessagesInv, WellFormed
<1> QED BY <1>2, <1>3, <1>4

\* A tool call is executed.
LEMMA ActInv ==
  ASSUME CInv, Act
  PROVE  CInv'
<1> USE DEF CInv
<1> DEFINE a == Len(answered)
           q == Len(asked)
<1>1. /\ pc = "act" /\ answered \in Seq(Nat) /\ asked \in Seq(Nat) /\ asked # <<>>
      /\ a \in Nat /\ q \in Nat \ {0} /\ numbered \in Nat /\ a + q <= numbered
      /\ numbered' = numbered /\ stepCount' = stepCount
      /\ pc' = IF q = 1 THEN "head" ELSE "act"
  BY DEF Act, CallsInv, NumberInv
<1>2. /\ answered' \in Seq(Nat) /\ Len(answered') = a + 1
      /\ answered'[a + 1] = Head(asked) /\ \A i \in 1..a : answered'[i] = answered[i]
      /\ asked' \in Seq(Nat) /\ Len(asked') = q - 1
      /\ \A i \in 1..(q - 1) : asked'[i] = asked[i + 1]
      /\ Head(asked) = asked[1] /\ Head(asked) \in Nat
  BY <1>1 DEF Act
<1>3. CallsInv'
  <2>1. asked[1] = numbered - q + 1 /\ \A i \in 1..q : asked[i] = numbered - q + i
    BY <1>1 DEF CallsInv
  <2>2. \A i \in 1..a : answered[i] = numbered - a - q + i
    BY DEF CallsInv
  <2>3. ASSUME NEW i \in 1..(a + 1) PROVE answered'[i] = numbered - (a + 1) - (q - 1) + i
    <3>1. CASE i = a + 1
      BY <1>1, <1>2, <2>1, <3>1
    <3>2. CASE i # a + 1
      <4>1. i \in 1..a
        BY <1>1, <3>2
      <4>2. answered'[i] = numbered - a - q + i
        BY <1>2, <2>2, <4>1
      <4>3. numbered - a - q + i = numbered - (a + 1) - (q - 1) + i
        <5> HIDE DEF a, q
        <5> QED BY <1>1, <4>1
      <4> QED BY <4>2, <4>3
    <3> QED BY <3>1, <3>2
  <2>4. ASSUME NEW i \in 1..(q - 1) PROVE asked'[i] = numbered - (q - 1) + i
    <3>1. i + 1 \in 1..q /\ i \in Nat
      BY <1>1
    <3>2. asked'[i] = numbered - q + (i + 1)
      BY <1>2, <2>1, <3>1
    <3>3. numbered - q + (i + 1) = numbered - (q - 1) + i
      <4> HIDE DEF q
      <4> QED BY <1>1, <3>1
    <3> QED BY <3>2, <3>3
  <2>5. pc' = "act" <=> asked' # <<>>
    <3>1. asked' = <<>> <=> Len(asked') = 0
      <4>1. \A z \in Seq(Nat) : z = <<>> <=> Len(z) = 0
        OBVIOUS
      <4> QED BY <1>2, <4>1, Zenon
    <3>2. Len(asked') = 0 <=> q = 1
      BY <1>1, <1>2
    <3> QED BY <1>1, <3>1, <3>2, Zenon
  <2>6. (a + 1) + (q - 1) <= numbered
    BY <1>1
  <2> QED BY <1>1, <1>2, <2>3, <2>4, <2>5, <2>6 DEF CallsInv
<1>4. NumberInv'
  BY <1>1 DEF NumberInv
<1>5. MessagesInv'
  <2> DEFINE m == ToolResult(Head(asked))
             n == Len(messages)
  <2>1. m \in Messages /\ m.role = "tool"
    BY <1>2 DEF ToolResult, Messages
  <2>2. messages' = Append(messages, m) /\ WellFormed(messages) /\ n \in Nat \ {0}
    BY DEF Act, MessagesInv, WellFormed
  <2> HIDE DEF m
  <2>3. /\ WellFormed(messages') /\ Len(messages') = n + 1 /\ messages'[n + 1] = m
        /\ \A i \in 1..n : messages'[i] = messages[i]
    BY <2>1, <2>2, AppendWellFormed
  <2>4. Fresh = a /\ Fresh' = a + 1
    BY <1>1, <1>2 DEF Fresh
  <2>5. a < n /\ \A i \in 0..(a - 1) : messages[n - i] = ToolResult(answered[a - i])
    BY <2>4 DEF MessagesInv
  <2>6. ASSUME NEW i \in 0..a PROVE messages'[(n + 1) - i] = ToolResult(answered'[(a + 1) - i])
    <3>1. CASE i = 0
      BY <1>1, <1>2, <2>2, <2>3, <3>1 DEF m
    <3>2. CASE i # 0
      <4>1. /\ i - 1 \in 0..(a - 1) /\ (n + 1) - i = n - (i - 1) /\ n - (i - 1) \in 1..n
            /\ (a + 1) - i = a - (i - 1) /\ a - (i - 1) \in 1..a
        BY <1>1, <2>2, <2>5, <3>2
      <4>2. messages'[(n + 1) - i] = messages[n - (i - 1)]
        BY <2>3, <4>1
      <4>3. answered'[(a + 1) - i] = answered[a - (i - 1)]
        BY <1>2, <4>1
      <4>4. messages[n - (i - 1)] = ToolResult(answered[a - (i - 1)])
        BY <2>5, <4>1
      <4> QED BY <4>2, <4>3, <4>4
    <3> QED BY <3>1, <3>2
  <2>7. messages'[Len(messages')].role # "assistant"
    BY <2>1, <2>3
  <2>8. (a + 1) - 1 = a /\ a + 1 < n + 1
    BY <1>1, <2>2, <2>5
  <2> QED BY <1>2, <2>3, <2>4, <2>6, <2>7, <2>8 DEF MessagesInv
<1> QED BY <1>3, <1>4, <1>5

\* The run ends.
LEMMA EndInv ==
  ASSUME CInv, MaxStepsReached \/ GiveUp
  PROVE  CInv'
<1>1. /\ pc \in {"head", "think"} /\ pc' = "done"
      /\ UNCHANGED <<messages, asked, answered, numbered, stepCount>>
  BY DEF MaxStepsReached, GiveUp
<1>2. Fresh' = 0
  BY <1>1 DEF Fresh
<1>3. MessagesInv'
  <2>1. WellFormed(messages) /\ Len(messages) \in Nat \ {0} /\ WellFormed(messages)'
    BY <1>1 DEF CInv, MessagesInv, WellFormed
  <2> QED BY <1>1, <1>2, <2>1 DEF MessagesInv
<1>4. CallsInv'
  BY <1>1 DEF CInv, CallsInv
<1>5. NumberInv'
  BY <1>1 DEF CInv, NumberInv
<1> QED BY <1>3, <1>4, <1>5 DEF CInv

\* The inductive invariant of a run: its messages are well formed and end with
\* the results that no request has carried yet.
THEOREM ConversationInvInvariant == ConversationSpec => []CInv
<1>1. ConversationInit => CInv
  BY ConversationInitInv
<1>2. CInv /\ UNCHANGED conversationVars => CInv'
  BY DEF conversationVars, CInv, MessagesInv, CallsInv, NumberInv, Fresh
<1>3. CInv /\ [ConversationNext]_conversationVars => CInv'
  BY <1>2, LoopHeadInv, ThinkInv, ActInv, EndInv DEF ConversationNext
<1> QED BY <1>1, <1>3, PTL DEF ConversationSpec

\* Types, and the order of calls: they are executed as the LLM asked for them,
\* and the conversation starts with the user.
THEOREM ConversationTypeCorrect == ConversationSpec => []ConversationTypeOK
<1>1. CInv => ConversationTypeOK
  <2> SUFFICES ASSUME CInv PROVE ConversationTypeOK
    OBVIOUS
  <2> USE DEF CInv
  <2>1. /\ messages \in Seq([role : {"user", "assistant", "tool"}, call : Nat])
        /\ messages # <<>> /\ messages[1].role = "user"
    BY DEF MessagesInv, WellFormed, Messages, UserText
  <2>2. /\ numbered \in Nat /\ stepCount \in 0..MaxSteps
        /\ pc \in {"head", "think", "act", "done"}
        /\ numbered <= stepCount * CallsPerStep
    BY DEF NumberInv
  <2>3. numbered \in 0..(MaxSteps * CallsPerStep)
    <3>1. PICK d \in Nat : MaxSteps = stepCount + d
      <4>1. MaxSteps - stepCount \in Nat /\ MaxSteps = stepCount + (MaxSteps - stepCount)
        BY <2>2, ConversationAssumption
      <4> QED BY <4>1
    <3>2. /\ MaxSteps * CallsPerStep = stepCount * CallsPerStep + d * CallsPerStep
          /\ stepCount * CallsPerStep \in Nat /\ d * CallsPerStep \in Nat
      BY <2>2, <3>1, ConversationAssumption
    <3> QED BY <2>2, <3>2
  <2>4. answered \o asked = [i \in 1..(Len(answered) + Len(asked)) |->
                                numbered - Len(answered) - Len(asked) + i]
    <3> DEFINE a == Len(answered)
               q == Len(asked)
               s == answered \o asked
    <3>1. /\ answered \in Seq(Nat) /\ asked \in Seq(Nat) /\ a \in Nat /\ q \in Nat
          /\ \A i \in 1..a : answered[i] = numbered - a - q + i
          /\ \A i \in 1..q : asked[i] = numbered - q + i
      BY DEF CallsInv
    <3>2. /\ s \in Seq(Nat) /\ Len(s) = a + q
          /\ \A i \in 1..(a + q) : s[i] = IF i <= a THEN answered[i] ELSE asked[i - a]
      BY <3>1
    <3> HIDE DEF s, a, q
    <3>3. DOMAIN s = 1..(a + q) /\ s = [i \in DOMAIN s |-> s[i]]
      BY <3>2
    <3>4. ASSUME NEW i \in 1..(a + q) PROVE s[i] = numbered - a - q + i
      <4>1. CASE i <= a
        <5>1. i \in 1..a
          BY <3>1, <4>1
        <5>2. s[i] = answered[i]
          BY <3>2, <4>1
        <5> QED BY <3>1, <5>1, <5>2
      <4>2. CASE ~(i <= a)
        <5>1. i - a \in 1..q
          BY <3>1, <4>2
        <5>2. s[i] = numbered - q + (i - a)
          BY <3>1, <3>2, <4>2, <5>1
        <5> QED BY <2>2, <3>1, <5>2
      <4> QED BY <4>1, <4>2
    <3> QED BY <3>3, <3>4 DEF s, a, q
  <2> QED BY <2>1, <2>2, <2>3, <2>4 DEF ConversationTypeOK
<1> QED BY <1>1, ConversationInvInvariant, PTL

\* Every request to Anthropic has user and assistant messages in turn, the user
\* first and last, wherever compaction has cut the conversation.
THEOREM RolesAlternate == ConversationSpec => []WireAlternates
<1>1. CInv => WireAlternates
  <2> SUFFICES ASSUME CInv, pc = "think"
               PROVE  LET W == AnthropicWire
                      IN  /\ \A i \in DOMAIN W :
                                W[i].role = IF i % 2 = 1 THEN "user" ELSE "assistant"
                          /\ Last(W).role = "user"
    BY DEF WireAlternates
  <2>1. WellFormed(messages) /\ messages[Len(messages)].role # "assistant"
    BY DEF CInv, MessagesInv
  <2>2. Alternates(AnthropicWire, messages[Len(messages)])
    BY <2>1, WireShape DEF AnthropicWire
  <2>3. DOMAIN AnthropicWire = 1..Len(AnthropicWire)
    BY <2>2 DEF Alternates
  <2> QED BY <2>1, <2>2, <2>3 DEF Alternates
<1> QED BY <1>1, ConversationInvInvariant, PTL

\* The results that no request has carried yet are the end of the next one, to
\* either provider, as many of them as compaction keeps.
THEOREM FreshResultsEndRequest == ConversationSpec => []NewResultsEndRequest
<1>1. CInv => NewResultsEndRequest
  <2> SUFFICES ASSUME CInv, pc = "think" PROVE NewResultsEndRequest
    BY DEF NewResultsEndRequest
  <2> DEFINE a == Len(answered)
             n == Len(messages)
             k == IF a > MIN_MESSAGES_TO_KEEP THEN MIN_MESSAGES_TO_KEEP ELSE a
             new == SubSeq(answered, a - k + 1, a)
             blocks == Last(AnthropicWire).content
             b == Len(blocks)
             W == OpenAIWire
  <2>1. answered \in Seq(Nat) /\ a \in Nat /\ k \in Nat /\ k <= a
    BY DEF CInv, CallsInv, MIN_MESSAGES_TO_KEEP
  <2>2. /\ WellFormed(messages) /\ n \in Nat \ {0} /\ k < n
        /\ \A i \in 0..(k - 1) : messages[n - i] = ToolResult(answered[a - i])
    BY DEF CInv, MessagesInv, Fresh, WellFormed
  <2> HIDE DEF k
  <2>3. new \in Seq(Nat) /\ Len(new) = k /\ \A i \in 1..k : new[i] = answered[a - k + i]
    <3>1. a - k + 1 \in Nat /\ a - k + 1 >= 1
      BY <2>1
    <3> QED BY <2>1, <3>1
  <2>4. blocks \in Seq(Nat) /\ b \in Nat
    <3>1. Alternates(AnthropicWire, messages[n])
      BY <2>2, WireShape DEF AnthropicWire
    <3>2. AnthropicWire[Len(AnthropicWire)] \in WireMessages
      BY <3>1 DEF Alternates
    <3> QED BY <3>2 DEF Last, WireMessages
  <2>5. k <= b /\ \A i \in 0..(k - 1) : blocks[b - i] = answered[a - i]
    <3> HIDE DEF n, a
    <3>0. \A x : ToolResult(x).role = "tool" /\ ToolResult(x).call = x
      BY DEF ToolResult
    <3>1. ResultsAt(messages, n, k)
      BY <2>2, <3>0 DEF ResultsAt
    <3>2. k \in 0..(n - 1)
      BY <2>1, <2>2
    <3>3. EndsWith(blocks, messages, n, k)
      BY <2>2, <3>1, <3>2, WireShape DEF AnthropicWire, n
    <3> HIDE DEF blocks
    <3> QED BY <2>2, <3>0, <3>3 DEF EndsWith
  <2> HIDE DEF new, blocks
  <2>6. SubSeq(blocks, b - k + 1, b) = new
    <3> DEFINE end == SubSeq(blocks, b - k + 1, b)
    <3>1. b - k + 1 \in Nat /\ b - k + 1 >= 1
      BY <2>1, <2>4, <2>5
    <3>2. end \in Seq(Nat) /\ Len(end) = k /\ \A i \in 1..k : end[i] = blocks[b - k + i]
      BY <2>1, <2>4, <2>5, <3>1
    <3> HIDE DEF end
    <3>3. ASSUME NEW i \in 1..k PROVE end[i] = new[i]
      <4>1. k - i \in 0..(k - 1) /\ b - (k - i) = b - k + i /\ a - (k - i) = a - k + i
        BY <2>1, <2>4
      <4>2. blocks[b - (k - i)] = answered[a - (k - i)]
        BY <2>5, <4>1
      <4> QED BY <2>3, <3>2, <4>1, <4>2
    <3>4. end = new
      BY <2>3, <3>2, <3>3
    <3> QED BY <3>4 DEF end
  <2>7. /\ Len(W) = n + 1
        /\ \A i \in 1..n : W[i + 1] = [role |-> messages[i].role, content |-> <<messages[i].call>>]
    <3> DEFINE tail == [i \in DOMAIN messages |->
                          [role |-> messages[i].role, content |-> Blocks(messages[i])]]
               system == [role |-> "system", content |-> <<0>>]
               Entries == {system} \cup Range(tail)
    <3>1. DOMAIN messages = 1..n
      BY <2>2 DEF WellFormed
    <3>2. /\ Len(tail) = n /\ DOMAIN tail = 1..n
          /\ \A i \in 1..n : tail[i] = [role |-> messages[i].role,
                                       content |-> <<messages[i].call>>]
      BY <2>2, <3>1 DEF Blocks
    <3>3. tail \in Seq(Entries) /\ system \in Entries
      <4> HIDE DEF n
      <4>1. tail = [i \in 1..n |-> tail[i]] /\ \A i \in 1..n : tail[i] \in Entries
        BY <3>1, <3>2 DEF Range
      <4>2. system \in Entries
        OBVIOUS
      <4> HIDE DEF tail, system, Entries
      <4> QED BY <2>2, <4>1, <4>2
    <3>4. W = <<system>> \o tail
      BY DEF OpenAIWire
    <3> HIDE DEF tail, system, W, n, Entries
    <3>5. /\ Len(<<system>> \o tail) = n + 1
          /\ \A i \in 1..n : (<<system>> \o tail)[i + 1] = tail[i]
      <4>1. /\ Len(<<system>> \o tail) = 1 + Len(tail)
            /\ \A i \in 1..Len(tail) : (<<system>> \o tail)[i + 1] = tail[i]
        BY <3>3, AfterFirst
      <4> QED BY <2>2, <3>2, <4>1
    <3> QED BY <3>2, <3>4, <3>5
  <2> HIDE DEF W
  <2>8. ASSUME NEW i \in 1..k
        PROVE  W[Len(W) - k + i] = [role |-> "tool", content |-> <<new[i]>>]
    <3>1. /\ k - i \in 0..(k - 1) /\ n - (k - i) \in 1..n /\ a - (k - i) = a - k + i
          /\ Len(W) - k + i = (n - (k - i)) + 1
      <4> HIDE DEF n, a
      <4>1. i \in Nat /\ 1 <= i /\ i <= k
        BY <2>1
      <4> QED BY <2>1, <2>2, <2>7, <4>1
    <3>2. messages[n - (k - i)] = ToolResult(new[i])
      <4> HIDE DEF n, a
      <4>1. messages[n - (k - i)] = ToolResult(answered[a - (k - i)])
        BY <2>2, <3>1
      <4> QED BY <2>3, <3>1, <4>1
    <3>3. W[Len(W) - k + i] = [role |-> messages[n - (k - i)].role,
                               content |-> <<messages[n - (k - i)].call>>]
      BY <2>7, <3>1
    <3> QED BY <3>2, <3>3 DEF ToolResult
  <2> QED BY <2>6, <2>8 DEF NewResultsEndRequest, new, blocks, k, W
<1> QED BY <1>1, ConversationInvInvariant, PTL
=============================================================================
