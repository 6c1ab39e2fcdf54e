--------------------------- MODULE FrontendsProofs ---------------------------
(***************************************************************************)
(* Proofs about Frontends, for every set of workflows, every budget of     *)
(* failures, every set of tales and every list of steps.                   *)
(***************************************************************************)
EXTENDS Frontends, FiniteSetTheorems, SequenceTheorems, TLAPS

HistoryMessage == [wf : Workflow, kind : HistoryKind, fn : Fn \union {NoFn}]

-----------------------------------------------------------------------------
(* The history.                                                            *)

\* What a step does to the stream: nothing, or a legal message is appended.
Appends ==
  \/ UNCHANGED stream
  \/ \E m \in HistoryMessage : stream' = Append(stream, m) /\ Legal(stream, m)

\* A message that is appended leaves the messages before it alone.
LEMMA AppendKeeps ==
  ASSUME NEW m \in HistoryMessage, stream \in Seq(HistoryMessage),
         stream' = Append(stream, m)
  PROVE  /\ stream' \in Seq(HistoryMessage)
         /\ Len(stream) \in Nat
         /\ Len(stream') = Len(stream) + 1
         /\ DOMAIN stream = 1..Len(stream)
         /\ DOMAIN stream' = 1..(Len(stream) + 1)
         /\ \A i \in DOMAIN stream : stream'[i] = stream[i]
         /\ stream'[Len(stream) + 1] = m
<1> HIDE DEF HistoryMessage
<1> QED
  BY AppendProperties

\* The positions of a workflow after an append.
LEMMA AppendPositions ==
  ASSUME NEW m \in HistoryMessage, stream \in Seq(HistoryMessage),
         stream' = Append(stream, m), NEW w \in Workflow
  PROVE  /\ m.wf # w => Positions(w)' = Positions(w)
         /\ m.wf = w => Positions(w)' = Positions(w) \union {Len(stream) + 1}
         /\ Positions(w) \subseteq Positions(w)'
<1> USE AppendKeeps
<1> HIDE DEF HistoryMessage
<1>1. Positions(w)' = {i \in DOMAIN stream' : stream'[i].wf = w}
  BY DEF Positions
<1>2. m.wf # w => Positions(w)' = Positions(w)
  BY <1>1 DEF Positions
<1>3. m.wf = w => Positions(w)' = Positions(w) \union {Len(stream) + 1}
  BY <1>1 DEF Positions
<1> QED
  BY <1>2, <1>3

-----------------------------------------------------------------------------
(* The calls.                                                              *)

CallTypes ==
  /\ stream \in Seq(HistoryMessage)
  /\ budget \in [FaultKind -> Nat] /\ budget["answer"] <= Faults["answer"]
  /\ inputs \subseteq Workflow
  /\ caller \in [Workflow -> {"sdk", "demo"}]
  /\ mail \in [Workflow -> InHandler \union {"none", "request", "id", "error", "lost"}]
  /\ call \in [Workflow -> {"idle", "waiting", "panicked", "failed", "future", "watching",
                            "done", "shown"}]

(***************************************************************************)
(* How far the request of w is decides whether its arguments are stored    *)
(* and whether it has a history: a history without a positive reply needs  *)
(* an acknowledgement that did not arrive.                                 *)
(***************************************************************************)
RequestMatches(w) ==
  /\ call[w] = "idle" => mail[w] = "none"
  /\ call[w] \in {"future", "watching", "done", "shown"} => mail[w] = "id"
  /\ mail[w] \in {"none", "request", "stored"} => Positions(w) = {}
  /\ mail[w] \in {"stored", "started", "id"} => w \in inputs
  /\ mail[w] \in {"started", "id"} => Positions(w) # {}
  /\ mail[w] \in {"refused", "error"} /\ Positions(w) # {}
       => budget["answer"] < Faults["answer"]

CallInv == CallTypes /\ \A w \in Workflow : RequestMatches(w)

\* A workflow that a step does not touch still matches its request.
LEMMA Untouched ==
  ASSUME NEW w, RequestMatches(w), CallTypes, CallTypes',
         call'[w] = call[w], mail'[w] = mail[w], inputs \subseteq inputs',
         (Positions(w)' = {}) <=> (Positions(w) = {}),
         budget'["answer"] <= budget["answer"]
  PROVE  RequestMatches(w)'
<1>1. budget["answer"] \in Nat /\ budget'["answer"] \in Nat /\ Faults["answer"] \in Nat
  BY ClientCallAssumption DEF CallTypes, FaultKind
<1> QED
  BY <1>1 DEF RequestMatches

\* Spending a failure makes the budget smaller.
LEMMA SpendBudget ==
  ASSUME CallTypes, NEW k \in FaultKind, Spend(k)
  PROVE  /\ budget' \in [FaultKind -> Nat]
         /\ budget'["answer"] <= budget["answer"]
         /\ budget'["answer"] <= Faults["answer"]
         /\ k = "answer" => budget'["answer"] = budget["answer"] - 1
         /\ k = "answer" => budget'["answer"] < Faults["answer"]
         /\ k # "answer" => budget'["answer"] = budget["answer"]
<1>1. budget["answer"] \in Nat /\ Faults["answer"] \in Nat /\ budget[k] \in Nat
  BY ClientCallAssumption DEF CallTypes, FaultKind
<1>2. budget[k] > 0 /\ budget' = [budget EXCEPT ![k] = @ - 1]
  BY DEF Spend
<1>3. budget' \in [FaultKind -> Nat]
  BY <1>1, <1>2 DEF CallTypes
<1>4. "answer" \in FaultKind /\ budget \in [FaultKind -> Nat]
  BY DEF CallTypes, FaultKind
<1>5. k = "answer" => budget'["answer"] = budget["answer"] - 1
  BY <1>2, <1>4
<1>6. k # "answer" => budget'["answer"] = budget["answer"]
  BY <1>2, <1>4
<1> QED
  BY <1>1, <1>2, <1>3, <1>5, <1>6 DEF CallTypes

\* The calls before anything has happened.
LEMMA CallInvInit == CallersInit => CallInv
<1> SUFFICES ASSUME CallersInit PROVE CallInv
  OBVIOUS
<1>1. CallTypes
  BY ClientCallAssumption DEF CallersInit, InitCalls, CallTypes, FaultKind
<1>2. ASSUME NEW w \in Workflow PROVE RequestMatches(w)
  BY DEF CallersInit, InitCalls, RequestMatches, Positions
<1> QED
  BY <1>1, <1>2 DEF CallInv

\* A step of a caller that leaves mail, budget, history and arguments alone.
LEMMA CallerMoves ==
  ASSUME CallInv, NEW w \in Workflow, NEW c,
         c \in {"panicked", "failed", "future", "watching", "done", "shown"},
         call[w] # "idle" \/ c \in {"panicked", "failed"},
         c \in {"future", "watching", "done", "shown"} => mail[w] = "id",
         call' = [call EXCEPT ![w] = c],
         UNCHANGED <<stream, inputs, caller, mail>>,
         budget' \in [FaultKind -> Nat], budget'["answer"] <= budget["answer"],
         budget'["answer"] <= Faults["answer"]
  PROVE  CallInv'
<1>1. CallTypes'
  BY DEF CallInv, CallTypes
<1>2. ASSUME NEW v \in Workflow PROVE RequestMatches(v)'
  <2>1. RequestMatches(v) /\ CallTypes
    BY DEF CallInv
  <2>2. Positions(v)' = Positions(v)
    BY DEF Positions
  <2>3. CASE v # w
    <3>1. call'[v] = call[v]
      BY <2>3, <2>1 DEF CallTypes
    <3> QED
      BY <1>1, <2>1, <2>2, <3>1, Untouched
  <2>4. CASE v = w
    <3>1. call'[v] = c
      BY <2>4, <2>1 DEF CallTypes
    <3>2. budget["answer"] \in Nat /\ budget'["answer"] \in Nat /\ Faults["answer"] \in Nat
      BY <1>1, <2>1, ClientCallAssumption DEF CallTypes, FaultKind
    <3> QED
      BY <2>1, <2>2, <2>4, <3>1, <3>2 DEF RequestMatches
  <2> QED
    BY <2>3, <2>4
<1> QED
  BY <1>1, <1>2 DEF CallInv

\* A step that touches the request of one workflow only.
LEMMA RequestMoves ==
  ASSUME CallInv, CallTypes', NEW w \in Workflow, NEW x,
         mail' = [mail EXCEPT ![w] = x], inputs \subseteq inputs',
         \A v \in Workflow \ {w} : call'[v] = call[v] /\ Positions(v)' = Positions(v),
         budget'["answer"] <= budget["answer"],
         RequestMatches(w)'
  PROVE  CallInv'
<1>1. ASSUME NEW v \in Workflow \ {w} PROVE RequestMatches(v)'
  <2>1. RequestMatches(v) /\ CallTypes
    BY DEF CallInv
  <2>2. mail'[v] = mail[v]
    BY <2>1 DEF CallTypes
  <2> QED
    BY <1>1, <2>1, <2>2, Untouched
<1> QED
  BY <1>1 DEF CallInv

\* A request is sent.
LEMMA SendRequestCalls ==
  ASSUME CallInv, NEW w \in Workflow, SendRequest(w) PROVE CallInv'
<1>1. /\ call[w] = "idle"
      /\ call' = [call EXCEPT ![w] = "waiting"]
      /\ mail' = [mail EXCEPT ![w] = "request"]
      /\ UNCHANGED <<stream, inputs, budget, caller>>
  BY DEF SendRequest, engineVars
<1>2. CallTypes'
  BY <1>1 DEF CallInv, CallTypes
<1>3. \A v \in Workflow : Positions(v)' = Positions(v)
  BY <1>1 DEF Positions
<1>4. \A v \in Workflow \ {w} : call'[v] = call[v]
  BY <1>1 DEF CallInv, CallTypes
<1>5. call'[w] = "waiting" /\ mail'[w] = "request"
  BY <1>1 DEF CallInv, CallTypes
<1>6. RequestMatches(w)'
  BY <1>1, <1>3, <1>5 DEF CallInv, RequestMatches
<1>7. budget'["answer"] <= budget["answer"]
  BY <1>1 DEF CallInv, CallTypes, FaultKind
<1> QED
  BY <1>1, <1>2, <1>3, <1>4, <1>6, <1>7, RequestMoves

\* The handler stores the arguments, or fails to.
LEMMA StoreInputCalls ==
  ASSUME CallInv, NEW w \in Workflow, StoreInput(w) PROVE CallInv'
<1> USE DEF CallInv
<1>1. PICK x \in {"stored", "refused"} :
        /\ mail[w] = "request"
        /\ mail' = [mail EXCEPT ![w] = x]
        /\ x = "stored" => inputs' = inputs \union {w}
        /\ inputs' \in {inputs, inputs \union {w}}
        /\ budget' = budget \/ Spend("kv")
        /\ UNCHANGED <<stream, caller, call>>
  BY DEF StoreInput
<1>2. /\ budget' \in [FaultKind -> Nat] /\ budget'["answer"] = budget["answer"]
      /\ budget'["answer"] <= Faults["answer"]
  BY <1>1, SpendBudget DEF FaultKind, CallTypes
<1>3. CallTypes'
  BY <1>1, <1>2 DEF CallTypes, InHandler
<1>4. \A v \in Workflow : Positions(v)' = Positions(v)
  BY <1>1 DEF Positions
<1>5. mail'[w] = x
  BY <1>1 DEF CallTypes
<1>6. RequestMatches(w)'
  BY <1>1, <1>4, <1>5 DEF RequestMatches
<1>7. budget'["answer"] <= budget["answer"]
  BY <1>2 DEF CallTypes, FaultKind
<1> QED
  BY <1>1, <1>3, <1>4, <1>6, <1>7, RequestMoves

\* WorkflowStarted is a message of the history.
LEMMA StartedMessage ==
  ASSUME NEW w \in Workflow
  PROVE  /\ Message(w, "workflow/started", NoFn) \in HistoryMessage
         /\ Message(w, "workflow/started", NoFn).wf = w
         /\ Message(w, "workflow/started", NoFn).kind = "workflow/started"
  BY DEF Message, HistoryMessage, HistoryKind

\* The start is published; the acknowledgement may not arrive.
LEMMA PublishStartedCalls ==
  ASSUME CallInv, NEW w \in Workflow, PublishStarted(w) PROVE CallInv' /\ Appends
<1> USE DEF CallInv
<1>1. mail[w] = "stored" /\ Positions(w) = {} /\ w \in inputs
  BY DEF PublishStarted, RequestMatches
<1>2. UNCHANGED <<inputs, caller, call>>
  BY DEF PublishStarted
<1>3. CASE /\ stream' = Append(stream, Message(w, "workflow/started", NoFn))
           /\ \/ mail' = [mail EXCEPT ![w] = "started"] /\ UNCHANGED budget
              \/ mail' = [mail EXCEPT ![w] = "refused"] /\ Spend("answer")
  <2>1. PICK m : m = Message(w, "workflow/started", NoFn)
    OBVIOUS
  <2>2. /\ m \in HistoryMessage /\ m.wf = w /\ m.kind = "workflow/started"
        /\ stream' = Append(stream, m)
    BY <1>3, <2>1, StartedMessage
  <2>3. PICK x \in {"started", "refused"} :
          /\ mail' = [mail EXCEPT ![w] = x]
          /\ x = "started" => UNCHANGED budget
          /\ x = "refused" => Spend("answer")
    BY <1>3
  <2>4. /\ budget' \in [FaultKind -> Nat] /\ budget'["answer"] <= budget["answer"]
        /\ budget'["answer"] <= Faults["answer"]
        /\ x = "refused" => budget'["answer"] < Faults["answer"]
    BY <2>3, SpendBudget DEF FaultKind, CallTypes
  <2>5. stream' \in Seq(HistoryMessage)
    BY <2>2, AppendKeeps DEF CallTypes
  <2>6. CallTypes'
    BY <1>2, <2>3, <2>4, <2>5 DEF CallTypes, InHandler
  <2>7. /\ \A v \in Workflow \ {w} : Positions(v)' = Positions(v)
        /\ Positions(w)' # {}
    BY <2>2, AppendPositions DEF CallTypes
  <2>8. mail'[w] = x
    BY <2>3 DEF CallTypes
  <2>9. RequestMatches(w)'
    BY <1>1, <1>2, <2>3, <2>4, <2>7, <2>8 DEF RequestMatches
  <2>10. Legal(stream, m)
    <3>1. Having(stream, w, {"workflow/started"}) = {}
      BY <1>1 DEF Having, Positions
    <3> QED
      BY <2>2, <3>1 DEF Legal
  <2>11. CallInv'
    BY <1>2, <2>3, <2>4, <2>6, <2>7, <2>9, RequestMoves
  <2> QED
    BY <2>2, <2>10, <2>11 DEF Appends
<1>4. CASE mail' = [mail EXCEPT ![w] = "refused"] /\ Spend("publish") /\ UNCHANGED stream
  <2>1. /\ budget' \in [FaultKind -> Nat] /\ budget'["answer"] <= budget["answer"]
        /\ budget'["answer"] <= Faults["answer"]
    BY <1>4, SpendBudget DEF FaultKind
  <2>2. CallTypes'
    BY <1>2, <1>4, <2>1 DEF CallTypes, InHandler
  <2>3. \A v \in Workflow : Positions(v)' = Positions(v)
    BY <1>4 DEF Positions
  <2>4. mail'[w] = "refused"
    BY <1>4 DEF CallTypes
  <2>5. RequestMatches(w)'
    BY <1>1, <1>2, <2>3, <2>4 DEF RequestMatches
  <2>6. CallInv'
    BY <1>2, <1>4, <2>1, <2>2, <2>3, <2>5, RequestMoves
  <2> QED
    BY <1>4, <2>6 DEF Appends
<1> QED
  BY <1>3, <1>4 DEF PublishStarted

\* The handler replies, or its reply is lost.
LEMMA ReplyCalls ==
  ASSUME CallInv, NEW w \in Workflow, Reply(w) PROVE CallInv'
<1> USE DEF CallInv
<1>1. PICK x \in {"id", "error", "lost"} :
        /\ mail[w] \in {"started", "refused"}
        /\ mail' = [mail EXCEPT ![w] = x]
        /\ x = "id" => mail[w] = "started"
        /\ x = "error" => mail[w] = "refused"
        /\ budget' = budget \/ Spend("answer")
        /\ UNCHANGED <<stream, inputs, caller, call>>
  BY DEF Reply, engineVars
<1>2. /\ budget' \in [FaultKind -> Nat] /\ budget'["answer"] <= budget["answer"]
      /\ budget'["answer"] <= Faults["answer"]
  BY <1>1, SpendBudget DEF FaultKind, CallTypes
<1>3. CallTypes'
  BY <1>1, <1>2 DEF CallTypes, InHandler
<1>4. \A v \in Workflow : Positions(v)' = Positions(v)
  BY <1>1 DEF Positions
<1>5. mail'[w] = x
  BY <1>1 DEF CallTypes
<1>6. budget["answer"] \in Nat /\ budget'["answer"] \in Nat /\ Faults["answer"] \in Nat
  BY <1>2, ClientCallAssumption DEF CallTypes, FaultKind
<1>7. RequestMatches(w)'
  BY <1>1, <1>2, <1>4, <1>5, <1>6 DEF RequestMatches
<1> QED
  BY <1>1, <1>2, <1>3, <1>4, <1>7, RequestMoves

\* The server dies: requests in its hands are lost.
LEMMA ServerDownCalls ==
  ASSUME CallInv, ServerDown PROVE CallInv'
<1> USE DEF CallInv
<1>1. /\ Spend("server")
      /\ mail' = [w \in Workflow |->
                    IF mail[w] \in InHandler \union {"request"} THEN "lost" ELSE mail[w]]
      /\ call' = [w \in Workflow |->
                    IF caller[w] = "demo" /\ call[w] = "waiting" THEN "failed" ELSE call[w]]
      /\ UNCHANGED <<stream, inputs, caller>>
  BY DEF ServerDown, engineVars
<1>2. /\ budget' \in [FaultKind -> Nat] /\ budget'["answer"] <= budget["answer"]
      /\ budget'["answer"] <= Faults["answer"]
  BY <1>1, SpendBudget DEF FaultKind, CallTypes
<1>3. CallTypes'
  BY <1>1, <1>2 DEF CallTypes
<1>4. ASSUME NEW w \in Workflow PROVE RequestMatches(w)'
  <2>1. Positions(w)' = Positions(w)
    BY <1>1 DEF Positions
  <2>2. budget["answer"] \in Nat /\ budget'["answer"] \in Nat /\ Faults["answer"] \in Nat
    BY <1>2, ClientCallAssumption DEF CallTypes, FaultKind
  <2>3. mail'[w] = IF mail[w] \in InHandler \union {"request"} THEN "lost" ELSE mail[w]
    BY <1>1
  <2>4. call'[w] = IF caller[w] = "demo" /\ call[w] = "waiting" THEN "failed" ELSE call[w]
    BY <1>1
  <2> QED
    BY <1>1, <1>2, <2>1, <2>2, <2>3, <2>4 DEF RequestMatches, InHandler
<1> QED
  BY <1>3, <1>4

\* The workers append to a history that has begun.
LEMMA WorkersAppendCalls ==
  ASSUME CallInv, NEW w \in Workflow, WorkersAppend(w) PROVE CallInv' /\ Appends
<1> USE DEF CallInv
<1>1. PICK t \in Tales :
        /\ Positions(w) # {}
        /\ Len(Written(w)) + 1 \in DOMAIN t
        /\ LET e == t[Len(Written(w)) + 1]
               m == Message(w, e[1], e[2])
           IN  Legal(stream, m) /\ stream' = Append(stream, m)
        /\ UNCHANGED <<inputs, budget, caller, mail, call>>
  BY DEF WorkersAppend
<1>2. PICK k : k = Len(Written(w)) + 1
  OBVIOUS
<1>3. PICK e : e = t[k]
  OBVIOUS
<1>4. e \in HistoryKind \X (Fn \union {NoFn})
  BY <1>1, <1>2, <1>3, FrontendsAssumption
<1>5. PICK m : m = Message(w, e[1], e[2])
  OBVIOUS
<1>6. m \in HistoryMessage /\ m.wf = w
  BY <1>4, <1>5 DEF Message, HistoryMessage
<1>7. Legal(stream, m) /\ stream' = Append(stream, m)
  BY <1>1, <1>2, <1>3, <1>5
<1>8. CallTypes'
  BY <1>1, <1>6, <1>7, AppendKeeps DEF CallTypes
<1>9. ASSUME NEW v \in Workflow PROVE RequestMatches(v)'
  <2>1. (Positions(v)' = {}) <=> (Positions(v) = {})
    BY <1>1, <1>6, <1>7, AppendPositions DEF CallTypes
  <2>2. budget'["answer"] <= budget["answer"]
    BY <1>1 DEF CallTypes, FaultKind
  <2> QED
    BY <1>1, <1>8, <2>1, <2>2, Untouched
<1> QED
  BY <1>6, <1>7, <1>8, <1>9 DEF Appends

\* The steps that touch neither request nor history.
LEMMA OtherCalls ==
  ASSUME CallInv, UNCHANGED <<stream, inputs, caller, mail, call>>,
         budget' \in [FaultKind -> Nat], budget'["answer"] <= budget["answer"]
  PROVE  CallInv'
<1> USE DEF CallInv
<1>1. budget["answer"] \in Nat /\ budget'["answer"] \in Nat /\ Faults["answer"] \in Nat
  BY ClientCallAssumption DEF CallTypes, FaultKind
<1>2. CallTypes'
  BY <1>1 DEF CallTypes
<1>3. ASSUME NEW v \in Workflow PROVE RequestMatches(v)'
  <2>1. Positions(v)' = Positions(v)
    BY DEF Positions
  <2> QED
    BY <1>2, <2>1, Untouched
<1> QED
  BY <1>2, <1>3

\* The steps of a caller: its request or its wait ends, or its future is read.
LEMMA CallerCalls ==
  ASSUME CallInv, NEW w \in Workflow,
         \/ NoResponders(w) \/ RequestEnds(w) \/ ExecuteWorkflow(w) \/ Register(w)
         \/ Watch(w) \/ NextUpdate(w) \/ GetEnds(w)
  PROVE  CallInv' /\ UNCHANGED stream
<1> USE DEF CallInv, engineVars
<1>1. budget' = budget \/ Spend("kv")
  BY DEF NoResponders, RequestEnds, ExecuteWorkflow, Register, Watch, NextUpdate, GetEnds
<1>2. /\ budget' \in [FaultKind -> Nat] /\ budget'["answer"] <= budget["answer"]
      /\ budget'["answer"] <= Faults["answer"]
  BY <1>1, SpendBudget DEF FaultKind, CallTypes
<1>3. UNCHANGED <<stream, inputs, caller, mail>>
  BY DEF NoResponders, RequestEnds, ExecuteWorkflow, Register, Watch, NextUpdate, GetEnds
<1>4. CASE UNCHANGED call
  BY <1>2, <1>3, <1>4, OtherCalls
<1>5. CASE NoResponders(w) \/ RequestEnds(w)
  <2>1. PICK c \in {"panicked", "failed"} : call' = [call EXCEPT ![w] = c]
    BY <1>5 DEF NoResponders, RequestEnds, RequestError
  <2> QED
    BY <1>2, <1>3, <2>1, CallerMoves
<1>6. CASE ExecuteWorkflow(w) \/ Register(w)
  <2>1. PICK c \in {"failed", "future", "shown"} :
          /\ call' = [call EXCEPT ![w] = c] /\ call[w] = "waiting"
          /\ c # "failed" => mail[w] = "id"
    BY <1>6 DEF ExecuteWorkflow, Register
  <2> QED
    BY <1>2, <1>3, <2>1, CallerMoves
<1>7. CASE (Watch(w) \/ NextUpdate(w) \/ GetEnds(w)) /\ ~ (UNCHANGED call)
  <2>1. PICK c \in {"failed", "watching", "done"} :
          /\ call' = [call EXCEPT ![w] = c] /\ call[w] \in {"future", "watching"}
    BY <1>7 DEF Watch, NextUpdate, GetEnds
  <2>2. mail[w] = "id"
    BY <2>1 DEF RequestMatches
  <2> QED
    BY <1>2, <1>3, <2>1, <2>2, CallerMoves
<1> QED
  BY <1>3, <1>4, <1>5, <1>6, <1>7

\* Every step keeps CallInv and appends to the history what it may.
LEMMA CallInvNext ==
  ASSUME CallInv, [CallersNext]_allVars PROVE CallInv' /\ Appends
<1>1. CASE UNCHANGED allVars
  <2>1. UNCHANGED <<stream, inputs, caller, mail, call, budget>>
    BY <1>1 DEF allVars, engineVars
  <2>2. budget' \in [FaultKind -> Nat] /\ budget'["answer"] <= budget["answer"]
    BY <2>1 DEF CallInv, CallTypes, FaultKind
  <2> QED
    BY <2>1, <2>2, OtherCalls DEF Appends
<1>2. CASE \E w \in Workflow :
             \/ SendRequest(w) \/ StoreInput(w) \/ Reply(w)
             \/ NoResponders(w) \/ RequestEnds(w) \/ ExecuteWorkflow(w) \/ Register(w)
             \/ Watch(w) \/ NextUpdate(w) \/ GetEnds(w)
  <2>1. UNCHANGED stream
    BY <1>2 DEF SendRequest, StoreInput, Reply, NoResponders, RequestEnds, ExecuteWorkflow,
                Register, Watch, NextUpdate, GetEnds, engineVars
  <2> QED
    BY <1>2, <2>1, SendRequestCalls, StoreInputCalls, ReplyCalls, CallerCalls DEF Appends
<1>3. CASE \E w \in Workflow : PublishStarted(w) \/ WorkersAppend(w)
  BY <1>3, PublishStartedCalls, WorkersAppendCalls
<1>4. CASE \/ \E i \in DOMAIN stream : WorkflowResults(i) \/ HandleEvent(i)
           \/ GetStatus \/ WriteSteps \/ ServerUp
  <2>1. UNCHANGED <<stream, inputs, caller, mail, call>>
    BY <1>4 DEF WorkflowResults, HandleEvent, GetStatus, WriteSteps, ServerUp, engineVars
  <2>2. budget' = budget \/ Spend("kv") \/ Spend("answer")
    BY <1>4 DEF WorkflowResults, HandleEvent, GetStatus, WriteSteps, ServerUp
  <2>3. budget' \in [FaultKind -> Nat] /\ budget'["answer"] <= budget["answer"]
    BY <2>2, SpendBudget DEF FaultKind, CallTypes, CallInv
  <2> QED
    BY <2>1, <2>3, OtherCalls DEF Appends
<1>5. CASE ServerDown
  <2>1. UNCHANGED stream
    BY <1>5 DEF ServerDown, engineVars
  <2> QED
    BY <1>5, <2>1, ServerDownCalls DEF Appends
<1> QED
  BY <1>1, <1>2, <1>3, <1>4, <1>5 DEF CallersNext, CallersProgress

(***************************************************************************)
(* A client that holds a future started a workflow that exists, whatever   *)
(* failures there are: HandleRequest replies with the id after both the    *)
(* put of the arguments and the publish of WorkflowStarted.                *)
(***************************************************************************)
THEOREM FuturesAreReal == CallersSpec => []FutureIsReal
<1>1. CallInv => FutureIsReal
  BY DEF CallInv, RequestMatches, FutureIsReal
<1>2. CallInv /\ [CallersNext]_allVars => CallInv'
  BY CallInvNext
<1> QED
  BY <1>1, <1>2, CallInvInit, PTL DEF CallersSpec

(***************************************************************************)
(* HandleRequest answers with an error although the workflow runs only     *)
(* when the acknowledgement of its publish did not arrive.                 *)
(***************************************************************************)
THEOREM OrphansNeedFaults == CallersSpec => []NoOrphanWithoutFault
<1>1. CallInv => NoOrphanWithoutFault
  BY DEF CallInv, RequestMatches, NoOrphanWithoutFault
<1>2. CallInv /\ [CallersNext]_allVars => CallInv'
  BY CallInvNext
<1> QED
  BY <1>1, <1>2, CallInvInit, PTL DEF CallersSpec

-----------------------------------------------------------------------------
(* The consumers and the results.                                          *)

\* A consumer has been delivered a prefix of the stream.
ConsumerOK(c) ==
  /\ c \in [last : Nat, unsettled : SUBSET Nat]
  /\ c.last <= Len(stream)
  /\ c.unsettled \subseteq 1..c.last

Completions(w) == Having(stream, w, {"workflow/completed"})

\* Whatever is stored, under way or returned as a result of w is one of w.
ResultsOf(w) ==
  /\ results[w] \in {NoResult} \union Completions(w)
  /\ updates[w] \in Seq({Marker} \union Completions(w))
  /\ answer[w] \in {NoResult} \union Completions(w)
  /\ call[w] = "done" => answer[w] \in Completions(w)

ResultTypes ==
  /\ results \in [Workflow -> Int] /\ answer \in [Workflow -> Int]
  /\ updates \in [Workflow -> Seq(Int)]

ResultInv ==
  /\ ConsumerOK(done)
  /\ ResultTypes
  /\ \A w \in Workflow : ResultsOf(w)

\* The larger of two numbers.
LEMMA LargerOfTwo ==
  ASSUME NEW a \in Nat, NEW b \in Nat
  PROVE  /\ Max({a, b}) \in Nat
         /\ a <= Max({a, b}) /\ b <= Max({a, b})
         /\ Max({a, b}) = a \/ Max({a, b}) = b
<1>1. \E x \in {a, b} : \A y \in {a, b} : x >= y
  OBVIOUS
<1>2. /\ Max({a, b}) \in {a, b}
      /\ \A y \in {a, b} : Max({a, b}) >= y
  BY <1>1 DEF Max
<1> QED
  BY <1>2

\* What is delivered to a consumer is in the stream.
LEMMA DeliverableStored ==
  ASSUME stream \in Seq(HistoryMessage), NEW c, ConsumerOK(c), NEW i \in DeliverableTo(c)
  PROVE  /\ i \in DOMAIN stream /\ i \in Nat
         /\ i \in c.unsettled \/ i = c.last + 1
<1>1. DOMAIN stream = 1..Len(stream) /\ Len(stream) \in Nat
  <2> HIDE DEF HistoryMessage
  <2> QED
    OBVIOUS
<1>2. i \in c.unsettled \/ (i = c.last + 1 /\ i \in DOMAIN stream)
  BY DEF DeliverableTo
<1> QED
  BY <1>1, <1>2 DEF ConsumerOK

\* A consumer after a delivery.
LEMMA ConsumerMoves ==
  ASSUME stream \in Seq(HistoryMessage), NEW c, ConsumerOK(c), NEW i \in DeliverableTo(c),
         NEW d, d = Settled(c, i) \/ d = Kept(c, i)
  PROVE  /\ ConsumerOK(d)
         /\ d.last \in {c.last, c.last + 1}
         /\ i <= d.last
         /\ d.last = c.last => i \in c.unsettled
         /\ d.last # c.last => i = d.last
<1>1. DOMAIN stream = 1..Len(stream) /\ Len(stream) \in Nat
  <2> HIDE DEF HistoryMessage
  <2> QED
    OBVIOUS
<1>2. /\ i \in 1..Len(stream) /\ i \in Nat
      /\ i \in c.unsettled \/ i = c.last + 1
  BY <1>1, DeliverableStored
<1>3. /\ c.last \in Nat /\ c.last <= Len(stream) /\ c.unsettled \subseteq 1..c.last
  BY DEF ConsumerOK
<1>4. d.last = Max({c.last, i}) /\ d.unsettled \in {c.unsettled \ {i}, c.unsettled \union {i}}
  BY DEF Settled, Kept
<1>5. /\ d.last \in Nat /\ c.last <= d.last /\ i <= d.last
      /\ d.last = c.last \/ d.last = i
  BY <1>2, <1>3, <1>4, LargerOfTwo
<1>6. d.unsettled \subseteq 1..d.last
  BY <1>2, <1>3, <1>4, <1>5
<1>7. d \in [last : Nat, unsettled : SUBSET Nat]
  <2>1. d.unsettled \in SUBSET Nat
    BY <1>6, <1>5
  <2> QED
    BY <1>5, <2>1 DEF Settled, Kept
<1>8. d.last <= Len(stream)
  BY <1>1, <1>2, <1>3, <1>5
<1> QED
  BY <1>2, <1>3, <1>5, <1>6, <1>7, <1>8 DEF ConsumerOK

\* The stream grows: a consumer stays one, and results stay results.
LEMMA GrowthKeeps ==
  ASSUME stream \in Seq(HistoryMessage), Appends
  PROVE  /\ \A c : ConsumerOK(c) => ConsumerOK(c)'
         /\ \A w : Completions(w) \subseteq Completions(w)'
<1> SUFFICES ASSUME NEW m \in HistoryMessage, stream' = Append(stream, m)
             PROVE  /\ \A c : ConsumerOK(c) => ConsumerOK(c)'
                    /\ \A w : Completions(w) \subseteq Completions(w)'
  BY DEF Appends, ConsumerOK, Completions, Having
<1>1. /\ Len(stream) \in Nat /\ Len(stream') = Len(stream) + 1
      /\ DOMAIN stream \subseteq DOMAIN stream'
      /\ \A i \in DOMAIN stream : stream'[i] = stream[i]
  BY AppendKeeps
<1>2. \A c : ConsumerOK(c) => ConsumerOK(c)'
  BY <1>1 DEF ConsumerOK
<1>3. \A w : Completions(w) \subseteq Completions(w)'
  BY <1>1 DEF Completions, Having
<1> QED
  BY <1>2, <1>3

\* A workflow of which a step changes neither result nor answer.
LEMMA ResultsKept ==
  ASSUME NEW w, ResultsOf(w), Completions(w) \subseteq Completions(w)',
         results'[w] = results[w], answer'[w] = answer[w], updates'[w] = updates[w],
         call'[w] = "done" => call[w] = "done"
  PROVE  ResultsOf(w)'
<1>1. PICK S : S = {Marker} \union Completions(w)
  OBVIOUS
<1>2. PICK T : T = {Marker} \union Completions(w)'
  OBVIOUS
<1>3. updates[w] \in Seq(T)
  BY <1>1, <1>2 DEF ResultsOf
<1> QED
  BY <1>2, <1>3 DEF ResultsOf

\* WorkflowResults stores the result of the workflow that has completed.
LEMMA WorkflowResultsStep ==
  ASSUME CallInv, ResultInv, NEW i \in DOMAIN stream, WorkflowResults(i)
  PROVE  ResultInv'
<1>1. PICK m : m = stream[i]
  OBVIOUS
<1>2. stream \in Seq(HistoryMessage) /\ m \in HistoryMessage /\ m.wf \in Workflow
  <2>1. stream \in Seq(HistoryMessage)
    BY DEF CallInv, CallTypes
  <2>2. m \in HistoryMessage
    <3> HIDE DEF HistoryMessage
    <3> QED
      BY <1>1, <2>1
  <2> QED
    BY <2>1, <2>2 DEF HistoryMessage
<1>3. /\ i \in DeliverableTo(done)
      /\ UNCHANGED <<stream, call, answer>>
      /\ done' = Settled(done, i) \/ done' = Kept(done, i)
  BY DEF WorkflowResults
<1>4. ConsumerOK(done)'
  <2>1. PICK c, d : c = done /\ d = done'
    OBVIOUS
  <2>2. ConsumerOK(d)
    BY <1>2, <1>3, <2>1, ConsumerMoves DEF ResultInv
  <2> QED
    BY <1>3, <2>1, <2>2 DEF ConsumerOK
<1>5. \A v \in Workflow : Completions(v)' = Completions(v)
  BY <1>3 DEF Completions, Having
<1>6. i \in Int
  BY <1>2, <1>3, DeliverableStored DEF ResultInv
<1>7. CASE UNCHANGED <<results, updates>>
  <2>1. ASSUME NEW v \in Workflow PROVE ResultsOf(v)'
    BY <1>3, <1>5, <1>7, ResultsKept DEF ResultInv
  <2> QED
    BY <1>3, <1>4, <1>7, <2>1 DEF ResultInv, ResultTypes
<1>8. CASE /\ m.kind = "workflow/completed"
           /\ results' = [results EXCEPT ![m.wf] = i]
           /\ updates' = [updates EXCEPT ![m.wf] = IF Opened(m.wf) THEN Append(@, i) ELSE @]
  <2>1. i \in Completions(m.wf)
    BY <1>1, <1>8 DEF Completions, Having
  <2>2. ResultTypes'
    <3>1. updates[m.wf] \in Seq(Int)
      BY <1>2 DEF ResultInv, ResultTypes
    <3>2. Append(updates[m.wf], i) \in Seq(Int)
      BY <3>1, <1>6
    <3> QED
      BY <1>2, <1>3, <1>6, <1>8, <3>1, <3>2 DEF ResultInv, ResultTypes
  <2>3. ASSUME NEW v \in Workflow PROVE ResultsOf(v)'
    <3>1. CASE v # m.wf
      <4>1. results'[v] = results[v] /\ updates'[v] = updates[v]
        BY <1>2, <1>8, <3>1 DEF ResultInv, ResultTypes
      <4> QED
        BY <1>3, <1>5, <4>1, ResultsKept DEF ResultInv
    <3>2. CASE v = m.wf
      <4>1. results'[v] = i
        BY <1>2, <1>8, <3>2 DEF ResultInv, ResultTypes
      <4>2. updates'[v] = IF Opened(v) THEN Append(updates[v], i) ELSE updates[v]
        BY <1>2, <1>8, <3>2 DEF ResultInv, ResultTypes
      <4>3. PICK S : S = {Marker} \union Completions(v)
        OBVIOUS
      <4>4. updates[v] \in Seq(S) /\ i \in S
        BY <2>1, <3>2, <4>3 DEF ResultInv, ResultsOf
      <4>5. updates'[v] \in Seq(S)
        BY <4>2, <4>4
      <4>6. ResultsOf(v)
        BY DEF ResultInv
      <4> QED
        BY <1>3, <1>5, <2>1, <3>2, <4>1, <4>3, <4>5, <4>6 DEF ResultsOf
    <3> QED
      BY <3>1, <3>2
  <2> QED
    BY <1>4, <2>2, <2>3 DEF ResultInv
<1> QED
  BY <1>1, <1>7, <1>8 DEF WorkflowResults

\* Get opens its watch, reads an update, or is given up.
LEMMA GetStep ==
  ASSUME CallInv, ResultInv, NEW w \in Workflow, Watch(w) \/ NextUpdate(w) \/ GetEnds(w)
  PROVE  ResultInv'
<1>1. UNCHANGED <<stream, results, done>>
  BY DEF Watch, NextUpdate, GetEnds, engineVars
<1>2. ConsumerOK(done)'
  BY <1>1 DEF ResultInv, ConsumerOK
<1>3. \A v \in Workflow : Completions(v)' = Completions(v)
  BY <1>1 DEF Completions, Having
<1>4. PICK S : S = {Marker} \union Completions(w)
  OBVIOUS
<1>5. /\ ResultsOf(w) /\ ResultTypes /\ CallTypes
      /\ updates[w] \in Seq(S) /\ updates[w] \in Seq(Int)
      /\ results[w] \in Int
  BY <1>4 DEF ResultInv, ResultsOf, ResultTypes, CallInv
<1>6. PICK u, a, c :
        /\ updates' = [updates EXCEPT ![w] = u] /\ u \in Seq(S) /\ u \in Seq(Int)
        /\ answer' = [answer EXCEPT ![w] = a] /\ a \in Int
        /\ a \in {NoResult} \union Completions(w)
        /\ call' = [call EXCEPT ![w] = c]
        /\ c = "done" => a \in Completions(w)
  <2>0. PICK e : e = <<>> /\ e \in Seq(S) /\ e \in Seq(Int)
    <3>1. <<>> \in Seq(S) /\ <<>> \in Seq(Int)
      OBVIOUS
    <3> QED
      BY <3>1, Zenon
  <2>1. /\ updates = [updates EXCEPT ![w] = updates[w]]
        /\ answer = [answer EXCEPT ![w] = answer[w]]
        /\ call = [call EXCEPT ![w] = call[w]]
        /\ answer[w] \in Int
    BY <1>5 DEF ResultTypes, CallTypes
  <2>2. CASE Watch(w)
    <3>1. CASE /\ call' = [call EXCEPT ![w] = "watching"]
               /\ updates' = [updates EXCEPT ![w] =
                    IF results[w] = NoResult THEN <<Marker>> ELSE <<results[w], Marker>>]
      <4>1. PICK u : u = IF results[w] = NoResult THEN <<Marker>> ELSE <<results[w], Marker>>
        OBVIOUS
      <4>2. u \in Seq(S) /\ u \in Seq(Int)
        <5>1. Marker \in S /\ Marker \in Int
          BY <1>4 DEF Marker
        <5>2. results[w] # NoResult => results[w] \in S
          BY <1>4, <1>5 DEF ResultsOf
        <5>3. CASE results[w] = NoResult
          BY <4>1, <5>1, <5>3
        <5>4. CASE results[w] # NoResult
          BY <1>5, <4>1, <5>1, <5>2, <5>4
        <5> QED
          BY <5>3, <5>4
      <4> QED
        BY <1>5, <2>1, <2>2, <3>1, <4>1, <4>2 DEF Watch, ResultsOf
    <3>2. CASE call' = [call EXCEPT ![w] = "failed"] /\ UNCHANGED updates
      BY <1>5, <2>1, <2>2, <3>2 DEF Watch, ResultsOf
    <3> QED
      BY <2>2, <3>1, <3>2 DEF Watch
  <2>3. CASE NextUpdate(w)
    <3>1. PICK u : u = Head(updates[w])
      OBVIOUS
    <3>2. updates[w] # <<>> /\ call[w] = "watching"
      BY <2>3 DEF NextUpdate
    <3>3. /\ u \in S /\ u \in Int
          /\ Tail(updates[w]) \in Seq(S) /\ Tail(updates[w]) \in Seq(Int)
      BY <1>5, <3>1, <3>2
    <3>4. CASE u = Marker
      <4>1. updates' = [updates EXCEPT ![w] = Tail(updates[w])] /\ UNCHANGED <<call, answer>>
        BY <2>3, <3>1, <3>4 DEF NextUpdate
      <4> QED
        BY <1>5, <2>1, <3>2, <3>3, <4>1 DEF ResultsOf
    <3>5. CASE u # Marker
      <4>1. /\ updates' = [updates EXCEPT ![w] = <<>>]
            /\ answer' = [answer EXCEPT ![w] = u]
            /\ call' = [call EXCEPT ![w] = "done"]
        BY <2>3, <3>1, <3>5 DEF NextUpdate
      <4> QED
        BY <1>4, <2>0, <3>3, <3>5, <4>1
    <3> QED
      BY <3>4, <3>5
  <2>4. CASE GetEnds(w)
    <3>1. /\ updates' = [updates EXCEPT ![w] = e]
          /\ answer' = [answer EXCEPT ![w] = answer[w]]
          /\ call' = [call EXCEPT ![w] = "failed"]
      BY <2>0, <2>1, <2>4 DEF GetEnds
    <3> QED
      BY <1>5, <2>0, <2>1, <3>1 DEF ResultsOf
  <2> QED
    BY <2>2, <2>3, <2>4
<1>7. ResultTypes'
  BY <1>1, <1>5, <1>6 DEF ResultTypes
<1>8. ASSUME NEW v \in Workflow PROVE ResultsOf(v)'
  <2>1. CASE v # w
    <3>1. updates'[v] = updates[v] /\ answer'[v] = answer[v] /\ call'[v] = call[v]
      BY <1>5, <1>6, <2>1 DEF ResultTypes, CallTypes
    <3> QED
      BY <1>1, <1>3, <3>1, ResultsKept DEF ResultInv
  <2>2. CASE v = w
    <3>1. updates'[v] = u /\ answer'[v] = a /\ call'[v] = c
      BY <1>5, <1>6, <2>2 DEF ResultTypes, CallTypes
    <3> QED
      BY <1>1, <1>3, <1>4, <1>5, <1>6, <2>2, <3>1 DEF ResultsOf
  <2> QED
    BY <2>1, <2>2
<1> QED
  BY <1>2, <1>7, <1>8 DEF ResultInv

\* The other steps do not touch results, and nobody else is done by them.
LEMMA OtherResults ==
  ASSUME CallInv, ResultInv, Appends, UNCHANGED <<results, done, updates, answer>>,
         \A w \in Workflow : call'[w] = "done" => call[w] = "done"
  PROVE  ResultInv'
<1>1. stream \in Seq(HistoryMessage)
  BY DEF CallInv, CallTypes
<1>2. ConsumerOK(done)'
  <2>1. PICK c : c = done
    OBVIOUS
  <2>2. ConsumerOK(c)'
    BY <1>1, <2>1, GrowthKeeps DEF ResultInv
  <2> QED
    BY <2>1, <2>2 DEF ConsumerOK
<1>3. ASSUME NEW w \in Workflow PROVE ResultsOf(w)'
  BY <1>1, GrowthKeeps, ResultsKept DEF ResultInv
<1> QED
  BY <1>2, <1>3 DEF ResultInv, ResultTypes

\* A request that is answered, given up or lost does not make a call done.
LEMMA NotDone ==
  ASSUME CallInv, NEW w \in Workflow, NEW c, c # "done",
         call' = [call EXCEPT ![w] = c]
  PROVE  \A v \in Workflow : call'[v] = "done" => call[v] = "done"
  BY DEF CallInv, CallTypes

\* Every step keeps ResultInv.
LEMMA ResultInvNext ==
  ASSUME CallInv, ResultInv, [CallersNext]_allVars PROVE ResultInv'
<1>0. Appends
  BY CallInvNext
<1>1. CASE UNCHANGED allVars
  BY <1>0, <1>1, OtherResults DEF allVars, engineVars, clientVars
<1>2. CASE \E w \in Workflow : SendRequest(w) \/ NoResponders(w) \/ RequestEnds(w)
                               \/ ExecuteWorkflow(w) \/ Register(w)
  <2>1. PICK w \in Workflow : SendRequest(w) \/ NoResponders(w) \/ RequestEnds(w)
                              \/ ExecuteWorkflow(w) \/ Register(w)
    BY <1>2
  <2>2. PICK c \in {"waiting", "panicked", "failed", "future", "shown"} :
          call' = [call EXCEPT ![w] = c]
    BY <2>1 DEF SendRequest, NoResponders, RequestEnds, RequestError, ExecuteWorkflow, Register
  <2>3. UNCHANGED <<results, done, updates, answer>>
    BY <2>1 DEF SendRequest, NoResponders, RequestEnds, ExecuteWorkflow, Register,
                engineVars, clientVars
  <2> QED
    BY <1>0, <2>2, <2>3, NotDone, OtherResults
<1>3. CASE \/ \E w \in Workflow : StoreInput(w) \/ PublishStarted(w) \/ Reply(w)
                                  \/ WorkersAppend(w)
           \/ \E i \in DOMAIN stream : HandleEvent(i)
           \/ GetStatus \/ WriteSteps \/ ServerUp
  <2>1. UNCHANGED <<results, done, updates, answer, call>>
    BY <1>3 DEF StoreInput, PublishStarted, Reply, WorkersAppend, HandleEvent, GetStatus,
                WriteSteps, ServerUp, engineVars, clientVars
  <2> QED
    BY <1>0, <2>1, OtherResults
<1>4. CASE ServerDown
  <2>1. UNCHANGED <<results, done, updates, answer>>
    BY <1>4 DEF ServerDown, engineVars, clientVars
  <2>2. \A w \in Workflow : call'[w] = "done" => call[w] = "done"
    BY <1>4 DEF ServerDown
  <2> QED
    BY <1>0, <2>1, <2>2, OtherResults
<1>5. CASE \E i \in DOMAIN stream : WorkflowResults(i)
  BY <1>5, WorkflowResultsStep
<1>6. CASE \E w \in Workflow : Watch(w) \/ NextUpdate(w) \/ GetEnds(w)
  BY <1>6, GetStep
<1> QED
  BY <1>1, <1>2, <1>3, <1>4, <1>5, <1>6 DEF CallersNext, CallersProgress

\* There are no results at first.
LEMMA ResultInvInit == CallersInit => ResultInv
<1> SUFFICES ASSUME CallersInit PROVE ResultInv
  OBVIOUS
<1>1. ConsumerOK(done)
  BY DEF CallersInit, InitCalls, ConsumerOK
<1>2. ResultTypes
  BY DEF CallersInit, InitCalls, ResultTypes, NoResult
<1>3. ASSUME NEW w \in Workflow PROVE ResultsOf(w)
  BY DEF CallersInit, InitCalls, ResultsOf
<1> QED
  BY <1>1, <1>2, <1>3 DEF ResultInv

(***************************************************************************)
(* Get returns the result with which its own workflow completed: puts of   *)
(* other workflows, the nil marker, redelivered completions and a watch    *)
(* that is opened late do not get in between.                              *)
(***************************************************************************)
THEOREM AnswersAreResults == CallersSpec => []AnswerIsResult
<1> DEFINE I == CallInv /\ ResultInv
<1>1. I => AnswerIsResult
  BY DEF ResultInv, ResultsOf, AnswerIsResult, Completions
<1>2. I /\ [CallersNext]_allVars => I'
  BY CallInvNext, ResultInvNext
<1>3. CallersInit => I
  BY CallInvInit, ResultInvInit
<1> QED
  BY <1>1, <1>2, <1>3, PTL DEF CallersSpec

-----------------------------------------------------------------------------
(* What an event does to a view.                                           *)

ActivityKind == Outcome \union {"activity/scheduled", "activity/retried"}

StepType ==
  [name : Fn \union {NoFn}, status : {"pending", "running", "completed", "failed"},
   attempts : Nat, retries : Nat]

\* A view lists every activity once, and its current step is a step.
ViewOK(v) ==
  /\ DOMAIN v = {"status", "current", "steps"}
  /\ v.status \in {"none", "pending", "running", "completed", "failed"}
  /\ v.steps \in Seq(StepType)
  /\ v.current \in 0..Len(v.steps)
  /\ \A j, k \in DOMAIN v.steps : v.steps[j].name = v.steps[k].name => j = k

\* Step t is step s after event e of its activity.
StepMoves(s, e, t) ==
  /\ t \in StepType
  /\ t.name = s.name
  /\ e.kind = "activity/scheduled" =>
       t.status = "running" /\ t.attempts = s.attempts + 1 /\ t.retries = s.retries
  /\ e.kind = "activity/completed" =>
       /\ t.status = "completed" /\ t.retries = s.retries
       /\ t.attempts = s.attempts \/ (s.retries > 0 /\ t.attempts = s.retries + 1)
  /\ e.kind = "activity/failed" =>
       /\ t.status = "failed" /\ t.retries = s.retries
       /\ t.attempts = s.attempts \/ t.attempts = s.retries + 1
  /\ e.kind = "activity/retried" =>
       /\ t.status = "running" /\ t.retries = s.retries + 1
       /\ t.attempts = s.attempts \/ t.attempts = s.retries + 2

\* What handleEvent does to one step.
LEMMA StepAfterMoves ==
  ASSUME NEW s \in StepType, NEW e, e.kind \in ActivityKind
  PROVE  StepMoves(s, e, StepAfter(s, e))
<1>1. PICK t : t = StepAfter(s, e)
  OBVIOUS
<1>2. s.attempts \in Nat /\ s.retries \in Nat
  BY DEF StepType
<1>3. CASE e.kind = "activity/scheduled"
  <2>1. t = [s EXCEPT !.status = "running", !.attempts = s.attempts + 1]
    BY <1>1, <1>3 DEF StepAfter
  <2>2. /\ t.name = s.name /\ t.status = "running" /\ t.retries = s.retries
        /\ t.attempts = s.attempts + 1
    BY <2>1 DEF StepType
  <2>3. t \in StepType
    <3>1. PICK a \in Nat : a = s.attempts + 1
      BY <1>2
    <3>2. t = [s EXCEPT !.status = "running", !.attempts = a]
      BY <2>1, <3>1
    <3> QED
      BY <3>2 DEF StepType
  <2> QED
    BY <1>1, <1>3, <2>2, <2>3 DEF StepMoves
<1>4. CASE e.kind = "activity/completed"
  <2>1. PICK a : a = IF s.retries > 0 THEN s.retries + 1 ELSE s.attempts
    OBVIOUS
  <2>2. t = [s EXCEPT !.status = "completed", !.attempts = a]
    BY <1>1, <1>4, <2>1 DEF StepAfter
  <2>3. a \in Nat /\ (a = s.attempts \/ (s.retries > 0 /\ a = s.retries + 1))
    BY <1>2, <2>1
  <2> QED
    BY <1>1, <1>2, <1>4, <2>2, <2>3 DEF StepMoves, StepType
<1>5. CASE e.kind = "activity/failed"
  <2>1. PICK a : a = Max({s.attempts, s.retries + 1})
    OBVIOUS
  <2>2. t = [s EXCEPT !.status = "failed", !.attempts = a]
    BY <1>1, <1>5, <2>1 DEF StepAfter
  <2>3. a \in Nat /\ (a = s.attempts \/ a = s.retries + 1)
    BY <1>2, <2>1, LargerOfTwo
  <2> QED
    BY <1>1, <1>2, <1>5, <2>2, <2>3 DEF StepMoves, StepType
<1>6. CASE e.kind = "activity/retried"
  <2>1. PICK a : a = Max({s.attempts, s.retries + 2})
    OBVIOUS
  <2>2. t = [s EXCEPT !.status = "running", !.retries = s.retries + 1, !.attempts = a]
    BY <1>1, <1>6, <2>1 DEF StepAfter
  <2>3. a \in Nat /\ (a = s.attempts \/ a = s.retries + 2)
    BY <1>2, <2>1, LargerOfTwo
  <2>4. /\ t.name = s.name /\ t.status = "running" /\ t.retries = s.retries + 1
        /\ t.attempts = a
    BY <2>2 DEF StepType
  <2>5. t \in StepType
    <3>1. PICK r \in Nat : r = s.retries + 1
      BY <1>2
    <3>2. t = [s EXCEPT !.status = "running", !.retries = r, !.attempts = a]
      BY <2>2, <3>1
    <3> QED
      BY <2>3, <3>2 DEF StepType
  <2> QED
    BY <1>1, <1>6, <2>3, <2>4, <2>5 DEF StepMoves
<1> QED
  BY <1>3, <1>4, <1>5, <1>6 DEF ActivityKind, Outcome

\* A step that has just been listed.
LEMMA PendingStepType ==
  ASSUME NEW f \in Fn \union {NoFn}
  PROVE  /\ PendingStep(f) \in StepType
         /\ PendingStep(f).name = f /\ PendingStep(f).status = "pending"
         /\ PendingStep(f).attempts = 0 /\ PendingStep(f).retries = 0
  BY DEF PendingStep, StepType

\* The steps that event e finds: those of the view, or one more.
Found(v, e) ==
  IF e.kind = "activity/scheduled" THEN FindOrCreateStep(v.steps, e.fn) ELSE v.steps

\* The steps that are found, those of the view at their place among them.
LEMMA FoundSteps ==
  ASSUME NEW v, ViewOK(v), NEW e \in HistoryMessage
  PROVE  /\ Found(v, e) \in Seq(StepType)
         /\ Len(v.steps) <= Len(Found(v, e))
         /\ DOMAIN v.steps \subseteq DOMAIN Found(v, e)
         /\ \A k \in DOMAIN v.steps : Found(v, e)[k] = v.steps[k]
         /\ \A k \in DOMAIN Found(v, e) \ DOMAIN v.steps :
              Found(v, e)[k] = PendingStep(e.fn) /\ e.kind = "activity/scheduled"
         /\ \A j, k \in DOMAIN Found(v, e) :
              Found(v, e)[j].name = Found(v, e)[k].name => j = k
         /\ e.kind = "activity/scheduled" =>
              \E k \in DOMAIN Found(v, e) : Found(v, e)[k].name = e.fn
<1>1. e.fn \in Fn \union {NoFn}
  BY DEF HistoryMessage
<1>2. PICK p : p = PendingStep(e.fn) /\ p \in StepType /\ p.name = e.fn
  BY <1>1, PendingStepType
<1>3. v.steps \in Seq(StepType)
  BY DEF ViewOK
<1> HIDE DEF StepType
<1>4. CASE e.kind = "activity/scheduled" /\ StepsNamed(v.steps, e.fn) = {}
  <2>1. Found(v, e) = Append(v.steps, p)
    BY <1>2, <1>4 DEF Found, FindOrCreateStep
  <2>2. PICK n \in Nat : n = Len(v.steps)
    BY <1>3
  <2>3. PICK t : t = Append(v.steps, p)
    OBVIOUS
  <2>4. /\ t \in Seq(StepType) /\ Len(t) = n + 1
        /\ DOMAIN t = 1..(n + 1) /\ DOMAIN v.steps = 1..n
        /\ \A k \in 1..n : t[k] = v.steps[k]
        /\ t[n + 1] = p
    BY <1>2, <1>3, <2>2, <2>3
  <2>5. \A k \in 1..n : v.steps[k].name # e.fn
    BY <1>4, <2>4 DEF StepsNamed
  <2>6. ASSUME NEW j \in DOMAIN t, NEW k \in DOMAIN t, t[j].name = t[k].name PROVE j = k
    <3>1. CASE j \in 1..n /\ k \in 1..n
      BY <2>4, <2>6, <3>1 DEF ViewOK
    <3>2. CASE j = n + 1 \/ k = n + 1
      BY <1>2, <2>2, <2>4, <2>5, <2>6, <3>2
    <3> QED
      BY <2>2, <2>4, <3>1, <3>2
  <2>7. \A k \in DOMAIN t \ DOMAIN v.steps : k = n + 1
    BY <2>2, <2>4
  <2> QED
    BY <1>2, <1>4, <2>1, <2>2, <2>3, <2>4, <2>6, <2>7
<1>5. CASE e.kind # "activity/scheduled" \/ StepsNamed(v.steps, e.fn) # {}
  <2>1. Found(v, e) = v.steps
    BY <1>5 DEF Found, FindOrCreateStep
  <2>2. e.kind = "activity/scheduled" => \E k \in DOMAIN v.steps : v.steps[k].name = e.fn
    BY <1>5 DEF StepsNamed
  <2>3. Len(v.steps) \in Nat
    BY <1>3
  <2> QED
    BY <1>3, <2>1, <2>2, <2>3 DEF ViewOK
<1> QED
  BY <1>4, <1>5

\* The view after an event of an activity: the steps found, those of the
\* activity moved.
StepsMove(v, e, n) ==
  /\ DOMAIN n = DOMAIN Found(v, e)
  /\ \A k \in DOMAIN n :
       IF Found(v, e)[k].name = e.fn
       THEN StepMoves(Found(v, e)[k], e, n[k]) ELSE n[k] = Found(v, e)[k]

\* OnSteps keeps the names of the steps and moves those of the activity.
LEMMA OnStepsMove ==
  ASSUME NEW steps \in Seq(StepType), NEW e \in HistoryMessage, e.kind \in ActivityKind
  PROVE  LET n == OnSteps(steps, e)
         IN  /\ n \in Seq(StepType) /\ Len(n) = Len(steps) /\ DOMAIN n = DOMAIN steps
             /\ \A k \in DOMAIN n :
                  /\ n[k].name = steps[k].name
                  /\ IF steps[k].name = e.fn
                     THEN StepMoves(steps[k], e, n[k]) ELSE n[k] = steps[k]
<1> HIDE DEF StepType
<1>1. PICK n : n = OnSteps(steps, e)
  OBVIOUS
<1>2. /\ DOMAIN n = DOMAIN steps
      /\ \A k \in DOMAIN steps :
           n[k] = IF steps[k].name = e.fn THEN StepAfter(steps[k], e) ELSE steps[k]
  BY <1>1 DEF OnSteps
<1>3. ASSUME NEW k \in DOMAIN steps
      PROVE  /\ n[k] \in StepType /\ n[k].name = steps[k].name
             /\ IF steps[k].name = e.fn
                THEN StepMoves(steps[k], e, n[k]) ELSE n[k] = steps[k]
  <2>1. PICK s \in StepType : s = steps[k]
    OBVIOUS
  <2>2. CASE s.name = e.fn
    <3>1. StepMoves(s, e, StepAfter(s, e)) /\ n[k] = StepAfter(s, e)
      BY <1>2, <2>1, <2>2, StepAfterMoves
    <3> QED
      BY <2>1, <2>2, <3>1 DEF StepMoves
  <2>3. CASE s.name # e.fn
    BY <1>2, <2>1, <2>3
  <2> QED
    BY <2>2, <2>3
<1>4. n \in Seq(StepType) /\ Len(n) = Len(steps)
  <2>1. PICK l \in Nat : l = Len(steps) /\ DOMAIN steps = 1..l
    OBVIOUS
  <2>2. n = [k \in 1..l |-> n[k]]
    BY <1>1, <2>1 DEF OnSteps
  <2>3. n \in [1..l -> StepType]
    BY <1>3, <2>1, <2>2
  <2> QED
    BY <2>1, <2>3
<1> QED
  BY <1>1, <1>2, <1>3, <1>4

\* The only step with a name is the first with it.
LEMMA OnlyStep ==
  ASSUME NEW k \in Int, NEW S, S = {k} PROVE Min(S) = k
<1>1. \E x \in S : \A y \in S : x <= y
  OBVIOUS
<1> QED
  BY <1>1 DEF Min

(***************************************************************************)
(* What an event does to a view: its status, and its steps.  Every step    *)
(* after it is a step before it or was just listed, moved by the event if  *)
(* it is about its activity.                                               *)
(***************************************************************************)
ViewMoves(v, e, n) ==
  /\ ViewOK(n)
  /\ n.status = CASE e.kind = "workflow/started"   -> "running"
                  [] e.kind = "workflow/completed" -> "completed"
                  [] e.kind = "workflow/failed"    -> "failed"
                  [] OTHER -> v.status
  /\ e.kind \notin ActivityKind => n.steps = v.steps
  /\ e.kind \in ActivityKind => StepsMove(v, e, n.steps)

\* What handleEvent does to a view, field by field.
LEMMA ViewAfterMoves ==
  ASSUME NEW v, ViewOK(v), NEW e \in HistoryMessage
  PROVE  ViewMoves(v, e, ViewAfter(v, e))
<1>1. PICK n : n = ViewAfter(v, e)
  OBVIOUS
<1>2. e.kind \in HistoryKind /\ e.fn \in Fn \union {NoFn}
  BY DEF HistoryMessage
<1>3. CASE e.kind \notin ActivityKind
  <2>1. PICK st \in {"running", "completed", "failed"} :
          /\ n = [v EXCEPT !.status = st]
          /\ st = "running" <=> e.kind = "workflow/started"
          /\ st = "completed" <=> e.kind = "workflow/completed"
          /\ st = "failed" <=> e.kind = "workflow/failed"
    BY <1>1, <1>2, <1>3 DEF ViewAfter, HistoryKind, ActivityKind, Outcome
  <2>2. n.status = st /\ n.steps = v.steps /\ n.current = v.current /\ DOMAIN n = DOMAIN v
    BY <2>1 DEF ViewOK
  <2>3. ViewOK(n)
    BY <2>2 DEF ViewOK
  <2>4. e.kind \in {"workflow/started", "workflow/completed", "workflow/failed"}
    BY <1>2, <1>3 DEF HistoryKind, ActivityKind, Outcome
  <2> QED
    BY <1>1, <1>3, <2>1, <2>2, <2>3, <2>4 DEF ViewMoves
<1>4. CASE e.kind \in ActivityKind
  <2>1. PICK steps : steps = Found(v, e)
    OBVIOUS
  <2>2. PICK ns : ns = OnSteps(steps, e)
    OBVIOUS
  <2>3. PICK c : n = [v EXCEPT !.steps = ns, !.current = c]
                 /\ \/ c = v.current
                    \/ e.kind = "activity/scheduled" /\ c = Min(StepsNamed(steps, e.fn))
    <3>1. CASE e.kind = "activity/scheduled"
      BY <1>1, <2>1, <2>2, <3>1 DEF ViewAfter, Found
    <3>2. CASE e.kind # "activity/scheduled"
      <4>1. n = [v EXCEPT !.steps = ns]
        BY <1>1, <1>4, <2>1, <2>2, <3>2 DEF ViewAfter, Found, ActivityKind, Outcome
      <4>2. n = [v EXCEPT !.steps = ns, !.current = v.current]
        BY <4>1 DEF ViewOK
      <4> QED
        BY <4>2
    <3> QED
      BY <3>1, <3>2
  <2>4. /\ n.status = v.status /\ n.steps = ns /\ n.current = c
        /\ DOMAIN n = {"status", "current", "steps"}
    BY <2>3 DEF ViewOK
  <2>5. /\ steps \in Seq(StepType)
        /\ Len(v.steps) <= Len(steps)
        /\ \A j, k \in DOMAIN steps : steps[j].name = steps[k].name => j = k
        /\ e.kind = "activity/scheduled" => \E k \in DOMAIN steps : steps[k].name = e.fn
    BY <2>1, FoundSteps
  <2>6. /\ ns \in Seq(StepType) /\ Len(ns) = Len(steps) /\ DOMAIN ns = DOMAIN steps
        /\ \A k \in DOMAIN ns :
             /\ ns[k].name = steps[k].name
             /\ IF steps[k].name = e.fn
                THEN StepMoves(steps[k], e, ns[k]) ELSE ns[k] = steps[k]
    BY <1>4, <2>2, <2>5, OnStepsMove
  <2>7. c \in 0..Len(ns)
    <3>1. Len(steps) \in Nat /\ DOMAIN steps = 1..Len(steps) /\ Len(v.steps) \in Nat
      <4> HIDE DEF StepType
      <4> QED
        BY <2>5 DEF ViewOK
    <3>2. CASE c = v.current
      BY <2>5, <2>6, <3>1, <3>2 DEF ViewOK
    <3>3. CASE e.kind = "activity/scheduled" /\ c = Min(StepsNamed(steps, e.fn))
      <4>1. PICK k \in DOMAIN steps : steps[k].name = e.fn
        BY <2>5, <3>3
      <4>2. StepsNamed(steps, e.fn) = {k}
        BY <2>5, <4>1 DEF StepsNamed
      <4>3. c = k
        BY <3>1, <3>3, <4>2, OnlyStep
      <4> QED
        BY <2>6, <3>1, <4>3
    <3> QED
      BY <2>3, <3>2, <3>3
  <2>8. \A j, k \in DOMAIN ns : ns[j].name = ns[k].name => j = k
    BY <2>5, <2>6
  <2>9. ViewOK(n)
    BY <2>4, <2>6, <2>7, <2>8 DEF ViewOK
  <2>10. StepsMove(v, e, n.steps)
    BY <2>1, <2>4, <2>6 DEF StepsMove
  <2>11. e.kind \notin {"workflow/started", "workflow/completed", "workflow/failed"}
    BY <1>4 DEF ActivityKind, Outcome
  <2> QED
    BY <1>1, <1>4, <2>4, <2>9, <2>10, <2>11 DEF ViewMoves
<1> QED
  BY <1>3, <1>4

-----------------------------------------------------------------------------
(* Counting the events of an activity.                                     *)

\* The events of kinds K of activity f of w among the first n messages.
Upto(n, w, f, K) ==
  {i \in 1..n : stream[i].wf = w /\ stream[i].fn = f /\ stream[i].kind \in K}

Num(n, w, f, K) == Cardinality(Upto(n, w, f, K))

\* The events are finitely many.
LEMMA NumType ==
  ASSUME NEW n \in Nat, NEW w, NEW f, NEW K
  PROVE  IsFiniteSet(Upto(n, w, f, K)) /\ Num(n, w, f, K) \in Nat
<1>1. IsFiniteSet(1..n)
  BY FS_Interval
<1>2. Upto(n, w, f, K) \subseteq 1..n
  BY DEF Upto
<1>3. IsFiniteSet(Upto(n, w, f, K))
  BY <1>1, <1>2, FS_Subset
<1> QED
  BY <1>3, FS_CardinalityType DEF Num

\* One message more is one event more if it is one of those counted.
LEMMA NumNext ==
  ASSUME NEW n \in Nat, NEW w, NEW f, NEW K
  PROVE  Num(n + 1, w, f, K) =
           Num(n, w, f, K) + (IF /\ stream[n + 1].wf = w /\ stream[n + 1].fn = f
                                 /\ stream[n + 1].kind \in K THEN 1 ELSE 0)
<1>1. IsFiniteSet(Upto(n, w, f, K)) /\ Num(n, w, f, K) \in Nat
  BY NumType
<1>2. n + 1 \notin Upto(n, w, f, K)
  BY DEF Upto
<1>3. CASE stream[n + 1].wf = w /\ stream[n + 1].fn = f /\ stream[n + 1].kind \in K
  <2>1. Upto(n + 1, w, f, K) = Upto(n, w, f, K) \union {n + 1}
    BY <1>3 DEF Upto
  <2>2. Cardinality(Upto(n, w, f, K) \union {n + 1}) = Cardinality(Upto(n, w, f, K)) + 1
    BY <1>1, <1>2, FS_AddElement
  <2> QED
    BY <1>3, <2>1, <2>2 DEF Num
<1>4. CASE ~ (stream[n + 1].wf = w /\ stream[n + 1].fn = f /\ stream[n + 1].kind \in K)
  <2>1. Upto(n + 1, w, f, K) = Upto(n, w, f, K)
    BY <1>4 DEF Upto
  <2> QED
    BY <1>1, <1>4, <2>1 DEF Num
<1> QED
  BY <1>3, <1>4

\* More messages are no fewer events.
LEMMA NumGrows ==
  ASSUME NEW n \in Nat, NEW m \in Nat, n <= m, NEW w, NEW f, NEW K
  PROVE  Num(n, w, f, K) <= Num(m, w, f, K)
<1>1. Upto(n, w, f, K) \subseteq Upto(m, w, f, K)
  BY DEF Upto
<1>2. IsFiniteSet(Upto(m, w, f, K))
  BY NumType
<1> QED
  BY <1>1, <1>2, FS_Subset DEF Num

\* An event that is there is counted, and there is one when some are counted.
LEMMA NumPositive ==
  ASSUME NEW n \in Nat, NEW w, NEW f, NEW K
  PROVE  Num(n, w, f, K) > 0 <=>
           \E i \in 1..n : stream[i].wf = w /\ stream[i].fn = f /\ stream[i].kind \in K
<1>1. IsFiniteSet(Upto(n, w, f, K)) /\ Num(n, w, f, K) \in Nat
  BY NumType
<1>2. Num(n, w, f, K) = 0 <=> Upto(n, w, f, K) = {}
  BY <1>1, FS_EmptySet DEF Num
<1>3. Upto(n, w, f, K) # {} <=>
        \E i \in 1..n : stream[i].wf = w /\ stream[i].fn = f /\ stream[i].kind \in K
  BY DEF Upto
<1> QED
  BY <1>1, <1>2, <1>3

\* The events counted so far stay the same when the stream grows.
LEMMA NumKept ==
  ASSUME stream \in Seq(HistoryMessage), Appends, NEW n \in Nat, n <= Len(stream),
         NEW w, NEW f, NEW K
  PROVE  Num(n, w, f, K)' = Num(n, w, f, K)
<1>1. \A i \in 1..n : stream'[i] = stream[i]
  <2>1. CASE UNCHANGED stream
    BY <2>1
  <2>2. CASE \E m \in HistoryMessage : stream' = Append(stream, m)
    <3>1. /\ Len(stream) \in Nat /\ DOMAIN stream = 1..Len(stream)
          /\ \A i \in DOMAIN stream : stream'[i] = stream[i]
      BY <2>2, AppendKeeps
    <3> QED
      BY <3>1
  <2> QED
    BY <2>1, <2>2 DEF Appends
<1>2. Upto(n, w, f, K)' = Upto(n, w, f, K)
  BY <1>1 DEF Upto
<1> QED
  BY <1>2 DEF Num

\* The message that is appended is counted in the same way.
LEMMA NumAppended ==
  ASSUME stream \in Seq(HistoryMessage), NEW m \in HistoryMessage,
         stream' = Append(stream, m), NEW l \in Nat, l = Len(stream), NEW w, NEW f, NEW K
  PROVE  Num(l + 1, w, f, K)' =
           Num(l, w, f, K) + (IF m.wf = w /\ m.fn = f /\ m.kind \in K THEN 1 ELSE 0)
<1>1. /\ \A i \in 1..l : stream'[i] = stream[i]
      /\ stream'[l + 1] = m
  BY AppendKeeps
<1>2. IsFiniteSet(Upto(l, w, f, K)) /\ Num(l, w, f, K) \in Nat
  BY NumType
<1>3. l + 1 \notin Upto(l, w, f, K)
  BY DEF Upto
<1>4. PICK U : U = {i \in 1..(l + 1) : stream'[i].wf = w /\ stream'[i].fn = f
                                       /\ stream'[i].kind \in K}
  OBVIOUS
<1>5. Num(l + 1, w, f, K)' = Cardinality(U)
  BY <1>1, <1>4 DEF Num, Upto
<1>6. CASE m.wf = w /\ m.fn = f /\ m.kind \in K
  <2>1. U = Upto(l, w, f, K) \union {l + 1}
    BY <1>1, <1>4, <1>6 DEF Upto
  <2>2. Cardinality(Upto(l, w, f, K) \union {l + 1}) = Cardinality(Upto(l, w, f, K)) + 1
    BY <1>2, <1>3, FS_AddElement
  <2> QED
    BY <1>1, <1>5, <1>6, <2>1, <2>2 DEF Num
<1>7. CASE ~ (m.wf = w /\ m.fn = f /\ m.kind \in K)
  <2>1. U = Upto(l, w, f, K)
    BY <1>1, <1>4, <1>7 DEF Upto
  <2> QED
    BY <1>1, <1>2, <1>5, <1>7, <2>1 DEF Num
<1> QED
  BY <1>6, <1>7

\* The counts of Histories are counts of this kind.
LEMMA CountsAgree ==
  ASSUME stream \in Seq(HistoryMessage), NEW w, NEW f, NEW K, NEW n \in 0..Len(stream)
  PROVE  /\ OfFn(stream, w, f, K) = Upto(Len(stream), w, f, K)
         /\ OfFn(SubSeq(stream, 1, n), w, f, K) = Upto(n, w, f, K)
<1>1. DOMAIN stream = 1..Len(stream) /\ Len(stream) \in Nat
  <2> HIDE DEF HistoryMessage
  <2> QED
    OBVIOUS
<1>2. OfFn(stream, w, f, K) = Upto(Len(stream), w, f, K)
  BY <1>1 DEF OfFn, Having, Upto
<1>3. PICK s : s = SubSeq(stream, 1, n)
  OBVIOUS
<1>4. DOMAIN s = 1..n /\ \A i \in 1..n : s[i] = stream[i]
  <2> HIDE DEF HistoryMessage
  <2>1. s = [i \in 1..n |-> stream[i]]
    BY <1>1, <1>3
  <2> QED
    BY <1>1, <2>1
<1>5. OfFn(s, w, f, K) = Upto(n, w, f, K)
  BY <1>4 DEF OfFn, Having, Upto
<1> QED
  BY <1>2, <1>3, <1>5

-----------------------------------------------------------------------------
(* What the history looks like because every message was legal.            *)

\* A history begins with its start, which is there once.
StartedFirst ==
  /\ \A i \in DOMAIN stream : stream[i].kind # "workflow/started" =>
       \E j \in 1..(i - 1) :
         stream[j].wf = stream[i].wf /\ stream[j].kind = "workflow/started"
  /\ \A i, j \in DOMAIN stream :
       /\ stream[i].wf = stream[j].wf
       /\ stream[i].kind = "workflow/started" /\ stream[j].kind = "workflow/started"
       => i = j

\* The activity has been called more often than it has ended before message i.
OpenBefore(i) ==
  Num(i - 1, stream[i].wf, stream[i].fn, Outcome)
    < Num(i - 1, stream[i].wf, stream[i].fn, {"activity/scheduled"})

\* An activity ends, or is retried, only while it is open.
EndsAreOpen ==
  \A i \in DOMAIN stream :
    stream[i].kind \in Outcome \union {"activity/retried"} => OpenBefore(i)

\* At no time has an activity ended more often than it was called.
OutcomesBounded ==
  \A n \in 0..Len(stream) : \A w \in Workflow : \A f \in Fn \union {NoFn} :
    Num(n, w, f, Outcome) <= Num(n, w, f, {"activity/scheduled"})

HistoryInv == StartedFirst /\ EndsAreOpen /\ OutcomesBounded

\* Every step keeps HistoryInv, as it appends a legal message.
LEMMA HistoryInvStep ==
  ASSUME stream \in Seq(HistoryMessage), HistoryInv, Appends
  PROVE  HistoryInv'
<1>1. CASE UNCHANGED stream
  <2>1. StartedFirst'
    BY <1>1 DEF HistoryInv, StartedFirst
  <2>2. EndsAreOpen'
    BY <1>1 DEF HistoryInv, EndsAreOpen, OpenBefore, Num, Upto
  <2>3. OutcomesBounded'
    BY <1>1 DEF HistoryInv, OutcomesBounded, Num, Upto
  <2> QED
    BY <2>1, <2>2, <2>3 DEF HistoryInv
<1>2. CASE \E m \in HistoryMessage : stream' = Append(stream, m) /\ Legal(stream, m)
  <2>1. PICK m \in HistoryMessage : stream' = Append(stream, m) /\ Legal(stream, m)
    BY <1>2
  <2>2. PICK l \in Nat :
          /\ l = Len(stream) /\ Len(stream') = l + 1
          /\ DOMAIN stream = 1..l /\ DOMAIN stream' = 1..(l + 1)
          /\ \A i \in 1..l : stream'[i] = stream[i]
          /\ stream'[l + 1] = m
    BY <2>1, AppendKeeps
  <2>3. m.wf \in Workflow /\ m.fn \in Fn \union {NoFn} /\ m.kind \in HistoryKind
    BY DEF HistoryMessage
  <2>4. \A n \in 0..l : \A w, f, K : Num(n, w, f, K)' = Num(n, w, f, K)
    BY <2>2, NumKept
  <2>5. m.kind \in Outcome \union {"activity/retried"} =>
          Num(l, m.wf, m.fn, Outcome) < Num(l, m.wf, m.fn, {"activity/scheduled"})
    <3>1. \A K : OfFn(stream, m.wf, m.fn, K) = Upto(l, m.wf, m.fn, K)
      BY <2>2, CountsAgree
    <3>2. m.kind \in Outcome \union {"activity/retried"} => IsOpen(stream, m.wf, m.fn)
      BY <2>1 DEF Legal, Outcome
    <3>3. Num(l, m.wf, m.fn, Outcome) \in Nat /\ Num(l, m.wf, m.fn, {"activity/scheduled"}) \in Nat
      BY NumType
    <3> QED
      BY <3>1, <3>2, <3>3 DEF IsOpen, Num
  <2>6. StartedFirst'
    <3>1. m.kind # "workflow/started" =>
            \E j \in 1..l : stream[j].wf = m.wf /\ stream[j].kind = "workflow/started"
      BY <2>1, <2>2 DEF Legal, Having
    <3>2. m.kind = "workflow/started" =>
            \A j \in 1..l : ~ (stream[j].wf = m.wf /\ stream[j].kind = "workflow/started")
      BY <2>1, <2>2 DEF Legal, Having
    <3>3. ASSUME NEW i \in 1..(l + 1), stream'[i].kind # "workflow/started"
          PROVE  \E j \in 1..(i - 1) :
                   stream'[j].wf = stream'[i].wf /\ stream'[j].kind = "workflow/started"
      <4>1. CASE i \in 1..l
        <5>1. PICK j \in 1..(i - 1) :
                stream[j].wf = stream[i].wf /\ stream[j].kind = "workflow/started"
          BY <2>2, <3>3, <4>1 DEF HistoryInv, StartedFirst
        <5> QED
          BY <2>2, <4>1, <5>1
      <4>2. CASE i = l + 1
        <5>1. PICK j \in 1..l : stream[j].wf = m.wf /\ stream[j].kind = "workflow/started"
          BY <2>2, <3>1, <3>3, <4>2
        <5> QED
          BY <2>2, <4>2, <5>1
      <4> QED
        BY <4>1, <4>2
    <3>4. ASSUME NEW i \in 1..(l + 1), NEW j \in 1..(l + 1),
                 stream'[i].wf = stream'[j].wf,
                 stream'[i].kind = "workflow/started", stream'[j].kind = "workflow/started"
          PROVE  i = j
      <4>1. CASE i \in 1..l /\ j \in 1..l
        BY <2>2, <3>4, <4>1 DEF HistoryInv, StartedFirst
      <4>2. CASE i = l + 1 \/ j = l + 1
        BY <2>2, <3>2, <3>4, <4>2
      <4> QED
        BY <4>1, <4>2
    <3> QED
      BY <2>2, <3>3, <3>4 DEF StartedFirst
  <2>7. EndsAreOpen'
    <3>1. ASSUME NEW i \in 1..(l + 1),
                 stream'[i].kind \in Outcome \union {"activity/retried"}
          PROVE  OpenBefore(i)'
      <4>1. i - 1 \in 0..l
        OBVIOUS
      <4>2. PICK e : e = stream'[i]
        OBVIOUS
      <4>3. Num(i - 1, e.wf, e.fn, Outcome) < Num(i - 1, e.wf, e.fn, {"activity/scheduled"})
        <5>1. CASE i \in 1..l
          BY <2>2, <3>1, <4>2, <5>1 DEF HistoryInv, EndsAreOpen, OpenBefore
        <5>2. CASE i = l + 1
          BY <2>2, <2>5, <3>1, <4>2, <5>2
        <5> QED
          BY <5>1, <5>2
      <4>4. /\ Num(i - 1, e.wf, e.fn, Outcome)' = Num(i - 1, e.wf, e.fn, Outcome)
            /\ Num(i - 1, e.wf, e.fn, {"activity/scheduled"})' =
                 Num(i - 1, e.wf, e.fn, {"activity/scheduled"})
        BY <2>4, <4>1
      <4> QED
        BY <4>2, <4>3, <4>4 DEF OpenBefore, Num, Upto
    <3> QED
      BY <2>2, <3>1 DEF EndsAreOpen
  <2>8. OutcomesBounded'
    <3>1. ASSUME NEW n \in 0..(l + 1), NEW w \in Workflow, NEW f \in Fn \union {NoFn}
          PROVE  (Num(n, w, f, Outcome) <= Num(n, w, f, {"activity/scheduled"}))'
      <4>1. CASE n \in 0..l
        <5>1. Num(n, w, f, Outcome) <= Num(n, w, f, {"activity/scheduled"})
          BY <2>2, <4>1 DEF HistoryInv, OutcomesBounded
        <5> QED
          BY <2>4, <4>1, <5>1
      <4>2. CASE n = l + 1
        <5>1. PICK a, b : a = Num(l, w, f, Outcome) /\ b = Num(l, w, f, {"activity/scheduled"})
          OBVIOUS
        <5>2. a \in Nat /\ b \in Nat /\ a <= b
          BY <2>2, <5>1, NumType DEF HistoryInv, OutcomesBounded
        <5>4. /\ Num(l + 1, w, f, Outcome)' =
                   a + (IF m.wf = w /\ m.fn = f /\ m.kind \in Outcome THEN 1 ELSE 0)
              /\ Num(l + 1, w, f, {"activity/scheduled"})' =
                   b + (IF m.wf = w /\ m.fn = f /\ m.kind \in {"activity/scheduled"} THEN 1 ELSE 0)
          BY <2>1, <2>2, <5>1, NumAppended
        <5>5. m.wf = w /\ m.fn = f /\ m.kind \in Outcome => a < b
          BY <2>5, <5>1
        <5> QED
          BY <4>2, <5>2, <5>4, <5>5
      <4> QED
        BY <4>1, <4>2
    <3> QED
      BY <2>2, <3>1 DEF OutcomesBounded
  <2> QED
    BY <2>6, <2>7, <2>8 DEF HistoryInv
<1> QED
  BY <1>1, <1>2 DEF Appends

-----------------------------------------------------------------------------
(* What a step of a view is worth: at consumer position n, with c failures *)
(* not explained by messages that are still unsettled, and b left.         *)

Calls == {"activity/scheduled", "activity/retried"}

\* The step shows no more than the history has: attempts, retries, an end, and
\* that the activity is under way.
StepOK(w, s, n, c, b) ==
  /\ s.attempts <= Num(n, w, s.name, Calls) + c
  /\ s.retries > 0 => s.retries + 1 <= Num(n, w, s.name, Calls) + c
  /\ s.status = "completed" => Num(n, w, s.name, {"activity/completed"}) > 0
  /\ b = Faults["answer"] /\ s.status = "running" =>
       Num(n, w, s.name, Outcome) < Num(n, w, s.name, {"activity/scheduled"})

\* Message i is delivered for the first time, or once more.
Delivered(i, n, c, b, n2, c2, b2) ==
  /\ i \in 1..n2 /\ n2 <= Len(stream)
  /\ \/ i = n + 1 /\ n2 = i /\ c2 >= c
     \/ n2 = n /\ c2 = c + 1
  /\ b2 = Faults["answer"] => b = b2 /\ n2 # n

\* A step that was just listed shows nothing.
LEMMA PendingStepOK ==
  ASSUME NEW w, NEW s, NEW n \in Nat, NEW c \in Nat, NEW b,
         s.attempts = 0, s.retries = 0, s.status = "pending"
  PROVE  StepOK(w, s, n, c, b)
<1>1. Num(n, w, s.name, Calls) \in Nat
  BY NumType
<1> QED
  BY <1>1 DEF StepOK

\* A step that the event is not about.
LEMMA StepKept ==
  ASSUME stream \in Seq(HistoryMessage), NEW w, NEW s \in StepType,
         NEW i, NEW n \in Nat, NEW c \in Nat, NEW b, NEW n2 \in Nat, NEW c2 \in Nat, NEW b2,
         StepOK(w, s, n, c, b), Delivered(i, n, c, b, n2, c2, b2),
         \/ stream[i].wf # w \/ stream[i].fn # s.name \/ stream[i].kind \notin ActivityKind
  PROVE  StepOK(w, s, n2, c2, b2)
<1>1. s.attempts \in Nat /\ s.retries \in Nat
  BY DEF StepType
<1>2. n <= n2 /\ c <= c2
  BY DEF Delivered
<1>3. \A K : Num(n, w, s.name, K) \in Nat /\ Num(n2, w, s.name, K) \in Nat
  BY NumType
<1>4. \A K : Num(n, w, s.name, K) <= Num(n2, w, s.name, K)
  BY <1>2, NumGrows
<1>5. /\ s.attempts <= Num(n2, w, s.name, Calls) + c2
      /\ s.retries > 0 => s.retries + 1 <= Num(n2, w, s.name, Calls) + c2
  <2>1. PICK a, a2 : a = Num(n, w, s.name, Calls) /\ a2 = Num(n2, w, s.name, Calls)
    OBVIOUS
  <2>2. a \in Nat /\ a2 \in Nat /\ a <= a2
    BY <1>3, <1>4, <2>1
  <2>3. s.attempts <= a + c /\ (s.retries > 0 => s.retries + 1 <= a + c)
    BY <2>1 DEF StepOK
  <2> QED
    BY <1>1, <1>2, <2>1, <2>2, <2>3
<1>6. s.status = "completed" => Num(n2, w, s.name, {"activity/completed"}) > 0
  BY <1>3, <1>4 DEF StepOK
<1>7. ASSUME b2 = Faults["answer"], s.status = "running"
      PROVE  Num(n2, w, s.name, Outcome) < Num(n2, w, s.name, {"activity/scheduled"})
  <2>1. b = b2 /\ i = n + 1 /\ n2 = n + 1
    BY <1>7 DEF Delivered
  <2>2. Num(n, w, s.name, Outcome) < Num(n, w, s.name, {"activity/scheduled"})
    BY <1>7, <2>1 DEF StepOK
  <2>3. /\ Num(n2, w, s.name, Outcome) = Num(n, w, s.name, Outcome)
        /\ Num(n2, w, s.name, {"activity/scheduled"}) = Num(n, w, s.name, {"activity/scheduled"})
    <3>1. ~ (stream[n + 1].wf = w /\ stream[n + 1].fn = s.name /\ stream[n + 1].kind \in Outcome)
      BY <2>1 DEF ActivityKind
    <3>2. ~ (/\ stream[n + 1].wf = w /\ stream[n + 1].fn = s.name
             /\ stream[n + 1].kind \in {"activity/scheduled"})
      BY <2>1 DEF ActivityKind
    <3>3. /\ Num(n + 1, w, s.name, Outcome) = Num(n, w, s.name, Outcome) + 0
          /\ Num(n + 1, w, s.name, {"activity/scheduled"}) =
               Num(n, w, s.name, {"activity/scheduled"}) + 0
      BY <3>1, <3>2, NumNext
    <3> QED
      BY <1>3, <2>1, <3>3
  <2> QED
    BY <2>2, <2>3
<1> QED
  BY <1>5, <1>6, <1>7 DEF StepOK

\* The calls that an event of an activity shows to have happened.
LEMMA CallsBehind ==
  ASSUME stream \in Seq(HistoryMessage), HistoryInv, NEW i \in DOMAIN stream,
         stream[i].kind \in ActivityKind, NEW n \in Nat, i <= n
  PROVE  /\ Num(n, stream[i].wf, stream[i].fn, Calls) >= 1
         /\ stream[i].kind = "activity/retried" =>
              Num(n, stream[i].wf, stream[i].fn, Calls) >= 2
<1>1. i \in Nat /\ i - 1 \in Nat
  <2> HIDE DEF HistoryMessage
  <2> QED
    OBVIOUS
<1>2. PICK w, f : w = stream[i].wf /\ f = stream[i].fn
  OBVIOUS
<1>3. /\ Num(n, w, f, Calls) \in Nat /\ Num(i, w, f, Calls) \in Nat
      /\ Num(i, w, f, Calls) <= Num(n, w, f, Calls)
  BY <1>1, NumType, NumGrows
<1>4. CASE stream[i].kind = "activity/scheduled"
  <2>1. Num(i, w, f, Calls) > 0
    BY <1>1, <1>2, <1>4, NumPositive DEF Calls
  <2> QED
    BY <1>2, <1>3, <1>4, <2>1
<1>5. CASE stream[i].kind \in Outcome \union {"activity/retried"}
  <2>1. Num(i - 1, w, f, Outcome) < Num(i - 1, w, f, {"activity/scheduled"})
    BY <1>2, <1>5 DEF HistoryInv, EndsAreOpen, OpenBefore
  <2>2. Num(i - 1, w, f, {"activity/scheduled"}) > 0
    BY <1>1, <2>1, NumType
  <2>3. PICK j \in 1..(i - 1) :
          stream[j].wf = w /\ stream[j].fn = f /\ stream[j].kind = "activity/scheduled"
    BY <1>1, <2>2, NumPositive
  <2>4. Num(i - 1, w, f, Calls) > 0 /\ Num(i - 1, w, f, Calls) \in Nat
    BY <1>1, <2>3, NumPositive, NumType DEF Calls
  <2>5. Num(i, w, f, Calls) =
          Num(i - 1, w, f, Calls) + (IF stream[i].kind \in Calls THEN 1 ELSE 0)
    <3>1. PICK k \in Nat : k = i - 1
      BY <1>1
    <3>2. i = k + 1
      BY <1>1, <3>1
    <3> QED
      BY <1>2, <3>1, <3>2, NumNext
  <2> QED
    BY <1>2, <1>3, <2>4, <2>5 DEF Calls
<1> QED
  BY <1>4, <1>5 DEF ActivityKind

(***************************************************************************)
(* A step that the event is about.  Delivered for the first time, a call   *)
(* counts in the history; delivered once more, it is paid by the failure   *)
(* that made it come again.                                                *)
(***************************************************************************)
LEMMA StepMoved ==
  ASSUME stream \in Seq(HistoryMessage), HistoryInv,
         NEW i \in DOMAIN stream, NEW w \in Workflow, NEW s \in StepType, NEW t,
         NEW n \in Nat, NEW c \in Nat, NEW b, NEW n2 \in Nat, NEW c2 \in Nat, NEW b2,
         StepOK(w, s, n, c, b), Delivered(i, n, c, b, n2, c2, b2),
         stream[i].wf = w, stream[i].fn = s.name, stream[i].kind \in ActivityKind,
         StepMoves(s, stream[i], t)
  PROVE  StepOK(w, t, n2, c2, b2)
<1>1. s.attempts \in Nat /\ s.retries \in Nat /\ s.name \in Fn \union {NoFn}
  BY DEF StepType
<1>2. t.name = s.name /\ i <= n2 /\ i \in Nat
  BY DEF StepMoves, Delivered
<1>3. PICK f : f = s.name
  OBVIOUS
<1>4. PICK a, a2 : a = Num(n, w, f, Calls) /\ a2 = Num(n2, w, f, Calls)
  OBVIOUS
<1>5. a \in Nat /\ a2 \in Nat /\ a2 >= 1 /\ (stream[i].kind = "activity/retried" => a2 >= 2)
  BY <1>2, <1>3, <1>4, NumType, CallsBehind
<1>6. a <= a2
  BY <1>4, NumGrows DEF Delivered
<1>7. a + c <= a2 + c2 /\ (stream[i].kind \in Calls => a + c + 1 <= a2 + c2)
  <2>1. CASE i = n + 1 /\ n2 = i /\ c2 >= c
    <3>1. a2 = a + (IF stream[i].kind \in Calls THEN 1 ELSE 0)
      BY <1>3, <1>4, <2>1, NumNext
    <3> QED
      BY <1>5, <2>1, <3>1
  <2>2. CASE n2 = n /\ c2 = c + 1
    BY <1>4, <1>5, <2>2
  <2> QED
    BY <2>1, <2>2 DEF Delivered
<1>8. s.attempts <= a + c /\ (s.retries > 0 => s.retries + 1 <= a + c)
  BY <1>3, <1>4 DEF StepOK
<1>9. t.attempts <= a2 + c2 /\ (t.retries > 0 => t.retries + 1 <= a2 + c2)
  <2>1. CASE stream[i].kind = "activity/scheduled"
    <3>1. t.attempts = s.attempts + 1 /\ t.retries = s.retries
      BY <2>1 DEF StepMoves
    <3> QED
      BY <1>1, <1>5, <1>7, <1>8, <2>1, <3>1 DEF Calls
  <2>2. CASE stream[i].kind = "activity/completed"
    <3>1. /\ t.retries = s.retries
          /\ t.attempts = s.attempts \/ (s.retries > 0 /\ t.attempts = s.retries + 1)
      BY <2>2 DEF StepMoves
    <3> QED
      BY <1>1, <1>5, <1>7, <1>8, <3>1
  <2>3. CASE stream[i].kind = "activity/failed"
    <3>1. t.retries = s.retries /\ (t.attempts = s.attempts \/ t.attempts = s.retries + 1)
      BY <2>3 DEF StepMoves
    <3> QED
      BY <1>1, <1>5, <1>7, <1>8, <3>1
  <2>4. CASE stream[i].kind = "activity/retried"
    <3>1. t.retries = s.retries + 1 /\ (t.attempts = s.attempts \/ t.attempts = s.retries + 2)
      BY <2>4 DEF StepMoves
    <3> QED
      BY <1>1, <1>5, <1>7, <1>8, <2>4, <3>1 DEF Calls
  <2> QED
    BY <2>1, <2>2, <2>3, <2>4 DEF ActivityKind, Outcome
<1>10. t.status = "completed" => Num(n2, w, f, {"activity/completed"}) > 0
  <2>1. t.status = "completed" => stream[i].kind = "activity/completed"
    BY DEF StepMoves, ActivityKind, Outcome
  <2>2. i \in 1..n2
    BY DEF Delivered
  <2> QED
    BY <1>3, <2>1, <2>2, NumPositive
<1>11. ASSUME b2 = Faults["answer"], t.status = "running"
       PROVE  Num(n2, w, f, Outcome) < Num(n2, w, f, {"activity/scheduled"})
  <2>1. i = n + 1 /\ n2 = n + 1
    BY <1>11 DEF Delivered
  <2>2. PICK o, d : o = Num(n, w, f, Outcome) /\ d = Num(n, w, f, {"activity/scheduled"})
    OBVIOUS
  <2>3. o \in Nat /\ d \in Nat
    BY <2>2, NumType
  <2>4. stream[i].kind \in Calls
    BY <1>11 DEF StepMoves, ActivityKind, Outcome, Calls
  <2>5. Num(n2, w, f, Outcome) = o
    <3>1. stream[n + 1].kind \notin Outcome
      BY <2>1, <2>4 DEF Calls, Outcome
    <3>2. Num(n + 1, w, f, Outcome) = o + 0
      BY <2>2, <3>1, NumNext
    <3> QED
      BY <2>1, <2>3, <3>2
  <2>6. CASE stream[i].kind = "activity/scheduled"
    <3>1. Num(n + 1, w, f, {"activity/scheduled"}) = d + 1
      BY <1>3, <2>1, <2>2, <2>6, NumNext
    <3>2. o <= d
      <4>1. n \in 0..Len(stream)
        BY <2>1 DEF Delivered
      <4> QED
        BY <1>1, <1>3, <2>2, <4>1 DEF HistoryInv, OutcomesBounded
    <3> QED
      BY <2>1, <2>3, <2>5, <3>1, <3>2
  <2>7. CASE stream[i].kind = "activity/retried"
    <3>1. i - 1 = n
      BY <2>1
    <3>2. o < d
      BY <1>3, <2>2, <2>7, <3>1 DEF HistoryInv, EndsAreOpen, OpenBefore
    <3>3. Num(n + 1, w, f, {"activity/scheduled"}) = d + 0
      BY <2>1, <2>2, <2>7, NumNext
    <3> QED
      BY <2>1, <2>3, <2>5, <3>2, <3>3
  <2> QED
    BY <2>4, <2>6, <2>7 DEF Calls
<1> QED
  BY <1>2, <1>3, <1>4, <1>9, <1>10, <1>11 DEF StepOK

-----------------------------------------------------------------------------
(* The views.                                                              *)

\* View v of w shows nothing that the first n messages do not have.
Shown(w, v, n, c, b) ==
  /\ ViewOK(v)
  /\ v.status = "completed" =>
       \E j \in 1..n : stream[j].wf = w /\ stream[j].kind = "workflow/completed"
  /\ \A k \in DOMAIN v.steps : StepOK(w, v.steps[k], n, c, b)

\* The answers lost, without those whose message waits to be delivered again.
Credit == Faults["answer"] - budget["answer"] - Cardinality(ui.unsettled)

ViewInv ==
  /\ ConsumerOK(ui)
  /\ Credit \in Nat
  /\ views = [w \in Workflow |-> views[w]]
  /\ current \in Workflow \union {NoWorkflow}
  /\ page.status = "completed" => page.wf \in Workflow
  /\ \A w \in Workflow : Shown(w, views[w], ui.last, Credit, budget["answer"])

\* A workflow without a view.
LEMMA NothingShown ==
  ASSUME NEW w, NEW n, NEW c, NEW b PROVE Shown(w, NoView, n, c, b)
<1>1. /\ NoView.status = "none" /\ NoView.current = 0 /\ NoView.steps = <<>>
      /\ DOMAIN NoView = {"status", "current", "steps"}
  BY DEF NoView
<1>2. <<>> \in Seq(StepType) /\ Len(<<>>) = 0 /\ DOMAIN <<>> = {}
  <2> HIDE DEF StepType
  <2> QED
    OBVIOUS
<1> HIDE DEF NoView
<1> QED
  BY <1>1, <1>2 DEF Shown, ViewOK

\* A view that StartWorkflow has registered.
LEMMA NewShown ==
  ASSUME NEW w, NEW n \in Nat, NEW c \in Nat, NEW b PROVE Shown(w, NewView, n, c, b)
<1>1. PICK v : v = NewView
  OBVIOUS
<1>2. PICK l \in Nat : l = Len(Steps) /\ DOMAIN Steps = 1..l
  BY DemoViewAssumption
<1>3. /\ v.status = "pending" /\ v.current = 0
      /\ v.steps = [k \in 1..l |-> PendingStep(Steps[k])]
      /\ DOMAIN v = {"status", "current", "steps"}
  BY <1>1, <1>2 DEF NewView
<1>4. \A k \in 1..l : /\ v.steps[k] = PendingStep(Steps[k])
                      /\ Steps[k] \in Fn \union {NoFn}
  BY <1>2, <1>3, DemoViewAssumption
<1>5. \A k \in 1..l : /\ v.steps[k] \in StepType /\ v.steps[k].name = Steps[k]
                      /\ v.steps[k].status = "pending"
                      /\ v.steps[k].attempts = 0 /\ v.steps[k].retries = 0
  BY <1>4, PendingStepType
<1>6. v.steps \in Seq(StepType) /\ Len(v.steps) = l /\ DOMAIN v.steps = 1..l
  <2>1. v.steps \in [1..l -> StepType]
    BY <1>3, <1>5
  <2> HIDE DEF StepType
  <2> QED
    BY <2>1
<1>7. ViewOK(v)
  BY <1>2, <1>3, <1>5, <1>6, DemoViewAssumption DEF ViewOK
<1>8. \A k \in 1..l : StepOK(w, v.steps[k], n, c, b)
  BY <1>5, PendingStepOK
<1> QED
  BY <1>1, <1>3, <1>6, <1>7, <1>8 DEF Shown

\* What is shown stays true when the stream grows and answers are lost.
LEMMA ShownLater ==
  ASSUME stream \in Seq(HistoryMessage), Appends, NEW n \in Nat, n <= Len(stream),
         NEW w, NEW v, NEW c \in Nat, NEW b, NEW c2 \in Nat, NEW b2, c <= c2,
         b2 = Faults["answer"] => b = b2,
         Shown(w, v, n, c, b)
  PROVE  Shown(w, v, n, c2, b2)'
<1>1. \A i \in 1..n : stream'[i] = stream[i]
  <2>1. CASE UNCHANGED stream
    BY <2>1
  <2>2. CASE \E m \in HistoryMessage : stream' = Append(stream, m)
    BY <2>2, AppendKeeps
  <2> QED
    BY <2>1, <2>2 DEF Appends
<1>2. ASSUME NEW k \in DOMAIN v.steps PROVE StepOK(w, v.steps[k], n, c2, b2)'
  <2>1. PICK s : s = v.steps[k]
    OBVIOUS
  <2>2. StepOK(w, s, n, c, b)
    BY <2>1 DEF Shown
  <2>3. s.attempts \in Nat /\ s.retries \in Nat
    <3>1. s \in StepType
      <4> HIDE DEF StepType
      <4> QED
        BY <2>1 DEF Shown, ViewOK
    <3> QED
      BY <3>1 DEF StepType
  <2>4. \A K : Num(n, w, s.name, K)' = Num(n, w, s.name, K) /\ Num(n, w, s.name, K) \in Nat
    BY NumKept, NumType
  <2>5. StepOK(w, s, n, c2, b2)'
    <3>1. PICK a, o, d, e :
            /\ a = Num(n, w, s.name, Calls) /\ o = Num(n, w, s.name, Outcome)
            /\ d = Num(n, w, s.name, {"activity/scheduled"})
            /\ e = Num(n, w, s.name, {"activity/completed"})
      OBVIOUS
    <3>2. /\ Num(n, w, s.name, Calls)' = a /\ Num(n, w, s.name, Outcome)' = o
          /\ Num(n, w, s.name, {"activity/scheduled"})' = d
          /\ Num(n, w, s.name, {"activity/completed"})' = e
          /\ a \in Nat
      BY <2>4, <3>1
    <3>3. /\ s.attempts <= a + c
          /\ s.retries > 0 => s.retries + 1 <= a + c
          /\ s.status = "completed" => e > 0
          /\ b = Faults["answer"] /\ s.status = "running" => o < d
      BY <2>2, <3>1 DEF StepOK
    <3>4. s.attempts <= a + c2 /\ (s.retries > 0 => s.retries + 1 <= a + c2)
      BY <2>3, <3>2, <3>3
    <3> QED
      BY <3>2, <3>3, <3>4 DEF StepOK
  <2> QED
    BY <2>1, <2>5
<1>3. v.status = "completed" =>
        \E j \in 1..n : stream'[j].wf = w /\ stream'[j].kind = "workflow/completed"
  BY <1>1 DEF Shown
<1>4. ViewOK(v)
  BY DEF Shown
<1> QED
  BY <1>2, <1>3, <1>4 DEF Shown

\* What is shown after an event.
LEMMA ShownAfter ==
  ASSUME stream \in Seq(HistoryMessage), HistoryInv,
         NEW i \in DOMAIN stream, NEW w \in Workflow, NEW v, NEW v2,
         NEW n \in Nat, NEW c \in Nat, NEW b, NEW n2 \in Nat, NEW c2 \in Nat, NEW b2,
         Shown(w, v, n, c, b), Delivered(i, n, c, b, n2, c2, b2),
         v2 = IF stream[i].wf = w /\ v # NoView THEN ViewAfter(v, stream[i]) ELSE v
  PROVE  Shown(w, v2, n2, c2, b2)
<1>1. PICK e \in HistoryMessage : e = stream[i]
  <2> HIDE DEF HistoryMessage
  <2> QED
    OBVIOUS
<1>2. n <= n2 /\ i \in 1..n2
  BY DEF Delivered
<1>3. ViewOK(v) /\ \A k \in DOMAIN v.steps : v.steps[k] \in StepType
  <2> HIDE DEF StepType
  <2> QED
    BY DEF Shown, ViewOK
<1>4. CASE v2 = v /\ (e.wf # w \/ v = NoView)
  <2>1. ASSUME NEW k \in DOMAIN v.steps PROVE StepOK(w, v.steps[k], n2, c2, b2)
    <3>1. e.wf # w
      BY <1>4, <2>1 DEF NoView
    <3>2. StepOK(w, v.steps[k], n, c, b) /\ v.steps[k] \in StepType
      BY <1>3 DEF Shown
    <3> QED
      BY <1>1, <3>1, <3>2, StepKept
  <2> QED
    BY <1>2, <1>3, <1>4, <2>1 DEF Shown
<1>5. CASE e.wf = w /\ ViewMoves(v, e, v2)
  <2>1. ASSUME NEW k \in DOMAIN v2.steps PROVE StepOK(w, v2.steps[k], n2, c2, b2)
    <3>1. CASE e.kind \notin ActivityKind
      <4>1. v2.steps = v.steps
        BY <1>5, <3>1 DEF ViewMoves
      <4>2. StepOK(w, v.steps[k], n, c, b) /\ v.steps[k] \in StepType
        BY <1>3, <2>1, <4>1 DEF Shown
      <4> QED
        BY <1>1, <3>1, <4>1, <4>2, StepKept
    <3>2. CASE e.kind \in ActivityKind
      <4>1. StepsMove(v, e, v2.steps)
        BY <1>5, <3>2 DEF ViewMoves
      <4>2. PICK s : s = Found(v, e)[k]
        OBVIOUS
      <4>3. k \in DOMAIN Found(v, e)
        BY <2>1, <4>1 DEF StepsMove
      <4>4. s \in StepType /\ StepOK(w, s, n, c, b)
        <5>1. CASE k \in DOMAIN v.steps
          BY <1>3, <4>2, <5>1, FoundSteps DEF Shown
        <5>2. CASE k \notin DOMAIN v.steps
          <6>1. s = PendingStep(e.fn) /\ e.fn \in Fn \union {NoFn}
            BY <1>3, <4>2, <4>3, <5>2, FoundSteps DEF HistoryMessage
          <6>2. s \in StepType /\ s.attempts = 0 /\ s.retries = 0 /\ s.status = "pending"
            BY <6>1, PendingStepType
          <6> QED
            BY <6>2, PendingStepOK
        <5> QED
          BY <5>1, <5>2
      <4>5. CASE s.name = e.fn
        <5>1. StepMoves(s, e, v2.steps[k])
          BY <2>1, <4>1, <4>2, <4>5 DEF StepsMove
        <5>2. PICK t : t = v2.steps[k]
          OBVIOUS
        <5>3. StepOK(w, t, n2, c2, b2)
          BY <1>1, <1>5, <3>2, <4>4, <4>5, <5>1, <5>2, StepMoved
        <5> QED
          BY <5>2, <5>3
      <4>6. CASE s.name # e.fn
        <5>1. v2.steps[k] = s
          BY <2>1, <4>1, <4>2, <4>6 DEF StepsMove
        <5> QED
          BY <1>1, <4>4, <4>6, <5>1, StepKept
      <4> QED
        BY <4>5, <4>6
    <3> QED
      BY <3>1, <3>2
  <2>2. v2.status = "completed" =>
          \E j \in 1..n2 : stream[j].wf = w /\ stream[j].kind = "workflow/completed"
    <3>1. v2.status = "completed" => e.kind = "workflow/completed" \/ v.status = "completed"
      BY <1>5 DEF ViewMoves
    <3> QED
      BY <1>1, <1>2, <1>5, <3>1 DEF Shown
  <2> QED
    BY <1>5, <2>1, <2>2 DEF Shown, ViewMoves
<1>6. CASE e.wf = w /\ v # NoView
  BY <1>1, <1>3, <1>5, <1>6, ViewAfterMoves
<1> QED
  BY <1>1, <1>4, <1>6

\* Answers that were lost stay lost.
LEMMA BudgetFalls ==
  ASSUME CallInv, [CallersNext]_allVars
  PROVE  /\ budget["answer"] \in Nat /\ budget'["answer"] \in Nat
         /\ Faults["answer"] \in Nat
         /\ budget'["answer"] <= budget["answer"]
         /\ budget["answer"] <= Faults["answer"]
<1>1. \/ UNCHANGED budget
      \/ Spend("answer") \/ Spend("kv") \/ Spend("publish") \/ Spend("server")
  BY DEF allVars, CallersNext, CallersProgress, SendRequest, NoResponders, StoreInput,
         PublishStarted, Reply, ExecuteWorkflow, Watch, NextUpdate, RequestEnds, Register,
         WorkflowResults, HandleEvent, WriteSteps, ServerUp, WorkersAppend, GetEnds,
         GetStatus, ServerDown
<1>2. CallTypes
  BY DEF CallInv
<1>3. budget["answer"] \in Nat /\ Faults["answer"] \in Nat /\ budget["answer"] <= Faults["answer"]
  BY <1>2, ClientCallAssumption DEF CallTypes, FaultKind
<1>4. budget' \in [FaultKind -> Nat] /\ budget'["answer"] <= budget["answer"]
  BY <1>1, <1>2, <1>3, SpendBudget DEF CallTypes, FaultKind
<1> QED
  BY <1>3, <1>4 DEF FaultKind

\* The steps of the others: only a loss of answers reaches the page.
LEMMA OtherViews ==
  ASSUME CallInv, ViewInv, [CallersNext]_allVars, UNCHANGED ui,
         views' = [w \in Workflow |-> views'[w]],
         \A w \in Workflow : Shown(w, views'[w], ui.last, Credit, budget["answer"]),
         current' \in Workflow \union {NoWorkflow},
         page'.status = "completed" => page'.wf \in Workflow
  PROVE  ViewInv'
<1>1. /\ stream \in Seq(HistoryMessage) /\ Appends
  BY CallInvNext DEF CallInv, CallTypes
<1>2. PICK c, n, cr, cr2, b, b2 :
        /\ c = ui /\ n = ui.last /\ cr = Credit /\ cr2 = Credit'
        /\ b = budget["answer"] /\ b2 = budget'["answer"]
  OBVIOUS
<1>3. ConsumerOK(c) /\ n \in Nat /\ n <= Len(stream) /\ cr \in Nat
  BY <1>2 DEF ViewInv, ConsumerOK
<1>4. ConsumerOK(ui)'
  <2>1. ConsumerOK(c)'
    BY <1>1, <1>3, GrowthKeeps
  <2> QED
    BY <1>2, <2>1 DEF ConsumerOK
<1>5. cr2 \in Nat /\ cr <= cr2 /\ (b2 = Faults["answer"] => b = b2)
  <2>1. /\ b \in Nat /\ b2 \in Nat /\ Faults["answer"] \in Nat /\ b2 <= b
        /\ b <= Faults["answer"]
    BY <1>2, BudgetFalls
  <2>2. PICK u : u = Cardinality(ui.unsettled)
    OBVIOUS
  <2>3. cr = Faults["answer"] - b - u /\ cr2 = Faults["answer"] - b2 - u
    BY <1>2, <2>2 DEF Credit
  <2>4. u \in Nat
    <3>1. ui.unsettled \subseteq 1..ui.last /\ ui.last \in Nat
      BY DEF ViewInv, ConsumerOK
    <3>2. IsFiniteSet(1..ui.last)
      BY <3>1, FS_Interval
    <3>3. IsFiniteSet(ui.unsettled)
      BY <3>1, <3>2, FS_Subset
    <3> QED
      BY <2>2, <3>3, FS_CardinalityType
  <2>5. PICK F \in Nat : F = Faults["answer"]
    BY <2>1
  <2>6. cr = F - b - u /\ cr2 = F - b2 - u
    BY <2>3, <2>5
  <2>7. cr2 \in Nat /\ cr <= cr2
    BY <1>3, <2>1, <2>4, <2>5, <2>6
  <2>8. b2 = F => b = b2
    BY <2>1, <2>5
  <2> QED
    BY <2>5, <2>7, <2>8
<1>6. ASSUME NEW w \in Workflow PROVE Shown(w, views[w], ui.last, Credit, budget["answer"])'
  <2>1. PICK v : v = views'[w]
    OBVIOUS
  <2>2. Shown(w, v, n, cr, b)
    BY <1>2, <2>1
  <2>3. Shown(w, v, n, cr2, b2)'
    BY <1>1, <1>3, <1>5, <2>2, ShownLater
  <2> QED
    BY <1>2, <2>1, <2>3
<1> QED
  BY <1>2, <1>4, <1>5, <1>6 DEF ViewInv

\* The consumer of the page after a delivery, and what was lost.
LEMMA UiMoves ==
  ASSUME CallInv, ViewInv, NEW i \in UiDeliverable, UNCHANGED stream,
         \/ ui' = Settled(ui, i) /\ UNCHANGED budget
         \/ ui' = Kept(ui, i) /\ Spend("answer")
  PROVE  /\ ConsumerOK(ui)'
         /\ Credit' \in Nat
         /\ Delivered(i, ui.last, Credit, budget["answer"], ui'.last, Credit', budget'["answer"])
<1>1. stream \in Seq(HistoryMessage) /\ CallTypes
  BY DEF CallInv, CallTypes
<1>2. PICK c, d : c = ui /\ d = ui'
  OBVIOUS
<1>3. i \in DeliverableTo(c) /\ (d = Settled(c, i) \/ d = Kept(c, i)) /\ ConsumerOK(c)
  BY <1>2 DEF UiDeliverable, ViewInv
<1>4. /\ ConsumerOK(d) /\ d.last \in {c.last, c.last + 1} /\ i <= d.last
      /\ d.last = c.last => i \in c.unsettled
      /\ d.last # c.last => i = d.last
  BY <1>1, <1>3, ConsumerMoves
<1>5. i \in Nat /\ i \in DOMAIN stream /\ (i \in c.unsettled \/ i = c.last + 1)
  BY <1>1, <1>3, DeliverableStored
<1>6. /\ c.last \in Nat /\ d.last \in Nat /\ d.last <= Len(stream)
      /\ c.unsettled \subseteq 1..c.last
  BY <1>3, <1>4 DEF ConsumerOK
<1>7. i \in 1..d.last
  BY <1>4, <1>5, <1>6 DEF ConsumerOK
<1>8. IsFiniteSet(c.unsettled) /\ Cardinality(c.unsettled) \in Nat
  <2>1. IsFiniteSet(1..c.last)
    <3>1. c.last \in Int
      BY <1>6
    <3> QED
      BY <3>1, FS_Interval
  <2>2. IsFiniteSet(c.unsettled)
    BY <1>6, <2>1, FS_Subset
  <2> QED
    BY <2>2, FS_CardinalityType
<1>9. PICK b, b2, F : b = budget["answer"] /\ b2 = budget'["answer"] /\ F = Faults["answer"]
  OBVIOUS
<1>10. b \in Nat /\ F \in Nat /\ b <= F
  BY <1>1, <1>9, ClientCallAssumption DEF CallTypes, FaultKind
<1>11. PICK u, u2 : u = Cardinality(c.unsettled) /\ u2 = Cardinality(d.unsettled)
  OBVIOUS
<1>12. PICK cr, cr2 : cr = Credit /\ cr2 = Credit'
  OBVIOUS
<1>13. cr = F - b - u /\ cr2 = F - b2 - u2 /\ cr \in Nat
  BY <1>2, <1>9, <1>11, <1>12 DEF Credit, ViewInv
<1>14. \/ /\ i = c.last + 1 /\ d.last = i /\ cr2 = cr
       \/ /\ d.last = c.last /\ cr2 = cr + 1
  <2>1. CASE i \in c.unsettled
    <3>1. d.last = c.last
      BY <1>4, <1>6, <2>1
    <3>2. \/ u2 = u - 1 /\ b2 = b
          \/ u2 = u /\ b2 = b - 1
      <4>1. CASE ui' = Settled(ui, i) /\ UNCHANGED budget
        <5>1. d.unsettled = c.unsettled \ {i}
          BY <1>2, <4>1 DEF Settled
        <5> QED
          BY <1>8, <1>9, <1>11, <2>1, <4>1, <5>1, FS_RemoveElement
      <4>2. CASE ui' = Kept(ui, i) /\ Spend("answer")
        <5>1. d.unsettled = c.unsettled
          BY <1>2, <2>1, <4>2 DEF Kept
        <5>2. b2 = b - 1
          BY <1>1, <1>9, <4>2, SpendBudget DEF FaultKind
        <5> QED
          BY <1>11, <5>1, <5>2
      <4> QED
        BY <4>1, <4>2
    <3> QED
      BY <1>8, <1>10, <1>11, <1>13, <3>1, <3>2
  <2>2. CASE i \notin c.unsettled
    <3>1. i = c.last + 1 /\ d.last = i
      BY <1>4, <1>5, <1>6, <2>2
    <3>2. \/ u2 = u /\ b2 = b
          \/ u2 = u + 1 /\ b2 = b - 1
      <4>1. CASE ui' = Settled(ui, i) /\ UNCHANGED budget
        <5>1. d.unsettled = c.unsettled
          BY <1>2, <2>2, <4>1 DEF Settled
        <5> QED
          BY <1>9, <1>11, <4>1, <5>1
      <4>2. CASE ui' = Kept(ui, i) /\ Spend("answer")
        <5>1. d.unsettled = c.unsettled \union {i}
          BY <1>2, <4>2 DEF Kept
        <5>2. b2 = b - 1
          BY <1>1, <1>9, <4>2, SpendBudget DEF FaultKind
        <5>3. u2 = u + 1
          BY <1>8, <1>11, <2>2, <5>1, FS_AddElement
        <5> QED
          BY <5>2, <5>3
      <4> QED
        BY <4>1, <4>2
    <3> QED
      BY <1>8, <1>10, <1>11, <1>13, <3>1, <3>2
  <2> QED
    BY <2>1, <2>2
<1>15. cr2 \in Nat
  BY <1>13, <1>14
<1>16. b2 = F => b = b2 /\ d.last # c.last
  <2>1. b2 \in Nat /\ b2 <= b
    BY <1>1, <1>9, <1>10, SpendBudget DEF FaultKind
  <2>2. b2 = F => u = 0
    BY <1>8, <1>10, <1>11, <1>13, <2>1
  <2>3. u = 0 => c.unsettled = {}
    BY <1>8, <1>11, FS_EmptySet
  <2>4. b2 = F => d.last # c.last
    BY <1>4, <2>2, <2>3
  <2> QED
    BY <1>10, <2>1, <2>4
<1>17. ConsumerOK(ui)'
  BY <1>2, <1>4 DEF ConsumerOK
<1>18. Delivered(i, c.last, cr, b, d.last, cr2, b2)
  BY <1>6, <1>7, <1>9, <1>13, <1>14, <1>16 DEF Delivered
<1> QED
  BY <1>2, <1>9, <1>12, <1>15, <1>17, <1>18

\* handleEvent keeps the views true.
LEMMA HandleEventViews ==
  ASSUME CallInv, HistoryInv, ViewInv, NEW i \in DOMAIN stream, HandleEvent(i)
  PROVE  ViewInv'
<1>1. stream \in Seq(HistoryMessage)
  BY DEF CallInv, CallTypes
<1>2. PICK e : e = stream[i] /\ e.wf \in Workflow
  <2>1. stream[i] \in HistoryMessage
    <3> HIDE DEF HistoryMessage
    <3> QED
      BY <1>1
  <2> QED
    BY <2>1 DEF HistoryMessage
<1>3. /\ i \in UiDeliverable
      /\ views' = [views EXCEPT ![e.wf] =
                     IF views[e.wf] = NoView THEN views[e.wf] ELSE ViewAfter(views[e.wf], e)]
      /\ \/ ui' = Settled(ui, i) /\ UNCHANGED budget
         \/ ui' = Kept(ui, i) /\ Spend("answer")
      /\ UNCHANGED <<stream, current, page>>
  BY <1>2 DEF HandleEvent, engineVars
<1>4. /\ ConsumerOK(ui)' /\ Credit' \in Nat
      /\ Delivered(i, ui.last, Credit, budget["answer"], ui'.last, Credit', budget'["answer"])
  BY <1>3, UiMoves
<1>5. PICK n, c, b, n2, c2, b2 :
        /\ n = ui.last /\ c = Credit /\ b = budget["answer"]
        /\ n2 = ui'.last /\ c2 = Credit' /\ b2 = budget'["answer"]
  OBVIOUS
<1>6. n \in Nat /\ c \in Nat /\ n2 \in Nat /\ c2 \in Nat /\ Delivered(i, n, c, b, n2, c2, b2)
  BY <1>4, <1>5 DEF ViewInv, ConsumerOK
<1>7. ASSUME NEW w \in Workflow PROVE Shown(w, views[w], ui.last, Credit, budget["answer"])'
  <2>1. PICK v, v2 : v = views[w] /\ v2 = views'[w]
    OBVIOUS
  <2>2. v2 = IF e.wf = w /\ v # NoView THEN ViewAfter(v, e) ELSE v
    BY <1>2, <1>3, <2>1 DEF ViewInv
  <2>3. Shown(w, v, n, c, b)
    BY <1>5, <2>1 DEF ViewInv
  <2>4. Shown(w, v2, n2, c2, b2)
    BY <1>1, <1>2, <1>6, <2>2, <2>3, ShownAfter
  <2>5. Shown(w, v2, n2, c2, b2)'
    BY <1>3, <2>4 DEF Shown, StepOK, Num, Upto
  <2> QED
    BY <1>5, <2>1, <2>5
<1>8. views' = [w \in Workflow |-> views'[w]]
  BY <1>2, <1>3 DEF ViewInv
<1> QED
  BY <1>3, <1>4, <1>7, <1>8 DEF ViewInv

\* Every step keeps the views true.
LEMMA ViewInvNext ==
  ASSUME CallInv, HistoryInv, ViewInv, [CallersNext]_allVars
  PROVE  ViewInv'
<1>1. \A w \in Workflow : Shown(w, views[w], ui.last, Credit, budget["answer"])
  BY DEF ViewInv
<1>2. CASE UNCHANGED demoVars
  BY <1>1, <1>2, OtherViews DEF demoVars, ViewInv
<1>3. CASE \E w \in Workflow : Register(w)
  <2>1. PICK w \in Workflow : Register(w)
    BY <1>3
  <2>2. /\ UNCHANGED <<ui, page>>
        /\ \/ views' = [views EXCEPT ![w] = NewView] /\ current' = w
           \/ UNCHANGED <<views, current>>
    BY <2>1 DEF Register
  <2>3. CASE UNCHANGED <<views, current>>
    BY <1>1, <2>2, <2>3, OtherViews DEF ViewInv
  <2>4. CASE views' = [views EXCEPT ![w] = NewView] /\ current' = w
    <3>1. PICK n, c, b : n = ui.last /\ c = Credit /\ b = budget["answer"]
      OBVIOUS
    <3>2. n \in Nat /\ c \in Nat
      BY <3>1 DEF ViewInv, ConsumerOK
    <3>3. Shown(w, NewView, n, c, b)
      BY <3>2, NewShown
    <3>4. \A v \in Workflow : views'[v] = IF v = w THEN NewView ELSE views[v]
      BY <2>4 DEF ViewInv
    <3>5. \A v \in Workflow : Shown(v, views'[v], ui.last, Credit, budget["answer"])
      BY <1>1, <3>1, <3>3, <3>4
    <3>6. views' = [v \in Workflow |-> views'[v]]
      BY <2>4 DEF ViewInv
    <3> QED
      BY <2>2, <2>4, <3>5, <3>6, OtherViews DEF ViewInv
  <2> QED
    BY <2>2, <2>3, <2>4
<1>4. CASE \E i \in DOMAIN stream : HandleEvent(i)
  BY <1>4, HandleEventViews
<1>5. CASE WriteSteps \/ GetStatus
  <2>1. UNCHANGED <<ui, views, current>>
    BY <1>5 DEF WriteSteps, GetStatus
  <2>2. page'.status = "completed" => page'.wf \in Workflow
    BY <1>5 DEF WriteSteps, GetStatus, NoPage, ViewInv
  <2> QED
    BY <1>1, <2>1, <2>2, OtherViews DEF ViewInv
<1>6. CASE ServerDown
  <2>1. /\ UNCHANGED ui /\ views' = [w \in Workflow |-> NoView]
        /\ current' = NoWorkflow /\ page' = NoPage
    BY <1>6 DEF ServerDown, ForgetViews
  <2>2. \A w \in Workflow : views'[w] = NoView
    BY <2>1
  <2>3. \A w \in Workflow : Shown(w, views'[w], ui.last, Credit, budget["answer"])
    BY <2>2, NothingShown
  <2>4. page'.status # "completed"
    BY <2>1 DEF NoPage
  <2>5. views' = [w \in Workflow |-> views'[w]]
    BY <2>1, <2>2
  <2> QED
    BY <2>1, <2>3, <2>4, <2>5, OtherViews
<1>7. CASE ServerUp \/ (\E w \in Workflow : WorkersAppend(w)) \/ UNCHANGED allVars
  BY <1>2, <1>7 DEF ServerUp, WorkersAppend, allVars
<1> QED
  BY <1>2, <1>3, <1>4, <1>5, <1>6, <1>7 DEF CallersNext, CallersProgress

\* The invariant of the callers, the page and the history together.
PageInv == CallInv /\ ResultInv /\ HistoryInv /\ ViewInv

\* At first nothing is stored and nothing is shown.
LEMMA PageInvInit == CallersInit => PageInv
<1> SUFFICES ASSUME CallersInit PROVE PageInv
  OBVIOUS
<1>1. stream = <<>> /\ budget = Faults /\ ui = [last |-> 0, unsettled |-> {}]
  BY DEF CallersInit, InitCalls, InitDemo
<1>2. HistoryInv
  <2>1. DOMAIN stream = {} /\ Len(stream) = 0
    BY <1>1
  <2>2. \A w, f, K : Num(0, w, f, K) = 0
    <3>1. \A w, f, K : Upto(0, w, f, K) = {}
      BY DEF Upto
    <3> QED
      BY <3>1, FS_EmptySet DEF Num
  <2> QED
    BY <2>1, <2>2 DEF HistoryInv, StartedFirst, EndsAreOpen, OutcomesBounded
<1>3. Credit \in Nat
  <2>1. Cardinality(ui.unsettled) = 0 /\ Faults["answer"] \in Nat
    BY <1>1, FS_EmptySet, ClientCallAssumption DEF FaultKind
  <2> QED
    BY <1>1, <2>1 DEF Credit
<1>4. ConsumerOK(ui)
  BY <1>1 DEF ConsumerOK
<1>5. /\ views = [w \in Workflow |-> NoView] /\ current = NoWorkflow /\ page = NoPage
  BY DEF CallersInit, InitDemo
<1>6. \A w \in Workflow : views[w] = NoView
  BY <1>5
<1>7. \A w \in Workflow : Shown(w, views[w], ui.last, Credit, budget["answer"])
  BY <1>6, NothingShown
<1>8. page.status # "completed"
  BY <1>5 DEF NoPage
<1>9. views = [w \in Workflow |-> views[w]]
  BY <1>5, <1>6
<1>10. ViewInv
  BY <1>3, <1>4, <1>5, <1>7, <1>8, <1>9 DEF ViewInv
<1> QED
  BY <1>2, <1>10, CallInvInit, ResultInvInit DEF PageInv

\* Every step keeps the invariant.
LEMMA PageInvNext ==
  ASSUME PageInv, [CallersNext]_allVars PROVE PageInv'
<1>1. CallInv' /\ Appends /\ stream \in Seq(HistoryMessage)
  BY CallInvNext DEF PageInv, CallInv, CallTypes
<1>2. HistoryInv'
  BY <1>1, HistoryInvStep DEF PageInv
<1>3. ResultInv'
  BY ResultInvNext DEF PageInv
<1>4. ViewInv'
  BY ViewInvNext DEF PageInv
<1> QED
  BY <1>1, <1>2, <1>3, <1>4 DEF PageInv

-----------------------------------------------------------------------------
(* What the invariant is for.                                              *)

\* The server is up or down.
LEMMA UpOrDown == up \in BOOLEAN /\ [CallersNext]_allVars => up' \in BOOLEAN
<1> SUFFICES ASSUME up \in BOOLEAN, [CallersNext]_allVars PROVE up' \in BOOLEAN
  OBVIOUS
<1>1. CASE UNCHANGED up
  BY <1>1
<1>2. CASE ServerUp
  <2>1. up' = TRUE
    BY <1>2 DEF ServerUp
  <2> QED
    BY <2>1
<1>3. CASE ServerDown
  <2>1. up' = FALSE
    BY <1>3 DEF ServerDown
  <2> QED
    BY <2>1
<1>4. CASE CallersNext /\ ~ServerUp /\ ~ServerDown
  <2>1. UNCHANGED up
    BY <1>4 DEF CallersNext, CallersProgress, SendRequest, NoResponders, StoreInput,
         PublishStarted, Reply, ExecuteWorkflow, Watch, NextUpdate, RequestEnds, Register,
         WorkflowResults, HandleEvent, WriteSteps, WorkersAppend, GetEnds, GetStatus
  <2> QED
    BY <1>1, <2>1
<1>5. CASE UNCHANGED allVars
  <2>1. UNCHANGED up
    BY <1>5 DEF allVars
  <2> QED
    BY <1>1, <2>1
<1> QED
  BY <1>2, <1>3, <1>4, <1>5

\* The invariant implies the types.
LEMMA PageInvTypes ==
  ASSUME PageInv, up \in BOOLEAN PROVE CallersTypeOK
<1>1. CallTypes /\ ResultTypes /\ ConsumerOK(ui) /\ ConsumerOK(done)
  BY DEF PageInv, CallInv, ResultInv, ViewInv
<1>2. PICK l \in Nat : l = Len(stream) /\ DOMAIN stream = 1..l
  <2>1. stream \in Seq(HistoryMessage)
    BY <1>1 DEF CallTypes
  <2> HIDE DEF HistoryMessage
  <2> QED
    BY <2>1
<1>3. \A w \in Workflow : Completions(w) \subseteq 1..l
  BY <1>2 DEF Completions, Having
<1>4. ASSUME NEW w \in Workflow
      PROVE  /\ results[w] \in 0..l /\ answer[w] \in 0..l
             /\ updates[w] \in Seq({Marker} \union DOMAIN stream)
  <2>1. ResultsOf(w)
    BY DEF PageInv, ResultInv
  <2>2. results[w] \in 0..l /\ answer[w] \in 0..l
    BY <1>2, <1>3, <2>1 DEF ResultsOf, NoResult
  <2>3. PICK S, T : S = {Marker} \union Completions(w) /\ T = {Marker} \union DOMAIN stream
    OBVIOUS
  <2>4. S \subseteq T /\ updates[w] \in Seq(S)
    BY <1>2, <1>3, <2>1, <2>3 DEF ResultsOf
  <2>5. updates[w] \in Seq(T)
    BY <2>4
  <2> QED
    BY <2>2, <2>3, <2>5
<1>5. results \in [Workflow -> 0..Len(stream)] /\ answer \in [Workflow -> 0..Len(stream)]
  BY <1>1, <1>2, <1>4 DEF ResultTypes
<1>6. \A c \in {ui, done} : c.last \in 0..Len(stream) /\ c.unsettled \subseteq 1..c.last
  BY <1>1, <1>2 DEF ConsumerOK
<1>7. ASSUME NEW w \in Workflow
      PROVE  /\ views[w].status \in {"none", "pending", "running", "completed", "failed"}
             /\ views[w].current \in 0..Len(views[w].steps)
             /\ \A k \in DOMAIN views[w].steps :
                  StepsNamed(views[w].steps, views[w].steps[k].name) = {k}
  <2>1. PICK v : v = views[w] /\ ViewOK(v)
    BY DEF PageInv, ViewInv, Shown
  <2>2. \A k \in DOMAIN v.steps : StepsNamed(v.steps, v.steps[k].name) = {k}
    BY <2>1 DEF ViewOK, StepsNamed
  <2> QED
    BY <2>1, <2>2 DEF ViewOK
<1>8. current \in Workflow \union {NoWorkflow}
  BY DEF PageInv, ViewInv
<1>9. stream \in Seq([wf : Workflow, kind : HistoryKind, fn : Fn \union {NoFn}])
  BY <1>1 DEF CallTypes, HistoryMessage
<1>10. /\ budget \in [FaultKind -> Nat] /\ inputs \subseteq Workflow
       /\ caller \in [Workflow -> {"sdk", "demo"}]
       /\ mail \in [Workflow -> InHandler \union {"none", "request", "id", "error", "lost"}]
       /\ call \in [Workflow -> {"idle", "waiting", "panicked", "failed", "future", "watching",
                                 "done", "shown"}]
  BY <1>1 DEF CallTypes
<1> QED
  BY <1>4, <1>5, <1>6, <1>7, <1>8, <1>9, <1>10 DEF CallersTypeOK

(***************************************************************************)
(* Types of the callers and the page; findOrCreateStep never lists an      *)
(* activity twice, and the current step is a step of the view.             *)
(***************************************************************************)
THEOREM CallersTypeCorrect == CallersSpec => []CallersTypeOK
<1> DEFINE I == PageInv /\ up \in BOOLEAN
<1>1. CallersInit => I
  <2>1. CallersInit => up \in BOOLEAN
    <3> SUFFICES ASSUME CallersInit PROVE up \in BOOLEAN
      OBVIOUS
    <3>1. up = TRUE
      BY DEF CallersInit, InitCalls
    <3> QED
      BY <3>1
  <2> QED
    BY <2>1, PageInvInit
<1>2. I /\ [CallersNext]_allVars => I'
  BY PageInvNext, UpOrDown
<1>3. I => CallersTypeOK
  BY PageInvTypes
<1> QED
  BY <1>1, <1>2, <1>3, PTL DEF CallersSpec

\* What the invariant says of the attempts shown.
LEMMA AttemptsShown ==
  ASSUME PageInv PROVE AttemptsNotOvercounted
<1> SUFFICES ASSUME NEW w \in Workflow, NEW k \in DOMAIN views[w].steps
             PROVE  views[w].steps[k].attempts <=
                      Called(w, views[w].steps[k].name) + (Faults["answer"] - budget["answer"])
  BY DEF AttemptsNotOvercounted
<1>1. PICK s : s = views[w].steps[k]
  OBVIOUS
<1>2. s \in StepType /\ StepOK(w, s, ui.last, Credit, budget["answer"])
  <2> HIDE DEF StepType
  <2> QED
    BY <1>1 DEF PageInv, ViewInv, Shown, ViewOK
<1>3. /\ stream \in Seq(HistoryMessage) /\ CallTypes /\ ConsumerOK(ui) /\ Credit \in Nat
  BY DEF PageInv, CallInv, CallTypes, ViewInv
<1>4. Len(stream) \in Nat
  <2> HIDE DEF HistoryMessage
  <2> QED
    BY <1>3
<1>5. PICK a, a2 : a = Num(ui.last, w, s.name, Calls) /\ a2 = Num(Len(stream), w, s.name, Calls)
  OBVIOUS
<1>6. ui.last \in Nat /\ ui.last <= Len(stream)
  BY <1>3 DEF ConsumerOK
<1>7. a \in Nat /\ a2 \in Nat /\ a <= a2
  BY <1>4, <1>5, <1>6, NumType, NumGrows
<1>8. Called(w, s.name) = a2
  <2>1. 0 \in 0..Len(stream)
    BY <1>4
  <2>2. OfFn(stream, w, s.name, Calls) = Upto(Len(stream), w, s.name, Calls)
    BY <1>3, <2>1, CountsAgree
  <2> QED
    BY <1>5, <2>2 DEF Called, Calls, Num
<1>9. PICK cr, d : cr = Credit /\ d = Faults["answer"] - budget["answer"]
  OBVIOUS
<1>10. cr \in Nat /\ d \in Nat /\ cr <= d
  <2>1. budget["answer"] \in Nat /\ Faults["answer"] \in Nat /\ budget["answer"] <= Faults["answer"]
    BY <1>3, ClientCallAssumption DEF CallTypes, FaultKind
  <2>2. Cardinality(ui.unsettled) \in Nat
    <3>1. ui.unsettled \subseteq 1..ui.last /\ ui.last \in Int
      BY <1>3 DEF ConsumerOK
    <3>2. IsFiniteSet(1..ui.last)
      BY <3>1, FS_Interval
    <3>3. IsFiniteSet(ui.unsettled)
      BY <3>1, <3>2, FS_Subset
    <3> QED
      BY <3>3, FS_CardinalityType
  <2>3. cr = d - Cardinality(ui.unsettled)
    BY <1>9 DEF Credit
  <2>4. d \in Nat
    BY <1>9, <2>1
  <2> QED
    BY <1>3, <1>9, <2>2, <2>3, <2>4
<1>11. s.attempts <= a + cr /\ s.attempts \in Nat
  BY <1>2, <1>5, <1>9 DEF StepOK, StepType
<1>12. s.attempts <= a2 + d
  BY <1>7, <1>10, <1>11
<1> QED
  BY <1>1, <1>8, <1>9, <1>12

(***************************************************************************)
(* The attempts on the page: handleEvent counts calls and retries in       *)
(* several ways, and none of them exceeds what the history has, but for    *)
(* one per acknowledgement that was lost.                                  *)
(***************************************************************************)
THEOREM AttemptsAreNotOvercounted == CallersSpec => []AttemptsNotOvercounted
<1>1. PageInv => AttemptsNotOvercounted
  BY AttemptsShown
<1>2. PageInv /\ [CallersNext]_allVars => PageInv'
  BY PageInvNext
<1> QED
  BY <1>1, <1>2, PageInvInit, PTL DEF CallersSpec

\* The position of the page's consumer moves with a first delivery only.
LEMMA FirstDelivery ==
  ASSUME PageInv, [CallersNext]_allVars, ui'.last # ui.last
  PROVE  \E i \in DOMAIN stream : HandleEvent(i) /\ i = ui.last + 1
<1>1. PICK i \in DOMAIN stream : HandleEvent(i)
  BY DEF allVars, demoVars, CallersNext, CallersProgress, Register, WriteSteps, ServerUp,
         WorkersAppend, GetStatus, ServerDown, ForgetViews
<1>2. PICK c, d : c = ui /\ d = ui'
  OBVIOUS
<1>3. /\ stream \in Seq(HistoryMessage) /\ ConsumerOK(c) /\ i \in DeliverableTo(c)
      /\ d = Settled(c, i) \/ d = Kept(c, i)
  BY <1>1, <1>2 DEF PageInv, CallInv, CallTypes, ViewInv, HandleEvent, UiDeliverable
<1>4. d.last \in {c.last, c.last + 1} /\ (d.last # c.last => i = d.last)
  BY <1>3, ConsumerMoves
<1> QED
  BY <1>1, <1>2, <1>4

\* A workflow that has completed is not started afterwards.
LEMMA NoLateStart ==
  ASSUME stream \in Seq(HistoryMessage), HistoryInv, NEW i \in DOMAIN stream,
         NEW j \in 1..(i - 1), stream[j].wf = stream[i].wf,
         stream[j].kind # "workflow/started"
  PROVE  stream[i].kind # "workflow/started"
<1>1. PICK l \in Nat : DOMAIN stream = 1..l
  <2> HIDE DEF HistoryMessage
  <2> QED
    OBVIOUS
<1>2. i \in 1..l /\ j \in 1..l /\ j < i
  BY <1>1
<1>3. PICK k \in 1..(j - 1) :
        stream[k].wf = stream[j].wf /\ stream[k].kind = "workflow/started"
  BY <1>1, <1>2 DEF HistoryInv, StartedFirst
<1>4. k \in 1..l /\ k # i
  BY <1>2, <1>3
<1> QED
  BY <1>1, <1>2, <1>3, <1>4 DEF HistoryInv, StartedFirst

\* What a first delivery does to the view of w.
LEMMA DeliveryAdvances ==
  ASSUME PageInv, NEW i \in DOMAIN stream, HandleEvent(i), i = ui.last + 1,
         NEW w \in Workflow, ~HistoryGoesBack(w)
  PROVE  /\ ~GoesBack(views[w], views'[w])
         /\ \A k \in DOMAIN views[w].steps \intersect DOMAIN views'[w].steps :
              ~GoesBack(views[w].steps[k], views'[w].steps[k])
<1>1. stream \in Seq(HistoryMessage) /\ HistoryInv /\ ViewInv /\ ConsumerOK(ui)
  BY DEF PageInv, CallInv, CallTypes, ViewInv
<1>2. PICK e \in HistoryMessage : e = stream[i]
  <2> HIDE DEF HistoryMessage
  <2> QED
    BY <1>1
<1>3. e.wf \in Workflow
  BY DEF HistoryMessage
<1>4. views' = [views EXCEPT ![e.wf] =
                  IF views[e.wf] = NoView THEN views[e.wf] ELSE ViewAfter(views[e.wf], e)]
  BY <1>2 DEF HandleEvent
<1>5. PICK v, v2 : v = views[w] /\ v2 = views'[w]
  OBVIOUS
<1>6. v2 = IF e.wf = w /\ v # NoView THEN ViewAfter(v, e) ELSE v
  BY <1>1, <1>3, <1>4, <1>5 DEF ViewInv
<1>7. Shown(w, v, ui.last, Credit, budget["answer"])
  BY <1>1, <1>5 DEF ViewInv
<1>8. ui.last \in Nat /\ i \in Nat
  BY <1>1 DEF ConsumerOK
<1>9. CASE v2 = v
  BY <1>5, <1>9 DEF GoesBack
<1>10. CASE e.wf = w /\ ViewMoves(v, e, v2)
  <2>1. ~GoesBack(v, v2)
    <3> SUFFICES ASSUME v.status = "completed", v2.status = "running" PROVE FALSE
      BY DEF GoesBack
    <3>1. e.kind = "workflow/started"
      BY <1>10 DEF ViewMoves
    <3>2. PICK j \in 1..ui.last : stream[j].wf = w /\ stream[j].kind = "workflow/completed"
      BY <1>7 DEF Shown
    <3>3. j \in 1..(i - 1)
      BY <1>8
    <3> QED
      BY <1>1, <1>2, <1>10, <3>1, <3>2, <3>3, NoLateStart
  <2>2. ASSUME NEW k \in DOMAIN v.steps, k \in DOMAIN v2.steps,
               v.steps[k].status = "completed", v2.steps[k].status = "running"
        PROVE  FALSE
    <3>1. e.kind \in ActivityKind
      BY <1>10, <2>2 DEF ViewMoves
    <3>2. StepsMove(v, e, v2.steps)
      BY <1>10, <3>1 DEF ViewMoves
    <3>3. Found(v, e)[k] = v.steps[k]
      BY <1>7, FoundSteps DEF Shown
    <3>4. v.steps[k].name = e.fn /\ StepMoves(v.steps[k], e, v2.steps[k])
      BY <2>2, <3>2, <3>3 DEF StepsMove
    <3>5. e.kind \in Calls
      BY <2>2, <3>1, <3>4 DEF StepMoves, ActivityKind, Outcome, Calls
    <3>6. Num(ui.last, w, e.fn, {"activity/completed"}) > 0
      <4>1. StepOK(w, v.steps[k], ui.last, Credit, budget["answer"])
        BY <1>7 DEF Shown
      <4> QED
        BY <2>2, <3>4, <4>1 DEF StepOK
    <3>7. PICK j \in 1..ui.last :
            stream[j].wf = w /\ stream[j].fn = e.fn /\ stream[j].kind = "activity/completed"
      BY <1>8, <3>6, NumPositive
    <3>8. j < i /\ j \in DOMAIN stream /\ i \in DOMAIN stream
      <4>1. DOMAIN stream = 1..Len(stream) /\ Len(stream) \in Nat
        <5> HIDE DEF HistoryMessage
        <5> QED
          BY <1>1
      <4> QED
        BY <1>8, <4>1
    <3>9. i \in Positions(w) /\ j \in Positions(w)
      BY <1>2, <1>10, <3>7, <3>8 DEF Positions
    <3> QED
      BY <1>2, <3>5, <3>7, <3>8, <3>9 DEF HistoryGoesBack, Calls
  <2> QED
    BY <1>5, <2>1, <2>2 DEF GoesBack
<1>11. CASE e.wf = w /\ v # NoView
  <2>1. ViewOK(v)
    BY <1>7 DEF Shown
  <2> QED
    BY <1>6, <1>10, <1>11, <2>1, ViewAfterMoves
<1> QED
  BY <1>6, <1>9, <1>11

(***************************************************************************)
(* handleEvent takes a view from completed back to running only when an    *)
(* event comes a second time or the history itself goes back, whatever the *)
(* order in which reply, registration and events reach the server.         *)
(***************************************************************************)
THEOREM DeliveriesOnlyAdvance == CallersSpec => FirstDeliveriesOnlyAdvance
<1>1. ASSUME PageInv, [CallersNext]_allVars
      PROVE  [\A w \in Workflow :
                \/ ui'.last = ui.last
                \/ HistoryGoesBack(w)
                \/ /\ ~GoesBack(views[w], views'[w])
                   /\ \A k \in DOMAIN views[w].steps \intersect DOMAIN views'[w].steps :
                        ~GoesBack(views[w].steps[k], views'[w].steps[k])]_allVars
  BY <1>1, FirstDelivery, DeliveryAdvances
<1>2. PageInv /\ [CallersNext]_allVars => PageInv'
  BY PageInvNext
<1> QED
  BY <1>1, <1>2, PageInvInit, PTL DEF CallersSpec, FirstDeliveriesOnlyAdvance

\* What the invariant says of a view while no answer was lost.
LEMMA RunningIsOpen ==
  ASSUME PageInv, budget["answer"] = Faults["answer"], NEW w \in Workflow,
         NEW k \in DOMAIN views[w].steps, views[w].steps[k].status = "running"
  PROVE  IsOpen(SubSeq(stream, 1, ui.last), w, views[w].steps[k].name)
<1>1. PICK s : s = views[w].steps[k]
  OBVIOUS
<1>2. StepOK(w, s, ui.last, Credit, budget["answer"])
  BY <1>1 DEF PageInv, ViewInv, Shown
<1>3. Num(ui.last, w, s.name, Outcome) < Num(ui.last, w, s.name, {"activity/scheduled"})
  BY <1>1, <1>2 DEF StepOK
<1>4. stream \in Seq(HistoryMessage) /\ ui.last \in Nat /\ ui.last <= Len(stream)
  BY DEF PageInv, CallInv, CallTypes, ViewInv, ConsumerOK
<1>5. ui.last \in 0..Len(stream)
  <2>1. Len(stream) \in Nat
    <3> HIDE DEF HistoryMessage
    <3> QED
      BY <1>4
  <2> QED
    BY <1>4, <2>1
<1>6. \A K : OfFn(SubSeq(stream, 1, ui.last), w, s.name, K) = Upto(ui.last, w, s.name, K)
  BY <1>4, <1>5, CountsAgree
<1>7. /\ Num(ui.last, w, s.name, Outcome) \in Nat
      /\ Num(ui.last, w, s.name, {"activity/scheduled"}) \in Nat
  BY <1>4, NumType
<1> QED
  BY <1>1, <1>3, <1>6, <1>7 DEF IsOpen, Num

(***************************************************************************)
(* GetStatus encodes a view that handleEvent changes at the same time; a   *)
(* page that says completed shows no activity as running that has ended,   *)
(* as long as no acknowledgement is lost.                                  *)
(***************************************************************************)
THEOREM PagesAreConsistent == CallersSpec => PageIsConsistent
<1>1. ASSUME PageInv
      PROVE  page.status = "completed" /\ page' = NoPage /\ up' /\ budget["answer"] = Faults["answer"]
               => \A k \in DOMAIN views[page.wf].steps :
                    LET s == views[page.wf].steps[k] IN
                    \/ s.status # "running"
                    \/ IsOpen(SubSeq(stream, 1, ui.last), page.wf, s.name)
  <2>1. page.status = "completed" => page.wf \in Workflow
    BY <1>1 DEF PageInv, ViewInv
  <2> QED
    BY <1>1, <2>1, RunningIsOpen
<1>2. PageInv /\ [CallersNext]_allVars => PageInv'
  BY PageInvNext
<1> QED
  BY <1>1, <1>2, PageInvInit, PTL DEF CallersSpec, PageIsConsistent
=============================================================================
