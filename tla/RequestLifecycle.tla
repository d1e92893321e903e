--------------------------- MODULE RequestLifecycle ---------------------------
(***************************************************************************)
(* One request of Network: sessionManager.request(path).validate()         *)
(* .responseJSON(handler), through Alamofire's SessionManager, Session-    *)
(* Delegate, Request and TaskDelegate and MJSwiftCore's MultiRequest-      *)
(* Retrier.  Four threads meet in it: the caller, which chains validate    *)
(* and the handler AFTER request() has resumed the task; the delegate      *)
(* queue of URLSession; the utility queue, which retries; and the delegate *)
(* operation queue, which is suspended until the request completes and     *)
(* hands the handler to the main queue.  The validations array is shared   *)
(* by the first two without a lock: a completion sees it before or after   *)
(* an append.                                                              *)
(*                                                                         *)
(* A request sends one URLSessionTask per attempt, numbered from 1.        *)
(***************************************************************************)
EXTENDS Naturals, FiniteSets

CONSTANTS Accept,      \* whether the request has an Accept header
          Retriers,    \* how many retriers the MultiRequestRetrier holds
          MaxRetries   \* bound: how often the retriers say yes

ASSUME AcceptAssumption == Accept \in BOOLEAN
ASSUME RetriersAssumption == Retriers \in Nat
ASSUME MaxRetriesAssumption == MaxRetries \in Nat

Tasks == 1..MaxRetries + 1
NoTask == 0
NoValue == "none"

(* What the service answers: nothing (a transport error), a good response,  *)
(* or one with a bad status, an unexpected content type or a body that is   *)
(* not the JSON Network expects.  Every content type is acceptable to a     *)
(* request without an Accept header, as those of Network are.               *)
Responses == {"transport", "ok", "badStatus", "badType", "badBody"}
Checks == {"status", "type"}
Fails(r) == CASE r = "badStatus" -> {"status"} [] r = "badType" /\ Accept -> {"type"} [] OTHER -> {}

VARIABLES
  caller,       \* how far the chain of Network.itemById is
  validations,  \* Request.validations
  retryCount,   \* Request.retryCount
  task,         \* Request.task: the task of the last attempt, NoTask for none
  wire,         \* wire[t]: what URLSession still has to deliver of task t
  response,     \* response[t]: what the service answered to task t
  requests,     \* SessionDelegate.requests: the tasks the request is found under
  error,        \* whether TaskDelegate.error is set
  data,         \* DataTaskDelegate.mutableData
  retrying,     \* where the conversation with the retriers is
  index,        \* the index of MultiRequestRetrier.should
  suspended,    \* TaskDelegate.queue.isSuspended
  operation,    \* the operation responseJSON adds to that queue
  result,       \* the result it serialized
  outcome       \* what the handler was called with

vars == <<caller, validations, retryCount, task, wire, response, requests, error, data,
          retrying, index, suspended, operation, result, outcome>>

(* The types; in particular retryCount and index stay within their bounds.  *)
TypeOK ==
  /\ caller \in {"idle", "registered", "created", "checked", "chained", "waiting"}
  /\ validations \in SUBSET Checks
  /\ retryCount \in 0..MaxRetries
  /\ task \in Tasks \cup {NoTask}
  /\ wire \in [Tasks -> {"none", "running", "received", "checked", "unknown", "refused",
                      "completed", "finished"}]
  /\ response \in [Tasks -> Responses \cup {NoValue}]
  /\ requests \in SUBSET Tasks
  /\ error \in BOOLEAN
  /\ data \in {NoValue, "good", "bad"}
  /\ retrying \in {"idle", "asking", "delayed", "resumed"}
  /\ index \in 0..Retriers
  /\ suspended \in BOOLEAN
  /\ operation \in {"none", "queued", "main", "called"}
  /\ result \in {NoValue, "success", "failure"}
  /\ outcome \in {NoValue, "success", "failure"}

Init ==
  /\ caller = "idle" /\ validations = {}
  /\ retryCount = 0 /\ task = NoTask /\ requests = {}
  /\ wire = [t \in Tasks |-> "none"] /\ response = [t \in Tasks |-> NoValue]
  /\ error = FALSE /\ data = NoValue
  /\ retrying = "idle" /\ index = 0
  /\ suspended = TRUE /\ operation = "none"
  /\ result = NoValue /\ outcome = NoValue

-------------------------------------------------------------------------------
(* The caller.                                                              *)

(* SessionManager.request: the adapters make the URLRequest, the task is    *)
(* registered, then resumed.                                                *)
Create ==
  /\ caller = "idle" /\ caller' = "registered"
  /\ task' = 1 /\ requests' = {1}
  /\ UNCHANGED <<validations, retryCount, wire, response, error, data, retrying, index,
                 suspended, operation, result, outcome>>
Resume ==
  /\ caller = "registered" /\ caller' = "created"
  /\ wire' = [wire EXCEPT ![1] = "running"]
  /\ UNCHANGED <<validations, retryCount, task, response, requests, error, data, retrying,
                 index, suspended, operation, result, outcome>>

(* An adapter throws: there is no task, and the retriers are asked first.   *)
(* Any other error resumes the request at once, which opens its queue.      *)
CreateFails ==
  /\ caller = "idle" /\ caller' = "created"
  /\ error' = TRUE
  /\ \/ retrying' = "asking" /\ UNCHANGED suspended
     \/ suspended' = FALSE /\ UNCHANGED retrying
  /\ UNCHANGED <<validations, retryCount, task, wire, response, requests, data, index, operation,
                 result, outcome>>

(* validate() appends the two checks, responseJSON adds the operation.      *)
Chain ==
  /\ \/ /\ caller = "created" /\ caller' = "checked"
        /\ validations' = validations \cup {"status"} /\ UNCHANGED operation
     \/ /\ caller = "checked" /\ caller' = "chained"
        /\ validations' = validations \cup {"type"} /\ UNCHANGED operation
     \/ /\ caller = "chained" /\ caller' = "waiting"
        /\ operation' = "queued" /\ UNCHANGED validations
  /\ UNCHANGED <<retryCount, task, wire, response, requests, error, data, retrying, index,
                 suspended, result, outcome>>

-------------------------------------------------------------------------------
(* The delegate queue of URLSession.                                        *)

BodyOf(r) == CASE r = "transport" -> NoValue [] r = "badBody" -> "bad" [] OTHER -> "good"

(* The response and its data arrive.  Data of a task under which no request *)
(* is registered is dropped.                                                *)
Receive(t) ==
  /\ wire[t] = "running"
  /\ wire' = [wire EXCEPT ![t] = "received"]
  /\ \E r \in Responses :
       /\ response' = [response EXCEPT ![t] = r]
       /\ data' = IF t \in requests THEN BodyOf(r) ELSE data
  /\ UNCHANGED <<caller, validations, retryCount, task, requests, error, retrying, index,
                 suspended, operation, result, outcome>>

(* completeTask: the request found under the task, if any, takes the error  *)
(* and opens its queue.  The entry is removed a little later (Forget).      *)
CompleteTask(t, failed) ==
  /\ error' = IF t \in requests THEN error \/ failed ELSE error
  /\ suspended' = IF t \in requests THEN FALSE ELSE suspended
  /\ wire' = [wire EXCEPT ![t] = "completed"]

Forget(t) ==
  /\ wire[t] = "completed"
  /\ wire' = [wire EXCEPT ![t] = "finished"]
  /\ requests' = requests \ {t}
  /\ UNCHANGED <<caller, validations, retryCount, task, response, error, data, retrying,
                 index, suspended, operation, result, outcome>>

(* Any check of the array refuses a response that fails it.                 *)
RefuseIfAllFail(checks, r) == checks # {} /\ checks \subseteq Fails(r)
Refuse(checks, r) == checks \cap Fails(r) # {}

(* didCompleteWithError: with a request registered, the validations run     *)
(* over the array as it is now.  validate looks at the response only when   *)
(* there is one and no error yet.                                           *)
DidComplete(t) ==
  /\ wire[t] = "received"
  /\ IF t \in requests
       THEN /\ wire' = [wire EXCEPT ![t] = "checked"]
            /\ error' = (error \/ Refuse(validations, response[t]))
       ELSE /\ wire' = [wire EXCEPT ![t] = "unknown"]
            /\ UNCHANGED error
  /\ UNCHANGED <<caller, validations, retryCount, task, response, requests, data, retrying,
                 index, suspended, operation, result, outcome>>

(* An error of the validations or of the transport goes to the retriers;    *)
(* a task that succeeded, or that no request was found under, completes.    *)
Decide(t) ==
  /\ \/ /\ wire[t] = "checked" /\ (error \/ response[t] = "transport")
        /\ wire' = [wire EXCEPT ![t] = "refused"]
        /\ retrying' = "asking" /\ index' = 0
        /\ UNCHANGED <<error, suspended>>
     \/ /\ wire[t] = "checked" /\ ~error /\ response[t] # "transport"
        /\ CompleteTask(t, FALSE)
        /\ UNCHANGED <<retrying, index>>
     \/ /\ wire[t] = "unknown"
        /\ CompleteTask(t, response[t] = "transport")
        /\ UNCHANGED <<retrying, index>>
  /\ UNCHANGED <<caller, validations, retryCount, task, response, requests, data, operation,
                 result, outcome>>

-------------------------------------------------------------------------------
(* The retriers, and the utility queue.                                     *)

(* What follows a refusal, or a retry that fails: the task completes with   *)
(* its error; a request that never had a task resumes, which opens its      *)
(* queue.                                                                   *)
GiveUpSilently ==
  /\ retrying' = "idle"
  /\ IF task = NoTask
       THEN error' = TRUE /\ UNCHANGED <<suspended, wire>>
       ELSE CompleteTask(task, TRUE)
GiveUp ==
  /\ retrying' = "idle"
  /\ IF task = NoTask
       THEN suspended' = FALSE /\ error' = TRUE /\ UNCHANGED wire
       ELSE CompleteTask(task, TRUE)

(* MultiRequestRetrier.should: ask the next retrier; the first that says    *)
(* yes decides, and when none is left the answer is no.                     *)
MoreOrLast(i) == i <= Retriers
More(i) == i < Retriers

AskRetrier ==
  /\ retrying = "asking"
  /\ \/ /\ More(index) /\ retryCount < MaxRetries
        /\ retrying' = "delayed" /\ UNCHANGED <<index, wire, error, suspended>>
     \/ /\ More(index) /\ index' = index + 1
        /\ UNCHANGED <<retrying, wire, error, suspended>>
     \/ /\ ~More(index) /\ GiveUp /\ UNCHANGED index
  /\ UNCHANGED <<caller, validations, retryCount, task, response, requests, data, operation,
                 result, outcome>>

(* SessionManager.retry: a new task replaces the old one, whose entry is    *)
(* removed and whose data and error are reset, and is resumed.  Only then   *)
(* do its callers register it (Register).  An adapter may throw again.      *)
ResetError == error' = FALSE /\ UNCHANGED data
ResetAll == error' = FALSE /\ data' = NoValue

Retry ==
  /\ retrying = "delayed"
  /\ \/ /\ retrying' = "resumed" /\ retryCount' = retryCount + 1
        /\ task' = task + 1 /\ requests' = requests \ {task}
        /\ wire' = [t \in Tasks |-> CASE t = task + 1 -> "running"
                                       [] t = task -> "finished"
                                       [] OTHER -> wire[t]]
        /\ ResetAll
        /\ UNCHANGED suspended
     \/ GiveUp /\ UNCHANGED <<retryCount, task, requests, data>>
  /\ UNCHANGED <<caller, validations, response, index, operation, result, outcome>>

Register ==
  /\ retrying = "resumed" /\ retrying' = "idle"
  /\ requests' = requests \cup {task}
  /\ UNCHANGED <<caller, validations, retryCount, task, wire, response, error, data, index,
                 suspended, operation, result, outcome>>

-------------------------------------------------------------------------------
(* The operation queue and the main queue.                                  *)

(* The operation serializes what the task delegate holds, and Network       *)
(* checks the shape of the JSON.                                            *)
Serialize ==
  /\ operation = "queued" /\ ~suspended
  /\ operation' = "main"
  /\ result' = IF ~error /\ data = "good" THEN "success" ELSE "failure"
  /\ UNCHANGED <<caller, validations, retryCount, task, wire, response, requests, error, data,
                 retrying, index, suspended, outcome>>

Handle ==
  /\ operation = "main"
  /\ operation' = "called"
  /\ outcome' = result
  /\ UNCHANGED <<caller, validations, retryCount, task, wire, response, requests, error, data,
                 retrying, index, suspended, result>>

-------------------------------------------------------------------------------
Caller == Create \/ Resume \/ CreateFails \/ Chain
Session(t) == Receive(t) \/ DidComplete(t) \/ Decide(t) \/ Forget(t)
Utility == AskRetrier \/ Retry \/ Register

Next == Caller \/ (\E t \in Tasks : Session(t)) \/ Utility \/ Serialize \/ Handle

(* Threads and queues run, and URLSession delivers every task, with a       *)
(* time-out if need be.                                                     *)
Fairness ==
  /\ WF_vars(Caller) /\ WF_vars(Utility) /\ WF_vars(Serialize) /\ WF_vars(Handle)
  /\ \A t \in Tasks : WF_vars(Session(t))

Spec == Init /\ [][Next]_vars /\ Fairness

-------------------------------------------------------------------------------
(* The last task is over, nobody will act on it, and the queue with the     *)
(* handler stays suspended.                                                 *)
Hung ==
  /\ suspended /\ retrying = "idle"
  /\ task # NoTask /\ wire[task] = "finished"

(* A success is what the service answered to the last attempt: nothing an   *)
(* earlier attempt received, nor an error, is left in the task delegate.    *)
SuccessIsOfLastAttempt ==
  outcome = "success" => task # NoTask /\ response[task] \in Responses \ {"transport", "badBody"}

(* What Validation.swift says of validate(): a response with another status *)
(* or content type gives its handlers an error.                             *)
SuccessIsValidated == outcome = "success" => Fails(response[task]) = {}

ChainedInTime == validations = Checks /\ \A t \in Tasks : wire[t] \in {"none", "running"}

(* When the chain is complete before the first response arrives, a response *)
(* that fails a check is never handed over as a success, retried or not.    *)
ChainedIsValidated == [](ChainedInTime => []SuccessIsValidated)

(* A request can only hang after a retry, whose task completed before it    *)
(* was registered, and only a request that hangs leaves its entry behind.   *)
HangsOnlyByRetry ==
  /\ Hung => retryCount > 0
  /\ task # NoTask /\ wire[task] = "finished" /\ retrying = "idle" /\ requests # {} => Hung

(* The two together: what a retry may not leave behind.                     *)
RetriesAreClean == SuccessIsOfLastAttempt /\ HangsOnlyByRetry

(* The handler is called with one outcome, once, and it is called unless    *)
(* the request hangs, which is for good.  With HangsOnlyByRetry, a request  *)
(* of Network, which has no retriers, always calls its handler: what the    *)
(* loads of both screens wait for.                                          *)
Promise == INSTANCE WriteOnce WITH
  None <- NoValue,
  Outcomes <- {"success", "failure", "hung"},
  outcome <- IF outcome = NoValue /\ Hung THEN "hung" ELSE outcome
(* The request keeps the promise of WriteOnce.                              *)
HandlerCalledOnce == Promise!Spec
===============================================================================
