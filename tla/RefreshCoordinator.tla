------------------------- MODULE RefreshCoordinator -------------------------
(***************************************************************************)
(* src/refresh.rs, with the tasks of src/main.rs and src/api.rs that call  *)
(* it: the observable status document, the enqueue gate, the bounded       *)
(* channel and the one worker task behind it.                              *)
(*                                                                         *)
(* A step is the code between two await points of one task.  A caller      *)
(* takes the gate, reads the status and either answers with the job in     *)
(* flight or publishes a new status and sends the job.  An HTTP caller may *)
(* be dropped at every await point (request deadline, client gone).  A job *)
(* identifier is a fresh number in place of a UUID; 0 is "no job".         *)
(***************************************************************************)
EXTENDS Naturals, Sequences, FiniteSets

CONSTANTS
    ApiCallers,       \* HTTP requests, which may be dropped
    Tasks,            \* the scheduler and the startup task
    Free,             \* the holder of a gate nobody holds
    Capacity,         \* config.refresh_queue_capacity
    MaxCalls,         \* bound: calls of request() over all processes
    MaxRestarts       \* bound: how often the process is replaced

Callers == ApiCallers \cup Tasks

ASSUME CapacityAssumption == Capacity \in Nat \ {0}   \* config.rs clamps it to 1..32
ASSUME FreeAssumption == Free \notin Callers
ASSUME BoundsAssumption == MaxCalls \in Nat /\ MaxRestarts \in Nat

VARIABLES
    allowed,          \* config.refresh_allowed(): fixed when the process starts
    up,               \* FALSE once the server has shut down and tasks are dropped
    status,           \* the RefreshStatus document
    gate,             \* who holds enqueue_gate
    queue,            \* the channel's content
    worker,           \* the worker task: where it is and the job it took
    pc,               \* pc[c]: the await point caller c is at
    ticket,           \* ticket[c]: the local job_id of caller c
    reply,            \* reply[c]: what c was told last
    issued, calls, restarts

vars == <<allowed, up, status, gate, queue, worker, pc, ticket, reply, issued, calls, restarts>>

\* The fields of the document the properties tell apart: report is the job the
\* report is of, 0 when there is none; error says whether an error is shown.
DefaultStatus == [state |-> "idle", job |-> 0, report |-> 0, error |-> FALSE]

Busy == status.state \in {"queued", "running"}

Fresh ==
    /\ allowed \in BOOLEAN
    /\ up = TRUE
    /\ status = [DefaultStatus EXCEPT !.state = IF allowed THEN "idle" ELSE "disabled"]
    /\ gate = Free
    /\ queue = <<>>
    /\ worker = [at |-> IF allowed THEN "recv" ELSE "none", job |-> 0]
    /\ pc = [c \in Callers |-> "idle"]
    /\ ticket = [c \in Callers |-> 0]
    /\ reply = [c \in Callers |-> [kind |-> "none", job |-> 0]]

Init == Fresh /\ issued = 0 /\ calls = 0 /\ restarts = 0

-----------------------------------------------------------------------------
(* request() *)

Answer(c, kind, job) == reply' = [reply EXCEPT ![c] = [kind |-> kind, job |-> job]]

Return(c) == pc' = [pc EXCEPT ![c] = "idle"]

\* The call up to the gate. Without a sender it is refused at once; the two
\* tasks of main.rs exist only when refreshes are allowed.
Call(c) ==
    /\ up /\ pc[c] = "idle"
    /\ calls < MaxCalls
    /\ calls' = calls + 1
    /\ ticket' = [ticket EXCEPT ![c] = 0]
    /\ \/ /\ allowed
          /\ pc' = [pc EXCEPT ![c] = "gate"]
          /\ Answer(c, "pending", 0)
       \/ /\ ~allowed
          /\ c \in ApiCallers
          /\ Answer(c, "refused", 0)
          /\ UNCHANGED pc
    /\ UNCHANGED <<allowed, up, status, gate, queue, worker, issued, restarts>>

\* Variant: no gate.
AcquireUngated(c) ==
    /\ pc[c] = "gate"
    /\ gate' = c
    /\ pc' = [pc EXCEPT ![c] = "check"]
    /\ UNCHANGED <<allowed, up, status, queue, worker, ticket, reply, issued, calls, restarts>>

Acquire(c) ==
    /\ pc[c] = "gate"
    /\ gate = Free
    /\ gate' = c
    /\ pc' = [pc EXCEPT ![c] = "check"]
    /\ UNCHANGED <<allowed, up, status, queue, worker, ticket, reply, issued, calls, restarts>>

\* Variant: coalesces only with a job that already runs.
CheckRunningOnly(c) ==
    /\ pc[c] = "check"
    /\ \/ /\ status.state = "running"
          /\ Answer(c, "coalesced", status.job)
          /\ Return(c)
          /\ gate' = Free
       \/ /\ status.state # "running"
          /\ pc' = [pc EXCEPT ![c] = "publish"]
          /\ UNCHANGED <<reply, gate>>
    /\ UNCHANGED <<allowed, up, status, queue, worker, ticket, issued, calls, restarts>>

Check(c) ==
    /\ pc[c] = "check"
    /\ \/ /\ Busy
          /\ Answer(c, "coalesced", status.job)
          /\ Return(c)
          /\ gate' = Free
       \/ /\ ~Busy
          /\ pc' = [pc EXCEPT ![c] = "publish"]
          /\ UNCHANGED <<reply, gate>>
    /\ UNCHANGED <<allowed, up, status, queue, worker, ticket, issued, calls, restarts>>

\* The new document, before the job is sent.
Publish(c) ==
    /\ pc[c] = "publish"
    /\ issued' = issued + 1
    /\ ticket' = [ticket EXCEPT ![c] = issued']
    /\ status' = [DefaultStatus EXCEPT !.state = "queued", !.job = issued']
    /\ pc' = [pc EXCEPT ![c] = "send"]
    /\ UNCHANGED <<allowed, up, gate, queue, worker, reply, calls, restarts>>

\* try_send fails on a full channel and on one whose receiver is gone.
CanSend == worker.at # "gone" /\ Len(queue) < Capacity

TrySend(c) ==
    /\ pc[c] = "send"
    /\ \/ /\ CanSend
          /\ queue' = Append(queue, ticket[c])
          /\ Answer(c, "accepted", ticket[c])
          /\ Return(c)
          /\ gate' = Free
       \/ /\ ~CanSend
          /\ pc' = [pc EXCEPT ![c] = "rollback"]
          /\ UNCHANGED <<queue, reply, gate>>
    /\ UNCHANGED <<allowed, up, status, worker, ticket, issued, calls, restarts>>

Rollback(c) ==
    /\ pc[c] = "rollback"
    /\ status' = DefaultStatus
    /\ Answer(c, "refused", 0)
    /\ Return(c)
    /\ gate' = Free
    /\ UNCHANGED <<allowed, up, queue, worker, ticket, issued, calls, restarts>>

AwaitPoints == {"gate", "check", "publish", "rollback"}

\* Variant: the call can also be abandoned between the status and the send.
DropBeforeSend(c) ==
    /\ pc[c] \in AwaitPoints \cup {"send"}
    /\ c \in ApiCallers \/ ~up
    /\ Return(c)
    /\ Answer(c, "dropped", 0)
    /\ gate' = IF gate = c THEN Free ELSE gate
    /\ UNCHANGED <<allowed, up, status, queue, worker, ticket, issued, calls, restarts>>

\* Variant: the dropped future leaves the gate locked.
DropKeepsGate(c) ==
    /\ pc[c] \in AwaitPoints
    /\ c \in ApiCallers \/ ~up
    /\ Return(c)
    /\ Answer(c, "dropped", 0)
    /\ UNCHANGED <<allowed, up, status, gate, queue, worker, ticket, issued, calls, restarts>>

\* The future of request() is dropped where it waits: an HTTP request at its
\* deadline or when the client leaves, any task once the runtime shuts down.
\* The guard of the gate is dropped with it.
Drop(c) ==
    /\ pc[c] \in AwaitPoints
    /\ c \in ApiCallers \/ ~up
    /\ Return(c)
    /\ Answer(c, "dropped", 0)
    /\ gate' = IF gate = c THEN Free ELSE gate
    /\ UNCHANGED <<allowed, up, status, queue, worker, ticket, issued, calls, restarts>>

-----------------------------------------------------------------------------
(* worker() *)

Receive ==
    /\ worker.at = "recv"
    /\ queue # <<>>
    /\ worker' = [at |-> "start", job |-> Head(queue)]
    /\ queue' = Tail(queue)
    /\ UNCHANGED <<allowed, up, status, gate, pc, ticket, reply, issued, calls, restarts>>

\* Variant: writes the name of its own step into the document.
StartMislabelled ==
    /\ worker.at = "start"
    /\ worker' = [worker EXCEPT !.at = "execute"]
    /\ status' = [status EXCEPT !.state = worker'.at, !.error = FALSE]
    /\ UNCHANGED <<allowed, up, gate, queue, pc, ticket, reply, issued, calls, restarts>>

\* The worker marks the document as running and leaves its job_id alone.
Start ==
    /\ worker.at = "start"
    /\ status' = [status EXCEPT !.state = "running", !.error = FALSE]
    /\ worker' = [worker EXCEPT !.at = "execute"]
    /\ UNCHANGED <<allowed, up, gate, queue, pc, ticket, reply, issued, calls, restarts>>

\* execute_refresh: only the retention cleanup makes it fail. SourceRuns models what
\* happens inside, the panic that ends the worker included.
Execute ==
    /\ worker.at = "execute"
    /\ \E verdict \in {"completed", "failed"} : worker' = [worker EXCEPT !.at = verdict]
    /\ UNCHANGED <<allowed, up, status, gate, queue, pc, ticket, reply, issued, calls, restarts>>

\* Variant: the verdict without the report.
FinishLosesReport ==
    /\ worker.at \in {"completed", "failed"}
    /\ status' = [status EXCEPT !.state = worker.at,
                                !.error = (worker.at = "failed")]
    /\ worker' = [at |-> "recv", job |-> 0]
    /\ UNCHANGED <<allowed, up, gate, queue, pc, ticket, reply, issued, calls, restarts>>

Finish ==
    /\ worker.at \in {"completed", "failed"}
    /\ status' = [status EXCEPT !.state = worker.at,
                                !.report = IF worker.at = "completed" THEN worker.job ELSE @,
                                !.error = (worker.at = "failed")]
    /\ worker' = [at |-> "recv", job |-> 0]
    /\ UNCHANGED <<allowed, up, gate, queue, pc, ticket, reply, issued, calls, restarts>>

-----------------------------------------------------------------------------
(* The process *)

\* axum's graceful shutdown returns when no HTTP request is left; main then
\* returns and the runtime drops the remaining tasks one by one.
Shutdown ==
    /\ up
    /\ restarts < MaxRestarts
    /\ \A c \in ApiCallers : pc[c] = "idle"
    /\ up' = FALSE
    /\ UNCHANGED <<allowed, status, gate, queue, worker, pc, ticket, reply, issued, calls, restarts>>

DropWorker ==
    /\ ~up
    /\ worker.at \notin {"none", "gone"}
    /\ worker' = [at |-> "gone", job |-> 0]
    /\ queue' = <<>>
    /\ UNCHANGED <<allowed, up, status, gate, pc, ticket, reply, issued, calls, restarts>>

\* The next process: nothing of the coordinator is persisted.
Replace ==
    /\ restarts < MaxRestarts
    /\ restarts' = restarts + 1
    /\ allowed' \in BOOLEAN
    /\ up' = TRUE
    /\ status' = [DefaultStatus EXCEPT !.state = IF allowed' THEN "idle" ELSE "disabled"]
    /\ gate' = Free
    /\ queue' = <<>>
    /\ worker' = [at |-> IF allowed' THEN "recv" ELSE "none", job |-> 0]
    /\ pc' = [c \in Callers |-> "idle"]
    /\ ticket' = [c \in Callers |-> 0]
    /\ reply' = [c \in Callers |-> [kind |-> "none", job |-> 0]]
    /\ UNCHANGED <<issued, calls>>

Request(c) == Call(c) \/ Acquire(c) \/ Check(c) \/ Publish(c) \/ TrySend(c) \/ Rollback(c) \/ Drop(c)

Worker == Receive \/ Start \/ Execute \/ Finish

Next ==
    \/ \E c \in Callers : Request(c)
    \/ Worker
    \/ Shutdown
    \/ DropWorker
    \/ Replace

\* The runtime polls every task it has woken; tokio's Mutex is first come,
\* first served (hence SF); execute_refresh ends because every adapter, HTTP
\* attempt and lock wait in it has a deadline; a process that has shut down exits.
Fairness ==
    /\ \A c \in Callers :
          /\ WF_vars(Check(c)) /\ WF_vars(Publish(c)) /\ WF_vars(TrySend(c)) /\ WF_vars(Rollback(c))
          /\ SF_vars(Acquire(c))
    /\ WF_vars(Worker)
    /\ WF_vars(~up /\ Replace)

Spec == Init /\ [][Next]_vars

FairSpec == Spec /\ Fairness

-----------------------------------------------------------------------------
(* Properties *)

Documents ==
    [state : {"idle", "disabled", "queued", "running", "completed", "failed"},
     job : Nat, report : Nat, error : BOOLEAN]

WorkerStates ==
    [at : {"none", "recv", "start", "execute", "completed", "failed", "gone"}, job : Nat]

Replies ==
    [kind : {"none", "pending", "accepted", "coalesced", "refused", "dropped"}, job : Nat]

\* Every variable in its range; the channel never holds more than its capacity.
TypeOK ==
    /\ allowed \in BOOLEAN /\ up \in BOOLEAN
    /\ status \in Documents
    /\ gate \in Callers \cup {Free}
    /\ queue \in Seq(Nat) /\ Len(queue) <= Capacity
    /\ worker \in WorkerStates
    /\ pc \in [Callers -> AwaitPoints \cup {"idle", "send"}]
    /\ ticket \in [Callers -> Nat]
    /\ reply \in [Callers -> Replies]
    /\ issued \in Nat /\ calls \in Nat /\ restarts \in Nat

Working == worker.at \in {"start", "execute", "completed", "failed"}

\* At most one job is between its publication and its verdict, whoever asks and
\* however requests, drops and the worker interleave: the enqueue gate and the
\* coalescing test of request() are what guarantees it.
OneJobInFlight ==
    /\ Len(queue) <= 1
    /\ Working => queue = <<>>
    /\ \A c \in Callers : pc[c] = "send" => queue = <<>> /\ ~Working

\* GET /api/v1/refresh/status is never about another job than the one in the
\* channel or in the worker, although the worker never writes job_id, and the
\* report it carries is the report of the job it names.
StatusIsTruthful ==
    /\ queue # <<>> => status.state = "queued" /\ status.job = Head(queue)
    /\ worker.at = "start" => status.state = "queued" /\ status.job = worker.job
    /\ worker.at \in {"execute", "completed", "failed"} =>
          status.state = "running" /\ status.job = worker.job
    /\ Busy => status.job # 0 /\ status.report = 0 /\ ~status.error
    /\ status.state = "completed" => status.report = status.job /\ ~status.error
    /\ status.state = "failed" => status.report = 0 /\ status.error

\* A status that makes every later request coalesce has a job behind it that
\* will change it again: in the channel, in the worker, or about to be sent into
\* a channel with room. Were it otherwise, refreshing would be over for good.
BusyIsBacked ==
    up /\ Busy =>
        \/ queue # <<>>
        \/ Working
        \/ \E c \in Callers : pc[c] = "send" /\ CanSend

\* While the process is up, only the worker ends a job, and only the job whose
\* refresh it has executed: no request, drop or failed send takes a job away.
VerdictOnlyFromWorker ==
    [][Busy /\ up /\ restarts' = restarts /\ (~Busy' \/ status'.job # status.job) =>
         worker.at \in {"completed", "failed"} /\ worker.job = status.job]_vars

\* The coordinator is a single-flight service: a caller in its send step has
\* claimed the job it published, a dropped caller counts as refused.
Service == INSTANCE SingleFlight WITH
    open    <- up,
    current <- IF Busy THEN status.job ELSE 0,
    claim   <- [c \in Callers |-> IF pc[c] \in {"send", "rollback"} THEN ticket[c] ELSE 0],
    answer  <- [c \in Callers |-> IF reply[c].kind = "dropped"
                                  THEN [kind |-> "refused", job |-> 0] ELSE reply[c]]

ImplementsSingleFlight == Service!Spec

\* Every job gets its verdict or ends with its process.
JobsEnd == \A j \in 1..MaxCalls : Busy /\ status.job = j ~> ~(Busy /\ status.job = j)

\* Every call returns, is dropped or ends with its process: nobody waits on the
\* gate for ever.
CallsReturn == \A c \in Callers : pc[c] # "idle" ~> pc[c] = "idle"
=============================================================================
