---------------------- MODULE RefreshCoordinatorProofs ----------------------
(***************************************************************************)
(* Proofs about RefreshCoordinator, for every number of callers, every     *)
(* channel capacity and any number of calls and restarts.                  *)
(*                                                                         *)
(* The safety properties are not inductive by themselves.  What carries    *)
(* them is who may be where: the caller that holds the gate and has found  *)
(* the coordinator idle still finds it idle when it publishes, because     *)
(* nothing but the gate's holder makes it busy (GateInv, PublishInv), and  *)
(* finds the channel empty when it sends (SendInv).                        *)
(***************************************************************************)
EXTENDS RefreshCoordinator, TLAPS

\* Every caller past the gate is the gate's holder.
GateInv == \A c \in Callers : pc[c] \in {"check", "publish", "send", "rollback"} => gate = c

\* Between its test and its publication a caller keeps the coordinator idle.
PublishInv == \A c \in Callers : pc[c] = "publish" => ~Busy

\* Between publication and send, the document is about the caller's job and
\* nothing is in the channel or in the worker.
SendInv == \A c \in Callers : pc[c] \in {"send", "rollback"} =>
    /\ status.state = "queued" /\ status.job = ticket[c] /\ ticket[c] # 0
    /\ queue = <<>> /\ ~Working
    /\ reply[c].kind = "pending"

\* A send fails only in a process that is going down.
RollbackInv == \A c \in Callers : pc[c] = "rollback" => ~up

\* A caller inside request() waits for its answer.
PendingInv == \A c \in Callers : pc[c] # "idle" <=> reply[c].kind = "pending"

\* Without permission to refresh there is neither worker nor request.
AllowedInv ==
    /\ ~allowed => /\ worker.at = "none"
                   /\ \A c \in Callers : pc[c] = "idle" /\ reply[c].kind \in {"none", "refused"}
    /\ allowed => worker.at # "none"
    /\ up => worker.at # "gone"

IInv ==
    /\ TypeOK
    /\ OneJobInFlight
    /\ StatusIsTruthful
    /\ BusyIsBacked
    /\ GateInv
    /\ PublishInv
    /\ SendInv
    /\ RollbackInv
    /\ PendingInv
    /\ AllowedInv

-----------------------------------------------------------------------------
(* The initial states *)

LEMMA InitIInv == Init => IInv
<1> SUFFICES ASSUME Init PROVE IInv
  OBVIOUS
<1> USE DEF Init, Fresh, DefaultStatus
<1>1. TypeOK
  <2>1. status \in Documents
    BY DEF Documents
  <2>2. queue \in Seq(Nat) /\ Len(queue) <= Capacity
    BY CapacityAssumption
  <2>3. worker \in WorkerStates
    BY DEF WorkerStates
  <2>4. reply \in [Callers -> Replies]
    BY DEF Replies
  <2>5. pc \in [Callers -> AwaitPoints \cup {"idle", "send"}] /\ ticket \in [Callers -> Nat]
    BY DEF AwaitPoints
  <2>6. allowed \in BOOLEAN /\ up \in BOOLEAN /\ gate \in Callers \cup {Free}
    OBVIOUS
  <2>7. issued \in Nat /\ calls \in Nat /\ restarts \in Nat
    OBVIOUS
  <2> QED
    BY <2>1, <2>2, <2>3, <2>4, <2>5, <2>6, <2>7 DEF TypeOK
<1>2. OneJobInFlight /\ StatusIsTruthful /\ BusyIsBacked
  BY DEF OneJobInFlight, StatusIsTruthful, BusyIsBacked, Busy, Working
<1>3. GateInv /\ PublishInv /\ SendInv /\ RollbackInv /\ PendingInv /\ AllowedInv
  BY DEF GateInv, PublishInv, SendInv, RollbackInv, PendingInv, AllowedInv
<1> QED
  BY <1>1, <1>2, <1>3 DEF IInv

-----------------------------------------------------------------------------
(* One lemma per step of the code *)

LEMMA AnswerType ==
  ASSUME TypeOK, NEW c \in Callers,
         NEW k \in {"pending", "accepted", "coalesced", "refused", "dropped"},
         NEW j \in Nat, Answer(c, k, j)
  PROVE  reply' \in [Callers -> Replies]
BY DEF TypeOK, Answer, Replies

\* A call only announces itself.
LEMMA CallStep == ASSUME IInv, NEW c \in Callers, Call(c) PROVE IInv'
<1>1. TypeOK'
  <2>1. reply' \in [Callers -> Replies]
    BY AnswerType DEF IInv, Call
  <2>2. pc' \in [Callers -> AwaitPoints \cup {"idle", "send"}]
    BY CapacityAssumption DEF IInv, TypeOK, Call, AwaitPoints, Return
  <2>3. ticket' \in [Callers -> Nat]
    BY CapacityAssumption DEF IInv, TypeOK, Call
  <2> QED
    BY <2>1, <2>2, <2>3, CapacityAssumption DEF IInv, TypeOK, Call
<1> USE FreeAssumption, CapacityAssumption DEF Call, Busy, Working, CanSend, Answer, Return, DefaultStatus, AwaitPoints
<1>2. PendingInv'
  <2> SUFFICES ASSUME NEW d \in Callers
               PROVE  (pc[d] # "idle" <=> reply[d].kind = "pending")'
    BY DEF PendingInv
  <2>1. CASE d = c
    BY <2>1 DEF IInv, TypeOK, PendingInv
  <2>2. CASE d # c
    BY <2>2 DEF IInv, TypeOK, PendingInv
  <2> QED
    BY <2>1, <2>2
<1>3. (OneJobInFlight /\ StatusIsTruthful /\ BusyIsBacked /\ GateInv /\ PublishInv /\ SendInv /\ RollbackInv /\ AllowedInv)'
  BY DEF IInv, TypeOK, Documents, WorkerStates, Replies, OneJobInFlight, StatusIsTruthful, BusyIsBacked, GateInv, PublishInv, SendInv, RollbackInv, PendingInv, AllowedInv
<1> QED
  BY <1>1, <1>2, <1>3 DEF IInv

\* The gate's new holder is the only caller past the gate.
LEMMA AcquireStep == ASSUME IInv, NEW c \in Callers, Acquire(c) PROVE IInv'
<1>1. TypeOK'
  <2>1. pc' \in [Callers -> AwaitPoints \cup {"idle", "send"}]
    BY CapacityAssumption DEF IInv, TypeOK, Acquire, AwaitPoints, Return
  <2> QED
    BY <2>1, CapacityAssumption DEF IInv, TypeOK, Acquire
<1> USE FreeAssumption, CapacityAssumption DEF Acquire, Busy, Working, CanSend, Answer, Return, DefaultStatus, AwaitPoints
<1>2. GateInv'
  BY DEF IInv, TypeOK, Documents, WorkerStates, Replies, GateInv
<1>3. (OneJobInFlight /\ StatusIsTruthful /\ BusyIsBacked /\ PublishInv /\ SendInv /\ RollbackInv /\ PendingInv /\ AllowedInv)'
  BY DEF IInv, TypeOK, Documents, WorkerStates, Replies, OneJobInFlight, StatusIsTruthful, BusyIsBacked, GateInv, PublishInv, SendInv, RollbackInv, PendingInv, AllowedInv
<1> QED
  BY <1>1, <1>2, <1>3 DEF IInv

\* A caller goes on to publish only from an idle coordinator.
LEMMA CheckStep == ASSUME IInv, NEW c \in Callers, Check(c) PROVE IInv'
<1>1. TypeOK'
  <2>1. reply' \in [Callers -> Replies]
    BY AnswerType DEF IInv, TypeOK, Check, Documents
  <2>2. pc' \in [Callers -> AwaitPoints \cup {"idle", "send"}]
    BY CapacityAssumption DEF IInv, TypeOK, Check, AwaitPoints, Return
  <2> QED
    BY <2>1, <2>2, CapacityAssumption DEF IInv, TypeOK, Check
<1> USE FreeAssumption, CapacityAssumption DEF Check, Busy, Working, CanSend, Answer, Return, DefaultStatus, AwaitPoints
<1>2. PublishInv'
  BY DEF IInv, TypeOK, Documents, WorkerStates, Replies, PublishInv, GateInv, SendInv, StatusIsTruthful
<1>3. GateInv'
  BY DEF IInv, TypeOK, Documents, WorkerStates, Replies, GateInv
<1>4. PendingInv'
  BY DEF IInv, TypeOK, Documents, WorkerStates, Replies, PendingInv, GateInv
<1>5. (OneJobInFlight /\ StatusIsTruthful /\ BusyIsBacked /\ SendInv /\ RollbackInv /\ AllowedInv)'
  BY DEF IInv, TypeOK, Documents, WorkerStates, Replies, OneJobInFlight, StatusIsTruthful, BusyIsBacked, GateInv, PublishInv, SendInv, RollbackInv, PendingInv, AllowedInv
<1> QED
  BY <1>1, <1>2, <1>3, <1>4, <1>5 DEF IInv

\* The coordinator is idle, so nothing is in the channel or in the worker.
LEMMA PublishStep == ASSUME IInv, NEW c \in Callers, Publish(c) PROVE IInv'
<1>1. TypeOK'
  <2>1. status' \in Documents
    <3>1. issued + 1 \in Nat
      BY DEF IInv, TypeOK
    <3>2. status' = [state |-> "queued", job |-> issued + 1, report |-> 0, error |-> FALSE]
      BY DEF Publish, DefaultStatus
    <3> QED
      BY <3>1, <3>2 DEF Documents
  <2>2. pc' \in [Callers -> AwaitPoints \cup {"idle", "send"}]
    BY CapacityAssumption DEF IInv, TypeOK, Publish, AwaitPoints, Return
  <2>3. ticket' \in [Callers -> Nat]
    BY CapacityAssumption DEF IInv, TypeOK, Publish
  <2> QED
    BY <2>1, <2>2, <2>3, CapacityAssumption DEF IInv, TypeOK, Publish
<1> USE FreeAssumption, CapacityAssumption DEF Publish, Busy, Working, CanSend, Answer, Return, DefaultStatus, AwaitPoints
<1>2. OneJobInFlight'
  BY DEF IInv, TypeOK, Documents, WorkerStates, Replies, OneJobInFlight, StatusIsTruthful, SendInv, GateInv, PublishInv
<1>3. StatusIsTruthful'
  BY DEF IInv, TypeOK, Documents, WorkerStates, Replies, StatusIsTruthful, OneJobInFlight, SendInv, PublishInv, GateInv
<1>4. BusyIsBacked'
  BY DEF IInv, TypeOK, Documents, WorkerStates, Replies, BusyIsBacked, StatusIsTruthful, OneJobInFlight, SendInv, RollbackInv, GateInv, AllowedInv
<1>5. PublishInv'
  BY DEF IInv, TypeOK, Documents, WorkerStates, Replies, PublishInv, GateInv, SendInv, StatusIsTruthful
<1>6. SendInv'
  BY DEF IInv, TypeOK, Documents, WorkerStates, Replies, SendInv, GateInv, PublishInv, StatusIsTruthful, OneJobInFlight, PendingInv
<1>7. (GateInv /\ RollbackInv /\ PendingInv /\ AllowedInv)'
  BY DEF IInv, TypeOK, Documents, WorkerStates, Replies, OneJobInFlight, StatusIsTruthful, BusyIsBacked, GateInv, PublishInv, SendInv, RollbackInv, PendingInv, AllowedInv
<1> QED
  BY <1>1, <1>2, <1>3, <1>4, <1>5, <1>6, <1>7 DEF IInv

\* The channel is empty and a live worker reads it: the send succeeds.
LEMMA TrySendStep == ASSUME IInv, NEW c \in Callers, TrySend(c) PROVE IInv'
<1>1. TypeOK'
  <2>1. queue' \in Seq(Nat) /\ Len(queue') <= Capacity
    <3>1. CASE CanSend
      <4>1. queue' = <<ticket[c]>>
        BY <3>1 DEF IInv, SendInv, TrySend
      <4> QED
        BY <4>1, CapacityAssumption DEF IInv, TypeOK
    <3>2. CASE ~CanSend
      BY <3>2 DEF IInv, TypeOK, TrySend
    <3> QED
      BY <3>1, <3>2
  <2>2. reply' \in [Callers -> Replies]
    BY AnswerType DEF IInv, TypeOK, TrySend
  <2>3. pc' \in [Callers -> AwaitPoints \cup {"idle", "send"}]
    BY CapacityAssumption DEF IInv, TypeOK, TrySend, AwaitPoints, Return
  <2> QED
    BY <2>1, <2>2, <2>3, CapacityAssumption DEF IInv, TypeOK, TrySend
<1> USE FreeAssumption, CapacityAssumption DEF TrySend, Busy, Working, CanSend, Answer, Return, DefaultStatus, AwaitPoints
<1>2. OneJobInFlight'
  <2>1. CASE CanSend
    <3>1. queue = <<>> /\ ~Working
      BY DEF IInv, SendInv
    <3>2. queue' = <<ticket[c]>> /\ ~Working'
      BY <2>1, <3>1
    <3>3. \A d \in Callers : pc'[d] # "send"
      BY <2>1 DEF IInv, TypeOK, GateInv
    <3> QED
      BY <3>2, <3>3 DEF OneJobInFlight
  <2>2. CASE ~CanSend
    BY <2>2 DEF IInv, TypeOK, OneJobInFlight
  <2> QED
    BY <2>1, <2>2
<1>3. StatusIsTruthful'
  BY DEF IInv, TypeOK, Documents, WorkerStates, Replies, StatusIsTruthful, OneJobInFlight, SendInv, PublishInv, GateInv
<1>4. BusyIsBacked'
  BY DEF IInv, TypeOK, Documents, WorkerStates, Replies, BusyIsBacked, StatusIsTruthful, OneJobInFlight, SendInv, RollbackInv, GateInv, AllowedInv
<1>5. SendInv'
  BY DEF IInv, TypeOK, Documents, WorkerStates, Replies, SendInv, GateInv, PublishInv, StatusIsTruthful, OneJobInFlight, PendingInv
<1>6. RollbackInv'
  BY DEF IInv, TypeOK, Documents, WorkerStates, Replies, RollbackInv, SendInv, BusyIsBacked, AllowedInv, GateInv
<1>7. PendingInv'
  <2> SUFFICES ASSUME NEW d \in Callers
               PROVE  (pc[d] # "idle" <=> reply[d].kind = "pending")'
    BY DEF PendingInv
  <2>1. CASE d = c
    BY <2>1 DEF IInv, TypeOK, PendingInv, SendInv
  <2>2. CASE d # c
    BY <2>2 DEF IInv, TypeOK, PendingInv
  <2> QED
    BY <2>1, <2>2
<1>8. (GateInv /\ PublishInv /\ AllowedInv)'
  BY DEF IInv, TypeOK, GateInv, PublishInv, AllowedInv
<1> QED
  BY <1>1, <1>2, <1>3, <1>4, <1>5, <1>6, <1>7, <1>8 DEF IInv

\* Taking the document back touches no job: none was sent.
LEMMA RollbackStep == ASSUME IInv, NEW c \in Callers, Rollback(c) PROVE IInv'
<1>1. TypeOK'
  <2>1. reply' \in [Callers -> Replies]
    BY CapacityAssumption DEF IInv, TypeOK, Rollback, Replies, Answer, Documents
  <2>2. pc' \in [Callers -> AwaitPoints \cup {"idle", "send"}]
    BY CapacityAssumption DEF IInv, TypeOK, Rollback, AwaitPoints, Return
  <2>3. status' \in Documents
    BY CapacityAssumption DEF IInv, TypeOK, Rollback, Documents, DefaultStatus
  <2> QED
    BY <2>1, <2>2, <2>3, CapacityAssumption DEF IInv, TypeOK, Rollback
<1> USE FreeAssumption, CapacityAssumption DEF Rollback, Busy, Working, CanSend, Answer, Return, DefaultStatus, AwaitPoints
<1>2. StatusIsTruthful'
  BY DEF IInv, TypeOK, Documents, WorkerStates, Replies, StatusIsTruthful, OneJobInFlight, SendInv, PublishInv, GateInv
<1>3. BusyIsBacked'
  BY DEF IInv, TypeOK, Documents, WorkerStates, Replies, BusyIsBacked, StatusIsTruthful, OneJobInFlight, SendInv, RollbackInv, GateInv, AllowedInv
<1>4. PublishInv'
  BY DEF IInv, TypeOK, Documents, WorkerStates, Replies, PublishInv, GateInv, SendInv, StatusIsTruthful
<1>5. SendInv'
  BY DEF IInv, TypeOK, Documents, WorkerStates, Replies, SendInv, GateInv, PublishInv, StatusIsTruthful, OneJobInFlight, PendingInv
<1>6. PendingInv'
  BY DEF IInv, TypeOK, Documents, WorkerStates, Replies, PendingInv, GateInv
<1>7. (OneJobInFlight /\ GateInv /\ RollbackInv /\ AllowedInv)'
  BY DEF IInv, TypeOK, Documents, WorkerStates, Replies, OneJobInFlight, StatusIsTruthful, BusyIsBacked, GateInv, PublishInv, SendInv, RollbackInv, PendingInv, AllowedInv
<1> QED
  BY <1>1, <1>2, <1>3, <1>4, <1>5, <1>6, <1>7 DEF IInv

\* A dropped caller had no job in the channel.
LEMMA DropStep == ASSUME IInv, NEW c \in Callers, Drop(c) PROVE IInv'
<1>1. TypeOK'
  <2>1. reply' \in [Callers -> Replies]
    BY CapacityAssumption DEF IInv, TypeOK, Drop, Replies, Answer, Documents
  <2>2. pc' \in [Callers -> AwaitPoints \cup {"idle", "send"}]
    BY CapacityAssumption DEF IInv, TypeOK, Drop, AwaitPoints, Return
  <2> QED
    BY <2>1, <2>2, CapacityAssumption DEF IInv, TypeOK, Drop
<1> USE FreeAssumption, CapacityAssumption DEF Drop, Busy, Working, CanSend, Answer, Return, DefaultStatus, AwaitPoints
<1>2. BusyIsBacked'
  BY DEF IInv, TypeOK, Documents, WorkerStates, Replies, BusyIsBacked, StatusIsTruthful, OneJobInFlight, SendInv, RollbackInv, GateInv, AllowedInv
<1>3. GateInv'
  BY DEF IInv, TypeOK, Documents, WorkerStates, Replies, GateInv
<1>4. PendingInv'
  BY DEF IInv, TypeOK, Documents, WorkerStates, Replies, PendingInv, GateInv
<1>5. (OneJobInFlight /\ StatusIsTruthful /\ PublishInv /\ SendInv /\ RollbackInv /\ AllowedInv)'
  BY DEF IInv, TypeOK, Documents, WorkerStates, Replies, OneJobInFlight, StatusIsTruthful, BusyIsBacked, GateInv, PublishInv, SendInv, RollbackInv, PendingInv, AllowedInv
<1> QED
  BY <1>1, <1>2, <1>3, <1>4, <1>5 DEF IInv

\* The job moves from the channel to the worker.
LEMMA ReceiveStep == ASSUME IInv, Receive PROVE IInv'
<1>1. TypeOK'
  <2>1. queue' \in Seq(Nat) /\ Len(queue') <= Capacity
    BY CapacityAssumption DEF IInv, TypeOK, Receive, CanSend, WorkerStates
  <2>2. worker' \in WorkerStates
    BY CapacityAssumption DEF IInv, TypeOK, Receive, WorkerStates
  <2> QED
    BY <2>1, <2>2, CapacityAssumption DEF IInv, TypeOK, Receive
<1> USE FreeAssumption, CapacityAssumption DEF Receive, Busy, Working, CanSend, Answer, Return, DefaultStatus, AwaitPoints
<1>2. OneJobInFlight'
  BY DEF IInv, TypeOK, Documents, WorkerStates, Replies, OneJobInFlight, StatusIsTruthful, SendInv, GateInv
<1>3. StatusIsTruthful'
  BY DEF IInv, TypeOK, Documents, WorkerStates, Replies, StatusIsTruthful, OneJobInFlight, SendInv, PublishInv, GateInv
<1>4. BusyIsBacked'
  BY DEF IInv, TypeOK, Documents, WorkerStates, Replies, BusyIsBacked, StatusIsTruthful, OneJobInFlight, SendInv, RollbackInv, GateInv, AllowedInv
<1>5. (GateInv /\ PublishInv /\ SendInv /\ RollbackInv /\ PendingInv /\ AllowedInv)'
  BY DEF IInv, TypeOK, Documents, WorkerStates, Replies, OneJobInFlight, StatusIsTruthful, BusyIsBacked, GateInv, PublishInv, SendInv, RollbackInv, PendingInv, AllowedInv
<1> QED
  BY <1>1, <1>2, <1>3, <1>4, <1>5 DEF IInv

\* The document still names the worker's job.
LEMMA StartStep == ASSUME IInv, Start PROVE IInv'
<1>1. TypeOK'
  <2>1. status' \in Documents
    BY CapacityAssumption DEF IInv, TypeOK, Start, Documents, DefaultStatus
  <2>2. worker' \in WorkerStates
    BY CapacityAssumption DEF IInv, TypeOK, Start, WorkerStates
  <2> QED
    BY <2>1, <2>2, CapacityAssumption DEF IInv, TypeOK, Start
<1> USE FreeAssumption, CapacityAssumption DEF Start, Busy, Working, CanSend, Answer, Return, DefaultStatus, AwaitPoints
<1>2. StatusIsTruthful'
  BY DEF IInv, TypeOK, Documents, WorkerStates, Replies, StatusIsTruthful, OneJobInFlight, SendInv, PublishInv, GateInv
<1>3. PublishInv'
  BY DEF IInv, TypeOK, Documents, WorkerStates, Replies, PublishInv, GateInv, SendInv, StatusIsTruthful
<1>4. SendInv'
  BY DEF IInv, TypeOK, Documents, WorkerStates, Replies, SendInv, GateInv, PublishInv, StatusIsTruthful, OneJobInFlight, PendingInv
<1>5. (OneJobInFlight /\ BusyIsBacked /\ GateInv /\ RollbackInv /\ PendingInv /\ AllowedInv)'
  BY DEF IInv, TypeOK, Documents, WorkerStates, Replies, OneJobInFlight, StatusIsTruthful, BusyIsBacked, GateInv, PublishInv, SendInv, RollbackInv, PendingInv, AllowedInv
<1> QED
  BY <1>1, <1>2, <1>3, <1>4, <1>5 DEF IInv

LEMMA ExecuteStep == ASSUME IInv, Execute PROVE IInv'
<1>1. TypeOK'
  <2>1. worker' \in WorkerStates
    BY CapacityAssumption DEF IInv, TypeOK, Execute, WorkerStates
  <2> QED
    BY <2>1, CapacityAssumption DEF IInv, TypeOK, Execute
<1> USE FreeAssumption, CapacityAssumption DEF Execute, Busy, Working, CanSend, Answer, Return, DefaultStatus, AwaitPoints
<1>2. StatusIsTruthful'
  BY DEF IInv, TypeOK, Documents, WorkerStates, Replies, StatusIsTruthful, OneJobInFlight, SendInv, PublishInv, GateInv
<1>3. OneJobInFlight'
  BY DEF IInv, TypeOK, Documents, WorkerStates, Replies, OneJobInFlight, StatusIsTruthful, SendInv, GateInv
<1>4. (BusyIsBacked /\ GateInv /\ PublishInv /\ SendInv /\ RollbackInv /\ PendingInv /\ AllowedInv)'
  BY DEF IInv, TypeOK, Documents, WorkerStates, Replies, OneJobInFlight, StatusIsTruthful, BusyIsBacked, GateInv, PublishInv, SendInv, RollbackInv, PendingInv, AllowedInv
<1> QED
  BY <1>1, <1>2, <1>3, <1>4 DEF IInv

\* The verdict and the report are those of the worker's job.
LEMMA FinishStep == ASSUME IInv, Finish PROVE IInv'
<1>1. TypeOK'
  <2>1. status' \in Documents
    <3>1. status' = [state |-> worker.at, job |-> status.job,
                     report |-> IF worker.at = "completed" THEN worker.job ELSE status.report,
                     error |-> worker.at = "failed"]
      BY DEF IInv, TypeOK, Finish, Documents
    <3>2. worker.job \in Nat /\ status.job \in Nat /\ status.report \in Nat
      BY DEF IInv, TypeOK, Documents, WorkerStates
    <3> QED
      BY <3>1, <3>2 DEF Documents, Finish
  <2>2. worker' \in WorkerStates
    BY CapacityAssumption DEF IInv, TypeOK, Finish, WorkerStates
  <2> QED
    BY <2>1, <2>2, CapacityAssumption DEF IInv, TypeOK, Finish
<1> USE FreeAssumption, CapacityAssumption DEF Finish, Busy, Working, CanSend, Answer, Return, DefaultStatus, AwaitPoints
<1>2. StatusIsTruthful'
  BY DEF IInv, TypeOK, Documents, WorkerStates, Replies, StatusIsTruthful, OneJobInFlight, SendInv, PublishInv, GateInv
<1>3. BusyIsBacked'
  BY DEF IInv, TypeOK, Documents, WorkerStates, Replies, BusyIsBacked, StatusIsTruthful, OneJobInFlight, SendInv, RollbackInv, GateInv, AllowedInv
<1>4. SendInv'
  BY DEF IInv, TypeOK, Documents, WorkerStates, Replies, SendInv, GateInv, PublishInv, StatusIsTruthful, OneJobInFlight, PendingInv
<1>5. (OneJobInFlight /\ GateInv /\ PublishInv /\ RollbackInv /\ PendingInv /\ AllowedInv)'
  BY DEF IInv, TypeOK, Documents, WorkerStates, Replies, OneJobInFlight, StatusIsTruthful, BusyIsBacked, GateInv, PublishInv, SendInv, RollbackInv, PendingInv, AllowedInv
<1> QED
  BY <1>1, <1>2, <1>3, <1>4, <1>5 DEF IInv

LEMMA ShutdownStep == ASSUME IInv, Shutdown PROVE IInv'
<1>1. TypeOK'
  <2> QED
    BY CapacityAssumption DEF IInv, TypeOK, Shutdown
<1> USE FreeAssumption, CapacityAssumption DEF Shutdown, Busy, Working, CanSend, Answer, Return, DefaultStatus, AwaitPoints
<1>2. AllowedInv'
  BY DEF IInv, TypeOK, Documents, WorkerStates, Replies, AllowedInv
<1>3. (OneJobInFlight /\ StatusIsTruthful /\ BusyIsBacked /\ GateInv /\ PublishInv /\ SendInv /\ RollbackInv /\ PendingInv)'
  BY DEF IInv, TypeOK, Documents, WorkerStates, Replies, OneJobInFlight, StatusIsTruthful, BusyIsBacked, GateInv, PublishInv, SendInv, RollbackInv, PendingInv, AllowedInv
<1> QED
  BY <1>1, <1>2, <1>3 DEF IInv

LEMMA DropWorkerStep == ASSUME IInv, DropWorker PROVE IInv'
<1>1. TypeOK'
  <2>1. worker' \in WorkerStates
    BY CapacityAssumption DEF IInv, TypeOK, DropWorker, WorkerStates
  <2>2. queue' \in Seq(Nat) /\ Len(queue') <= Capacity
    BY CapacityAssumption DEF IInv, TypeOK, DropWorker, CanSend, WorkerStates
  <2> QED
    BY <2>1, <2>2, CapacityAssumption DEF IInv, TypeOK, DropWorker
<1> USE FreeAssumption, CapacityAssumption DEF DropWorker, Busy, Working, CanSend, Answer, Return, DefaultStatus, AwaitPoints
<1>2. StatusIsTruthful'
  BY DEF IInv, TypeOK, Documents, WorkerStates, Replies, StatusIsTruthful, OneJobInFlight, SendInv, PublishInv, GateInv
<1>3. BusyIsBacked'
  BY DEF IInv, TypeOK, Documents, WorkerStates, Replies, BusyIsBacked, StatusIsTruthful, OneJobInFlight, SendInv, RollbackInv, GateInv, AllowedInv
<1>4. AllowedInv'
  BY DEF IInv, TypeOK, Documents, WorkerStates, Replies, AllowedInv
<1>5. (OneJobInFlight /\ GateInv /\ PublishInv /\ SendInv /\ RollbackInv /\ PendingInv)'
  BY DEF IInv, TypeOK, Documents, WorkerStates, Replies, OneJobInFlight, StatusIsTruthful, BusyIsBacked, GateInv, PublishInv, SendInv, RollbackInv, PendingInv, AllowedInv
<1> QED
  BY <1>1, <1>2, <1>3, <1>4, <1>5 DEF IInv

\* A new process starts from the initial values of the coordinator's state.
LEMMA ReplaceStep == ASSUME IInv, Replace PROVE IInv'
<1>1. TypeOK'
  <2>1. status' \in Documents
    BY CapacityAssumption DEF IInv, TypeOK, Replace, Documents, DefaultStatus
  <2>2. worker' \in WorkerStates
    BY CapacityAssumption DEF IInv, TypeOK, Replace, WorkerStates
  <2>3. queue' \in Seq(Nat) /\ Len(queue') <= Capacity
    BY CapacityAssumption DEF IInv, TypeOK, Replace, CanSend, WorkerStates
  <2>4. reply' \in [Callers -> Replies]
    BY CapacityAssumption DEF IInv, TypeOK, Replace, Replies, Answer, Documents
  <2>5. pc' \in [Callers -> AwaitPoints \cup {"idle", "send"}]
    BY CapacityAssumption DEF IInv, TypeOK, Replace, AwaitPoints, Return
  <2>6. ticket' \in [Callers -> Nat]
    BY CapacityAssumption DEF IInv, TypeOK, Replace
  <2> QED
    BY <2>1, <2>2, <2>3, <2>4, <2>5, <2>6, CapacityAssumption DEF IInv, TypeOK, Replace
<1> USE FreeAssumption, CapacityAssumption DEF Replace, Busy, Working, CanSend, Answer, Return, DefaultStatus, AwaitPoints
<1>2. OneJobInFlight'
  BY DEF IInv, TypeOK, Documents, WorkerStates, Replies, OneJobInFlight, StatusIsTruthful, SendInv, GateInv
<1>3. StatusIsTruthful'
  BY DEF IInv, TypeOK, Documents, WorkerStates, Replies, StatusIsTruthful, OneJobInFlight, SendInv, PublishInv, GateInv
<1>4. BusyIsBacked'
  BY DEF IInv, TypeOK, Documents, WorkerStates, Replies, BusyIsBacked, StatusIsTruthful, OneJobInFlight, SendInv, RollbackInv, GateInv, AllowedInv
<1>5. GateInv'
  BY DEF IInv, TypeOK, Documents, WorkerStates, Replies, GateInv
<1>6. PublishInv'
  BY DEF IInv, TypeOK, Documents, WorkerStates, Replies, PublishInv, GateInv, SendInv, StatusIsTruthful
<1>7. SendInv'
  BY DEF IInv, TypeOK, Documents, WorkerStates, Replies, SendInv, GateInv, PublishInv, StatusIsTruthful, OneJobInFlight, PendingInv
<1>8. RollbackInv'
  BY DEF IInv, TypeOK, Documents, WorkerStates, Replies, RollbackInv, SendInv, BusyIsBacked, AllowedInv, GateInv
<1>9. PendingInv'
  BY DEF IInv, TypeOK, Documents, WorkerStates, Replies, PendingInv, GateInv
<1>10. AllowedInv'
  BY DEF IInv, TypeOK, Documents, WorkerStates, Replies, AllowedInv
<1> QED
  BY <1>1, <1>2, <1>3, <1>4, <1>5, <1>6, <1>7, <1>8, <1>9, <1>10 DEF IInv

-----------------------------------------------------------------------------
(* The theorems *)

LEMMA NextIInv == ASSUME IInv, [Next]_vars PROVE IInv'
<1>1. CASE Next
  <2>1. ASSUME NEW c \in Callers, Request(c) PROVE IInv'
    BY <2>1, CallStep, AcquireStep, CheckStep, PublishStep, TrySendStep, RollbackStep, DropStep DEF Request
  <2>2. CASE Worker
    BY <2>2, ReceiveStep, StartStep, ExecuteStep, FinishStep DEF Worker
  <2> QED
    BY <1>1, <2>1, <2>2, ShutdownStep, DropWorkerStep, ReplaceStep DEF Next
<1>2. CASE UNCHANGED vars
  BY <1>2 DEF vars, IInv, TypeOK, OneJobInFlight, StatusIsTruthful, BusyIsBacked, GateInv, PublishInv,
              SendInv, RollbackInv, PendingInv, AllowedInv, Busy, Working, CanSend
<1> QED
  BY <1>1, <1>2

LEMMA Inductive == Spec => []IInv
<1>1. Init => IInv
  BY InitIInv
<1>2. IInv /\ [Next]_vars => IInv'
  BY NextIInv
<1> QED
  BY <1>1, <1>2, PTL DEF Spec

\* The state of src/refresh.rs stays in its types, and the channel within the
\* capacity configured for it.
THEOREM TypeCorrect == Spec => []TypeOK
<1>1. IInv => TypeOK
  BY DEF IInv
<1> QED
  BY <1>1, Inductive, PTL

\* At most one refresh job is between its publication by request() and its
\* verdict by worker().
THEOREM SingleJob == Spec => []OneJobInFlight
<1>1. IInv => OneJobInFlight
  BY DEF IInv
<1> QED
  BY <1>1, Inductive, PTL

\* The status document is always about the job in the channel or in the worker,
\* and a report shown in it is the report of the job it names.
THEOREM TruthfulStatus == Spec => []StatusIsTruthful
<1>1. IInv => StatusIsTruthful
  BY DEF IInv
<1> QED
  BY <1>1, Inductive, PTL

\* A status that makes request() coalesce always has a job behind it, so that
\* try_send never finds the channel full and coalescing always ends.
THEOREM BackedStatus == Spec => []BusyIsBacked
<1>1. IInv => BusyIsBacked
  BY DEF IInv
<1> QED
  BY <1>1, Inductive, PTL

\* While the process is up, a job's status leaves queued/running only through
\* the worker that executed it.
THEOREM OnlyTheWorkerEndsJobs == Spec => VerdictOnlyFromWorker
<1> DEFINE Ends == Busy /\ up /\ restarts' = restarts /\ (~Busy' \/ status'.job # status.job) =>
                     worker.at \in {"completed", "failed"} /\ worker.job = status.job
<1>1. ASSUME IInv, [Next]_vars PROVE [Ends]_vars
  <2>1. CASE Next
    <3>1. ASSUME NEW c \in Callers, Request(c) PROVE Ends
      <4>1. CASE Publish(c)
        <5>1. pc[c] = "publish"
          BY <4>1 DEF Publish
        <5>2. ~Busy
          BY <1>1, <5>1 DEF IInv, PublishInv
        <5> QED
          BY <5>2
      <4>2. CASE Rollback(c)
        <5>1. pc[c] = "rollback"
          BY <4>2 DEF Rollback
        <5>2. ~up
          BY <1>1, <5>1 DEF IInv, RollbackInv
        <5> QED
          BY <5>2
      <4>3. CASE Call(c) \/ Acquire(c) \/ Check(c) \/ TrySend(c) \/ Drop(c)
        BY <4>3 DEF Call, Acquire, Check, TrySend, Drop, Busy
      <4> QED
        BY <3>1, <4>1, <4>2, <4>3 DEF Request
    <3>2. CASE Worker
      <4>1. CASE Start
        BY <1>1, <4>1 DEF Start, Busy, IInv, TypeOK, Documents
      <4>2. CASE Finish
        <5>1. worker.at \in {"completed", "failed"}
          BY <4>2 DEF Finish
        <5>2. worker.job = status.job
          BY <1>1, <5>1 DEF IInv, StatusIsTruthful
        <5> QED
          BY <5>1, <5>2
      <4>3. CASE Receive \/ Execute
        BY <4>3 DEF Receive, Execute, Busy
      <4> QED
        BY <3>2, <4>1, <4>2, <4>3 DEF Worker
    <3>3. CASE Shutdown \/ DropWorker
      BY <3>3 DEF Shutdown, DropWorker, Busy
    <3>4. CASE Replace
      <4>1. restarts' # restarts
        BY <1>1, <3>4 DEF Replace, IInv, TypeOK
      <4> QED
        BY <4>1
    <3> QED
      BY <2>1, <3>1, <3>2, <3>3, <3>4 DEF Next
  <2>2. CASE UNCHANGED vars
    BY <2>2
  <2> QED
    BY <1>1, <2>1, <2>2
<1>2. VerdictOnlyFromWorker <=> [][Ends]_vars
  BY DEF VerdictOnlyFromWorker
<1> QED
  BY <1>1, <1>2, Inductive, PTL DEF Spec

-----------------------------------------------------------------------------
(* The coordinator implements the single-flight service *)

Current == IF Busy THEN status.job ELSE 0

Claimed == [c \in Callers |-> IF pc[c] \in {"send", "rollback"} THEN ticket[c] ELSE 0]

Told == [c \in Callers |-> IF reply[c].kind = "dropped" THEN [kind |-> "refused", job |-> 0] ELSE reply[c]]

LEMMA ServiceInit == Init => Service!Init
BY DEF Init, Fresh, DefaultStatus, Busy, Service!Init, Service!None

\* One caller's step changes the caller's own answer only.
LEMMA AnswerFrame ==
  ASSUME TypeOK, NEW c \in Callers, NEW k, NEW j, Answer(c, k, j)
  PROVE  Told' = [Told EXCEPT ![c] = IF k = "dropped" THEN [kind |-> "refused", job |-> 0]
                                                      ELSE [kind |-> k, job |-> j]]
BY DEF TypeOK, Told, Answer

LEMMA CallRefines == ASSUME IInv, NEW c \in Callers, Call(c) PROVE Service!Ask(c) \/ Service!Refuse(c)
<1> USE DEF IInv
<1>1. pc[c] = "idle" /\ reply[c].kind # "pending" /\ Claimed[c] = 0
  BY DEF Call, PendingInv, Claimed
<1>2. UNCHANGED <<up, Current, issued>>
  BY DEF Call, Current, Busy
<1>3. CASE allowed
  <2>1. Told' = [Told EXCEPT ![c] = [kind |-> "pending", job |-> 0]]
    BY <1>3, AnswerFrame DEF Call
  <2>2. Claimed' = Claimed
    BY <1>1, <1>3 DEF Call, Claimed, TypeOK
  <2>3. Told[c].kind # "pending"
    BY <1>1 DEF Told
  <2> QED
    BY <1>2, <2>1, <2>2, <2>3 DEF Service!Ask, Told, Claimed, Current
<1>4. CASE ~allowed
  <2>1. Told' = [Told EXCEPT ![c] = [kind |-> "refused", job |-> 0]]
    BY <1>4, AnswerFrame DEF Call
  <2>2. Claimed' = [Claimed EXCEPT ![c] = 0]
    BY <1>1, <1>4 DEF Call, Claimed, TypeOK
  <2>3. Told[c].kind # "accepted"
    BY <1>4 DEF Told, AllowedInv
  <2> QED
    BY <1>1, <1>2, <2>1, <2>2, <2>3 DEF Service!Refuse, Told, Claimed, Current
<1> QED
  BY <1>3, <1>4

LEMMA AcquireRefines == ASSUME IInv, NEW c \in Callers, Acquire(c) PROVE UNCHANGED Service!vars
BY DEF IInv, TypeOK, Acquire, Service!vars, Busy

LEMMA CheckRefines ==
  ASSUME IInv, NEW c \in Callers, Check(c)
  PROVE  Service!Join(c) \/ UNCHANGED Service!vars
<1> USE DEF IInv
<1>1. pc[c] = "check" /\ reply[c].kind = "pending" /\ Claimed[c] = 0
  BY DEF Check, PendingInv, Claimed
<1>2. UNCHANGED <<up, Current, issued, Claimed>>
  BY <1>1 DEF Check, Current, Busy, Claimed, TypeOK, Return
<1>3. CASE Busy
  <2>1. Told' = [Told EXCEPT ![c] = [kind |-> "coalesced", job |-> Current]]
    BY <1>3, AnswerFrame DEF Check, Current
  <2>2. Told[c].kind = "pending" /\ Current # 0
    BY <1>1, <1>3 DEF Told, Current, StatusIsTruthful
  <2> QED
    BY <1>1, <1>2, <2>1, <2>2 DEF Service!Join, Told, Claimed, Current
<1>4. CASE ~Busy
  BY <1>2, <1>4 DEF Check, Service!vars, Current, Claimed
<1> QED
  BY <1>3, <1>4

LEMMA PublishRefines == ASSUME IInv, NEW c \in Callers, Publish(c) PROVE Service!Claim(c)
<1> USE DEF IInv
<1>1. pc[c] = "publish" /\ reply[c].kind = "pending" /\ Claimed[c] = 0
  BY DEF Publish, PendingInv, Claimed
<1>2. Current = 0
  BY <1>1 DEF PublishInv, Current
<1>3. issued' = issued + 1 /\ Current' = issued'
  BY DEF Publish, Current, Busy, DefaultStatus
<1>4. Claimed' = [Claimed EXCEPT ![c] = issued']
  BY DEF Publish, Claimed, TypeOK
<1>5. UNCHANGED <<up, Told>> /\ Told[c].kind = "pending"
  BY <1>1 DEF Publish, Told
<1> QED
  BY <1>1, <1>2, <1>3, <1>4, <1>5 DEF Service!Claim, Told, Claimed, Current

LEMMA TrySendRefines ==
  ASSUME IInv, NEW c \in Callers, TrySend(c)
  PROVE  Service!Confirm(c) \/ UNCHANGED Service!vars
<1> USE DEF IInv
<1>1. pc[c] = "send" /\ reply[c].kind = "pending" /\ Claimed[c] = ticket[c] /\ ticket[c] # 0
  BY DEF TrySend, PendingInv, SendInv, Claimed
<1>2. UNCHANGED <<up, Current, issued>>
  BY DEF TrySend, Current, Busy
<1>3. CASE CanSend
  <2>1. Told' = [Told EXCEPT ![c] = [kind |-> "accepted", job |-> Claimed[c]]]
    BY <1>1, <1>3, AnswerFrame DEF TrySend
  <2>2. Claimed' = [Claimed EXCEPT ![c] = 0]
    BY <1>3 DEF TrySend, Claimed, TypeOK, Return
  <2>3. Told[c].kind = "pending"
    BY <1>1 DEF Told
  <2> QED
    BY <1>1, <1>2, <2>1, <2>2, <2>3 DEF Service!Confirm, Told, Claimed, Current
<1>4. CASE ~CanSend
  <2>1. Claimed' = Claimed
    BY <1>1, <1>4 DEF TrySend, Claimed, TypeOK
  <2> QED
    BY <1>2, <1>4, <2>1 DEF TrySend, Service!vars, Current, Claimed
<1> QED
  BY <1>3, <1>4

LEMMA RollbackRefines == ASSUME IInv, NEW c \in Callers, Rollback(c) PROVE Service!Refuse(c)
<1> USE DEF IInv
<1>1. pc[c] = "rollback" /\ reply[c].kind = "pending" /\ Claimed[c] # 0
  BY DEF Rollback, PendingInv, SendInv, Claimed
<1>2. UNCHANGED <<up, issued>> /\ Current' = 0
  BY DEF Rollback, Current, Busy, DefaultStatus
<1>3. Told' = [Told EXCEPT ![c] = [kind |-> "refused", job |-> 0]]
  BY AnswerFrame DEF Rollback
<1>4. Claimed' = [Claimed EXCEPT ![c] = 0]
  BY DEF Rollback, Claimed, TypeOK, Return
<1>5. Told[c].kind # "accepted"
  BY <1>1 DEF Told
<1> QED
  BY <1>1, <1>2, <1>3, <1>4, <1>5 DEF Service!Refuse, Told, Claimed, Current

LEMMA DropRefines ==
  ASSUME IInv, NEW c \in Callers, Drop(c)
  PROVE  Service!Refuse(c) \/ Service!Abandon(c)
<1> USE DEF IInv
<1>1. pc[c] \in AwaitPoints /\ reply[c].kind = "pending" /\ Told[c].kind = "pending"
  BY DEF Drop, PendingInv, Told, AwaitPoints
<1>2. UNCHANGED <<up, Current, issued>>
  BY DEF Drop, Current, Busy
<1>3. Told' = [Told EXCEPT ![c] = [kind |-> "refused", job |-> 0]]
  BY AnswerFrame DEF Drop
<1>4. Claimed' = [Claimed EXCEPT ![c] = 0]
  BY DEF Drop, Claimed, TypeOK, Return
<1>5. CASE pc[c] = "rollback"
  <2>1. ~up /\ Claimed[c] # 0
    BY <1>5 DEF RollbackInv, SendInv, Claimed
  <2> QED
    BY <1>2, <1>3, <1>4, <2>1 DEF Service!Abandon, Told, Claimed, Current
<1>6. CASE pc[c] # "rollback"
  <2>1. Claimed[c] = 0
    BY <1>1, <1>6 DEF Claimed, AwaitPoints
  <2> QED
    BY <1>1, <1>2, <1>3, <1>4, <2>1 DEF Service!Refuse, Told, Claimed, Current
<1> QED
  BY <1>5, <1>6

LEMMA WorkerRefines == ASSUME IInv, Worker PROVE Service!End \/ UNCHANGED Service!vars
<1> USE DEF IInv
<1>1. CASE Receive \/ Execute
  BY <1>1 DEF Receive, Execute, Service!vars, Busy
<1>2. CASE Start
  <2>1. Busy /\ Busy' /\ status'.job = status.job
    BY <1>2 DEF Start, StatusIsTruthful, Busy, TypeOK, Documents
  <2> QED
    BY <1>2, <2>1 DEF Start, Service!vars
<1>3. CASE Finish
  <2>1. Current # 0
    BY <1>3 DEF Finish, StatusIsTruthful, Current, Busy
  <2>2. Current' = 0
    BY <1>3 DEF Finish, Current, Busy, TypeOK, Documents
  <2> QED
    BY <1>3, <2>1, <2>2 DEF Finish, Service!End, Current
<1> QED
  BY <1>1, <1>2, <1>3 DEF Worker

LEMMA ProcessRefines ==
  ASSUME IInv, Shutdown \/ DropWorker \/ Replace
  PROVE  Service!Close \/ Service!Reset \/ UNCHANGED Service!vars
<1>1. CASE Shutdown
  BY <1>1 DEF Shutdown, Service!Close, Busy
<1>2. CASE DropWorker
  BY <1>2 DEF DropWorker, Service!vars, Busy
<1>3. CASE Replace
  BY <1>3 DEF Replace, Service!Reset, Service!None, Busy, DefaultStatus
<1> QED
  BY <1>1, <1>2, <1>3

\* The coordinator of src/refresh.rs is a single-flight service: its callers
\* cannot tell its gate, document, channel and worker from a service that hands
\* out a new job only when none is in flight and otherwise names that job.
THEOREM Refinement == Spec => ImplementsSingleFlight
<1>1. Init => Service!Init
  BY ServiceInit
<1>2. ASSUME IInv, [Next]_vars PROVE [Service!Next]_Service!vars
  <2>1. ASSUME NEW c \in Callers, Request(c) PROVE [Service!Next]_Service!vars
    BY <1>2, <2>1, CallRefines, AcquireRefines, CheckRefines, PublishRefines, TrySendRefines,
       RollbackRefines, DropRefines DEF Request, Service!Next
  <2>2. CASE Worker
    BY <1>2, <2>2, WorkerRefines DEF Service!Next
  <2>3. CASE Shutdown \/ DropWorker \/ Replace
    BY <1>2, <2>3, ProcessRefines DEF Service!Next
  <2>4. CASE UNCHANGED vars
    BY <2>4 DEF vars, Service!vars, Busy
  <2> QED
    BY <1>2, <2>1, <2>2, <2>3, <2>4 DEF Next
<1> QED
  BY <1>1, <1>2, Inductive, PTL DEF Spec, ImplementsSingleFlight, Service!Spec
=============================================================================
