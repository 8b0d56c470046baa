-------------------------- MODULE StackWaiterProofs --------------------------
(***************************************************************************)
(* Theorems about StackWaiter, for every set of requests, every number of  *)
(* events about resources and every set of calls that may throw.           *)
(***************************************************************************)
EXTENDS StackWaiter, TLAPS

RollbackPath ==
    {"UPDATE_ROLLBACK_IN_PROGRESS", "UPDATE_ROLLBACK_COMPLETE_CLEANUP_IN_PROGRESS",
     "UPDATE_ROLLBACK_COMPLETE", "UPDATE_ROLLBACK_FAILED"}

DeletePath == {"DELETE_IN_PROGRESS", "DELETE_COMPLETE", "DELETE_FAILED"}

(* The statuses of a stack while what was requested is carried out. *)
KindPath(kind) ==
    CASE kind = "CREATE" -> {"CREATE_IN_PROGRESS", "ROLLBACK_IN_PROGRESS",
                             "CREATE_COMPLETE", "ROLLBACK_COMPLETE", "ROLLBACK_FAILED"}
      [] kind = "UPDATE" -> {"UPDATE_IN_PROGRESS", "UPDATE_COMPLETE_CLEANUP_IN_PROGRESS",
                             "UPDATE_COMPLETE"} \union RollbackPath
      [] kind = "ROLLBACK" -> RollbackPath
      [] kind = "DELETE" -> DeletePath

Path == IF clientToken = Cancelling THEN RollbackPath ELSE KindPath(request.kind)

Begun == request.kind \in EventKinds /\ HasEventOf(Own)

(* The three states of an operation that has begun: in progress; over; and *)
(* over with an operation of somebody else after it.                       *)
Underway ==
    /\ status \in InProgress \intersect Path
    /\ CurrentToken = clientToken
    /\ EndEvents = {}

Over ==
    /\ status \in Ended \intersect Path
    /\ CurrentToken = clientToken
    /\ EndEvents = {Len(log)}
    /\ log[Len(log)].status = status

Meddling ==
    /\ status \in DeletePath
    /\ CurrentToken = Foreign
    /\ \E e \in 1 .. Len(log) :
          /\ EndEvents = {e}
          /\ log[e].token = clientToken
          /\ log[e].status \in Ended \intersect Path

AcceptedOK ==
    Accepted =>
        /\ \A i \in 1 .. Len(log) : log[i].token = Foreign
        /\ clientToken = Own
        /\ status \in StatusBefore(request.kind)

PollOK ==
    request.kind \in PollKinds =>
        /\ log = <<>>
        /\ phase \in {"poll", "answered"}
        /\ status \in IF request.kind = "CHANGE_SET"
                      THEN {"CREATE_PENDING", "CREATE_IN_PROGRESS", "CREATE_COMPLETE",
                            "FAILED_NO_CHANGES", "FAILED"}
                      ELSE {"DETECTION_IN_PROGRESS", "DETECTION_COMPLETE", "DETECTION_FAILED"}

(* The client's view of a cancellation is CloudFormation's. *)
CancelOK ==
    /\ timeout # "none" <=> request.timeout
    /\ timeout = "occurred" <=> clientToken = Cancelling
    /\ HasEventOf(Cancelling) <=> clientToken = Cancelling
    /\ phase = "cancel-update" => timeout = "set"

(* Everything up to the cursor has been handed over, nothing beyond it. *)
CursorOK ==
    /\ phase \in {"sleep", "describe-events", "cancel-update"} =>
          allEvents \subseteq 1 .. latestEventId
    /\ \A i \in allEvents : log[i].token # Foreign
    /\ answer # Thrown => \A i \in 1 .. Read : log[i].token = clientToken => i \in allEvents

AnswerOK ==
    /\ phase = "answered" <=> answer # Waiting
    /\ request.kind \in EventKinds => phase # "poll"
    /\ phase = "describe-stack" =>
          request.kind = "ROLLBACK" /\ EndEvents # {}
    /\ answer \notin {Waiting, Thrown} =>
          IF request.kind \in PollKinds
          THEN answer = PollResult /\ answer # "PENDING"
          ELSE /\ EndEvents # {}
               /\ request.kind # "ROLLBACK" => \A e \in EndEvents : answer = log[e].status

IInv ==
    /\ TypeOK
    /\ AcceptedOK
    /\ Begun => Underway \/ Over \/ Meddling
    /\ PollOK
    /\ CancelOK
    /\ CursorOK
    /\ AnswerOK

-----------------------------------------------------------------------------
(* The statuses an operation goes through stay on its path. *)
LEMMA PathFacts ==
    ASSUME NEW kind \in EventKinds, NEW s \in KindPath(kind) \intersect InProgress
    PROVE  Successors[s] \subseteq KindPath(kind)
  BY DEF EventKinds, KindPath, RollbackPath, DeletePath, Successors, InProgress

LEMMA RollbackPathFacts ==
    ASSUME NEW s \in RollbackPath \intersect InProgress
    PROVE  Successors[s] \subseteq RollbackPath
  BY DEF RollbackPath, Successors, InProgress

LEMMA DeletePathFacts ==
    ASSUME NEW s \in DeletePath \intersect InProgress
    PROVE  Successors[s] \subseteq DeletePath
  BY DEF DeletePath, Successors, InProgress

LEMMA StatusFacts ==
    /\ InProgress \intersect Ended = {}
    /\ \A s \in InProgress : Successors[s] \subseteq InProgress \union Ended
    /\ \A kind \in EventKinds : FirstStatus(kind) \in KindPath(kind) \intersect InProgress
    /\ \A kind \in EventKinds : StatusBefore(kind) \intersect InProgress = {}
    /\ Ended \subseteq TerminalStatuses
    /\ TerminalStatuses \intersect InProgress = {}
  <1>1. InProgress \intersect Ended = {} BY DEF InProgress, Ended
  <1>2. \A s \in InProgress : Successors[s] \subseteq InProgress \union Ended
    BY DEF Successors, InProgress, Ended
  <1>3. \A kind \in EventKinds : FirstStatus(kind) \in KindPath(kind) \intersect InProgress
    BY DEF EventKinds, FirstStatus, KindPath, RollbackPath, DeletePath, InProgress
  <1>4. \A kind \in EventKinds : StatusBefore(kind) \intersect InProgress = {}
    BY DEF EventKinds, StatusBefore, InProgress
  <1>5. Ended \subseteq TerminalStatuses BY DEF Ended, TerminalStatuses
  <1>6. TerminalStatuses \intersect InProgress = {} BY DEF InProgress, TerminalStatuses
  <1> QED BY <1>1, <1>2, <1>3, <1>4, <1>5, <1>6

LEMMA TokenFacts ==
    /\ Own # Foreign /\ Own # Cancelling /\ Cancelling # Foreign
    /\ Tokens = {Own, Cancelling, Foreign}
    /\ EventKinds \intersect PollKinds = {}
  BY DEF Own, Foreign, Cancelling, Tokens, EventKinds, PollKinds

(* What a recorded event changes of the log. *)
IsEnd(e) == e.token # Foreign /\ e.about = "stack" /\ e.status \in Ended

LEMMA RecordFacts ==
    ASSUME log \in Seq(Events), NEW e \in Events, Record(e)
    PROVE  /\ log' \in Seq(Events)
           /\ Len(log') = Len(log) + 1
           /\ Len(log) \in Nat
           /\ \A i \in 1 .. Len(log) : log'[i] = log[i]
           /\ log'[Len(log')] = e
           /\ CurrentToken' = e.token
           /\ EndEvents' = IF IsEnd(e) THEN EndEvents \union {Len(log')} ELSE EndEvents
           /\ \A t \in Tokens : HasEventOf(t)' <=> HasEventOf(t) \/ t = e.token
  <1>1. /\ log' \in Seq(Events)
        /\ Len(log') = Len(log) + 1
        /\ Len(log) \in Nat
        /\ \A i \in 1 .. Len(log) : log'[i] = log[i]
        /\ log'[Len(log')] = e
    BY DEF Record
  <1>2. CurrentToken' = e.token BY <1>1 DEF CurrentToken
  <1>3. 1 .. Len(log') = 1 .. Len(log) \union {Len(log')} /\ Len(log') \notin 1 .. Len(log)
    BY <1>1
  <1>4. EndEvents' = IF IsEnd(e) THEN EndEvents \union {Len(log')} ELSE EndEvents
    BY <1>1, <1>3 DEF EndEvents, IsEnd
  <1>5. \A t \in Tokens : HasEventOf(t)' <=> HasEventOf(t) \/ t = e.token
    BY <1>1, <1>3 DEF HasEventOf
  <1> QED BY <1>1, <1>2, <1>4, <1>5

-----------------------------------------------------------------------------
LEMMA InitIInv == Init => IInv
<1> SUFFICES ASSUME Init PROVE IInv
  OBVIOUS
<1>1. request \in Requests /\ request.kind \in EventKinds \union PollKinds
  BY RequestsAssumption DEF Init, ServiceInit, EventKinds, PollKinds
<1>2. status \in {"NONE"} \union InProgress \union Ended \union PollInProgress \union PollEnded
  <2>1. status \in StatusBefore(request.kind) BY DEF Init, ServiceInit
  <2>2. \A kind \in EventKinds \union PollKinds :
            StatusBefore(kind) \subseteq {"NONE"} \union Ended \union PollInProgress
    BY DEF StatusBefore, EventKinds, PollKinds, Ended, PollInProgress
  <2> QED BY <1>1, <2>1, <2>2
<1>3. request.kind \in EventKinds \ {"CREATE"} => status \in Ended
  BY <1>1 DEF Init, ServiceInit, StatusBefore, EventKinds, Ended
<1>4. log \in Seq(Events) /\ \A i \in 1 .. Len(log) : log[i].token = Foreign
  <2>1. CASE log = <<>>
    BY <2>1
  <2>2. CASE log # <<>>
    <3>1. log = <<StackEvent(Foreign, status)>> /\ request.kind \in EventKinds \ {"CREATE"}
      BY <1>1, <2>2 DEF Init, ServiceInit
    <3>2. StackEvent(Foreign, status) \in Events /\ StackEvent(Foreign, status).token = Foreign
      BY <1>3, <3>1, TokenFacts DEF StackEvent, Events
    <3> HIDE DEF StackEvent
    <3> QED BY <3>1, <3>2
  <2> QED BY <2>1, <2>2
<1>5. ~HasEventOf(Own) /\ ~HasEventOf(Cancelling)
  BY <1>4, TokenFacts DEF HasEventOf
<1>6. TypeOK
  <2>1. Len(log) \in Nat BY <1>4
  <2>2. latestEventId \in 0 .. described /\ described \in 0 .. Len(log)
    BY <2>1 DEF Init
  <2> QED BY <1>1, <1>2, <1>4, <2>2 DEF Init, TypeOK, Phases
<1>7. AcceptedOK /\ ~Begun
  BY <1>1, <1>4, <1>5 DEF Init, ServiceInit, AcceptedOK, Begun
<1>8. PollOK
  BY <1>1 DEF Init, ServiceInit, PollOK, PollKinds, StatusBefore
<1>9. CancelOK
  BY <1>1, <1>5, TokenFacts, RequestsAssumption DEF Init, CancelOK
<1>10. CursorOK
  BY DEF Init, CursorOK, Read
<1>11. AnswerOK
  BY <1>1, TokenFacts DEF Init, AnswerOK
<1> QED BY <1>6, <1>7, <1>8, <1>9, <1>10, <1>11 DEF IInv

(* An event that does not end a second time what was requested disturbs    *)
(* nothing the wait relies on.                                             *)
LEMMA RecordKeepsWaiter ==
    ASSUME IInv, NEW e \in Events, Record(e), request.kind \in EventKinds,
           UNCHANGED <<request, waiterVars, elapsed>>, status' \in InProgress \union Ended,
           e.token # Cancelling \/ HasEventOf(Cancelling),
           IsEnd(e) => EndEvents = {}
    PROVE  TypeOK' /\ PollOK' /\ CancelOK' /\ CursorOK' /\ AnswerOK'
<1> USE DEF IInv
<1>1. log \in Seq(Events) BY DEF TypeOK
<1>2. /\ request' = request /\ phase' = phase /\ clientToken' = clientToken
      /\ latestEventId' = latestEventId /\ described' = described
      /\ allEvents' = allEvents /\ timeout' = timeout /\ answer' = answer
      /\ elapsed' = elapsed
  BY DEF waiterVars
<1>3. /\ latestEventId \in 0 .. described /\ described \in 0 .. Len(log)
      /\ allEvents \subseteq 1 .. described /\ Len(log) \in Nat
  BY <1>1 DEF TypeOK
<1>4. TypeOK'
  BY <1>1, <1>2, <1>3, RecordFacts DEF TypeOK
<1>5. PollOK'
  BY <1>2, TokenFacts DEF PollOK
<1>6. CancelOK'
  <2>1. HasEventOf(Cancelling)' <=> HasEventOf(Cancelling)
    BY <1>1, RecordFacts, TokenFacts
  <2> QED BY <1>2, <2>1 DEF CancelOK
<1>7. CursorOK'
  <2>1. Read' = Read /\ Read \in 0 .. Len(log)
    BY <1>2, <1>3 DEF Read
  <2>2. \A i \in 1 .. Read : log'[i] = log[i]
    BY <1>1, <1>3, <2>1, RecordFacts
  <2>3. \A i \in allEvents : log'[i] = log[i]
    BY <1>1, <1>3, RecordFacts
  <2> QED BY <1>2, <2>1, <2>2, <2>3 DEF CursorOK
<1>8. AnswerOK'
  <2>1. EndEvents = {} \/ EndEvents' = EndEvents
    BY <1>1, RecordFacts
  <2>2. \A i \in EndEvents : log'[i] = log[i]
    BY <1>1, RecordFacts DEF EndEvents
  <2> QED BY <1>2, <2>1, <2>2, TokenFacts DEF AnswerOK
<1> QED BY <1>4, <1>5, <1>6, <1>7, <1>8

LEMMA OperationBeginsIInv ==
    ASSUME IInv, OperationBegins, UNCHANGED <<waiterVars, elapsed>>
    PROVE  IInv'
<1> DEFINE e == StackEvent(Own, status')
<1>1. /\ request.kind \in EventKinds /\ ~HasEventOf(Own) /\ Record(e) /\ request' = request
      /\ status' = FirstStatus(request.kind) /\ log \in Seq(Events)
      /\ clientToken = Own /\ clientToken' = clientToken
      /\ \A i \in 1 .. Len(log) : log[i].token = Foreign
  BY DEF OperationBegins, Accepted, IInv, AcceptedOK, TypeOK, waiterVars
<1>2. status' \in KindPath(request.kind) \intersect InProgress /\ status' \notin Ended
  BY <1>1, StatusFacts
<1>3. e \in Events /\ e.token = Own /\ ~IsEnd(e)
  BY <1>2, TokenFacts DEF StackEvent, Events, IsEnd
<1>4. TypeOK' /\ PollOK' /\ CancelOK' /\ CursorOK' /\ AnswerOK'
  <2> HIDE DEF e
  <2> QED BY <1>1, <1>2, <1>3, RecordKeepsWaiter, TokenFacts
<1>5. HasEventOf(Own)' /\ EndEvents' = EndEvents /\ CurrentToken' = Own
  <2> HIDE DEF e
  <2> QED BY <1>1, <1>3, RecordFacts, TokenFacts
<1>6. EndEvents = {}
  BY <1>1 DEF EndEvents
<1>7. Underway'
  BY <1>1, <1>2, <1>5, <1>6, TokenFacts DEF Underway, Path
<1>8. AcceptedOK'
  BY <1>5 DEF AcceptedOK, Accepted
<1> QED BY <1>4, <1>7, <1>8 DEF IInv

(* While the operation is in progress an event of it keeps it so, or ends  *)
(* it.                                                                     *)
LEMMA UnderwayGoesOn ==
    ASSUME IInv, Begun, Underway, NEW e \in Events, Record(e), e.token = CurrentToken,
           UNCHANGED <<request, waiterVars, elapsed>>,
           \/ e.about = "resource" /\ status' = status
           \/ e.about = "stack" /\ status' \in Successors[status] /\ e.status = status'
    PROVE  IInv'
<1>1. /\ request.kind \in EventKinds /\ request' = request /\ log \in Seq(Events)
      /\ clientToken' = clientToken /\ clientToken \in {Own, Cancelling}
      /\ HasEventOf(Own) /\ status \in InProgress \intersect Path
      /\ e.token = clientToken /\ EndEvents = {}
  BY DEF IInv, TypeOK, Begun, Underway, waiterVars
<1>2. Path' = Path /\ status' \in Path /\ status' \in InProgress \union Ended
  <2>1. Path' = Path BY <1>1 DEF Path
  <2>2. status' \in InProgress \union Ended BY <1>1, StatusFacts
  <2>3. Successors[status] \subseteq Path
    BY <1>1, PathFacts, RollbackPathFacts DEF Path
  <2> QED BY <1>1, <2>1, <2>2, <2>3
<1>3. e.token # Cancelling \/ HasEventOf(Cancelling)
  BY <1>1, TokenFacts DEF IInv, CancelOK
<1>4. TypeOK' /\ PollOK' /\ CancelOK' /\ CursorOK' /\ AnswerOK'
  BY <1>1, <1>2, <1>3, RecordKeepsWaiter
<1>5. /\ HasEventOf(Own)' /\ CurrentToken' = clientToken'
      /\ log'[Len(log')] = e
      /\ IsEnd(e) => EndEvents' = {Len(log')}
      /\ ~IsEnd(e) => EndEvents' = {}
  BY <1>1, RecordFacts, TokenFacts
<1>6. AcceptedOK'
  BY <1>5 DEF AcceptedOK, Accepted
<1>7. Underway' \/ Over'
  <2>1. CASE e.about = "resource"
    <3>1. ~IsEnd(e) /\ status' \in InProgress BY <2>1, <1>1 DEF IsEnd
    <3> QED BY <3>1, <1>2, <1>5 DEF Underway
  <2>2. CASE e.about = "stack" /\ status' \in InProgress
    <3>1. ~IsEnd(e) BY <2>2, StatusFacts DEF IsEnd
    <3> QED BY <2>2, <3>1, <1>2, <1>5 DEF Underway
  <2>3. CASE e.about = "stack" /\ status' \in Ended
    <3>1. IsEnd(e) /\ e.status = status'
      BY <2>3, <1>1, StatusFacts, TokenFacts DEF IsEnd
    <3> QED BY <2>3, <3>1, <1>2, <1>5 DEF Over
  <2> QED BY <2>1, <2>2, <2>3, <1>2
<1> QED BY <1>4, <1>6, <1>7 DEF IInv

(* Somebody else's operation ends nothing that was requested. *)
LEMMA MeddlingGoesOn ==
    ASSUME IInv, Begun, Meddling, NEW e \in Events, Record(e), e.token = Foreign,
           UNCHANGED <<request, waiterVars, elapsed>>,
           status' \in DeletePath
    PROVE  IInv'
<1>1. /\ request.kind \in EventKinds /\ request' = request /\ log \in Seq(Events)
      /\ clientToken' = clientToken /\ HasEventOf(Own)
  BY DEF IInv, TypeOK, Begun, Meddling, waiterVars
<1>2. status' \in InProgress \union Ended
  BY DEF DeletePath, InProgress, Ended
<1>3. ~IsEnd(e) /\ e.token # Cancelling
  BY TokenFacts DEF IsEnd
<1>4. TypeOK' /\ PollOK' /\ CancelOK' /\ CursorOK' /\ AnswerOK'
  BY <1>1, <1>2, <1>3, RecordKeepsWaiter
<1>5. /\ HasEventOf(Own)' /\ CurrentToken' = Foreign
      /\ EndEvents' = EndEvents
      /\ Len(log') = Len(log) + 1 /\ Len(log) \in Nat
      /\ \A i \in 1 .. Len(log) : log'[i] = log[i]
  BY <1>1, <1>3, RecordFacts, TokenFacts
<1>6. AcceptedOK'
  BY <1>5 DEF AcceptedOK, Accepted
<1>7. Meddling'
  <2>1. PICK x \in 1 .. Len(log) : /\ EndEvents = {x}
                                   /\ log[x].token = clientToken
                                   /\ log[x].status \in Ended \intersect Path
    BY DEF Meddling
  <2>2. x \in 1 .. Len(log') /\ log'[x] = log[x] /\ Path' = Path
    BY <1>1, <1>5 DEF Path
  <2> QED BY <1>1, <1>5, <2>1, <2>2 DEF Meddling
<1> QED BY <1>4, <1>6, <1>7 DEF IInv

LEMMA StatusChangesIInv ==
    ASSUME IInv, StatusChanges, UNCHANGED <<waiterVars, elapsed>>
    PROVE  IInv'
<1> DEFINE e == StackEvent(CurrentToken, status')
<1>1. /\ Begun /\ Record(e) /\ request' = request /\ status \in InProgress
      /\ status' \in Successors[status]
  BY DEF StatusChanges, Accepted, Begun
<1>2. e.token = CurrentToken /\ e.about = "stack" /\ e.status = status'
  BY DEF StackEvent
<1>3. CASE Underway
  <2>1. e \in Events
    BY <1>1, <1>3, StatusFacts, TokenFacts DEF IInv, TypeOK, Underway, StackEvent, Events
  <2> HIDE DEF e
  <2> QED BY <1>1, <1>2, <1>3, <2>1, UnderwayGoesOn
<1>4. CASE Meddling
  <2>1. e \in Events /\ e.token = Foreign
    BY <1>1, <1>4, StatusFacts, TokenFacts DEF Meddling, StackEvent, Events
  <2>2. status' \in DeletePath
    BY <1>1, <1>4, DeletePathFacts DEF Meddling
  <2> HIDE DEF e
  <2> QED BY <1>1, <1>4, <2>1, <2>2, MeddlingGoesOn
<1>5. ~Over
  BY <1>1, StatusFacts DEF Over
<1> QED BY <1>1, <1>3, <1>4, <1>5 DEF IInv

LEMMA ResourceChangesIInv ==
    ASSUME IInv, ResourceChanges, UNCHANGED <<waiterVars, elapsed>>
    PROVE  IInv'
<1>1. /\ Begun /\ request' = request /\ status \in InProgress /\ status' = status
  BY DEF ResourceChanges, Accepted, Begun
<1>2. PICK s \in {"UPDATE_COMPLETE", "DELETE_COMPLETE"} : Record(ResourceEvent(CurrentToken, s))
  BY DEF ResourceChanges
<1> DEFINE e == ResourceEvent(CurrentToken, s)
<1>3. e.token = CurrentToken /\ e.about = "resource" /\ s \in Ended
  BY <1>2 DEF ResourceEvent, Ended
<1>4. CASE Underway
  <2>1. e \in Events
    BY <1>3, <1>4, TokenFacts DEF IInv, TypeOK, Underway, ResourceEvent, Events
  <2> HIDE DEF e
  <2> QED BY <1>1, <1>2, <1>3, <1>4, <2>1, UnderwayGoesOn DEF e
<1>5. CASE Meddling
  <2>1. e \in Events /\ e.token = Foreign
    BY <1>3, <1>5, TokenFacts DEF Meddling, ResourceEvent, Events
  <2>2. status' \in DeletePath
    BY <1>1, <1>5 DEF Meddling
  <2> QED BY <1>1, <1>2, <1>5, <2>1, <2>2, MeddlingGoesOn
<1>6. ~Over
  BY <1>1, StatusFacts DEF Over
<1> QED BY <1>1, <1>4, <1>5, <1>6 DEF IInv

LEMMA SomebodyElseDeletesIInv ==
    ASSUME IInv, SomebodyElseDeletes, UNCHANGED <<waiterVars, elapsed>>
    PROVE  IInv'
<1> DEFINE e == StackEvent(Foreign, status')
<1>1. /\ request.kind \in EventKinds /\ Begun
      /\ Record(e) /\ request' = request /\ log \in Seq(Events)
      /\ status \in Ended /\ CurrentToken # Foreign /\ status' = "DELETE_IN_PROGRESS"
      /\ clientToken' = clientToken
  BY DEF SomebodyElseDeletes, Accepted, Begun, IInv, TypeOK, waiterVars
<1>2. /\ Over
  BY <1>1, StatusFacts DEF IInv, Underway, Meddling
<1>3. e \in Events /\ e.token = Foreign /\ status' \in InProgress \intersect DeletePath
  BY <1>1, TokenFacts DEF StackEvent, Events, InProgress, DeletePath
<1>4. ~IsEnd(e) /\ e.token # Cancelling
  BY <1>3, TokenFacts DEF IsEnd
<1> HIDE DEF e
<1>5. TypeOK' /\ PollOK' /\ CancelOK' /\ CursorOK' /\ AnswerOK'
  BY <1>1, <1>3, <1>4, RecordKeepsWaiter
<1>6. /\ HasEventOf(Own)' /\ CurrentToken' = Foreign
      /\ EndEvents' = EndEvents
      /\ Len(log') = Len(log) + 1 /\ Len(log) \in Nat
      /\ \A i \in 1 .. Len(log) : log'[i] = log[i]
  BY <1>1, <1>3, <1>4, RecordFacts, TokenFacts DEF Begun
<1>7. AcceptedOK'
  BY <1>6 DEF AcceptedOK, Accepted
<1>8. Meddling'
  <2>1. Len(log) \in 1 .. Len(log)
    BY <1>2, <1>6 DEF Over, EndEvents
  <2>2. log[Len(log)].token = clientToken /\ EndEvents = {Len(log)}
    BY <1>2 DEF Over, CurrentToken
  <2>3. log[Len(log)].status \in Ended \intersect Path
    BY <1>2 DEF Over
  <2>4. Len(log) \in 1 .. Len(log') /\ log'[Len(log)] = log[Len(log)] /\ Path' = Path
    BY <1>1, <1>6, <2>1 DEF Path
  <2> QED BY <1>1, <1>3, <1>6, <2>2, <2>3, <2>4 DEF Meddling
<1> QED BY <1>5, <1>7, <1>8 DEF IInv

LEMMA PolledStatusChangesIInv ==
    ASSUME IInv, PolledStatusChanges, UNCHANGED <<waiterVars, elapsed>>
    PROVE  IInv'
<1>1. /\ request.kind \in PollKinds /\ status \in PollInProgress
      /\ status' \in PollSuccessors[status]
      /\ request' = request /\ log' = log /\ phase' = phase /\ clientToken' = clientToken
      /\ latestEventId' = latestEventId /\ described' = described
      /\ allEvents' = allEvents /\ timeout' = timeout /\ answer' = answer
      /\ elapsed' = elapsed
  BY DEF PolledStatusChanges, waiterVars
<1>2. request.kind \notin EventKinds BY <1>1, TokenFacts
<1>3. status' \in PollInProgress \union PollEnded
  BY <1>1 DEF PollInProgress, PollSuccessors, PollEnded
<1>4. TypeOK'
  BY <1>1, <1>3 DEF IInv, TypeOK
<1>5. AcceptedOK' /\ ~Begun'
  BY <1>1, <1>2 DEF AcceptedOK, Accepted, Begun
<1>6. PollOK'
  BY <1>1 DEF IInv, PollOK, PollInProgress, PollSuccessors
<1>7. CancelOK' /\ CursorOK'
  BY <1>1 DEF IInv, CancelOK, HasEventOf, CursorOK, Read
<1>8. PollResult = "PENDING"
  <2>1. status \in IF request.kind = "CHANGE_SET" THEN {"CREATE_PENDING", "CREATE_IN_PROGRESS"}
                                                 ELSE {"DETECTION_IN_PROGRESS"}
    BY <1>1 DEF IInv, PollOK, PollInProgress
  <2> QED BY <2>1 DEF PollResult, Evaluate, EvaluateDetection
<1>9. AnswerOK'
  <2>1. EndEvents' = EndEvents BY <1>1 DEF EndEvents
  <2>2. AnswerOK BY DEF IInv
  <2>3. answer \in {Waiting, Thrown} BY <1>1, <1>8, <2>2 DEF AnswerOK
  <2> QED BY <1>1, <1>2, <2>1, <2>2, <2>3 DEF AnswerOK
<1> QED BY <1>4, <1>5, <1>6, <1>7, <1>9 DEF IInv

(* The request to cancel an update that is in progress. *)
LEMMA CancelStackUpdateIInv ==
    ASSUME IInv, CancelStackUpdate, CanBeCancelled
    PROVE  IInv'
<1> DEFINE e == StackEvent(Cancelling, status')
<1>1. /\ phase = "cancel-update" /\ timeout = "set" /\ request.kind = "UPDATE"
      /\ status = "UPDATE_IN_PROGRESS" /\ status' = "UPDATE_ROLLBACK_IN_PROGRESS"
      /\ Record(e) /\ request' = request /\ log \in Seq(Events) /\ request \in Requests
      /\ clientToken' = Cancelling /\ timeout' = "occurred" /\ phase' = "sleep"
      /\ answer' = answer /\ answer = Waiting
      /\ latestEventId' = latestEventId /\ described' = described /\ allEvents' = allEvents
      /\ elapsed' = elapsed
  <2>1. timeout = "set" /\ request \in Requests /\ request.timeout
    BY DEF IInv, TypeOK, CancelOK, CancelStackUpdate
  <2>2. request.kind = "UPDATE" BY <2>1, RequestsAssumption
  <2>3. answer = Waiting BY DEF IInv, AnswerOK, CancelStackUpdate
  <2> QED BY <2>1, <2>2, <2>3
          DEF CancelStackUpdate, CanBeCancelled, UpdateIsCancelled, IInv, TypeOK
<1>2. clientToken = Own /\ ~HasEventOf(Cancelling)
  BY <1>1 DEF IInv, TypeOK, CancelOK
<1>3. Begun
  <2>1. request.kind \in EventKinds BY <1>1 DEF EventKinds
  <2>2. ~Accepted
    BY <1>1 DEF IInv, AcceptedOK, StatusBefore
  <2> QED BY <2>1, <2>2 DEF Accepted, Begun
<1>4. Underway
  BY <1>1, <1>3 DEF IInv, Over, Meddling, Ended, DeletePath
<1>5. /\ e \in Events /\ e.token = Cancelling /\ ~IsEnd(e)
      /\ status' \in InProgress \intersect RollbackPath
  BY <1>1, TokenFacts DEF StackEvent, Events, InProgress, RollbackPath, IsEnd, Ended
<1> HIDE DEF e
<1>6. /\ HasEventOf(Own)' /\ HasEventOf(Cancelling)' /\ CurrentToken' = Cancelling
      /\ EndEvents' = {} /\ log' \in Seq(Events)
      /\ Len(log') = Len(log) + 1 /\ Len(log) \in Nat
      /\ \A i \in 1 .. Len(log) : log'[i] = log[i]
  BY <1>1, <1>3, <1>4, <1>5, RecordFacts, TokenFacts DEF Begun, Underway
<1>7. /\ latestEventId \in 0 .. described /\ described \in 0 .. Len(log)
      /\ allEvents \subseteq 1 .. described
  BY DEF IInv, TypeOK
<1>8. TypeOK'
  <2>1. described' \in 0 .. Len(log') BY <1>1, <1>6, <1>7
  <2>2. status' \in InProgress BY <1>5
  <2> QED BY <1>1, <1>6, <1>7, <2>1, <2>2 DEF IInv, TypeOK, Phases
<1>9. AcceptedOK' BY <1>6 DEF AcceptedOK, Accepted
<1>10. Underway' BY <1>1, <1>5, <1>6 DEF Underway, Path
<1>11. PollOK' BY <1>1 DEF PollOK, PollKinds
<1>12. CancelOK' BY <1>1, <1>6 DEF IInv, CancelOK
<1>13. CursorOK'
  <2>1. \A i \in 1 .. Len(log) : log'[i].token # Cancelling
    BY <1>2, <1>6 DEF HasEventOf
  <2>2. Read' \in 0 .. Len(log) BY <1>1, <1>7 DEF Read
  <2>3. \A i \in allEvents : log'[i] = log[i] BY <1>6, <1>7
  <2>4. /\ allEvents \subseteq 1 .. latestEventId
        /\ \A i \in allEvents : log[i].token # Foreign
    BY <1>1 DEF IInv, CursorOK
  <2> QED BY <1>1, <2>1, <2>2, <2>3, <2>4 DEF CursorOK
<1>14. AnswerOK' BY <1>1, TokenFacts DEF AnswerOK, EventKinds, Waiting
<1> QED BY <1>8, <1>9, <1>10, <1>11, <1>12, <1>13, <1>14 DEF IInv

-----------------------------------------------------------------------------
(* A step that leaves CloudFormation alone. *)
LEMMA ServiceUnchanged ==
    ASSUME IInv, UNCHANGED <<serviceVars, clientToken>>
    PROVE  /\ AcceptedOK'
           /\ (Begun => Underway \/ Over \/ Meddling)'
           /\ EndEvents' = EndEvents
           /\ \A t \in Tokens : HasEventOf(t)' <=> HasEventOf(t)
<1>1. request' = request /\ status' = status /\ log' = log /\ clientToken' = clientToken
  BY DEF serviceVars
<1>2. AcceptedOK' BY <1>1 DEF IInv, AcceptedOK, Accepted, HasEventOf
<1>3. Path' = Path /\ EndEvents' = EndEvents /\ CurrentToken' = CurrentToken
  BY <1>1 DEF Path, EndEvents, CurrentToken
<1>4. Underway' <=> Underway BY <1>1, <1>3 DEF Underway
<1>5. Over' <=> Over BY <1>1, <1>3 DEF Over
<1>6. Meddling' <=> Meddling BY <1>1, <1>3 DEF Meddling
<1>7. Begun' <=> Begun BY <1>1 DEF Begun, HasEventOf
<1>8. \A t \in Tokens : HasEventOf(t)' <=> HasEventOf(t) BY <1>1 DEF HasEventOf
<1> QED BY <1>2, <1>3, <1>4, <1>5, <1>6, <1>7, <1>8 DEF IInv

(* The first event that ends what was requested is the only one. *)
LEMMA OneEnd ==
    ASSUME IInv, NEW x \in EndEvents
    PROVE  EndEvents = {x} /\ First(EndEvents) = x /\ x \in 1 .. Len(log)
<1>1. request.kind \in EventKinds
  <2>1. request.kind \in EventKinds \union PollKinds
    BY RequestsAssumption DEF IInv, TypeOK, EventKinds, PollKinds
  <2> QED BY <2>1 DEF IInv, PollOK, EndEvents
<1>2. x \in 1 .. Len(log) /\ log[x].token # Foreign BY DEF EndEvents
<1>3. Begun BY <1>1, <1>2 DEF IInv, AcceptedOK, Accepted, Begun
<1>4. EndEvents = {x} BY <1>3 DEF IInv, Underway, Over, Meddling
<1>5. First(EndEvents) = x
  <2>1. \A i \in {x} : i <= i BY <1>2
  <2> QED BY <1>2, <1>4, <2>1 DEF First
<1> QED BY <1>2, <1>4, <1>5

(* What was read of the events: a terminal event about the stack is the    *)
(* end of what was requested.                                              *)
LEMMA TerminalIsEnd ==
    ASSUME IInv, phase = "describe-events"
    PROVE  /\ TerminalEvents \subseteq EndEvents
           /\ UpdatedEvents \subseteq 1 .. described
           /\ \A i \in UpdatedEvents : log[i].token # Foreign
<1>1. /\ latestEventId \in 0 .. described /\ described \in 0 .. Len(log)
      /\ allEvents \subseteq 1 .. described /\ log \in Seq(Events)
      /\ clientToken \in {Own, Cancelling} /\ Len(log) \in Nat
  BY DEF IInv, TypeOK
<1>2. UpdatedEvents \subseteq 1 .. described
  <2>1. \A i \in latestEventId + 1 .. described : i \in 1 .. described
    BY <1>1
  <2> QED BY <1>1, <2>1 DEF UpdatedEvents, NewEvents
<1>3. \A i \in UpdatedEvents : log[i].token # Foreign
  <2>1. \A i \in allEvents : log[i].token # Foreign
    BY DEF IInv, CursorOK
  <2>2. \A i \in NewEvents : log[i].token # Foreign
    BY <1>1, TokenFacts DEF NewEvents
  <2> QED BY <2>1, <2>2 DEF UpdatedEvents
<1>4. \A i \in UpdatedEvents : log[i].status \in InProgress \union Ended
  <2>1. \A i \in 1 .. Len(log) : log[i] \in Events
    BY <1>1
  <2>2. \A i \in 1 .. described : i \in 1 .. Len(log)
    BY <1>1
  <2> QED BY <1>2, <2>1, <2>2 DEF Events
<1>5. TerminalEvents \subseteq EndEvents
  <2> SUFFICES ASSUME NEW i \in TerminalEvents PROVE i \in EndEvents
    OBVIOUS
  <2>1. /\ i \in UpdatedEvents /\ log[i].about = "stack"
        /\ log[i].status \in TerminalStatuses
    BY DEF TerminalEvents, AboutStack
  <2>2. log[i].status \in Ended BY <1>4, <2>1, StatusFacts
  <2>3. i \in 1 .. Len(log) BY <1>1, <1>2, <2>1
  <2> QED BY <1>3, <2>1, <2>2, <2>3 DEF EndEvents
<1> QED BY <1>2, <1>3, <1>5

(* After a response nothing up to its last event is missing. *)
LEMMA NothingMissed ==
    ASSUME IInv, phase = "describe-events"
    PROVE  \A i \in 1 .. described : log[i].token = clientToken => i \in UpdatedEvents
<1> SUFFICES ASSUME NEW i \in 1 .. described, log[i].token = clientToken
             PROVE  i \in UpdatedEvents
  OBVIOUS
<1>1. latestEventId \in 0 .. described /\ described \in 0 .. Len(log) /\ log \in Seq(Events)
  BY DEF IInv, TypeOK
<1>2. answer = Waiting /\ answer # Thrown
  BY DEF IInv, AnswerOK, Waiting, Thrown
<1>3. CASE i \in 1 .. latestEventId
  BY <1>2, <1>3 DEF IInv, CursorOK, Read, UpdatedEvents
<1>4. CASE i \in latestEventId + 1 .. described
  BY <1>4 DEF UpdatedEvents, NewEvents
<1>5. i \in 1 .. latestEventId \/ i \in latestEventId + 1 .. described
  <2>1. described \in Nat /\ latestEventId \in Nat BY <1>1
  <2> QED BY <2>1
<1> QED BY <1>3, <1>4, <1>5

LEMMA CallThrowsIInv == IInv /\ CallThrows => IInv'
<1> SUFFICES ASSUME IInv, CallThrows PROVE IInv'
  OBVIOUS
<1>1. /\ phase' = "answered" /\ answer' = Thrown /\ UNCHANGED <<serviceVars, clientToken>>
      /\ latestEventId' = latestEventId /\ described' = described /\ allEvents' = allEvents
      /\ timeout' = timeout /\ elapsed' = elapsed
  BY DEF CallThrows, AnswerWith
<1>2. request' = request /\ status' = status /\ log' = log /\ clientToken' = clientToken
  BY <1>1 DEF serviceVars
<1>3. TypeOK' BY <1>1, <1>2 DEF IInv, TypeOK, Phases
<1>4. PollOK' BY <1>1, <1>2 DEF IInv, PollOK
<1>5. CancelOK' BY <1>1, <1>2, ServiceUnchanged, TokenFacts DEF IInv, CancelOK
<1>6. CursorOK' BY <1>1, <1>2 DEF IInv, CursorOK
<1>7. AnswerOK' BY <1>1, <1>2 DEF IInv, AnswerOK, Waiting, Thrown
<1> QED BY <1>1, <1>3, <1>4, <1>5, <1>6, <1>7, ServiceUnchanged DEF IInv

LEMMA DescribeStackEventsIInv == IInv /\ DescribeStackEvents => IInv'
<1> SUFFICES ASSUME IInv, DescribeStackEvents PROVE IInv'
  OBVIOUS
<1>1. /\ phase = "sleep" /\ phase' = "describe-events" /\ described' = Len(log)
      /\ UNCHANGED <<serviceVars, clientToken>>
      /\ latestEventId' = latestEventId /\ allEvents' = allEvents
      /\ timeout' = timeout /\ elapsed' = elapsed /\ answer' = answer
  BY DEF DescribeStackEvents
<1>2. request' = request /\ status' = status /\ log' = log /\ clientToken' = clientToken
  BY <1>1 DEF serviceVars
<1>3. TypeOK'
  <2>1. /\ latestEventId \in 0 .. described /\ described \in 0 .. Len(log)
        /\ allEvents \subseteq 1 .. described /\ Len(log) \in Nat
    BY DEF IInv, TypeOK
  <2>2. /\ latestEventId \in 0 .. Len(log) /\ Len(log) \in 0 .. Len(log)
        /\ allEvents \subseteq 1 .. Len(log)
    BY <2>1
  <2> QED BY <1>1, <1>2, <2>2 DEF IInv, TypeOK, Phases
<1>4. PollOK' BY <1>1, <1>2 DEF IInv, PollOK
<1>5. CancelOK' BY <1>1, <1>2, ServiceUnchanged, TokenFacts DEF IInv, CancelOK
<1>6. CursorOK' BY <1>1, <1>2 DEF IInv, CursorOK, Read
<1>7. AnswerOK' BY <1>1, <1>2, ServiceUnchanged DEF IInv, AnswerOK
<1> QED BY <1>1, <1>3, <1>4, <1>5, <1>6, <1>7, ServiceUnchanged DEF IInv

(* The turns of the event loop that look at a response. *)
LEMMA ReadEventsIInv ==
    ASSUME IInv, TerminalEventFound \/ TimeoutFindsNoEvent \/ TimeoutCancels \/ NoTerminalEvent
    PROVE  IInv'
<1>1. /\ phase = "describe-events" /\ allEvents' = UpdatedEvents
      /\ UNCHANGED <<serviceVars, clientToken>>
      /\ described' = described /\ timeout' = timeout /\ elapsed' = elapsed
  BY DEF TerminalEventFound, TimeoutFindsNoEvent, TimeoutCancels, NoTerminalEvent, ReadEvents
<1>2. request' = request /\ status' = status /\ log' = log /\ clientToken' = clientToken
  BY <1>1 DEF serviceVars
<1>3. /\ latestEventId \in 0 .. described /\ described \in 0 .. Len(log)
      /\ described \in 0 .. described /\ log \in Seq(Events)
  BY DEF IInv, TypeOK
<1>4. request.kind \in EventKinds
  <2>1. request.kind \in EventKinds \union PollKinds
    BY RequestsAssumption DEF IInv, TypeOK, EventKinds, PollKinds
  <2> QED BY <1>1, <2>1 DEF IInv, PollOK
<1>5. PollOK' BY <1>2, <1>4, TokenFacts DEF PollOK
<1>6. EndEvents' = EndEvents /\ \A i \in UpdatedEvents : log[i].token # Foreign
  BY <1>1, ServiceUnchanged, TerminalIsEnd
<1>7. UpdatedEvents \subseteq 1 .. described BY <1>1, TerminalIsEnd
<1>8. answer = Waiting BY <1>1 DEF IInv, AnswerOK
<1>9. \A i \in 1 .. described : log[i].token = clientToken => i \in UpdatedEvents
  BY <1>1, NothingMissed
<1>10. CASE TerminalEventFound
  <2>1. /\ TerminalEvents # {} /\ latestEventId' = latestEventId
        /\ \/ request.kind = "ROLLBACK" /\ phase' = "describe-stack" /\ answer' = answer
           \/ phase' = "answered" /\ answer' = log[First(TerminalEvents)].status
    BY <1>10 DEF TerminalEventFound, AnswerWith
  <2>2. PICK x \in EndEvents : EndEvents = {x} /\ TerminalEvents = {x} /\ First(TerminalEvents) = x
                               /\ x \in 1 .. Len(log)
    BY <1>1, <2>1, TerminalIsEnd, OneEnd
  <2>3. log[x].status \in Ended BY <2>2 DEF EndEvents
  <2>4. TypeOK'
    BY <1>1, <1>2, <1>3, <1>7, <2>1, <2>2, <2>3 DEF IInv, TypeOK, Phases
  <2>5. CancelOK'
    BY <1>1, <1>2, <2>1, ServiceUnchanged, TokenFacts DEF IInv, CancelOK
  <2>6. CursorOK' BY <1>1, <1>2, <1>6, <1>9, <2>1 DEF CursorOK, Read
  <2>7. AnswerOK'
    <3>1. log[x].status \notin {Waiting, Thrown} BY <2>3 DEF Ended, Waiting, Thrown
    <3> QED BY <1>2, <1>4, <1>6, <1>8, <2>1, <2>2, <3>1, TokenFacts DEF AnswerOK
  <2> QED BY <1>1, <1>5, <2>4, <2>5, <2>6, <2>7, ServiceUnchanged DEF IInv
<1>11. CASE TimeoutFindsNoEvent
  <2>1. phase' = "answered" /\ answer' = Thrown /\ latestEventId' = latestEventId
    BY <1>11 DEF TimeoutFindsNoEvent, AnswerWith
  <2>2. TypeOK' BY <1>1, <1>2, <1>3, <1>7, <2>1 DEF IInv, TypeOK, Phases
  <2>3. CancelOK'
    BY <1>1, <1>2, <2>1, ServiceUnchanged, TokenFacts DEF IInv, CancelOK
  <2>4. CursorOK' BY <1>1, <1>2, <1>6, <2>1 DEF CursorOK
  <2>5. AnswerOK' BY <1>2, <1>4, <2>1, TokenFacts DEF AnswerOK, Waiting, Thrown
  <2> QED BY <1>1, <1>5, <2>2, <2>3, <2>4, <2>5, ServiceUnchanged DEF IInv
<1>12. CASE TimeoutCancels \/ NoTerminalEvent
  <2>1. /\ latestEventId' = described /\ answer' = answer
        /\ \/ phase' = "sleep"
           \/ phase' = "cancel-update" /\ timeout = "set"
    BY <1>12 DEF TimeoutCancels, NoTerminalEvent, GoOnTo, NextLatestEventId, TimedOut
  <2>2. TypeOK' BY <1>1, <1>2, <1>3, <1>7, <2>1 DEF IInv, TypeOK, Phases
  <2>3. CancelOK'
    BY <1>1, <1>2, <2>1, ServiceUnchanged, TokenFacts DEF IInv, CancelOK
  <2>4. CursorOK' BY <1>1, <1>2, <1>6, <1>7, <1>9, <2>1 DEF CursorOK, Read
  <2>5. AnswerOK' BY <1>2, <1>4, <1>8, <2>1 DEF AnswerOK
  <2> QED BY <1>1, <1>5, <2>2, <2>3, <2>4, <2>5, ServiceUnchanged DEF IInv
<1> QED BY <1>10, <1>11, <1>12

LEMMA CancelRefusedIInv == IInv /\ CancelStackUpdate /\ ~CanBeCancelled => IInv'
<1> SUFFICES ASSUME IInv, CancelStackUpdate, ~CanBeCancelled PROVE IInv'
  OBVIOUS
<1>1. /\ phase' = "answered" /\ answer' = Thrown /\ UNCHANGED <<serviceVars, clientToken>>
      /\ latestEventId' = latestEventId /\ described' = described /\ allEvents' = allEvents
      /\ timeout' = timeout /\ elapsed' = elapsed
  BY DEF CancelStackUpdate, AnswerWith
<1>2. request' = request /\ status' = status /\ log' = log /\ clientToken' = clientToken
  BY <1>1 DEF serviceVars
<1>3. TypeOK' BY <1>1, <1>2 DEF IInv, TypeOK, Phases
<1>4. PollOK' BY <1>1, <1>2 DEF IInv, PollOK
<1>5. CancelOK' BY <1>1, <1>2, ServiceUnchanged, TokenFacts DEF IInv, CancelOK
<1>6. CursorOK' BY <1>1, <1>2 DEF IInv, CursorOK
<1>7. AnswerOK' BY <1>1, <1>2 DEF IInv, AnswerOK, Waiting, Thrown
<1> QED BY <1>1, <1>3, <1>4, <1>5, <1>6, <1>7, ServiceUnchanged DEF IInv

(* Somebody else may have acted on the stack before describeStack: its     *)
(* status need not be that of the end that was found.                      *)
LEMMA DescribeStackIInv == IInv /\ DescribeStack => IInv'
<1> SUFFICES ASSUME IInv, DescribeStack PROVE IInv'
  OBVIOUS
<1>1. /\ phase = "describe-stack" /\ phase' = "answered" /\ answer' = status
      /\ UNCHANGED <<serviceVars, clientToken>>
      /\ latestEventId' = latestEventId /\ described' = described /\ allEvents' = allEvents
      /\ timeout' = timeout /\ elapsed' = elapsed
  BY DEF DescribeStack, AnswerWith
<1>2. request' = request /\ status' = status /\ log' = log /\ clientToken' = clientToken
  BY <1>1 DEF serviceVars
<1>3. request.kind = "ROLLBACK" /\ request.kind \in EventKinds /\ EndEvents # {}
  BY <1>1 DEF IInv, AnswerOK, EventKinds
<1>4. PICK x \in EndEvents : x \in 1 .. Len(log) /\ EndEvents = {x} /\ log[x].token # Foreign
  BY <1>3, OneEnd DEF EndEvents
<1>5. Begun BY <1>3, <1>4 DEF IInv, AcceptedOK, Accepted, Begun
<1>6. Over \/ Meddling BY <1>3, <1>5 DEF IInv, Underway
<1>7. status \in InProgress \union Ended
  BY <1>6 DEF Over, Meddling, DeletePath, InProgress, Ended
<1>8. TypeOK' BY <1>1, <1>2, <1>7 DEF IInv, TypeOK, Phases
<1>9. PollOK' BY <1>2, <1>3, TokenFacts DEF PollOK
<1>10. CancelOK' BY <1>1, <1>2, ServiceUnchanged, TokenFacts DEF IInv, CancelOK
<1>11. CursorOK'
  <2>1. answer = Waiting /\ answer # Thrown BY <1>1 DEF IInv, AnswerOK, Waiting, Thrown
  <2> QED BY <1>1, <1>2, <2>1 DEF IInv, CursorOK, Read
<1>12. AnswerOK'
  <2>1. status \notin {Waiting, Thrown} BY <1>7 DEF InProgress, Ended, Waiting, Thrown
  <2> QED BY <1>1, <1>2, <1>3, <2>1, TokenFacts, ServiceUnchanged DEF AnswerOK
<1> QED BY <1>1, <1>8, <1>9, <1>10, <1>11, <1>12, ServiceUnchanged DEF IInv

LEMMA PollResultType ==
    /\ PollResult \in {"READY", "NO_CHANGES", "PENDING", "FAILED", "ERROR",
                       "DETECTION_COMPLETE", "DETECTION_FAILED"}
    /\ PollResult \notin {Waiting, Thrown}
  BY DEF PollResult, Evaluate, EvaluateDetection, Waiting, Thrown

LEMMA PollEndsIInv == IInv /\ PollEnds => IInv'
<1> SUFFICES ASSUME IInv, PollEnds PROVE IInv'
  OBVIOUS
<1>1. /\ phase = "poll" /\ phase' = "answered" /\ PollResult # "PENDING"
      /\ answer' = IF PollResult \in {"FAILED", "ERROR"} THEN Thrown ELSE PollResult
      /\ UNCHANGED <<serviceVars, clientToken>>
      /\ latestEventId' = latestEventId /\ described' = described /\ allEvents' = allEvents
      /\ timeout' = timeout /\ elapsed' = elapsed
  BY DEF PollEnds, AnswerWith
<1>2. request' = request /\ status' = status /\ log' = log /\ clientToken' = clientToken
  BY <1>1 DEF serviceVars
<1>3. request.kind \in PollKinds
  <2>1. request.kind \in EventKinds \union PollKinds
    BY RequestsAssumption DEF IInv, TypeOK, EventKinds, PollKinds
  <2> QED BY <1>1, <2>1 DEF IInv, AnswerOK
<1>4. TypeOK'
  <2>1. answer' \in {Thrown, "READY", "NO_CHANGES"} \union PollEnded
    BY <1>1, PollResultType DEF PollEnded
  <2> QED BY <1>1, <1>2, <2>1 DEF IInv, TypeOK, Phases
<1>5. PollOK' BY <1>1, <1>2 DEF IInv, PollOK
<1>6. CancelOK' BY <1>1, <1>2, ServiceUnchanged, TokenFacts DEF IInv, CancelOK
<1>7. CursorOK'
  <2>1. log = <<>> BY <1>3 DEF IInv, PollOK
  <2>2. Read' \in 0 .. 0 /\ allEvents = {}
    BY <1>1, <2>1 DEF IInv, TypeOK, Read
  <2> QED BY <1>1, <2>2 DEF CursorOK
<1>8. AnswerOK'
  <2>1. PollResult' = PollResult BY <1>2 DEF PollResult
  <2> QED BY <1>1, <1>2, <1>3, <2>1, PollResultType, TokenFacts DEF AnswerOK, Waiting, Thrown
<1> QED BY <1>1, <1>4, <1>5, <1>6, <1>7, <1>8, ServiceUnchanged DEF IInv

LEMMA IdleIInv == IInv /\ UNCHANGED <<serviceVars, waiterVars>> /\ elapsed' \in BOOLEAN => IInv'
<1> SUFFICES ASSUME IInv, UNCHANGED <<serviceVars, waiterVars>>, elapsed' \in BOOLEAN
             PROVE  IInv'
  OBVIOUS
<1>1. /\ request' = request /\ status' = status /\ log' = log /\ clientToken' = clientToken
      /\ phase' = phase /\ latestEventId' = latestEventId /\ described' = described
      /\ allEvents' = allEvents /\ timeout' = timeout /\ answer' = answer
      /\ UNCHANGED <<serviceVars, clientToken>>
  BY DEF serviceVars, waiterVars
<1>2. TypeOK' BY <1>1 DEF IInv, TypeOK
<1>3. PollOK' BY <1>1 DEF IInv, PollOK
<1>4. CancelOK' BY <1>1, ServiceUnchanged, TokenFacts DEF IInv, CancelOK
<1>5. CursorOK' BY <1>1 DEF IInv, CursorOK, Read
<1>6. AnswerOK' BY <1>1, ServiceUnchanged DEF IInv, AnswerOK, PollResult
<1> QED BY <1>1, <1>2, <1>3, <1>4, <1>5, <1>6, ServiceUnchanged DEF IInv

LEMMA NextIInv == IInv /\ [Next]_vars => IInv'
<1> SUFFICES ASSUME IInv, [Next]_vars PROVE IInv'
  OBVIOUS
<1>1. CASE WaiterStep
  <2>1. CASE CallThrows BY <2>1, CallThrowsIInv
  <2>2. CASE DescribeStackEvents BY <2>2, DescribeStackEventsIInv
  <2>3. CASE TerminalEventFound \/ TimeoutFindsNoEvent \/ TimeoutCancels \/ NoTerminalEvent
    BY <2>3, ReadEventsIInv
  <2>4. CASE CancelStackUpdate BY <2>4, CancelStackUpdateIInv, CancelRefusedIInv
  <2>5. CASE DescribeStack BY <2>5, DescribeStackIInv
  <2>6. CASE PollEnds BY <2>6, PollEndsIInv
  <2> QED BY <1>1, <2>1, <2>2, <2>3, <2>4, <2>5, <2>6 DEF WaiterStep
<1>2. CASE ServiceStep
  <2>1. UNCHANGED <<waiterVars, elapsed>> BY <1>2 DEF ServiceStep
  <2> QED BY <1>2, <2>1, OperationBeginsIInv, StatusChangesIInv, ResourceChangesIInv,
             PolledStatusChangesIInv, SomebodyElseDeletesIInv DEF ServiceStep
<1>3. CASE TimePasses BY <1>3, IdleIInv DEF TimePasses
<1>4. CASE UNCHANGED vars
  <2>1. elapsed \in BOOLEAN BY DEF IInv, TypeOK
  <2> QED BY <1>4, <2>1, IdleIInv DEF vars
<1> QED BY <1>1, <1>2, <1>3, <1>4 DEF Next

LEMMA InvariantHolds == Spec => []IInv
  <1>1. Init => IInv BY InitIInv
  <1>2. IInv /\ [Next]_vars => IInv' BY NextIInv
  <1> QED BY <1>1, <1>2, PTL DEF Spec

(* The variables keep their types; in particular the cursor never runs     *)
(* ahead of the last response, whatever CloudFormation records meanwhile.  *)
THEOREM TypeCorrect == Spec => []TypeOK
  <1>1. IInv => TypeOK BY DEF IInv
  <1> QED BY <1>1, InvariantHolds, PTL

(* Each event of the operation reaches the listener once and in order, for *)
(* every length of the log and every interleaving with the polls.          *)
THEOREM EventsAlwaysInOrder == Spec => []EventsInOrder
<1>1. IInv => EventsInOrder
  <2> SUFFICES ASSUME IInv PROVE EventsInOrder
    OBVIOUS
  <2>1. CursorOK BY DEF IInv
  <2>2. ASSUME phase = "describe-events", NEW new \in NewEvents, NEW old \in allEvents
        PROVE  old < new
    <3>1. allEvents \subseteq 1 .. latestEventId BY <2>1, <2>2 DEF CursorOK
    <3>2. latestEventId \in 0 .. described /\ described \in 0 .. Len(log) /\ log \in Seq(Events)
      BY DEF IInv, TypeOK
    <3>3. new \in latestEventId + 1 .. described BY DEF NewEvents
    <3> QED BY <3>1, <3>2, <3>3
  <2> QED BY <2>1, <2>2 DEF CursorOK, EventsInOrder
<1> QED BY <1>1, InvariantHolds, PTL

(* However an update and its timeout race, an update that was cancelled is *)
(* not reported as a success.                                              *)
THEOREM CancelledUpdateAlwaysRollsBack == Spec => []CancelledUpdateRollsBack
<1>1. IInv => CancelledUpdateRollsBack
  <2> SUFFICES ASSUME IInv PROVE CancelledUpdateRollsBack
    OBVIOUS
  <2>1. timeout = "occurred" <=> HasEventOf(Cancelling) BY DEF IInv, CancelOK
  <2>2. ASSUME timeout = "occurred", answer \notin {Waiting, Thrown}
        PROVE  answer \in {"UPDATE_ROLLBACK_COMPLETE", "UPDATE_ROLLBACK_FAILED"}
    <3>1. clientToken = Cancelling /\ request.kind = "UPDATE" /\ request.kind \in EventKinds
      <4>1. request \in Requests /\ request.timeout /\ clientToken = Cancelling
        BY <2>2 DEF IInv, TypeOK, CancelOK
      <4> QED BY <4>1, RequestsAssumption DEF EventKinds
    <3>2. EndEvents # {} /\ \A e \in EndEvents : answer = log[e].status
      BY <2>2, <3>1, TokenFacts DEF IInv, AnswerOK
    <3>3. PICK x \in EndEvents : x \in 1 .. Len(log) /\ EndEvents = {x} /\ log[x].token # Foreign
      BY <3>2, OneEnd DEF EndEvents
    <3>4. Begun BY <3>1, <3>3 DEF IInv, AcceptedOK, Accepted, Begun
    <3>5. log[x].status \in Ended \intersect RollbackPath
      BY <3>1, <3>3, <3>4 DEF IInv, Underway, Over, Meddling, Path
    <3> QED BY <3>2, <3>3, <3>5 DEF Ended, RollbackPath
  <2> QED BY <2>1, <2>2 DEF CancelledUpdateRollsBack
<1> QED BY <1>1, InvariantHolds, PTL

-----------------------------------------------------------------------------
(* The refinement. *)
LEMMA EndingsFacts ==
    ASSUME NEW kind \in EventKinds, NEW s \in KindPath(kind) \intersect Ended
    PROVE  /\ AbstractStatus(FirstStatus(kind)) \in Abstract!InProgress
           /\ AbstractStatus(s) \in Abstract!EndingsOf(AbstractStatus(FirstStatus(kind)))
           /\ AbstractStatus(s) \notin Abstract!InProgress
<1> USE DEF KindPath, RollbackPath, DeletePath, Ended, AbstractStatus, FirstStatus,
            Abstract!InProgress, Abstract!InProgressStatuses, Abstract!EndingsOf,
            Abstract!Endings, Abstract!ServiceEndings, Abstract!Absent
<1>1. CASE kind = "CREATE" BY <1>1
<1>2. CASE kind = "UPDATE" BY <1>2
<1>3. CASE kind = "DELETE" BY <1>3
<1>4. CASE kind = "ROLLBACK" BY <1>4
<1> QED BY <1>1, <1>2, <1>3, <1>4 DEF EventKinds

LEMMA FirstInProgress ==
    ASSUME NEW kind \in EventKinds
    PROVE  AbstractStatus(FirstStatus(kind)) \in Abstract!InProgress
  BY DEF EventKinds, AbstractStatus, FirstStatus, Abstract!InProgress,
         Abstract!InProgressStatuses, Abstract!Endings

(* The mapped status of a request that leaves events, of a change set and  *)
(* of a drift detection.                                                   *)
EventStatusOK ==
    request.kind \in EventKinds =>
        /\ EndEvents = {} => RequestedStatus = FirstStatus(request.kind)
        /\ \A x \in EndEvents :
              /\ RequestedStatus = log[x].status
              /\ log[x].status \in KindPath(request.kind) \intersect Ended
              /\ EndEvents = {x}

PollStatusOK ==
    request.kind \in PollKinds =>
        /\ RequestedStatus = AbstractStatus(RequestedStatus)
        /\ PollResult = "PENDING" =>
              RequestedStatus = IF request.kind = "CHANGE_SET" THEN "CHANGE_SET_IN_PROGRESS"
                                                              ELSE "DETECTION_IN_PROGRESS"
        /\ PollResult # "PENDING" =>
              /\ RequestedStatus = PollResult
              /\ RequestedStatus \in
                    IF request.kind = "CHANGE_SET" THEN {"READY", "NO_CHANGES", "FAILED"}
                    ELSE {"DETECTION_COMPLETE", "DETECTION_FAILED"}

LEMMA EventStatus == IInv => EventStatusOK
<1> SUFFICES ASSUME IInv, request.kind \in EventKinds
             PROVE  /\ EndEvents = {} => RequestedStatus = FirstStatus(request.kind)
                    /\ \A x \in EndEvents :
                          /\ RequestedStatus = log[x].status
                          /\ log[x].status \in KindPath(request.kind) \intersect Ended
                          /\ EndEvents = {x}
  BY DEF EventStatusOK
<1>1. request.kind \notin {"CHANGE_SET", "DRIFT_DETECTION"}
  BY DEF EventKinds
<1>2. EndEvents = {} => RequestedStatus = FirstStatus(request.kind)
  BY <1>1 DEF RequestedStatus
<1>3. ASSUME NEW x \in EndEvents
      PROVE  /\ RequestedStatus = log[x].status
             /\ log[x].status \in KindPath(request.kind) \intersect Ended
             /\ EndEvents = {x}
  <2>1. First(EndEvents) = x /\ EndEvents = {x} /\ log[x].token # Foreign /\ x \in 1 .. Len(log)
    BY <1>3, OneEnd DEF EndEvents
  <2>2. RequestedStatus = log[x].status BY <1>1, <2>1 DEF RequestedStatus
  <2>3. Begun BY <2>1 DEF IInv, AcceptedOK, Accepted, Begun
  <2>4. log[x].status \in Path \intersect Ended
    BY <2>1, <2>3 DEF IInv, Underway, Over, Meddling
  <2>5. Path \subseteq KindPath(request.kind)
    <3>1. CASE clientToken = Cancelling
      <4>1. request \in Requests /\ request.timeout BY <3>1 DEF IInv, TypeOK, CancelOK
      <4> QED BY <3>1, <4>1, RequestsAssumption DEF Path, KindPath
    <3>2. CASE clientToken # Cancelling BY <3>2 DEF Path
    <3> QED BY <3>1, <3>2
  <2> QED BY <2>1, <2>2, <2>4, <2>5
<1> QED BY <1>2, <1>3

LEMMA PollStatus == IInv => PollStatusOK
<1> SUFFICES ASSUME IInv, request.kind \in PollKinds PROVE PollStatusOK
  BY DEF PollStatusOK
<1>1. status \in IF request.kind = "CHANGE_SET"
                 THEN {"CREATE_PENDING", "CREATE_IN_PROGRESS", "CREATE_COMPLETE",
                       "FAILED_NO_CHANGES", "FAILED"}
                 ELSE {"DETECTION_IN_PROGRESS", "DETECTION_COMPLETE", "DETECTION_FAILED"}
  BY DEF IInv, PollOK
<1>2. PollResult \in IF request.kind = "CHANGE_SET"
                     THEN {"PENDING", "READY", "NO_CHANGES", "FAILED"}
                     ELSE {"PENDING", "DETECTION_COMPLETE", "DETECTION_FAILED"}
  <2>1. CASE request.kind = "CHANGE_SET"
    <3>1. PollResult = Evaluate(status) BY <2>1 DEF PollResult
    <3>2. Evaluate(status) \in {"PENDING", "READY", "NO_CHANGES", "FAILED"}
      BY <1>1, <2>1 DEF Evaluate
    <3> QED BY <2>1, <3>1, <3>2
  <2>2. CASE request.kind # "CHANGE_SET"
    BY <1>1, <2>2 DEF PollResult, EvaluateDetection
  <2> QED BY <2>1, <2>2
<1>3. request.kind \notin EventKinds BY TokenFacts
<1>4. RequestedStatus = IF PollResult # "PENDING" THEN PollResult
                        ELSE IF request.kind = "CHANGE_SET" THEN "CHANGE_SET_IN_PROGRESS"
                                                            ELSE "DETECTION_IN_PROGRESS"
  BY <1>3 DEF RequestedStatus
<1>5. RequestedStatus # "DELETE_COMPLETE" BY <1>2, <1>4
<1>6. RequestedStatus = AbstractStatus(RequestedStatus) BY <1>5 DEF AbstractStatus
<1> QED BY <1>2, <1>4, <1>6 DEF PollStatusOK

LEMMA InitAbstract == Init => Abstract!Init
<1> SUFFICES ASSUME Init PROVE Abstract!Init
  OBVIOUS
<1>1. IInv BY InitIInv
<1>2. AbstractStatus(answer) = Abstract!Waiting
  BY DEF Init, AbstractStatus, Waiting, Abstract!Waiting
<1>3. request.kind \in EventKinds \union PollKinds
  BY <1>1, RequestsAssumption DEF IInv, TypeOK, EventKinds, PollKinds
<1>4. EndEvents = {}
  <2>1. \A i \in 1 .. Len(log) : log[i].token = Foreign
    BY DEF Init, ServiceInit, StackEvent
  <2> QED BY <2>1 DEF EndEvents
<1>5. StatusNow = RequestedStatus BY <1>4 DEF StatusNow
<1>6. CASE request.kind \in EventKinds
  <2>1. RequestedStatus = FirstStatus(request.kind)
    BY <1>1, <1>4, <1>6, EventStatus DEF EventStatusOK
  <2>2. request.kind = "ROLLBACK" =>
          AbstractStatus(RequestedStatus) = "UPDATE_ROLLBACK_IN_PROGRESS"
    BY <2>1 DEF FirstStatus, AbstractStatus
  <2> QED BY <1>2, <1>5, <1>6, <2>1, <2>2, FirstInProgress DEF Abstract!Init
<1>7. CASE request.kind \in PollKinds
  <2>1. /\ request.kind # "ROLLBACK"
        /\ request.kind = "CHANGE_SET" => status = "CREATE_PENDING"
        /\ request.kind # "CHANGE_SET" => status = "DETECTION_IN_PROGRESS"
    BY <1>7 DEF Init, ServiceInit, StatusBefore, PollKinds
  <2>2. PollResult = "PENDING" BY <2>1 DEF PollResult, Evaluate, EvaluateDetection
  <2>3. RequestedStatus \in {"CHANGE_SET_IN_PROGRESS", "DETECTION_IN_PROGRESS"}
        /\ RequestedStatus = AbstractStatus(RequestedStatus)
    BY <1>1, <1>7, <2>2, PollStatus DEF PollStatusOK
  <2> QED BY <1>2, <1>5, <2>1, <2>3
          DEF Abstract!Init, Abstract!InProgress, Abstract!ServiceEndings
<1> QED BY <1>3, <1>6, <1>7

(* What may become of the stack when what was requested is over. *)
SomebodyElsesStatus(s, next) ==
    \/ next = s
    \/ s \in Ended /\ next = "DELETE_IN_PROGRESS"
    \/ s = "DELETE_IN_PROGRESS" /\ next \in {"DELETE_COMPLETE", "DELETE_FAILED"}

LEMMA SomebodyElsesStep ==
    ASSUME IInv, request.kind \in EventKinds, EndEvents # {},
           ServiceStep \/ (CancelStackUpdate /\ CanBeCancelled)
    PROVE  SomebodyElsesStatus(status, status')
<1>1. PICK x \in EndEvents : x \in 1 .. Len(log) /\ log[x].token # Foreign
  BY DEF EndEvents
<1>2. ~Accepted /\ Begun BY <1>1 DEF IInv, AcceptedOK, Accepted, Begun
<1>3. /\ Over \/ Meddling
      /\ status \in InProgress => status \in DeletePath
  BY <1>2, StatusFacts DEF IInv, Underway, Over, Meddling
<1>4. status # "UPDATE_IN_PROGRESS" BY <1>3 DEF InProgress, DeletePath
<1>5. CASE StatusChanges
  <2>1. status = "DELETE_IN_PROGRESS" /\ status' \in Successors[status]
    BY <1>3, <1>5 DEF StatusChanges, InProgress, DeletePath
  <2> QED BY <2>1 DEF Successors, InProgress, SomebodyElsesStatus
<1>6. CASE ResourceChanges BY <1>6 DEF ResourceChanges, SomebodyElsesStatus
<1>7. CASE SomebodyElseDeletes BY <1>7 DEF SomebodyElseDeletes, SomebodyElsesStatus
<1>8. ~OperationBegins BY <1>2 DEF OperationBegins
<1>9. ~PolledStatusChanges BY TokenFacts DEF PolledStatusChanges
<1>10. ~CanBeCancelled BY <1>4 DEF CanBeCancelled
<1> QED BY <1>5, <1>6, <1>7, <1>8, <1>9, <1>10 DEF ServiceStep

LEMMA SomebodyElseOperatesFacts ==
    ASSUME NEW s \in InProgress \union Ended, NEW next, SomebodyElsesStatus(s, next)
    PROVE  \/ next = s
           \/ AbstractStatus(next) \in
                  IF AbstractStatus(s) \in Abstract!InProgressStatuses
                  THEN Abstract!Endings[AbstractStatus(s)] ELSE Abstract!InProgressStatuses
<1> USE DEF AbstractStatus, Abstract!InProgressStatuses, Abstract!Endings, Abstract!Absent
<1>1. CASE s \in Ended /\ next = "DELETE_IN_PROGRESS"
  <2>1. AbstractStatus(s) \notin Abstract!InProgressStatuses BY <1>1 DEF Ended
  <2>2. AbstractStatus(next) \in Abstract!InProgressStatuses BY <1>1
  <2> QED BY <2>1, <2>2
<1>2. CASE s = "DELETE_IN_PROGRESS" /\ next \in {"DELETE_COMPLETE", "DELETE_FAILED"}
  BY <1>2
<1> QED BY <1>1, <1>2 DEF SomebodyElsesStatus

(* A step of CloudFormation ends what was requested, once, or is somebody  *)
(* else's, or is not seen.                                                 *)
LEMMA RecordRefines ==
    ASSUME IInv, IInv', answer' = answer, request' = request, request.kind \in EventKinds,
           NEW e \in Events, Record(e),
           EndEvents # {} => SomebodyElsesStatus(status, status')
    PROVE  [Abstract!Next]_(Abstract!vars)
<1>1. AbstractStatus(answer') = AbstractStatus(answer) BY DEF AbstractStatus
<1>2. EventStatusOK /\ EventStatusOK'
  <2>1. EventStatusOK' BY EventStatus, PTL
  <2> QED BY <2>1, EventStatus
<1>3. /\ EndEvents' = EndEvents \/ EndEvents' = EndEvents \union {Len(log')}
      /\ \A x \in EndEvents : log'[x] = log[x]
      /\ log'[Len(log')] = e /\ CurrentToken' = e.token
      /\ ~IsEnd(e) => EndEvents' = EndEvents
  BY RecordFacts DEF IInv, TypeOK, EndEvents
<1>4. CASE EndEvents = {} /\ EndEvents' # {}
  <2>1. Len(log') \in EndEvents' BY <1>3, <1>4
  <2>2. /\ RequestedStatus' = log'[Len(log')].status
        /\ log'[Len(log')].status \in KindPath(request.kind) \intersect Ended
    BY <1>2, <2>1 DEF EventStatusOK
  <2>3. RequestedStatus = FirstStatus(request.kind) BY <1>2, <1>4 DEF EventStatusOK
  <2>4. status' = log'[Len(log')].status
    <3>1. Begun' BY <2>1 DEF IInv, AcceptedOK, Accepted, Begun, EndEvents
    <3>2. CurrentToken' # Foreign BY <1>3, <1>4 DEF IsEnd
    <3> QED BY <1>4, <3>1, <3>2 DEF IInv, Underway, Over, Meddling
  <2>5. StatusNow' = RequestedStatus' BY <1>4, <2>2, <2>4 DEF StatusNow
  <2>6. Abstract!OperationEnds
    BY <1>1, <2>2, <2>3, <2>5, EndingsFacts DEF Abstract!OperationEnds, AbstractStatus
  <2> QED BY <2>6 DEF Abstract!Next
<1>5. CASE EndEvents # {}
  <2>1. PICK x \in EndEvents : TRUE BY <1>5
  <2>2. /\ RequestedStatus = log[x].status
        /\ log[x].status \in KindPath(request.kind) \intersect Ended
    BY <1>2, <2>1 DEF EventStatusOK
  <2>3. x \in EndEvents' /\ log'[x] = log[x] BY <1>3, <2>1
  <2>4. RequestedStatus' = RequestedStatus BY <1>2, <2>2, <2>3 DEF EventStatusOK
  <2>5. StatusNow = status /\ StatusNow' = status' BY <1>5, <2>3 DEF StatusNow
  <2>6. status \in InProgress \union Ended
    <3>1. Begun BY <2>1 DEF IInv, AcceptedOK, Accepted, Begun, EndEvents
    <3> QED BY <3>1 DEF IInv, Underway, Over, Meddling, DeletePath, InProgress, Ended
  <2>7. CASE status' = status
    BY <1>1, <2>4, <2>5, <2>7 DEF Abstract!vars, AbstractStatus
  <2>8. CASE status' # status
    <3>1. AbstractStatus(RequestedStatus) \notin Abstract!InProgress
      BY <2>2, EndingsFacts
    <3>2. Abstract!SomebodyElseOperates
      BY <1>1, <1>5, <2>4, <2>5, <2>6, <2>8, <3>1, SomebodyElseOperatesFacts
         DEF Abstract!SomebodyElseOperates, AbstractStatus
    <3> QED BY <3>2 DEF Abstract!Next
  <2> QED BY <2>7, <2>8
<1>6. CASE EndEvents = {} /\ EndEvents' = {}
  <2>1. RequestedStatus = FirstStatus(request.kind) BY <1>2, <1>6 DEF EventStatusOK
  <2>2. RequestedStatus' = FirstStatus(request.kind) BY <1>2, <1>6 DEF EventStatusOK
  <2>3. StatusNow = RequestedStatus /\ StatusNow' = RequestedStatus' BY <1>6 DEF StatusNow
  <2> QED BY <1>1, <2>1, <2>2, <2>3 DEF Abstract!vars, AbstractStatus
<1> QED BY <1>4, <1>5, <1>6

LEMMA PollRefines ==
    ASSUME IInv, IInv', answer' = answer, PolledStatusChanges
    PROVE  [Abstract!Next]_(Abstract!vars)
<1>1. /\ AbstractStatus(answer') = AbstractStatus(answer) /\ request' = request
      /\ request.kind \in PollKinds /\ status \in PollInProgress
  BY DEF AbstractStatus, PolledStatusChanges
<1>2. PollStatusOK /\ PollStatusOK'
  <2>1. PollStatusOK' BY PollStatus, PTL
  <2> QED BY <2>1, PollStatus
<1>3. PollResult = "PENDING"
  <2>1. status \in IF request.kind = "CHANGE_SET" THEN {"CREATE_PENDING", "CREATE_IN_PROGRESS"}
                                                 ELSE {"DETECTION_IN_PROGRESS"}
    BY <1>1 DEF IInv, PollOK, PollInProgress
  <2> QED BY <2>1 DEF PollResult, Evaluate, EvaluateDetection
<1>4. RequestedStatus = IF request.kind = "CHANGE_SET" THEN "CHANGE_SET_IN_PROGRESS"
                                                      ELSE "DETECTION_IN_PROGRESS"
  BY <1>1, <1>2, <1>3 DEF PollStatusOK
<1>5. StatusNow = RequestedStatus /\ StatusNow' = RequestedStatus'
  <2>1. request.kind \notin EventKinds BY <1>1, TokenFacts
  <2> QED BY <1>1, <2>1 DEF StatusNow
<1>6. CASE PollResult' = "PENDING"
  <2>1. RequestedStatus' = RequestedStatus BY <1>1, <1>2, <1>4, <1>6 DEF PollStatusOK
  <2> QED BY <1>1, <1>5, <2>1 DEF Abstract!vars, AbstractStatus
<1>7. CASE PollResult' # "PENDING"
  <2>1. RequestedStatus' \in
           IF request.kind = "CHANGE_SET" THEN {"READY", "NO_CHANGES", "FAILED"}
           ELSE {"DETECTION_COMPLETE", "DETECTION_FAILED"}
    BY <1>1, <1>2, <1>7 DEF PollStatusOK
  <2>2. /\ RequestedStatus = AbstractStatus(RequestedStatus)
        /\ RequestedStatus' = AbstractStatus(RequestedStatus)'
    BY <1>1, <1>2 DEF PollStatusOK
  <2>3. /\ RequestedStatus \in Abstract!InProgress
        /\ RequestedStatus' \in Abstract!EndingsOf(RequestedStatus)
    BY <1>4, <2>1 DEF Abstract!InProgress, Abstract!EndingsOf, Abstract!ServiceEndings,
                      Abstract!InProgressStatuses, Abstract!Endings
  <2>4. AbstractStatus(StatusNow)' = AbstractStatus(RequestedStatus)'
    BY <1>5 DEF AbstractStatus
  <2>5. Abstract!OperationEnds BY <1>1, <2>2, <2>3, <2>4 DEF Abstract!OperationEnds
  <2> QED BY <2>5 DEF Abstract!Next
<1> QED BY <1>6, <1>7

(* A step of the wait answers with what was requested ended with, the wait *)
(* for a rollback with the status of now, or with an exception, or is not  *)
(* seen.                                                                   *)
LEMMA AnswerRefines ==
    ASSUME IInv, IInv', UNCHANGED <<request, log, status>>,
           answer' = answer \/ (answer = Waiting /\ phase' = "answered"),
           request.kind = "ROLLBACK" => answer' \in {answer, Thrown, status}
    PROVE  [Abstract!Next]_(Abstract!vars)
<1>1. /\ RequestedStatus' = RequestedStatus /\ EndEvents' = EndEvents
      /\ PollResult' = PollResult /\ StatusNow' = StatusNow
  BY DEF RequestedStatus, EndEvents, PollResult, StatusNow
<1>2. CASE answer' = answer
  BY <1>1, <1>2 DEF Abstract!vars, AbstractStatus
<1>3. CASE answer = Waiting /\ phase' = "answered" /\ answer' = Thrown
  BY <1>1, <1>3 DEF Abstract!Next, Abstract!Throw, Abstract!Waiting, Abstract!Thrown,
                    AbstractStatus, Waiting, Thrown
<1>4. CASE answer = Waiting /\ phase' = "answered" /\ answer' # Thrown
  <2>1. answer' \notin {Waiting, Thrown} BY <1>4 DEF IInv, AnswerOK
  <2>2. request.kind \in EventKinds \union PollKinds
    BY RequestsAssumption DEF IInv, TypeOK, EventKinds, PollKinds
  <2>3. CASE request.kind \in EventKinds
    <3>1. /\ EndEvents # {}
          /\ request.kind # "ROLLBACK" => \A x \in EndEvents : answer' = log[x].status
      BY <1>1, <2>1, <2>3, TokenFacts DEF IInv, AnswerOK
    <3>2. PICK x \in EndEvents : request.kind # "ROLLBACK" => answer' = log[x].status
      BY <3>1
    <3>3. /\ RequestedStatus = log[x].status
          /\ log[x].status \in KindPath(request.kind) \intersect Ended
      BY <2>3, <3>2, EventStatus DEF EventStatusOK
    <3>4. AbstractStatus(RequestedStatus) \notin Abstract!InProgress
      BY <2>3, <3>3, EndingsFacts
    <3>5. StatusNow = status BY <2>3, <3>1 DEF StatusNow
    <3>6. answer' = IF request.kind = "ROLLBACK" THEN StatusNow ELSE RequestedStatus
      BY <1>4, <2>1, <3>2, <3>3, <3>5
    <3>7. AbstractStatus(answer') = IF request.kind = "ROLLBACK" THEN AbstractStatus(StatusNow)
                                    ELSE AbstractStatus(RequestedStatus)
      BY <3>6
    <3>8. Abstract!Answer
      BY <1>1, <1>4, <3>4, <3>7
         DEF Abstract!Answer, Abstract!Waiting, AbstractStatus, Waiting
    <3> QED BY <3>8 DEF Abstract!Next
  <2>4. CASE request.kind \in PollKinds
    <3>1. answer' = PollResult /\ PollResult # "PENDING" /\ request.kind # "ROLLBACK"
      BY <1>1, <2>1, <2>4 DEF IInv, AnswerOK, PollKinds
    <3>2. /\ RequestedStatus = PollResult
          /\ RequestedStatus \in {"READY", "NO_CHANGES", "FAILED",
                                  "DETECTION_COMPLETE", "DETECTION_FAILED"}
      BY <2>4, <3>1, PollStatus DEF PollStatusOK
    <3>3. AbstractStatus(RequestedStatus) \notin Abstract!InProgress
      BY <3>2 DEF AbstractStatus, Abstract!InProgress, Abstract!InProgressStatuses,
                  Abstract!Endings, Abstract!ServiceEndings
    <3>4. AbstractStatus(answer') = AbstractStatus(RequestedStatus) BY <3>1, <3>2
    <3>5. Abstract!Answer
      BY <1>1, <1>4, <3>1, <3>3, <3>4
         DEF Abstract!Answer, Abstract!Waiting, AbstractStatus, Waiting
    <3> QED BY <3>5 DEF Abstract!Next
  <2> QED BY <2>2, <2>3, <2>4
<1> QED BY <1>2, <1>3, <1>4

(* CloudFormation records one event at a time. *)
LEMMA ServiceRecords ==
    ASSUME IInv, ServiceStep, ~PolledStatusChanges
    PROVE  \E event \in Events : Record(event)
<1>1. ASSUME ~Accepted, request.kind \in EventKinds PROVE CurrentToken \in Tokens
  BY <1>1, TokenFacts DEF Accepted, Begun, IInv, TypeOK, Underway, Over, Meddling
<1>2. CASE OperationBegins
  <2>1. StackEvent(Own, status') \in Events
    BY <1>2, StatusFacts, TokenFacts DEF OperationBegins, Accepted, StackEvent, Events
  <2> QED BY <1>2, <2>1 DEF OperationBegins
<1>3. CASE StatusChanges
  <2>1. CurrentToken \in Tokens /\ status' \in InProgress \union Ended
    BY <1>1, <1>3, StatusFacts DEF StatusChanges
  <2>2. StackEvent(CurrentToken, status') \in Events BY <2>1 DEF StackEvent, Events
  <2> QED BY <1>3, <2>2 DEF StatusChanges
<1>4. CASE ResourceChanges
  <2>1. PICK s \in {"UPDATE_COMPLETE", "DELETE_COMPLETE"} : Record(ResourceEvent(CurrentToken, s))
    BY <1>4 DEF ResourceChanges
  <2>2. CurrentToken \in Tokens BY <1>1, <1>4 DEF ResourceChanges
  <2>3. ResourceEvent(CurrentToken, s) \in Events BY <2>2 DEF ResourceEvent, Events, Ended
  <2> QED BY <2>1, <2>3
<1>5. CASE SomebodyElseDeletes
  <2>1. StackEvent(Foreign, status') \in Events
    BY <1>5, TokenFacts DEF SomebodyElseDeletes, StackEvent, Events, InProgress
  <2> QED BY <1>5, <2>1 DEF SomebodyElseDeletes
<1> QED BY <1>2, <1>3, <1>4, <1>5 DEF ServiceStep

LEMMA StepRefines == IInv /\ IInv' /\ [Next]_vars => [Abstract!Next]_(Abstract!vars)
<1> SUFFICES ASSUME IInv, IInv', [Next]_vars PROVE [Abstract!Next]_(Abstract!vars)
  OBVIOUS
<1>1. phase # "answered" => answer = Waiting BY DEF IInv, AnswerOK
<1>2. CASE WaiterStep /\ ~(CancelStackUpdate /\ CanBeCancelled)
  <2>1. UNCHANGED <<request, log, status>>
    BY <1>2 DEF WaiterStep, CallThrows, DescribeStackEvents, TerminalEventFound,
                TimeoutFindsNoEvent, TimeoutCancels, NoTerminalEvent, CancelStackUpdate,
                DescribeStack, PollEnds, serviceVars
  <2>2. answer' = answer \/ phase' = "answered"
    BY <1>2 DEF WaiterStep, CallThrows, DescribeStackEvents, TerminalEventFound,
                TimeoutFindsNoEvent, TimeoutCancels, NoTerminalEvent, CancelStackUpdate,
                DescribeStack, PollEnds, AnswerWith, GoOnTo
  <2>3. phase \in {"sleep", "describe-events", "cancel-update", "describe-stack", "poll"}
    BY <1>2, MayFailAssumption
       DEF WaiterStep, CallThrows, DescribeStackEvents, TerminalEventFound,
           TimeoutFindsNoEvent, TimeoutCancels, NoTerminalEvent, CancelStackUpdate,
           DescribeStack, PollEnds, ReadEvents
  <2>4. answer = Waiting BY <1>1, <2>3
  <2>5. request.kind = "ROLLBACK" => answer' \in {answer, Thrown, status}
    <3>1. request.kind = "ROLLBACK" => phase # "poll"
      BY DEF IInv, AnswerOK, EventKinds
    <3> QED BY <1>2, <3>1
            DEF WaiterStep, CallThrows, DescribeStackEvents, TerminalEventFound,
                TimeoutFindsNoEvent, TimeoutCancels, NoTerminalEvent, CancelStackUpdate,
                DescribeStack, PollEnds, AnswerWith, GoOnTo
  <2> QED BY <2>1, <2>2, <2>4, <2>5, AnswerRefines
<1>3. CASE CancelStackUpdate /\ CanBeCancelled
  <2>1. /\ Record(StackEvent(Cancelling, "UPDATE_ROLLBACK_IN_PROGRESS"))
        /\ request' = request /\ answer' = answer
    BY <1>3 DEF CancelStackUpdate, UpdateIsCancelled
  <2>2. StackEvent(Cancelling, "UPDATE_ROLLBACK_IN_PROGRESS") \in Events
    BY TokenFacts DEF StackEvent, Events, InProgress
  <2>3. request.kind \in EventKinds
    <3>1. timeout = "set" /\ request \in Requests /\ request.timeout
      BY <1>3 DEF IInv, TypeOK, CancelOK, CancelStackUpdate
    <3> QED BY <3>1, RequestsAssumption DEF EventKinds
  <2>4. EndEvents # {} => SomebodyElsesStatus(status, status')
    BY <1>3, <2>3, SomebodyElsesStep
  <2> QED BY <2>1, <2>2, <2>3, <2>4, RecordRefines
<1>4. CASE ServiceStep
  <2>1. answer' = answer BY <1>4 DEF ServiceStep, waiterVars
  <2>2. CASE PolledStatusChanges BY <2>1, <2>2, PollRefines
  <2>3. CASE ~PolledStatusChanges
    <3>1. request.kind \in EventKinds /\ request' = request
      BY <1>4, <2>3
         DEF ServiceStep, OperationBegins, Accepted, StatusChanges, ResourceChanges,
             SomebodyElseDeletes
    <3>2. PICK event \in Events : Record(event) BY <1>4, <2>3, ServiceRecords
    <3>3. EndEvents # {} => SomebodyElsesStatus(status, status')
      BY <1>4, <3>1, SomebodyElsesStep
    <3> QED BY <2>1, <3>1, <3>2, <3>3, RecordRefines
  <2> QED BY <2>2, <2>3
<1>5. CASE TimePasses \/ UNCHANGED vars
  <2>1. UNCHANGED <<request, log, status, answer>>
    BY <1>5 DEF TimePasses, vars, serviceVars, waiterVars
  <2> QED BY <2>1, AnswerRefines
<1> QED BY <1>2, <1>3, <1>4, <1>5 DEF Next

(* The waits keep the promise that the deployment and the undeployment of  *)
(* stacks rely on, for every request and every log, also when somebody     *)
(* else operates on the stack before the wait for a rollback reads its     *)
(* status again.                                                           *)
THEOREM WaitRefinesOperationWait == Spec => ImplementsOperationWait
  <1>1. Init => Abstract!Init BY InitAbstract
  <1>2. IInv /\ IInv' /\ [Next]_vars => [Abstract!Next]_(Abstract!vars) BY StepRefines
  <1> QED BY <1>1, <1>2, InvariantHolds, PTL DEF Spec, ImplementsOperationWait, Abstract!Spec
=============================================================================
