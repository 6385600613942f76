------------------------------ MODULE Accounts ------------------------------
(***************************************************************************)
(* The account service behind its HTTP handlers (internal/account,         *)
(* api/handler/account_handler.go): creating an account, and changing its  *)
(* status by a read, a check and an UPDATE that repeats no condition of    *)
(* the check. The audit event follows the change, in a round trip of its   *)
(* own.                                                                    *)
(***************************************************************************)
EXTENDS AccountTable

CONSTANTS
  Admins,        \* the clients of the account API
  AdminRequests, \* what they may ask for
  MaxRequests    \* bound on the number of requests

VARIABLES
  adminPc,   \* the round trip a client's request is about to make
  adminReq,  \* the request
  current,   \* the status that was read
  logging,   \* the event it is about to write, or NoEvent
  answer,    \* the HTTP status of the last answer
  events,    \* the account events of the audit trail, in order
  requests   \* the number of requests so far

adminVars == <<adminPc, adminReq, current, logging, answer, events, requests>>

NoStatus  == "NO_STATUS"
NoRequest == [op |-> "none"]

CreateRequest == [op : {"create"}, named : BOOLEAN, type : STRING, currency : STRING]
UpdateRequest == [op : {"update"}, id : Nat, to : STRING]

ASSUME AdminAssumption ==
  /\ AdminRequests \subseteq CreateRequest \cup UpdateRequest
  /\ MaxRequests \in Nat

EventTypes == {"ACCOUNT_CREATED", "ACCOUNT_FROZEN", "ACCOUNT_UNFROZEN", "ACCOUNT_CLOSED"}

Event == [id : Ids, type : EventTypes, from : AccountStatus \cup {NoStatus},
          to : AccountStatus]

NoEvent == [type |-> "none"]

AdminTypes ==
  /\ adminPc \in [Admins -> {"idle", "insert", "read", "write", "log"}]
  /\ adminReq \in [Admins -> AdminRequests \cup {NoRequest}]
  /\ current \in [Admins -> AccountStatus \cup {NoStatus}]
  /\ answer \in [Admins -> {0, 200, 201, 400, 404, 500}]
  /\ logging \in [Admins -> Event \cup {NoEvent}]
  /\ events \in Seq(Event)
  /\ requests \in 0..MaxRequests

AdminInit ==
  /\ adminPc = [p \in Admins |-> "idle"]
  /\ adminReq = [p \in Admins |-> NoRequest]
  /\ current = [p \in Admins |-> NoStatus]
  /\ logging = [p \in Admins |-> NoEvent]
  /\ answer = [p \in Admins |-> 0]
  /\ events = << >>
  /\ requests = 0

AdminGoto(p, label) == adminPc' = [adminPc EXCEPT ![p] = label]

\* The request is answered, and the client may send another.
Answer(p, code) ==
  /\ answer' = [answer EXCEPT ![p] = code]
  /\ AdminGoto(p, "idle")
  /\ adminReq' = [adminReq EXCEPT ![p] = NoRequest]
  /\ current' = [current EXCEPT ![p] = NoStatus]
  /\ logging' = [logging EXCEPT ![p] = NoEvent]

\* What the service, or the handler, refuses before any round trip.
MalformedCreate(r) ==
  r.op = "create" /\ ~(r.named /\ r.type \in AccountTypes /\ r.currency \in Currencies)

MalformedUpdate(r) == r.op = "update" /\ r.to \notin AccountStatus

Malformed(r) == MalformedCreate(r) \/ MalformedUpdate(r)

Submit(p, r) ==
  /\ adminPc[p] = "idle" /\ requests < MaxRequests
  /\ requests' = requests + 1
  /\ \/ /\ Malformed(r)
        /\ Answer(p, 400)
     \/ /\ ~Malformed(r)
        /\ adminReq' = [adminReq EXCEPT ![p] = r]
        /\ AdminGoto(p, IF r.op = "create" THEN "insert" ELSE "read")
        /\ answer' = [answer EXCEPT ![p] = 0]
        /\ UNCHANGED <<current, logging>>
  /\ UNCHANGED <<tableVars, events, faults>>

CreatedEvent(a) ==
  [id |-> a, type |-> "ACCOUNT_CREATED", from |-> NoStatus, to |-> "ACTIVE"]

\* The change has been committed and its event comes next.
GoOnToLog(p, event) ==
  /\ logging' = [logging EXCEPT ![p] = event]
  /\ AdminGoto(p, "log") /\ UNCHANGED <<answer, current, adminReq>>

\* CreateAccount: the id is drawn by the database. The handler answers 400 to
\* every error, also to one of the database.
InsertAccount(p) ==
  /\ adminPc[p] = "insert"
  /\ \/ \E a \in Ids \ (DOMAIN account \cup ChartIds) :
          /\ account' = WithRows([b \in {a} |->
                          NewAccount(adminReq[p].type, adminReq[p].currency)])
          /\ \/ Succeeds /\ GoOnToLog(p, CreatedEvent(a))
             \/ Fault("lostAck") /\ Answer(p, 400)
     \/ Fault("db") /\ Answer(p, 400) /\ UNCHANGED account
  /\ UNCHANGED <<rowLock, events, requests>>

\* The checks of UpdateAccountStatus. From FROZEN, what is neither ACTIVE nor CLOSED
\* is FROZEN again.
RefusesTransition(from, to) == from = to \/ from = "CLOSED"

ReadStatus(p) ==
  LET r == adminReq[p]
      s == account[r.id].status
  IN  /\ adminPc[p] = "read"
      /\ \/ /\ Succeeds /\ ~Exists(r.id)
            /\ Answer(p, 404)
         \/ /\ Succeeds /\ Exists(r.id) /\ RefusesTransition(s, r.to)
            /\ Answer(p, 400)
         \/ /\ Succeeds /\ Exists(r.id) /\ ~RefusesTransition(s, r.to)
            /\ current' = [current EXCEPT ![p] = s]
            /\ AdminGoto(p, "write") /\ UNCHANGED <<answer, adminReq, logging>>
         \/ /\ Fault("db")
            /\ Answer(p, 500)
      /\ UNCHANGED <<tableVars, events, requests>>

\* Mutant: an account that is not frozen is said to be updated.
EventNamed(to) == IF to = "FROZEN" THEN "ACCOUNT_FROZEN" ELSE "ACCOUNT_UPDATED"

EventType(to) == CASE to = "FROZEN" -> "ACCOUNT_FROZEN"
                   [] to = "CLOSED" -> "ACCOUNT_CLOSED"
                   [] OTHER -> "ACCOUNT_UNFROZEN"

\* Mutant: the payload is built from the row the update returned.
EventAfter(p) ==
  LET r == adminReq[p]
  IN  [id |-> r.id, type |-> EventType(r.to), from |-> r.to, to |-> r.to]

StatusEvent(p) ==
  LET r == adminReq[p]
  IN  [id |-> r.id, type |-> EventType(r.to), from |-> current[p], to |-> r.to]

\* UPDATE accounts SET status WHERE id = $1: it waits for the row, and asks nothing
\* of the status it replaces.
WriteStatus(p) ==
  LET r == adminReq[p]
  IN  /\ adminPc[p] = "write"
      /\ \/ /\ rowLock[r.id] = None
            /\ account' = [account EXCEPT ![r.id].status = r.to,
                                          ![r.id].version = @ + 1]
            /\ \/ Succeeds /\ GoOnToLog(p, StatusEvent(p))
               \/ Fault("lostAck") /\ Answer(p, 500)
         \/ Fault("db") /\ Answer(p, 500) /\ UNCHANGED account
      /\ UNCHANGED <<rowLock, events, requests>>

\* logAudit, whose error is ignored.
LogAudit(p) ==
  /\ adminPc[p] = "log"
  /\ \/ (Succeeds \/ Fault("lostAck")) /\ events' = Append(events, logging[p])
     \/ Fault("db") /\ UNCHANGED events
  /\ Answer(p, IF adminReq[p].op = "create" THEN 201 ELSE 200)
  /\ UNCHANGED <<tableVars, requests>>

AdminStep(p) == InsertAccount(p) \/ ReadStatus(p) \/ WriteStatus(p) \/ LogAudit(p)

AdminNext ==
  \E p \in Admins : AdminStep(p) \/ \E r \in AdminRequests : Submit(p, r)

-----------------------------------------------------------------------------
(***************************************************************************)
(* Properties                                                              *)
(***************************************************************************)
\* A closed account stays closed. The README calls it permanent; the UPDATE does
\* not insist on it.
ClosedIsFinal ==
  [][\A a \in DOMAIN account : account[a].status = "CLOSED"
                                 => account'[a].status = "CLOSED"]_account

\* What is told of account a: its events, and those that are about to be written.
Told(a) ==
  {e \in Range(events) \cup Range(logging) : e # NoEvent /\ e.id = a}

\* Absent failures the trail tells the whole history of an account, whoever changes
\* it and in whatever order: its status is one that an event leads to, or the one it
\* had at the start when there is none, and each event leads on from another such
\* status. (Which event came first is another matter.)
EventsTellHistory ==
  faults = 0 =>
    \A a \in DOMAIN account :
      LET start == IF a \in DOMAIN InitAccounts THEN {InitAccounts[a].status}
                   ELSE IF a \in ChartIds THEN {"ACTIVE"} ELSE {NoStatus}
          known == start \cup {e.to : e \in Told(a)}
      IN  /\ account[a].status \in IF Told(a) = {} THEN start ELSE {e.to : e \in Told(a)}
          /\ \A e \in Told(a) : e.from \in known \ {e.to}

EventsOf(a) == {i \in DOMAIN events : events[i].id = a}

\* "in chronological order" (internal/audit/logger.go): absent failures, and once all
\* events are written, the last event of an account tells its status.
LastEventIsStatus ==
  faults = 0 /\ (\A p \in Admins : adminPc[p] # "log") =>
    \A a \in DOMAIN account : \A j \in EventsOf(a) :
      (\A k \in EventsOf(a) : k <= j) => events[j].to = account[a].status
=============================================================================
