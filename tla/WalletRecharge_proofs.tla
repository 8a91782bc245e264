----------------------- MODULE WalletRecharge_proofs -----------------------
(***************************************************************************)
(* A recharge is credited once and a confirmed one is final, for any       *)
(* requests, entries, amounts and number of transactions under way.        *)
(***************************************************************************)
EXTENDS WalletRecharge, SumLemmas

Holding == {"approve", "link", "verify", "decline", "reverse"}

TaskTyped(t) ==
  \/ t.op \in {"idle", "import"}
  \/ /\ t.op \in Holding /\ t.req \in Requests
     /\ t.entry \in Entries \cup {None}
     /\ t.running \in BOOLEAN

RowsTyped == request \in [Requests -> Request] /\ ledger \in [Requests -> Nat]

TasksTyped == task = [w \in Workers |-> task[w]] /\ \A w \in Workers : TaskTyped(task[w])

(* What the columns of one request say about each other. *)
RowOK(r) ==
  /\ ledger[r] <= 1
  /\ request[r].status = "approved" /\ ~request[r].deferred => ledger[r] = 1
  /\ request[r].owed > 0 => request[r].status = "cancelled" /\ ledger[r] = 1
  /\ request[r].deferred => request[r].status = "approved" /\ ledger[r] = 0
  /\ request[r].status \in {"none", "pending", "rejected"} => ledger[r] = 0
  /\ request[r].entry # None =>
       request[r].status = "approved" /\ ~request[r].deferred /\ request[r].verified

RowsOK == \A r \in Requests : RowOK(r)

OneRequestPerEntry ==
  \A r, s \in Requests : request[r].entry # None /\ request[s].entry = request[r].entry => s = r

(* The locks: no two transactions hold the same request or the same entry. *)
Locks ==
  \A v, w \in Workers : v # w /\ task[v].op \in Holding /\ task[w].op \in Holding =>
    /\ task[v].req # task[w].req
    /\ task[v].op = "link" /\ task[w].op = "link" => task[v].entry # task[w].entry

(* What a transaction found out under its locks stays true until it writes. *)
Found(t) ==
  /\ t.op \in {"approve", "decline"} => request[t.req].status = "pending"
  /\ t.op = "verify" => request[t.req].deferred
  /\ t.op = "reverse" =>
       /\ request[t.req].status = "approved" /\ ~request[t.req].deferred
       /\ request[t.req].entry = None /\ ~request[t.req].verified
  /\ t.op = "link" =>
       /\ request[t.req].status \in {"pending", "approved"} /\ request[t.req].entry = None
       /\ t.entry \in Entries
       /\ \A s \in Requests : request[s].entry # t.entry

IInv ==
  /\ RowsTyped /\ TasksTyped
  /\ RowsOK /\ OneRequestPerEntry
  /\ Locks /\ \A w \in Workers : Found(task[w])

(* A step concerns the row of r: of the others it only lowers what they owe. *)
Concerns(r) ==
  /\ RowsTyped'
  /\ RowOK(r)'
  /\ request[r].status = "approved" /\ request[r].verified =>
       request'[r].status = "approved" /\ request'[r].verified
  /\ \A c \in Requests \ {r} :
       /\ ledger'[c] = ledger[c]
       /\ request'[c].owed <= request[c].owed
       /\ request'[c].status = request[c].status
       /\ request'[c].deferred = request[c].deferred
       /\ request'[c].entry = request[c].entry
       /\ request'[c].verified = request[c].verified

-----------------------------------------------------------------------------

LEMMA InitIInv == Init => IInv
<1> SUFFICES ASSUME Init PROVE IInv
  OBVIOUS
<1>1. NoRequest \in Request
  BY DEF NoRequest, Request, Status
<1>2. RowsTyped
  BY <1>1 DEF Init, RowsTyped
<1>3. TasksTyped /\ Locks /\ \A w \in Workers : Found(task[w])
  BY DEF Init, TasksTyped, TaskTyped, Locks, Found, Idle, Holding
<1>4. RowsOK /\ OneRequestPerEntry
  BY DEF Init, RowsOK, RowOK, OneRequestPerEntry, NoRequest
<1> QED
  BY <1>2, <1>3, <1>4 DEF IInv

(* A credit gives back at most what it owes. *)
LEMMA ShareBound ==
  ASSUME RowsTyped, NEW r \in Requests, NEW c \in Requests, NEW budget
  PROVE  Share(r, c, budget) \in 0 .. request[c].owed
<1>1. request[c].owed \in Nat
  BY DEF RowsTyped, Request
<1> QED
  BY <1>1 DEF Share

LEMMA CreditConcerns ==
  ASSUME IInv, NEW r \in Requests, NEW before, NEW row \in Request,
         CreditAndAdjust(r, before, row), ledger[r] = 0,
         row.status = "approved", row.owed = 0, row.entry # None => row.verified,
         request[r].verified => row.verified
  PROVE  Concerns(r) /\ request'[r].entry = row.entry /\ request'[r].deferred = FALSE
<1>1. RowsTyped /\ RowOK(r)
  BY DEF IInv, RowsOK
<1>2. /\ ledger' \in [Requests -> Nat]
      /\ ledger'[r] = 1
      /\ \A c \in Requests \ {r} : ledger'[c] = ledger[c]
  BY <1>1 DEF CreditAndAdjust, RowsTyped
<1>3. \A c \in Requests \ {r} :
        /\ request'[c] \in Request
        /\ request'[c].owed <= request[c].owed
        /\ request'[c].status = request[c].status
        /\ request'[c].deferred = request[c].deferred
        /\ request'[c].entry = request[c].entry
        /\ request'[c].verified = request[c].verified
  <2> SUFFICES ASSUME NEW c \in Requests \ {r}
               PROVE  /\ request'[c] \in Request
                      /\ request'[c].owed <= request[c].owed
                      /\ request'[c].status = request[c].status
                      /\ request'[c].deferred = request[c].deferred
                      /\ request'[c].entry = request[c].entry
                      /\ request'[c].verified = request[c].verified
    OBVIOUS
  <2> DEFINE share == Share(r, c, Budget(r, before))
  <2>1. share \in 0 .. request[c].owed
    BY <1>1, ShareBound
  <2>2. request'[c] = [request[c] EXCEPT !.owed = @ - share]
    BY DEF CreditAndAdjust, Recovered
  <2>3. request[c] \in Request
    BY <1>1 DEF RowsTyped
  <2> HIDE DEF share
  <2> QED
    BY <2>1, <2>2, <2>3 DEF Request
<1>4. /\ request'[r] \in Request
      /\ request'[r].owed = 0 /\ request'[r].status = "approved"
      /\ request'[r].deferred = FALSE /\ request'[r].entry = row.entry
      /\ request'[r].verified = row.verified
  <2> DEFINE more == RecoveredTotal(r, before) > 0 \/ Budget(r, before) # Amount[r]
  <2>1. request'[r] = [row EXCEPT !.deferred = FALSE, !.credited = TRUE, !.settled = more]
    BY DEF CreditAndAdjust
  <2>2. more \in BOOLEAN
    OBVIOUS
  <2> HIDE DEF more
  <2> QED
    BY <2>1, <2>2 DEF Request
<1>5. request' = [c \in Requests |-> request'[c]]
  BY DEF CreditAndAdjust
<1>6. RowsTyped'
  BY <1>2, <1>3, <1>4, <1>5 DEF RowsTyped
<1>7. RowOK(r)'
  BY <1>2, <1>4 DEF RowOK
<1> QED
  BY <1>2, <1>3, <1>4, <1>6, <1>7 DEF Concerns

-----------------------------------------------------------------------------
(* What carries over a step that concerns r.                               *)

LEMMA KeepRows ==
  ASSUME IInv, NEW r \in Requests, Concerns(r)
  PROVE  RowsTyped' /\ RowsOK'
<1>1. RowsTyped' /\ RowOK(r)'
  BY DEF Concerns
<1>2. ASSUME NEW c \in Requests \ {r} PROVE RowOK(c)'
  <2>1. RowOK(c)
    BY DEF IInv, RowsOK
  <2>2. request[c].owed \in Nat /\ request'[c].owed \in Nat
    BY <1>1 DEF IInv, RowsTyped, Request
  <2> QED
    BY <2>1, <2>2 DEF RowOK, Concerns
<1> QED
  BY <1>1, <1>2 DEF RowsOK

LEMMA KeepEntries ==
  ASSUME IInv, NEW r \in Requests, Concerns(r),
         \/ request'[r].entry \in {request[r].entry, None}
         \/ \A s \in Requests : request[s].entry # request'[r].entry
  PROVE  OneRequestPerEntry'
<1> SUFFICES ASSUME NEW c \in Requests, NEW d \in Requests,
                    request'[c].entry # None, request'[d].entry = request'[c].entry
             PROVE  d = c
  BY DEF OneRequestPerEntry
<1>1. \A s \in Requests \ {r} : request'[s].entry = request[s].entry
  BY DEF Concerns
<1> QED
  BY <1>1 DEF IInv, OneRequestPerEntry

LEMMA KeepFound ==
  ASSUME IInv, NEW r \in Requests, Concerns(r), NEW v \in Workers, task'[v] = task[v],
         task[v].op \in Holding => task[v].req # r,
         \/ request'[r].entry \in {request[r].entry, None}
         \/ task[v].op = "link" => request'[r].entry # task[v].entry
  PROVE  TaskTyped(task[v])' /\ Found(task[v])'
<1>1. TaskTyped(task[v]) /\ Found(task[v])
  BY DEF IInv, TasksTyped
<1>2. TaskTyped(task[v])'
  BY <1>1 DEF TaskTyped
<1>3. CASE task[v].op \notin Holding
  BY <1>2, <1>3 DEF Found, Holding
<1>4. CASE task[v].op \in Holding
  <2>1. task[v].req \in Requests \ {r}
    BY <1>1, <1>4 DEF TaskTyped, Holding
  <2>2. task[v].op = "link" => \A s \in Requests : request'[s].entry # task[v].entry
    BY <1>1, RechargeAssumption DEF Concerns, Found
  <2> QED
    BY <1>1, <1>2, <2>1, <2>2 DEF Found, Concerns
<1> QED
  BY <1>3, <1>4

(* An operation of one step, on a request no transaction holds. *)
LEMMA AtOnceKeeps ==
  ASSUME IInv, NEW r \in Requests, Unlocked(r), Concerns(r), task' = task,
         request'[r].entry \in {request[r].entry, None}
  PROVE  IInv'
<1>1. \A v \in Workers : task[v].op \in Holding => task[v].req # r
  BY DEF Unlocked, Holding
<1>2. TasksTyped' /\ \A v \in Workers : Found(task[v])'
  BY <1>1, KeepFound DEF IInv, TasksTyped
<1>3. Locks'
  BY DEF IInv, Locks
<1> QED
  BY <1>2, <1>3, KeepRows, KeepEntries DEF IInv

(* The last step of a transaction. *)
LEMMA FinishKeeps ==
  ASSUME IInv, NEW w \in Workers, NEW r \in Requests, task[w].op \in Holding, task[w].req = r,
         Concerns(r), Finish(w),
         \/ request'[r].entry \in {request[r].entry, None}
         \/ task[w].op = "link" /\ request'[r].entry = task[w].entry
  PROVE  IInv'
<1>1. /\ task' = [v \in Workers |-> task'[v]]
      /\ task'[w] = Idle
      /\ \A v \in Workers \ {w} : task'[v] = task[v]
  BY DEF Finish, IInv, TasksTyped
<1>2. \A v \in Workers \ {w} : task[v].op \in Holding =>
        /\ task[v].req # r
        /\ task[w].op = "link" /\ task[v].op = "link" => task[v].entry # task[w].entry
  BY DEF IInv, Locks
<1>3. \A v \in Workers \ {w} : TaskTyped(task[v])' /\ Found(task[v])'
  <2> SUFFICES ASSUME NEW v \in Workers \ {w} PROVE TaskTyped(task[v])' /\ Found(task[v])'
    OBVIOUS
  <2>1. \/ request'[r].entry \in {request[r].entry, None}
        \/ task[v].op = "link" => request'[r].entry # task[v].entry
    BY <1>2 DEF Holding
  <2> QED
    BY <1>1, <1>2, <2>1, KeepFound
<1>4. TaskTyped(task[w])' /\ Found(task[w])'
  BY <1>1 DEF TaskTyped, Found, Idle
<1>5. Locks'
  BY <1>1 DEF IInv, Locks, Idle, Holding
<1>6. OneRequestPerEntry'
  <2>1. \/ request'[r].entry \in {request[r].entry, None}
        \/ \A s \in Requests : request[s].entry # request'[r].entry
    BY DEF IInv, Found
  <2> QED
    BY <2>1, KeepEntries
<1> QED
  BY <1>1, <1>3, <1>4, <1>5, <1>6, KeepRows DEF IInv, TasksTyped

(* A step that writes no request: a transaction starts, reads or gives up. *)
LEMMA TaskKeeps ==
  ASSUME IInv, NEW w \in Workers, NEW t, UNCHANGED <<request, ledger>>,
         task' = [task EXCEPT ![w] = t], TaskTyped(t), Found(t),
         t.op \in Holding => \A v \in Workers \ {w} : task[v].op \in Holding =>
             /\ task[v].req # t.req
             /\ t.op = "link" /\ task[v].op = "link" => task[v].entry # t.entry
  PROVE  IInv'
<1>1. /\ task' = [v \in Workers |-> task'[v]]
      /\ task'[w] = t
      /\ \A v \in Workers \ {w} : task'[v] = task[v]
  BY DEF IInv, TasksTyped
<1>2. RowsTyped' /\ RowsOK' /\ OneRequestPerEntry'
  BY DEF IInv, RowsTyped, RowsOK, RowOK, OneRequestPerEntry
<1>3. \A v \in Workers : TaskTyped(task[v])' /\ Found(task[v])'
  BY SMTT(30), <1>1 DEF IInv, TasksTyped, TaskTyped, Found
<1>4. Locks'
  BY <1>1 DEF IInv, Locks
<1> QED
  BY <1>1, <1>2, <1>3, <1>4 DEF IInv, TasksTyped

-----------------------------------------------------------------------------
(* The operations of one step.                                             *)

(* One row is written, and the ledger is left alone. *)
LEMMA RowConcerns ==
  ASSUME IInv, NEW r \in Requests, NEW row \in Request,
         request' = [request EXCEPT ![r] = row], ledger' = ledger, RowOK(r)',
         request[r].status = "approved" /\ request[r].verified =>
             row.status = "approved" /\ row.verified
  PROVE  Concerns(r) /\ request'[r] = row
BY DEF IInv, RowsTyped, Concerns, Request

LEMMA SubmitConcerns ==
  ASSUME IInv, NEW r \in Requests, Submit(r)
  PROVE  Concerns(r) /\ Unlocked(r) /\ request'[r].entry = request[r].entry
<1>1. request[r] \in Request /\ RowOK(r)
  BY DEF IInv, RowsTyped, RowsOK
<1> DEFINE row == [request[r] EXCEPT !.status = "pending"]
<1>2. row \in Request /\ row.entry = request[r].entry
  BY <1>1 DEF Request, Status
<1>3. request' = [request EXCEPT ![r] = row] /\ ledger' = ledger /\ request[r].status = "none"
  BY DEF Submit
<1>4. RowOK(r)'
  BY <1>1, <1>3 DEF RowOK, Submit, IInv, RowsTyped, Request
<1>5. Unlocked(r)
  BY <1>3 DEF IInv, TasksTyped, TaskTyped, Found, Unlocked, Holding, RowsOK, RowOK
<1> HIDE DEF row
<1> QED
  BY <1>2, <1>3, <1>4, <1>5, RowConcerns

LEMMA CloseConcerns ==
  ASSUME IInv, NEW r \in Requests, Cancel(r) \/ Reject(r)
  PROVE  Concerns(r) /\ request'[r].entry = request[r].entry
<1>1. request[r] \in Request /\ RowOK(r)
  BY DEF IInv, RowsTyped, RowsOK
<1> DEFINE row == [request[r] EXCEPT !.status = IF Cancel(r) THEN "cancelled" ELSE "rejected"]
<1>2. row \in Request /\ row.entry = request[r].entry
  BY <1>1 DEF Request, Status
<1>3. request' = [request EXCEPT ![r] = row] /\ ledger' = ledger /\ request[r].status = "pending"
  BY DEF Cancel, Reject
<1>4. RowOK(r)'
  BY <1>1, <1>3 DEF RowOK, IInv, RowsTyped, Request
<1> HIDE DEF row
<1> QED
  BY <1>2, <1>3, <1>4, RowConcerns

LEMMA VerifyConcerns ==
  ASSUME IInv, NEW r \in Requests, Verify(r)
  PROVE  Concerns(r) /\ request'[r].entry = request[r].entry
<1>1. request[r] \in Request /\ RowOK(r)
  BY DEF IInv, RowsTyped, RowsOK
<1> DEFINE row == [request[r] EXCEPT !.verified = TRUE]
<1>2. row \in Request /\ row.entry = request[r].entry
  BY <1>1 DEF Request
<1>3. request' = [request EXCEPT ![r] = row] /\ ledger' = ledger
  BY DEF Verify
<1>4. RowOK(r)'
  BY <1>1, <1>3 DEF RowOK, IInv, RowsTyped, Request
<1>5. request[r].status = "approved" => row.status = "approved" /\ row.verified
  BY <1>1 DEF Request
<1> HIDE DEF row
<1> QED
  BY <1>2, <1>3, <1>4, <1>5, RowConcerns

LEMMA DeclineApprovedConcerns ==
  ASSUME IInv, NEW r \in Requests, DeclineApproved(r)
  PROVE  Concerns(r) /\ request'[r].entry = request[r].entry
<1>1. request[r] \in Request /\ RowOK(r) /\ Amount[r] \in Nat \ {0}
  BY RechargeAssumption DEF IInv, RowsTyped, RowsOK
<1> DEFINE new == ~request[r].deferred
           row == [request[r] EXCEPT !.status = "cancelled", !.deferred = FALSE, !.advanced = new,
                                     !.owed = IF new THEN Amount[r] ELSE 0]
<1>2. row \in Request /\ row.entry = request[r].entry
  BY <1>1 DEF Request, Status
<1>3. /\ request' = [request EXCEPT ![r] = row] /\ ledger' = ledger
      /\ request[r].status = "approved" /\ ~request[r].verified /\ request[r].entry = None
  BY DEF DeclineApproved, Owe, CanDecline
<1>4. RowOK(r)'
  BY <1>1, <1>3 DEF RowOK, IInv, RowsTyped, Request
<1> HIDE DEF row
<1> QED
  BY <1>2, <1>3, <1>4, RowConcerns

LEMMA DeleteConcerns ==
  ASSUME IInv, NEW r \in Requests, Delete(r)
  PROVE  Concerns(r) /\ request'[r].entry = None
<1>1. request[r] \in Request /\ RowOK(r)
  BY DEF IInv, RowsTyped, RowsOK
<1> DEFINE row == [request[r] EXCEPT !.status = IF @ = "pending" THEN "cancelled" ELSE @,
                                     !.entry = None, !.deleted = TRUE]
<1>2. row \in Request /\ row.entry = None
  BY <1>1 DEF Request, Status
<1>3. /\ request' = [request EXCEPT ![r] = row] /\ ledger' = ledger
      /\ request[r].status \notin {"none", "approved"}
  BY DEF Delete
<1>4. RowOK(r)'
  BY <1>1, <1>3 DEF RowOK, IInv, RowsTyped, Request
<1> HIDE DEF row
<1> QED
  BY <1>2, <1>3, <1>4, RowConcerns

LEMMA AtOnceStep ==
  ASSUME IInv, NEW r \in Requests, AtOnce(r)
  PROVE  IInv' /\ Concerns(r)
<1>1. CASE Submit(r)
  BY <1>1, SubmitConcerns, AtOnceKeeps DEF Submit
<1>2. CASE Cancel(r)
  BY <1>2, CloseConcerns, AtOnceKeeps DEF Cancel
<1>3. CASE Reject(r)
  BY <1>3, CloseConcerns, AtOnceKeeps DEF Reject
<1>4. CASE Verify(r)
  BY <1>4, VerifyConcerns, AtOnceKeeps DEF Verify
<1>5. CASE DeclineApproved(r)
  BY <1>5, DeclineApprovedConcerns, AtOnceKeeps DEF DeclineApproved
<1>6. CASE Delete(r)
  BY <1>6, DeleteConcerns, AtOnceKeeps DEF Delete
<1> QED
  BY <1>1, <1>2, <1>3, <1>4, <1>5, <1>6 DEF AtOnce

-----------------------------------------------------------------------------
(* The transactions: they start, read, ...                                 *)

Begun(op, r, e) ==
  [op |-> op, req |-> r, entry |-> e, running |-> RunningCredit, before |-> None]

LEMMA StartKeeps ==
  ASSUME IInv, NEW w \in Workers, NEW op \in Holding, NEW r \in Requests,
         NEW e \in Entries \cup {None}, Start(w, op, r, e),
         op = "link" => EntryUnlocked(e),
         Found(Begun(op, r, e))
  PROVE  IInv' /\ request' = request
<1> DEFINE t == Begun(op, r, e)
<1>1. t.op = op /\ t.req = r /\ t.entry = e
  BY DEF Begun
<1>2. TaskTyped(t)
  BY DEF TaskTyped, RunningCredit, Begun
<1>3. UNCHANGED <<request, ledger>> /\ task' = [task EXCEPT ![w] = t]
  BY DEF Start, Begun
<1>4. \A v \in Workers \ {w} : task[v].op \in Holding =>
        task[v].req # r /\ (op = "link" /\ task[v].op = "link" => task[v].entry # e)
  BY DEF Start, Unlocked, EntryUnlocked, Holding
<1> HIDE DEF t
<1>5. \A v \in Workers \ {w} : task[v].op \in Holding =>
        task[v].req # t.req /\ (t.op = "link" /\ task[v].op = "link" => task[v].entry # t.entry)
  BY <1>1, <1>4
<1>6. Found(t)
  BY DEF t
<1> QED
  BY <1>2, <1>3, <1>5, <1>6, TaskKeeps

LEMMA BeginsStep ==
  ASSUME IInv, NEW w \in Workers, NEW r \in Requests, Begins(w, r)
  PROVE  IInv' /\ request' = request
<1>0. request[r] \in Request /\ RowOK(r)
  BY DEF IInv, RowsTyped, RowsOK
<1>1. ASSUME StartApprove(w, r) PROVE IInv' /\ request' = request
  <2>1. Found(Begun("approve", r, None))
    BY <1>1 DEF StartApprove, Found, Begun
  <2> QED
    BY <1>1, <2>1, StartKeeps DEF StartApprove, Holding, Start
<1>2. ASSUME NEW e \in Entries, StartLink(w, r, e) PROVE IInv' /\ request' = request
  <2>1. Found(Begun("link", r, e))
    BY <1>2 DEF StartLink, Found, Begun, Open, Consumed
  <2> QED
    BY <1>2, <2>1, StartKeeps DEF StartLink, Holding, Start
<1>3. CASE StartVerify(w, r)
  <2>1. Found(Begun("verify", r, None))
    BY <1>3 DEF StartVerify, Found, Begun
  <2> QED
    BY <1>3, <2>1, StartKeeps DEF StartVerify, Holding, Start
<1>4. CASE StartDecline(w, r)
  <2>1. Found(Begun("decline", r, None))
    BY <1>4 DEF StartDecline, Found, Begun
  <2> QED
    BY <1>4, <2>1, StartKeeps DEF StartDecline, Holding, Start
<1>5. CASE StartReverse(w, r)
  <2>1. Found(Begun("reverse", r, None))
    BY <1>5 DEF StartReverse, Found, Begun, Reversible
  <2> QED
    BY <1>5, <2>1, StartKeeps DEF StartReverse, Holding, Start
<1> QED
  BY <1>1, <1>2, <1>3, <1>4, <1>5 DEF Begins

(* A step that leaves w with nothing to do and the requests as they are. *)
LEMMA DropStep ==
  ASSUME IInv, NEW w \in Workers, Finish(w), UNCHANGED <<request, ledger>>
  PROVE  IInv'
<1>1. TaskTyped(Idle) /\ Found(Idle) /\ Idle.op \notin Holding
  BY DEF TaskTyped, Found, Idle, Holding
<1> QED
  BY <1>1, TaskKeeps DEF Finish

LEMMA ReadBalanceStep ==
  ASSUME IInv, NEW w \in Workers, ReadBalance(w)
  PROVE  IInv'
<1> DEFINE o == task[w]
           t == [op |-> o.op, req |-> o.req, entry |-> o.entry, running |-> o.running,
                 before |-> balance]
<1>1. o.op \in Holding /\ TaskTyped(o) /\ Found(o)
  BY DEF ReadBalance, IInv, TasksTyped, Holding
<1>2. t.op = o.op /\ t.req = o.req /\ t.entry = o.entry
  OBVIOUS
<1>3. TaskTyped(t)
  BY <1>1 DEF TaskTyped, Holding
<1>4. Found(t)
  BY <1>1, <1>2 DEF Found
<1>5. UNCHANGED <<request, ledger>> /\ task' = [task EXCEPT ![w] = t]
  BY DEF ReadBalance
<1>6. \A v \in Workers \ {w} : task[v].op \in Holding =>
        task[v].req # o.req /\ (o.op = "link" /\ task[v].op = "link" => task[v].entry # o.entry)
  BY <1>1 DEF IInv, Locks
<1> HIDE DEF o, t
<1> QED
  BY <1>2, <1>3, <1>4, <1>5, <1>6, TaskKeeps

(* ... and write.                                                          *)
LEMMA ApproveConcerns ==
  ASSUME IInv, NEW w \in Workers, NEW r \in Requests, task[w].req = r, Approve(w)
  PROVE  Concerns(r) /\ request'[r].entry = request[r].entry
<1> DEFINE t == task[w]
           row == [request[r] EXCEPT !.status = "approved"]
<1>1. t.op = "approve" /\ request[r].status = "pending"
  BY DEF Approve, IInv, TasksTyped, TaskTyped, Found, Holding
<1>2. request[r] \in Request /\ RowOK(r) /\ ledger[r] \in Nat
  BY <1>1 DEF IInv, RowsTyped, RowsOK
<1>3. ledger[r] = 0 /\ request[r].owed = 0
  BY <1>1, <1>2 DEF RowOK, Request
<1>4. /\ row \in Request /\ row.status = "approved" /\ row.owed = 0
      /\ row.entry = request[r].entry /\ row.verified = request[r].verified
  BY <1>1, <1>2, <1>3 DEF Request, Status
<1>5. row.entry # None => row.verified
  BY <1>2, <1>4 DEF RowOK
<1>6. CreditAndAdjust(r, t.before, row)
  BY DEF Approve
<1> HIDE DEF row
<1> QED
  BY <1>1, <1>3, <1>4, <1>5, <1>6, CreditConcerns

LEMMA VerifyDeferredConcerns ==
  ASSUME IInv, NEW w \in Workers, NEW r \in Requests, task[w].req = r, VerifyDeferred(w)
  PROVE  Concerns(r) /\ request'[r].entry = request[r].entry
<1> DEFINE t == task[w]
           row == [request[r] EXCEPT !.verified = TRUE]
<1>1. t.op = "verify" /\ request[r].deferred
  BY DEF VerifyDeferred, IInv, TasksTyped, TaskTyped, Found, Holding
<1>2. request[r] \in Request /\ RowOK(r) /\ ledger[r] \in Nat
  BY <1>1 DEF IInv, RowsTyped, RowsOK
<1>3. ledger[r] = 0 /\ request[r].owed = 0 /\ request[r].status = "approved"
  BY <1>1, <1>2 DEF RowOK, Request
<1>4. /\ row \in Request /\ row.status = "approved" /\ row.owed = 0
      /\ row.entry = request[r].entry /\ row.verified
  BY <1>1, <1>2, <1>3 DEF Request, Status
<1>5. CreditAndAdjust(r, t.before, row)
  BY DEF VerifyDeferred
<1> HIDE DEF row
<1> QED
  BY <1>1, <1>3, <1>4, <1>5, CreditConcerns

LEMMA LinkConcerns ==
  ASSUME IInv, NEW w \in Workers, NEW r \in Requests, task[w].req = r, Link(w)
  PROVE  Concerns(r) /\ request'[r].entry = task[w].entry
<1> DEFINE t == task[w]
           row == [request[r] EXCEPT !.status = "approved", !.entry = t.entry, !.verified = TRUE]
<1>1. /\ t.op = "link" /\ t.entry \in Entries
      /\ request[r].status \in {"pending", "approved"}
  BY DEF Link, IInv, TasksTyped, TaskTyped, Found, Holding
<1>2. request[r] \in Request /\ RowOK(r) /\ ledger[r] \in Nat
  BY <1>1 DEF IInv, RowsTyped, RowsOK
<1>3. request[r].owed = 0 /\ (request[r].status = "pending" => ~request[r].deferred)
  BY <1>1, <1>2 DEF RowOK, Request
<1>4. /\ row \in Request /\ row.status = "approved" /\ row.owed = 0
      /\ row.entry = t.entry /\ row.verified /\ row.deferred = request[r].deferred
  BY <1>1, <1>2, <1>3 DEF Request, Status
<1>5. CASE Credits(t)
  <2>1. ledger[r] = 0
    BY <1>1, <1>2, <1>5 DEF Credits, RowOK
  <2>2. CreditAndAdjust(r, t.before, row)
    BY <1>5 DEF Link
  <2> HIDE DEF row
  <2> QED
    BY <1>1, <1>3, <1>4, <2>1, <2>2, CreditConcerns
<1>6. CASE ~Credits(t)
  <2>1. request' = [request EXCEPT ![r] = row] /\ ledger' = ledger
    BY <1>6 DEF Link
  <2>2. request[r].status = "approved" /\ ~request[r].deferred
    BY <1>1, <1>2, <1>6 DEF Credits, Request
  <2>3. request'[r] = row
    BY <1>1, <2>1 DEF IInv, RowsTyped
  <2>4. RowOK(r)'
    <3> HIDE DEF row
    <3> QED
      BY <1>2, <1>4, <2>1, <2>2, <2>3 DEF RowOK
  <2> HIDE DEF row
  <2> QED
    BY <1>1, <1>4, <2>1, <2>4, RowConcerns
<1> QED
  BY <1>5, <1>6

LEMMA DeferConcerns ==
  ASSUME IInv, NEW w \in Workers, NEW r \in Requests, task[w].req = r, Defer(w)
  PROVE  Concerns(r) /\ request'[r].entry = request[r].entry
<1> DEFINE t == task[w]
           row == [request[r] EXCEPT !.status = "approved", !.deferred = TRUE]
<1>1. t.op = "approve" /\ request[r].status = "pending"
  BY DEF Defer, IInv, TasksTyped, TaskTyped, Found, Holding
<1>2. request[r] \in Request /\ RowOK(r) /\ ledger[r] \in Nat
  BY <1>1 DEF IInv, RowsTyped, RowsOK
<1>3. row \in Request /\ row.entry = request[r].entry
  BY <1>1, <1>2 DEF Request, Status
<1>4. request' = [request EXCEPT ![r] = row] /\ ledger' = ledger
  BY DEF Defer
<1>5. RowOK(r)'
  BY <1>1, <1>2, <1>4 DEF RowOK, IInv, RowsTyped, Request
<1> HIDE DEF row
<1> QED
  BY <1>1, <1>3, <1>4, <1>5, RowConcerns

LEMMA DeclinePendingConcerns ==
  ASSUME IInv, NEW w \in Workers, NEW r \in Requests, task[w].req = r, DeclinePending(w)
  PROVE  Concerns(r) /\ request'[r].entry = request[r].entry
<1> DEFINE t == task[w]
           new == ~t.running
           row == [request[r] EXCEPT !.status = "cancelled", !.deferred = FALSE, !.advanced = new,
                                     !.owed = IF new THEN Amount[r] ELSE 0]
<1>1. /\ t.op = "decline" /\ request[r].status = "pending"
      /\ new \in BOOLEAN
  BY DEF DeclinePending, IInv, TasksTyped, TaskTyped, Found, Holding
<1>2. /\ request[r] \in Request /\ RowOK(r) /\ ledger \in [Requests -> Nat]
      /\ Amount[r] \in Nat \ {0} /\ request \in [Requests -> Request]
  BY <1>1, RechargeAssumption DEF IInv, RowsTyped, RowsOK
<1>3. /\ row \in Request /\ row.entry = request[r].entry /\ row.status = "cancelled"
      /\ row.deferred = FALSE /\ row.owed = IF new THEN Amount[r] ELSE 0
  BY <1>1, <1>2 DEF Request, Status
<1>4. request' = [request EXCEPT ![r] = row]
  BY DEF DeclinePending, Owe
<1>5. ledger' = IF new THEN [ledger EXCEPT ![r] = @ + 1] ELSE ledger
  BY DEF DeclinePending
<1>6. ledger[r] = 0 /\ request[r].entry = None
  BY <1>1, <1>2 DEF RowOK
<1> HIDE DEF row, new
<1>7. request'[r] = row
  BY <1>1, <1>2, <1>4
<1>8. /\ ledger' \in [Requests -> Nat] /\ ledger'[r] = IF new THEN 1 ELSE 0
      /\ \A c \in Requests \ {r} : ledger'[c] = ledger[c]
  BY <1>1, <1>2, <1>5, <1>6
<1>9. RowOK(r)'
  BY <1>1, <1>2, <1>3, <1>6, <1>7, <1>8 DEF RowOK
<1>10. RowsTyped' /\ \A c \in Requests \ {r} : request'[c] = request[c]
  BY <1>2, <1>3, <1>4, <1>8 DEF RowsTyped
<1>11. \A c \in Requests : request[c].owed \in Nat
  BY <1>2 DEF Request
<1>12. Concerns(r)
  BY <1>1, <1>8, <1>9, <1>10, <1>11 DEF Concerns
<1> QED
  BY <1>3, <1>7, <1>12

LEMMA ReverseConcerns ==
  ASSUME IInv, NEW w \in Workers, NEW r \in Requests, task[w].req = r, Reverse(w)
  PROVE  Concerns(r) /\ request'[r].entry = request[r].entry
<1> DEFINE t == task[w]
           row == [request[r] EXCEPT !.status = "cancelled"]
<1>1. /\ t.op = "reverse" /\ request[r].status = "approved"
      /\ ~request[r].deferred /\ request[r].entry = None /\ ~request[r].verified
  BY DEF Reverse, IInv, TasksTyped, TaskTyped, Found, Holding
<1>2. request[r] \in Request /\ RowOK(r) /\ ledger[r] \in Nat
  BY <1>1 DEF IInv, RowsTyped, RowsOK
<1>3. row \in Request /\ row.entry = request[r].entry
  BY <1>1, <1>2 DEF Request, Status
<1>4. request' = [request EXCEPT ![r] = row] /\ ledger' = ledger
  BY DEF Reverse
<1>5. RowOK(r)'
  BY <1>1, <1>2, <1>4 DEF RowOK, IInv, RowsTyped, Request
<1> HIDE DEF row
<1> QED
  BY <1>1, <1>3, <1>4, <1>5, RowConcerns

(* No confirmed approval is undone. *)
Final ==
  \A r \in Requests :
    (request[r].status = "approved" /\ request[r].verified)
      => request'[r].status = "approved" /\ request'[r].verified

LEMMA ConcernsFinal ==
  ASSUME NEW r \in Requests, Concerns(r)
  PROVE  Final
BY DEF Concerns, Final

LEMMA EndsStep ==
  ASSUME IInv, NEW w \in Workers, Ends(w)
  PROVE  IInv' /\ Final
<1>0. TaskTyped(task[w])
  BY DEF IInv, TasksTyped
<1> DEFINE Writes(r) == /\ task[w].op \in Holding /\ task[w].req = r /\ Finish(w)
                        /\ Concerns(r)
                        /\ \/ request'[r].entry \in {request[r].entry, None}
                           \/ task[w].op = "link" /\ request'[r].entry = task[w].entry
<1>1. ASSUME NEW r \in Requests, Writes(r) PROVE IInv' /\ Final
  BY <1>1, FinishKeeps, ConcernsFinal
<1>2. ASSUME task[w].op \in Holding
      PROVE  \E r \in Requests : task[w].req = r
  BY <1>0, <1>2 DEF TaskTyped, Holding
<1>3. CASE Approve(w)
  <2>1. task[w].op \in Holding /\ Finish(w)
    BY <1>3 DEF Approve, Holding
  <2>2. PICK r \in Requests : task[w].req = r
    BY <1>2, <2>1
  <2> QED
    BY <1>1, <1>3, <2>1, <2>2, ApproveConcerns
<1>4. CASE Defer(w)
  <2>1. task[w].op \in Holding /\ Finish(w)
    BY <1>4 DEF Defer, Holding
  <2>2. PICK r \in Requests : task[w].req = r
    BY <1>2, <2>1
  <2> QED
    BY <1>1, <1>4, <2>1, <2>2, DeferConcerns
<1>5. CASE Link(w)
  <2>1. task[w].op = "link" /\ task[w].op \in Holding /\ Finish(w)
    BY <1>5 DEF Link, Holding
  <2>2. PICK r \in Requests : task[w].req = r
    BY <1>2, <2>1
  <2> QED
    BY <1>1, <1>5, <2>1, <2>2, LinkConcerns
<1>6. CASE VerifyDeferred(w)
  <2>1. task[w].op \in Holding /\ Finish(w)
    BY <1>6 DEF VerifyDeferred, Holding
  <2>2. PICK r \in Requests : task[w].req = r
    BY <1>2, <2>1
  <2> QED
    BY <1>1, <1>6, <2>1, <2>2, VerifyDeferredConcerns
<1>7. CASE DeclinePending(w)
  <2>1. task[w].op \in Holding /\ Finish(w)
    BY <1>7 DEF DeclinePending, Holding
  <2>2. PICK r \in Requests : task[w].req = r
    BY <1>2, <2>1
  <2> QED
    BY <1>1, <1>7, <2>1, <2>2, DeclinePendingConcerns
<1>8. CASE Reverse(w)
  <2>1. task[w].op \in Holding /\ Finish(w)
    BY <1>8 DEF Reverse, Holding
  <2>2. PICK r \in Requests : task[w].req = r
    BY <1>2, <2>1
  <2> QED
    BY <1>1, <1>8, <2>1, <2>2, ReverseConcerns
<1>9. CASE ReadBalance(w)
  BY <1>9, ReadBalanceStep DEF ReadBalance, Final
<1>10. CASE LinkRefused(w) \/ ReverseRefused(w) \/ Import(w)
  <2>1. Finish(w) /\ UNCHANGED <<request, ledger>>
    BY <1>10 DEF LinkRefused, ReverseRefused, Import
  <2> QED
    BY <2>1, DropStep DEF Final
<1> HIDE DEF Writes
<1> QED
  BY <1>3, <1>4, <1>5, <1>6, <1>7, <1>8, <1>9, <1>10 DEF Ends

LEMMA NextStep ==
  ASSUME IInv, [Next]_vars
  PROVE  IInv' /\ Final
<1>1. CASE \E r \in Requests : AtOnce(r)
  BY <1>1, AtOnceStep, ConcernsFinal
<1>2. CASE \E w \in Workers, r \in Requests : Begins(w, r)
  BY <1>2, BeginsStep DEF Final
<1>3. ASSUME NEW w \in Workers, NEW e \in Entries, StartImport(w, e)
      PROVE  IInv' /\ Final
  <2> DEFINE t == [op |-> "import", entry |-> e]
  <2>1. TaskTyped(t) /\ Found(t) /\ t.op \notin Holding
    BY DEF TaskTyped, Found, Holding
  <2>2. UNCHANGED <<request, ledger>> /\ task' = [task EXCEPT ![w] = t]
    BY <1>3 DEF StartImport
  <2> HIDE DEF t
  <2> QED
    BY <2>1, <2>2, TaskKeeps DEF Final
<1>4. CASE \E w \in Workers : Ends(w)
  BY <1>4, EndsStep
<1>5. CASE UNCHANGED <<request, ledger, task>>
  BY <1>5 DEF IInv, RowsTyped, TasksTyped, TaskTyped, RowsOK, RowOK, OneRequestPerEntry, Locks,
              Found, Final
<1>6. Spend \/ Receive \/ UNCHANGED vars => UNCHANGED <<request, ledger, task>>
  BY DEF Spend, Receive, vars
<1> QED
  BY <1>1, <1>2, <1>3, <1>4, <1>5, <1>6 DEF Next

LEMMA InvariantHolds == Spec => []IInv
<1>1. Init => IInv
  BY InitIInv
<1>2. IInv /\ [Next]_vars => IInv'
  BY NextStep
<1> QED
  BY <1>1, <1>2, PTL DEF Spec

(* The wallet is credited at most once for a request, and what is owed on   *)
(* a declined one was credited (approve_request, apply_deferred_wallet_     *)
(* credit, _decline_to_credit): RowOK, row by row.                          *)
THEOREM CreditedAtMostOnce == Spec => []CreditedOnce
<1>1. IInv => CreditedOnce
  BY DEF IInv, RowsOK, RowOK, CreditedOnce, Funded
<1> QED
  BY <1>1, InvariantHolds, PTL

(* A receipt stands behind one request, which is approved, credited and     *)
(* confirmed (link_cashbook_entry_to_request and every operation that could *)
(* touch the request afterwards).                                           *)
THEOREM ReceiptsStandBehindMoney == Spec => []MatchedIsFunded
<1>1. IInv => MatchedIsFunded
  BY DEF IInv, RowsOK, RowOK, OneRequestPerEntry, MatchedIsFunded, Funded
<1> QED
  BY <1>1, InvariantHolds, PTL

(* No decline, reversal or deletion undoes an approval whose money was      *)
(* confirmed, whatever was read before the confirmation.                    *)
THEOREM ConfirmationIsFinal == Spec => ConfirmedIsFinal
<1>1. IInv /\ [Next]_vars => [Final]_vars
  BY NextStep
<1> QED
  BY <1>1, InvariantHolds, PTL DEF Spec, ConfirmedIsFinal, Final

-----------------------------------------------------------------------------
(* The money.  What a request puts into the balance: its amount while it is *)
(* approved and credited, and what is owed on it when it was declined.      *)

WorthOf(r) == request[r].owed + (IF r \in Funded THEN Amount[r] ELSE 0)

Worth == [r \in Requests |-> WorthOf(r)]

Received == SumFunctionOnSet(EntryAmount, Imported)

Balanced == balance = Opening - spent + SumFunctionOnSet(Worth, Requests) + Received

(* The declined requests are listed in the order of their decline, each     *)
(* once, and everything that is owed is owed on one of them.                *)
Listing ==
  /\ declined \in Seq(Requests) /\ Distinct(declined)
  /\ \A r \in Elems(declined) : request[r].status = "cancelled"
  /\ \A r \in Requests : request[r].owed > 0 => r \in Elems(declined)

Columns ==
  /\ balance \in Int /\ spent \in -MaxIncome .. MaxSpent /\ fresh \subseteq Requests
  /\ imports \in [Entries -> {"none", "import", "request"}]
  /\ task \in [Workers -> Task]

MInv == IInv /\ Columns /\ Listing /\ Balanced

LEMMA WorthTypes ==
  ASSUME RowsTyped
  PROVE  /\ Funded \subseteq Requests /\ Owing \subseteq Requests /\ Imported \subseteq Entries
         /\ IsFiniteSet(Requests) /\ IsFiniteSet(Funded) /\ IsFiniteSet(Owing)
         /\ IsFiniteSet(Imported) /\ Received \in Int
         /\ \A r \in Requests : /\ Amount[r] \in Nat \ {0} /\ request[r].owed \in Nat
                                /\ WorthOf(r) \in Nat /\ Owed[r] = request[r].owed
                                /\ Worth[r] = WorthOf(r)
         /\ SumFunctionOnSet(Worth, Requests) \in Int
<1>1. Funded \subseteq Requests /\ Owing \subseteq Requests /\ Imported \subseteq Entries
  BY DEF Funded, Owing, Imported
<1>2. /\ IsFiniteSet(Requests) /\ IsFiniteSet(Funded) /\ IsFiniteSet(Owing)
      /\ IsFiniteSet(Imported)
  BY <1>1, RechargeAssumption, FS_Subset
<1>3. \A r \in Requests : /\ Amount[r] \in Nat \ {0} /\ request[r].owed \in Nat
                          /\ WorthOf(r) \in Nat /\ Owed[r] = request[r].owed
                          /\ Worth[r] = WorthOf(r)
  BY RechargeAssumption DEF RowsTyped, Request, WorthOf, Owed, Worth
<1>4. Received \in Int
  <2>1. IntOn(EntryAmount, Imported)
    BY <1>1, RechargeAssumption DEF IntOn
  <2> QED
    BY <1>2, <2>1, SumInt DEF Received
<1>5. SumFunctionOnSet(Worth, Requests) \in Int
  BY <1>2, <1>3, SumInt DEF IntOn
<1> QED
  BY <1>1, <1>2, <1>3, <1>4, <1>5

(* The two ways to add it all up. *)
LEMMA WorthSum ==
  ASSUME RowsTyped
  PROVE  SumFunctionOnSet(Worth, Requests) = SumFunctionOnSet(Amount, Funded) + OwedBy(Requests)
<1> DEFINE paid == [r \in Requests |-> IF r \in Funded THEN Amount[r] ELSE 0]
<1>1. /\ Funded \subseteq Requests /\ IsFiniteSet(Requests) /\ IsFiniteSet(Funded)
      /\ \A r \in Requests : /\ Amount[r] \in Nat /\ Owed[r] \in Nat /\ Owed[r] = request[r].owed
                             /\ Worth[r] = WorthOf(r)
  BY WorthTypes
<1>2. \A r \in Requests : paid[r] \in Int /\ Worth[r] = Owed[r] + paid[r]
  BY <1>1 DEF WorthOf
<1>3. (\A r \in Funded : paid[r] = Amount[r]) /\ \A r \in Requests \ Funded : paid[r] = 0
  BY <1>1
<1> HIDE DEF paid
<1>4. SumFunctionOnSet(Worth, Requests) = SumFunctionOnSet(Owed, Requests) + SumFunctionOnSet(paid, Requests)
  <2>1. IntOn(Owed, Requests) /\ IntOn(paid, Requests)
    BY <1>1, <1>2 DEF IntOn
  <2> QED
    BY <1>1, <1>2, <2>1, SumPlus
<1>5. SumFunctionOnSet(paid, Funded) = SumFunctionOnSet(Amount, Funded)
  <2>1. IntOn(paid, Funded)
    BY <1>1, <1>2 DEF IntOn
  <2> QED
    BY <1>1, <1>3, <2>1, SumSame
<1>6. SumFunctionOnSet(paid, Funded) = SumFunctionOnSet(paid, Requests)
  <2>1. IntOn(paid, Requests)
    BY <1>2 DEF IntOn
  <2> QED
    BY <1>1, <1>3, <2>1, SumZeros
<1>7. SumFunctionOnSet(Owed, Requests) \in Int /\ SumFunctionOnSet(paid, Requests) \in Int
  <2>1. IntOn(Owed, Requests) /\ IntOn(paid, Requests)
    BY <1>1, <1>2 DEF IntOn
  <2> QED
    BY <1>1, <2>1, SumInt
<1> QED
  BY <1>4, <1>5, <1>6, <1>7 DEF OwedBy

LEMMA BalancedIsExplained ==
  ASSUME RowsTyped, Columns, Balanced
  PROVE  BalanceExplained
<1>1. SumFunctionOnSet(Worth, Requests) = SumFunctionOnSet(Amount, Funded) + OwedBy(Requests)
  BY WorthSum
<1>2. SumFunctionOnSet(Amount, Funded) \in Int /\ OwedBy(Requests) \in Int
  <2>1. IsFiniteSet(Funded) /\ IntOn(Amount, Funded) /\ IsFiniteSet(Requests) /\ IntOn(Owed, Requests)
    BY WorthTypes DEF IntOn
  <2> QED
    BY <2>1, SumInt DEF OwedBy
<1>3. Received \in Int /\ Opening \in Int /\ spent \in Int /\ balance \in Int
  BY WorthTypes, RechargeAssumption DEF Columns
<1> QED
  BY <1>1, <1>2, <1>3 DEF Balanced, BalanceExplained, Received

-----------------------------------------------------------------------------
(* What a credit recovers. *)

Shares(r, budget) == [c \in Requests |-> Share(r, c, budget)]

(* The first i of the declines on which something is owed. *)
OwingUpTo(i) == {declined[j] : j \in 1..i} \cap Owing

LEMMA OlderOnes ==
  ASSUME Listing, NEW i \in DOMAIN declined
  PROVE  Older(declined[i]) = OwingUpTo(i - 1)
<1>1. /\ Len(declined) \in Nat /\ DOMAIN declined = 1..Len(declined)
      /\ \A j, k \in 1..Len(declined) : declined[j] = declined[k] => j = k
  BY DEF Listing, Distinct
<1>2. i \in Nat /\ 1..(i - 1) \subseteq 1..Len(declined) /\ \A j \in 1..(i - 1) : j < i
  BY <1>1
<1>3. ASSUME NEW d \in Older(declined[i]) PROVE d \in OwingUpTo(i - 1)
  <2>1. PICK j, k \in DOMAIN declined : j < k /\ declined[j] = d /\ declined[k] = declined[i]
    BY DEF Older
  <2>2. k = i /\ j \in 1..(i - 1)
    BY <1>1, <2>1
  <2> QED
    BY <2>1, <2>2 DEF Older, OwingUpTo
<1>4. ASSUME NEW d \in OwingUpTo(i - 1) PROVE d \in Older(declined[i])
  <2>1. PICK j \in 1..(i - 1) : declined[j] = d
    BY DEF OwingUpTo
  <2>2. j \in DOMAIN declined /\ j < i
    BY <1>1, <1>2
  <2> QED
    BY <2>1, <2>2 DEF Older, OwingUpTo
<1> QED
  BY <1>3, <1>4

LEMMA OwedSums ==
  ASSUME RowsTyped, NEW S \in SUBSET Requests
  PROVE  OwedBy(S) \in Nat /\ \A R \in SUBSET S : OwedBy(R) <= OwedBy(S)
<1>1. IsFiniteSet(S) /\ \A x \in S : Owed[x] \in Nat
  BY WorthTypes, FS_Subset
<1>2. \A R \in SUBSET S : OwedBy(R) <= OwedBy(S)
  BY <1>1, SumFewer DEF OwedBy
<1>3. OwedBy({}) = 0
  BY SumEmpty DEF OwedBy
<1>4. OwedBy(S) \in Int
  BY <1>1, SumInt DEF OwedBy, IntOn
<1> QED
  BY <1>2, <1>3, <1>4

LEMMA OwedPut ==
  ASSUME RowsTyped, NEW S \in SUBSET Requests, NEW x \in Requests \ S
  PROVE  OwedBy(S \cup {x}) = request[x].owed + OwedBy(S)
<1>1. IsFiniteSet(S) /\ IntOn(Owed, S \cup {x}) /\ Owed[x] = request[x].owed
  BY WorthTypes, FS_Subset DEF IntOn
<1> QED
  BY <1>1, SumPut DEF OwedBy

(* All the shares together are no more than the budget: each credit leaves  *)
(* to the younger ones what the older ones were not owed.                   *)
LEMMA TotalBound ==
  ASSUME RowsTyped, Listing, NEW r \in Requests, NEW budget \in Nat
  PROVE  SumFunctionOnSet(Shares(r, budget), Owing) \in 0..budget
<1> DEFINE n == Len(declined)
           f == Shares(r, budget)
           Total(S) == SumFunctionOnSet(f, S)
           K == {i \in 0..n : Total(OwingUpTo(i)) <= budget}
<1>1. /\ n \in Nat /\ DOMAIN declined = 1..n
      /\ \A j, k \in 1..n : declined[j] = declined[k] => j = k
      /\ \A i \in 1..n : declined[i] \in Requests
  BY ElementOfSeq DEF Listing, Distinct
<1>2. \A c \in Requests : f[c] \in 0..request[c].owed /\ f[c] = Share(r, c, budget)
  BY ShareBound DEF Shares
<1>3. \A i \in 0..n : OwingUpTo(i) \subseteq Requests /\ OwingUpTo(i) \subseteq Owing
  BY DEF OwingUpTo, Owing
<1>4. \A c \in Requests : request[c].owed \in Nat /\ Owed[c] = request[c].owed
  BY WorthTypes
<1>5. \A S \in SUBSET Requests : IsFiniteSet(S) /\ IntOn(f, S) /\ IntOn(Owed, S)
  BY <1>2, <1>4, WorthTypes, FS_Subset DEF IntOn
<1> HIDE DEF n, f
<1>6. \A S \in SUBSET Requests : Total(S) \in Int /\ Total(S) <= OwedBy(S)
  BY <1>2, <1>4, <1>5, SumInt, SumAtMost DEF OwedBy
<1>7. 0 \in K
  <2>1. OwingUpTo(0) = {}
    BY DEF OwingUpTo
  <2>2. Total(OwingUpTo(0)) = 0
    BY <2>1, SumEmpty
  <2> HIDE DEF Total
  <2> QED
    BY <1>1, <2>2
<1>8. ASSUME NEW i \in 1..n, i - 1 \in K PROVE i \in K
  <2> DEFINE c == declined[i]
             S == OwingUpTo(i - 1)
  <2>1. c \in Requests /\ i - 1 \in 0..n /\ i \in 0..n
    BY <1>1
  <2>2. OwingUpTo(i) = S \cup ({c} \cap Owing)
    <3>1. 1..i = (1..(i - 1)) \cup {i}
      BY <1>1
    <3> QED
      BY <3>1 DEF OwingUpTo
  <2>3. S \subseteq Requests /\ Total(S) <= budget
    BY <1>3, <1>8, <2>1
  <2>4. CASE c \notin Owing
    <3>1. OwingUpTo(i) = S
      BY <2>2, <2>4
    <3> HIDE DEF Total, S
    <3> QED
      BY <2>1, <2>3, <3>1
  <2>5. CASE c \in Owing
    <3>1. c \notin S
      BY <1>1 DEF OwingUpTo
    <3>2. Older(c) = S
      BY <1>1, OlderOnes
    <3>3. Total(OwingUpTo(i)) = f[c] + Total(S)
      <4>1. OwingUpTo(i) = S \cup {c} /\ S \cup {c} \in SUBSET Requests
        BY <2>1, <2>2, <2>3, <2>5
      <4>2. IsFiniteSet(S) /\ IntOn(f, S \cup {c})
        BY <1>5, <2>3, <4>1
      <4> HIDE DEF S, c
      <4> QED
        BY <3>1, <4>1, <4>2, SumPut
    <3>4. f[c] \in Nat /\ (f[c] = 0 \/ f[c] <= budget - OwedBy(S))
      <4>1. OwedBy(S) \in Nat /\ request[c].owed \in Nat
        BY <1>4, <2>1, <2>3, OwedSums
      <4> HIDE DEF S, c
      <4> QED
        BY <1>2, <2>1, <3>2, <4>1 DEF Share
    <3>5. Total(S) \in Int /\ Total(S) <= OwedBy(S) /\ OwedBy(S) \in Nat
      BY <1>6, <2>3, OwedSums
    <3> HIDE DEF Total, S, c
    <3>6. Total(OwingUpTo(i)) <= budget
      BY <2>3, <3>3, <3>4, <3>5
    <3> QED
      BY <2>1, <3>6
  <2> QED
    BY <2>4, <2>5
<1> HIDE DEF K
<1>9. 0..n \subseteq K
  BY <1>1, <1>7, <1>8, UpTo
<1>10. OwingUpTo(n) = Owing
  <2>1. \A d \in Owing : d \in Elems(declined)
    BY <1>4 DEF Listing, Owing
  <2> QED
    BY <2>1 DEF OwingUpTo, Elems, n
<1>11. Total(Owing) <= budget
  <2>1. n \in K
    BY <1>1, <1>9
  <2> HIDE DEF Total
  <2> QED
    BY <1>10, <2>1 DEF K
<1>12. Total(Owing) \in Int /\ Total({}) <= Total(Owing) /\ Total({}) = 0
  <2>1. Owing \subseteq Requests /\ IsFiniteSet(Owing) /\ \A x \in Owing : f[x] \in Nat
    BY <1>2, <1>4, WorthTypes
  <2> QED
    BY <1>6, <2>1, SumFewer, SumEmpty
<1> QED
  BY <1>11, <1>12 DEF f

LEMMA BudgetBound ==
  ASSUME NEW r \in Requests, NEW before \in Int
  PROVE  Budget(r, before) \in 0..Amount[r]
<1>1. Amount[r] \in Nat
  BY RechargeAssumption
<1> QED
  BY <1>1 DEF Budget

LEMMA RecoveredBound ==
  ASSUME RowsTyped, Listing, NEW r \in Requests, NEW before \in Int
  PROVE  RecoveredTotal(r, before) \in 0..Amount[r]
<1>1. Budget(r, before) \in 0..Amount[r] /\ Amount[r] \in Nat
  BY BudgetBound, RechargeAssumption
<1>2. Recovered(r, before) = Shares(r, Budget(r, before))
  BY DEF Recovered, Shares
<1>3. RecoveredTotal(r, before) \in 0..Budget(r, before)
  BY <1>1, <1>2, TotalBound DEF RecoveredTotal
<1> QED
  BY <1>1, <1>3

-----------------------------------------------------------------------------
(* Every step is one of three kinds.  It credits r and recovers from the    *)
(* others, ...                                                              *)
Crediting(r, before, row) ==
  /\ CreditAndAdjust(r, before, row) /\ row.status = "approved" /\ row.owed = 0
  /\ request[r].owed = 0 /\ r \notin Funded /\ request[r].status # "cancelled"
  /\ declined' = declined /\ spent' = spent /\ Imported' = Imported

(* ... or it writes the row of r, and the balance by what r is worth more   *)
(* or less afterwards, ...                                                  *)
Turning(r) ==
  /\ \A c \in Requests \ {r} : request'[c] = request[c]
  /\ balance' = balance + WorthOf(r)' - WorthOf(r)
  /\ spent' = spent /\ Imported' = Imported
  /\ ledger' # ledger => WorthOf(r)' >= WorthOf(r)
  /\ request'[r].owed >= request[r].owed
  /\ request[r].status = "cancelled" => request'[r].status = "cancelled"
  /\ \/ declined' = declined /\ request'[r].owed = request[r].owed
     \/ /\ \E place \in Places : declined' = Seqs!InsertAt(declined, place, r)
        /\ request[r].status # "cancelled" /\ request'[r].status = "cancelled"

(* ... or it writes no request.                                             *)
Aside ==
  /\ request' = request /\ declined' = declined /\ ledger' = ledger
  /\ balance' - balance = (spent - spent') + Received' - Received

-----------------------------------------------------------------------------
LEMMA CreditedWorth ==
  ASSUME MInv, RowsTyped', NEW r \in Requests, NEW before \in Int, NEW row \in Request,
         Crediting(r, before, row)
  PROVE  /\ \A c \in Requests :
              /\ Recovered(r, before)[c] = Share(r, c, Budget(r, before))
              /\ Recovered(r, before)[c] \in 0..request[c].owed
              /\ request'[c].owed = request[c].owed - Recovered(r, before)[c]
              /\ c # r => /\ WorthOf(c)' = WorthOf(c) - Recovered(r, before)[c]
                          /\ request'[c].status = request[c].status
         /\ request'[r].owed = 0 /\ WorthOf(r) = 0 /\ WorthOf(r)' = Amount[r]
         /\ Recovered(r, before)[r] = 0
<1>1. RowsTyped /\ Amount[r] \in Nat
  BY RechargeAssumption DEF MInv, IInv
<1>2. /\ CreditAndAdjust(r, before, row) /\ row.status = "approved" /\ row.owed = 0
      /\ request[r].owed = 0 /\ r \notin Funded
  BY DEF Crediting
<1>3. \A c \in Requests : /\ Recovered(r, before)[c] = Share(r, c, Budget(r, before))
                          /\ Recovered(r, before)[c] \in 0..request[c].owed
                          /\ request[c].owed \in Nat
  BY <1>1, ShareBound, WorthTypes DEF Recovered
<1>4. Recovered(r, before)[r] = 0
  BY <1>2, <1>3
<1>5. /\ request'[r].owed = 0 /\ request'[r].status = "approved" /\ ~request'[r].deferred
  <2> DEFINE more == RecoveredTotal(r, before) > 0 \/ Budget(r, before) # Amount[r]
  <2>1. request'[r] = [row EXCEPT !.deferred = FALSE, !.credited = TRUE, !.settled = more]
    BY <1>2 DEF CreditAndAdjust
  <2> HIDE DEF more
  <2> QED
    BY <1>2, <2>1 DEF Request
<1>6. WorthOf(r) = 0 /\ WorthOf(r)' = Amount[r]
  BY <1>1, <1>2, <1>5 DEF WorthOf, Funded
<1>7. ASSUME NEW c \in Requests \ {r}
      PROVE  /\ request'[c].owed = request[c].owed - Recovered(r, before)[c]
             /\ request'[c].status = request[c].status /\ request'[c].deferred = request[c].deferred
  <2> DEFINE share == Recovered(r, before)[c]
  <2>1. request'[c] = [request[c] EXCEPT !.owed = @ - share]
    BY <1>2 DEF CreditAndAdjust
  <2>2. request[c] \in Request
    BY <1>1 DEF RowsTyped
  <2> HIDE DEF share
  <2>3. /\ request'[c].owed = request[c].owed - share
        /\ request'[c].status = request[c].status /\ request'[c].deferred = request[c].deferred
    BY <2>1, <2>2 DEF Request
  <2> QED
    BY <2>3 DEF share
<1>8. ASSUME NEW c \in Requests \ {r}
      PROVE  WorthOf(c)' = WorthOf(c) - Recovered(r, before)[c]
  <2>1. c \in Funded' <=> c \in Funded
    BY <1>7 DEF Funded
  <2>2. Amount[c] \in Nat /\ Recovered(r, before)[c] \in Int /\ request[c].owed \in Nat
    BY <1>3, RechargeAssumption
  <2> QED
    BY <1>7, <2>1, <2>2 DEF WorthOf
<1> QED
  BY <1>2, <1>3, <1>4, <1>5, <1>6, <1>7, <1>8

LEMMA CreditedBalance ==
  ASSUME MInv, RowsTyped', NEW r \in Requests, NEW before \in Int, NEW row \in Request,
         Crediting(r, before, row)
  PROVE  Balanced'
<1> DEFINE back == Recovered(r, before)
           gain == [c \in Requests |-> IF c = r THEN Amount[r] ELSE 0 - back[c]]
           loss == [c \in Requests |-> 0 - back[c]]
<1>0. RowsTyped /\ IsFiniteSet(Requests) /\ Amount[r] \in Nat /\ Owing \subseteq Requests
  BY WorthTypes, RechargeAssumption DEF MInv, IInv
<1>1. /\ \A c \in Requests : /\ back[c] \in 0..request[c].owed
                             /\ c # r => WorthOf(c)' = WorthOf(c) - back[c]
      /\ WorthOf(r) = 0 /\ WorthOf(r)' = Amount[r] /\ back[r] = 0
  BY CreditedWorth
<1>2. \A c \in Requests : /\ Worth[c] = WorthOf(c) /\ Worth[c] \in Nat
                          /\ request[c].owed \in Nat
  BY <1>0, WorthTypes
<1>3. \A c \in Requests : Worth'[c] = WorthOf(c)'
  BY DEF Worth
<1> DEFINE Sum(g) == SumFunctionOnSet(g, Requests)
<1> HIDE DEF back
<1>4. \A c \in Requests : Worth'[c] = Worth[c] + gain[c] /\ gain[c] \in Int /\ back[c] \in Int
                          /\ loss[c] \in Int /\ back[c] + loss[c] = 0
  <2> TAKE c \in Requests
  <2>1. /\ back[c] \in Int /\ Worth[c] = WorthOf(c) /\ Worth[c] \in Int /\ Worth'[c] = WorthOf(c)'
        /\ gain[c] = IF c = r THEN Amount[r] ELSE 0 - back[c]
        /\ loss[c] = 0 - back[c]
    BY <1>1, <1>2, <1>3
  <2>2. WorthOf(c)' = IF c = r THEN Amount[r] ELSE WorthOf(c) - back[c]
    BY <1>1
  <2>3. c = r => WorthOf(c) = 0
    BY <1>1
  <2> HIDE DEF gain, loss
  <2> QED
    BY <1>0, <2>1, <2>2, <2>3
<1>5. gain[r] = Amount[r] /\ loss[r] = 0 /\ \A c \in Requests \ {r} : loss[c] = gain[c]
  BY <1>1
<1> HIDE DEF gain, loss
<1>6. Sum(Worth') = Sum(Worth) + Sum(gain)
  <2>1. IntOn(Worth, Requests) /\ IntOn(gain, Requests)
    BY <1>2, <1>4 DEF IntOn
  <2> QED
    BY <1>0, <1>4, <2>1, SumPlus
<1>7. Sum(gain) = Sum(loss) + Amount[r]
  <2>1. IntOn(gain, Requests) /\ IntOn(loss, Requests)
    BY <1>4 DEF IntOn
  <2>2. Sum(gain) = Sum(loss) + gain[r] - loss[r]
    BY <1>0, <1>5, <2>1, SumChange
  <2>3. Sum(loss) \in Int
    BY <1>0, <2>1, SumInt
  <2> QED
    BY <1>0, <1>5, <2>2, <2>3
<1>8. Sum(back) + Sum(loss) = 0
  <2> DEFINE zero == [c \in Requests |-> 0]
  <2>1. IntOn(back, Requests) /\ IntOn(loss, Requests) /\ IntOn(zero, Requests)
    BY <1>4 DEF IntOn
  <2>2. Sum(zero) = Sum(back) + Sum(loss)
    <3>1. \A c \in Requests : zero[c] = back[c] + loss[c]
      BY <1>4
    <3> HIDE DEF zero
    <3> QED
      BY <1>0, <2>1, <3>1, SumPlus
  <2>3. SumFunctionOnSet(zero, {}) = Sum(zero)
    <3>1. \A c \in Requests \ {} : zero[c] = 0
      OBVIOUS
    <3> HIDE DEF zero
    <3> QED
      BY <1>0, <2>1, <3>1, SumZeros
  <2>4. SumFunctionOnSet(zero, {}) = 0
    BY SumEmpty
  <2> HIDE DEF zero
  <2> QED
    BY <2>2, <2>3, <2>4
<1>9. Sum(back) = RecoveredTotal(r, before)
  <2>1. \A c \in Requests \ Owing : back[c] = 0
    BY <1>1, <1>2 DEF Owing
  <2>2. IntOn(back, Requests)
    BY <1>4 DEF IntOn
  <2>3. SumFunctionOnSet(back, Owing) = Sum(back)
    BY <1>0, <2>1, <2>2, SumZeros
  <2> QED
    BY <2>3 DEF RecoveredTotal, back
<1>10. balance' = balance + Amount[r] - RecoveredTotal(r, before) /\ spent' = spent /\ Received' = Received
  BY DEF Crediting, CreditAndAdjust, Received
<1>11. /\ Sum(Worth) \in Int /\ Sum(gain) \in Int /\ Sum(loss) \in Int /\ Sum(back) \in Int
       /\ Received \in Int /\ Opening \in Int /\ spent \in Int /\ balance \in Int
  <2>1. IntOn(Worth, Requests) /\ IntOn(gain, Requests) /\ IntOn(loss, Requests) /\ IntOn(back, Requests)
    BY <1>2, <1>4 DEF IntOn
  <2>2. /\ Sum(Worth) \in Int /\ Sum(gain) \in Int /\ Sum(loss) \in Int /\ Sum(back) \in Int
    BY <1>0, <2>1, SumInt
  <2> QED
    BY <1>0, <2>2, WorthTypes, RechargeAssumption DEF MInv, Columns
<1>12. balance = Opening - spent + Sum(Worth) + Received
  BY DEF MInv, Balanced
<1> HIDE DEF Sum
<1>13. balance' = Opening - spent + Sum(Worth') + Received
  BY <1>0, <1>6, <1>7, <1>8, <1>9, <1>10, <1>11, <1>12
<1> QED
  BY <1>10, <1>13 DEF Balanced, Sum

LEMMA TurnedBalance ==
  ASSUME MInv, RowsTyped', NEW r \in Requests, Turning(r)
  PROVE  Balanced'
<1>1. RowsTyped /\ IsFiniteSet(Requests)
  BY WorthTypes DEF MInv, IInv
<1>2. \A c \in Requests : Worth[c] = WorthOf(c) /\ Worth'[c] = WorthOf(c)'
  BY DEF Worth
<1>3. \A c \in Requests : WorthOf(c) \in Nat
  BY <1>1, WorthTypes
<1>4. \A c \in Requests : WorthOf(c)' \in Nat
  BY RechargeAssumption DEF RowsTyped, Request, WorthOf
<1>5. \A c \in Requests \ {r} : WorthOf(c)' = WorthOf(c)
  BY DEF Turning, WorthOf, Funded
<1>6. SumFunctionOnSet(Worth', Requests) = SumFunctionOnSet(Worth, Requests) + Worth'[r] - Worth[r]
  <2>1. IntOn(Worth, Requests) /\ IntOn(Worth', Requests)
    BY <1>2, <1>3, <1>4 DEF IntOn
  <2>2. \A c \in Requests \ {r} : Worth[c] = Worth'[c]
    BY <1>2, <1>5
  <2> QED
    BY <1>1, <2>1, <2>2, SumChange
<1>7. /\ balance' = balance + WorthOf(r)' - WorthOf(r)
      /\ spent' = spent /\ Received' = Received
  BY DEF Turning, Received
<1>8. /\ balance = Opening - spent + SumFunctionOnSet(Worth, Requests) + Received
      /\ balance \in Int /\ Opening \in Int /\ spent \in Int
      /\ SumFunctionOnSet(Worth, Requests) \in Int /\ Received \in Int
  BY <1>1, WorthTypes, RechargeAssumption DEF MInv, Columns, Balanced
<1>9. WorthOf(r) \in Int /\ WorthOf(r)' \in Int /\ Worth[r] = WorthOf(r) /\ Worth'[r] = WorthOf(r)'
  BY <1>2, <1>3, <1>4
<1>10. balance' = Opening - spent + SumFunctionOnSet(Worth', Requests) + Received
  BY <1>6, <1>7, <1>8, <1>9
<1> QED
  BY <1>7, <1>10 DEF Balanced

LEMMA AsideBalance ==
  ASSUME MInv, Columns', Aside
  PROVE  Balanced'
<1>1. Worth' = Worth
  BY DEF Aside, Worth, WorthOf, Funded
<1>2. RowsTyped /\ RowsTyped'
  BY DEF MInv, IInv, Aside, RowsTyped
<1>3. Received' \in Int
  <2>1. Imported' \subseteq Entries
    BY DEF Imported
  <2>2. IsFiniteSet(Imported') /\ IntOn(EntryAmount, Imported')
    BY <2>1, RechargeAssumption, FS_Subset DEF IntOn
  <2> QED
    BY <2>2, SumInt DEF Received
<1>4. /\ balance = Opening - spent + SumFunctionOnSet(Worth, Requests) + Received
      /\ balance \in Int /\ Opening \in Int /\ spent \in Int /\ balance' \in Int /\ spent' \in Int
      /\ SumFunctionOnSet(Worth, Requests) \in Int /\ Received \in Int
  BY <1>2, WorthTypes, RechargeAssumption DEF MInv, Columns, Balanced
<1>5. balance' - balance = (spent - spent') + Received' - Received
  BY DEF Aside
<1>6. balance' = Opening - spent' + SumFunctionOnSet(Worth, Requests) + Received'
  BY <1>3, <1>4, <1>5
<1> QED
  BY <1>1, <1>6 DEF Balanced

-----------------------------------------------------------------------------
(* The list of the declines. *)

(* Inserting an element that was not there. *)
LEMMA InsertElems ==
  ASSUME NEW E, NEW q \in Seq(E), NEW e \in E, NEW k \in 1 .. Len(q) + 1
  PROVE  /\ Seqs!InsertAt(q, k, e) \in Seq(E)
         /\ Elems(Seqs!InsertAt(q, k, e)) = Elems(q) \cup {e}
         /\ Distinct(q) /\ e \notin Elems(q) => Distinct(Seqs!InsertAt(q, k, e))
<1> DEFINE n == Len(q)
           a == SubSeq(q, 1, k - 1)
           b == SubSeq(q, k, n)
           u == a \o <<e>> \o b
<1>1. n \in Nat /\ k \in Int /\ k >= 1 /\ k <= n + 1
  BY LenProperties
<1>2. a \in Seq(E) /\ Len(a) = k - 1 /\ \A j \in 1 .. k - 1 : a[j] = q[j]
  BY <1>1
<1>3. b \in Seq(E) /\ Len(b) = n + 1 - k /\ \A j \in 1 .. n + 1 - k : b[j] = q[k + j - 1]
  BY <1>1
<1>4. Seqs!InsertAt(q, k, e) = u
  BY DEF Seqs!InsertAt
<1> HIDE DEF a, b
<1>5. /\ u \in Seq(E) /\ Len(u) = n + 1 /\ u[k] = e
      /\ \A j \in 1 .. k - 1 : u[j] = q[j]
      /\ \A j \in k + 1 .. n + 1 : u[j] = q[j - 1]
  <2>1. a \o <<e>> \in Seq(E) /\ Len(a \o <<e>>) = k /\ (a \o <<e>>)[k] = e
        /\ \A j \in 1 .. k - 1 : (a \o <<e>>)[j] = a[j]
    BY <1>1, <1>2
  <2> DEFINE c == a \o <<e>>
  <2> HIDE DEF c
  <2>0. c \in Seq(E) /\ Len(c) = k
    BY <2>1 DEF c
  <2>2. /\ c \o b \in Seq(E) /\ Len(c \o b) = n + 1
        /\ \A j \in 1 .. k : (c \o b)[j] = c[j]
        /\ \A j \in k + 1 .. n + 1 : (c \o b)[j] = b[j - k]
    BY <1>1, <1>3, <2>0
  <2> QED
    BY <1>1, <1>2, <1>3, <2>1, <2>2 DEF c
<1> HIDE DEF u
<1>6. Elems(u) = Elems(q) \cup {e}
  <2>1. \A j \in 1 .. n + 1 : u[j] \in Elems(q) \cup {e}
    <3> SUFFICES ASSUME NEW j \in 1 .. n + 1 PROVE u[j] \in Elems(q) \cup {e}
      OBVIOUS
    <3>1. j \in 1 .. k - 1 => u[j] \in Elems(q)
      BY <1>1, <1>5 DEF Elems
    <3>2. j \in k + 1 .. n + 1 => j - 1 \in 1 .. n /\ u[j] \in Elems(q)
      BY <1>1, <1>5 DEF Elems
    <3> QED
      BY <1>1, <1>5, <3>1, <3>2
  <2>2. \A i \in 1 .. n : q[i] \in Elems(u)
    <3> SUFFICES ASSUME NEW i \in 1 .. n PROVE q[i] \in Elems(u)
      OBVIOUS
    <3>1. i < k => i \in 1 .. n + 1 /\ u[i] = q[i]
      BY <1>1, <1>5
    <3>2. i >= k => i + 1 \in 1 .. n + 1 /\ u[i + 1] = q[i]
      BY <1>1, <1>5
    <3> QED
      BY <1>1, <1>5, <3>1, <3>2 DEF Elems
  <2>3. e \in Elems(u)
    BY <1>1, <1>5 DEF Elems
  <2> QED
    BY <1>5, <2>1, <2>2, <2>3 DEF Elems
<1>7. ASSUME Distinct(q), e \notin Elems(q) PROVE Distinct(u)
  <2> DEFINE old(j) == IF j < k THEN j ELSE j - 1
  <2>1. \A j \in (1 .. n + 1) \ {k} : old(j) \in 1 .. n /\ u[j] = q[old(j)] /\ u[j] # e
    BY <1>1, <1>5, <1>7 DEF Elems
  <2>2. \A i, j \in (1 .. n + 1) \ {k} : old(i) = old(j) => i = j
    BY <1>1
  <2> HIDE DEF old
  <2>3. \A i, j \in (1 .. n + 1) \ {k} : u[i] = u[j] => i = j
    BY <1>7, <2>1, <2>2 DEF Distinct
  <2> QED
    BY <1>5, <2>1, <2>3 DEF Distinct
<1> QED
  BY <1>4, <1>5, <1>6, <1>7

LEMMA ListingKept ==
  ASSUME MInv, RowsTyped', NEW r \in Requests,
         Turning(r) \/ \E before \in Int, row \in Request : Crediting(r, before, row)
  PROVE  Listing'
<1>1. Listing /\ RowsTyped
  BY DEF MInv, IInv
<1>2. ASSUME NEW before \in Int, NEW row \in Request, Crediting(r, before, row) PROVE Listing'
  <2>1. declined' = declined /\ request[r].status # "cancelled"
    BY <1>2 DEF Crediting
  <2>2. \A c \in Requests \ {r} :
          /\ request'[c].status = request[c].status
          /\ request'[c].owed > 0 => request[c].owed > 0
    <3> SUFFICES ASSUME NEW c \in Requests \ {r}
                 PROVE  /\ request'[c].status = request[c].status
                        /\ request'[c].owed > 0 => request[c].owed > 0
      OBVIOUS
    <3>1. /\ Recovered(r, before)[c] \in 0..request[c].owed
          /\ request'[c].owed = request[c].owed - Recovered(r, before)[c]
          /\ request'[c].status = request[c].status
      BY <1>2, CreditedWorth
    <3>2. request[c].owed \in Nat
      BY <1>1, WorthTypes
    <3> QED
      BY <3>1, <3>2
  <2>3. request'[r].owed = 0
    BY <1>2, CreditedWorth
  <2>4. r \notin Elems(declined) /\ Elems(declined) \subseteq Requests
    BY <1>1, <2>1, ElementOfSeq DEF Listing, Elems
  <2> QED
    BY <1>1, <2>1, <2>2, <2>3, <2>4 DEF Listing
<1>3. CASE Turning(r)
  <2>1. \A c \in Requests \ {r} : request'[c] = request[c]
    BY <1>3 DEF Turning
  <2>2. Elems(declined) \subseteq Requests
    BY <1>1, ElementOfSeq DEF Listing, Elems
  <2>3. CASE declined' = declined /\ request'[r].owed = request[r].owed
    BY <1>1, <1>3, <2>1, <2>2, <2>3 DEF Listing, Turning
  <2>4. CASE /\ \E place \in Places : declined' = Seqs!InsertAt(declined, place, r)
             /\ request[r].status # "cancelled" /\ request'[r].status = "cancelled"
    <3>1. r \notin Elems(declined)
      BY <1>1, <2>4 DEF Listing
    <3>2. PICK place \in Places : declined' = Seqs!InsertAt(declined, place, r)
      BY <2>4
    <3>3. /\ declined' \in Seq(Requests) /\ Distinct(declined')
          /\ Elems(declined') = Elems(declined) \cup {r}
      BY <1>1, <3>1, <3>2, InsertElems DEF Listing, Places
    <3> QED
      BY <1>1, <2>1, <2>2, <2>4, <3>3 DEF Listing
  <2> QED
    BY <1>3, <2>3, <2>4 DEF Turning
<1> QED
  BY <1>2, <1>3

-----------------------------------------------------------------------------
(* What a recharge does for its user, and in which order it recovers.       *)

KeepsOrder ==
  \A i, j \in DOMAIN declined :
     i < j /\ request'[declined[j]].owed < request[declined[j]].owed
         => request'[declined[i]].owed = 0

LEMMA CreditingProperties ==
  ASSUME MInv, RowsTyped', NEW r \in Requests, NEW before \in Int, NEW row \in Request,
         Crediting(r, before, row)
  PROVE  balance' >= balance /\ KeepsOrder
<1>0. RowsTyped /\ Listing /\ balance \in Int /\ Amount[r] \in Nat
  BY RechargeAssumption DEF MInv, IInv, Columns
<1>1. balance' >= balance
  <2>1. RecoveredTotal(r, before) \in 0..Amount[r]
    BY <1>0, RecoveredBound
  <2>2. balance' = balance + Amount[r] - RecoveredTotal(r, before)
    BY DEF Crediting, CreditAndAdjust
  <2> QED
    BY <1>0, <2>1, <2>2
<1>2. ASSUME NEW i \in DOMAIN declined, NEW j \in DOMAIN declined, i < j,
             request'[declined[j]].owed < request[declined[j]].owed
      PROVE  request'[declined[i]].owed = 0
  <2> DEFINE c == declined[i]
             d == declined[j]
             budget == Budget(r, before)
  <2>1. c \in Requests /\ d \in Requests /\ i \in Nat /\ j \in Nat /\ i >= 1
    BY <1>0, ElementOfSeq, LenProperties DEF Listing
  <2>2. budget \in Nat /\ request[c].owed \in Nat /\ request[d].owed \in Nat
    BY <1>0, <2>1, BudgetBound, WorthTypes
  <2>3. /\ request'[c].owed = request[c].owed - Share(r, c, budget)
        /\ request'[d].owed = request[d].owed - Share(r, d, budget)
        /\ c = r => request'[c].owed = 0
        /\ Share(r, c, budget) \in 0..request[c].owed
        /\ Share(r, d, budget) \in 0..request[d].owed
    BY <2>1, CreditedWorth
  <2>4. Older(c) = OwingUpTo(i - 1) /\ Older(d) = OwingUpTo(j - 1)
    BY <1>0, OlderOnes
  <2>5. /\ OwingUpTo(i - 1) \in SUBSET Requests /\ OwingUpTo(j - 1) \in SUBSET Requests
        /\ OwingUpTo(i - 1) \subseteq OwingUpTo(j - 1)
        /\ c \in Owing => c \in OwingUpTo(j - 1)
    <3>1. 1..(i - 1) \subseteq 1..(j - 1) /\ i \in 1..(j - 1)
      BY <1>2, <2>1
    <3> QED
      BY <3>1 DEF OwingUpTo, Owing
  <2>6. c \notin OwingUpTo(i - 1)
    <3>1. \A k \in 1..(i - 1) : k \in 1..Len(declined) /\ k # i
      BY <1>0, <2>1, LenProperties DEF Listing
    <3>2. i \in 1..Len(declined)
      BY <1>0, LenProperties DEF Listing
    <3> QED
      BY <1>0, <3>1, <3>2 DEF Listing, Distinct, OwingUpTo
  <2> HIDE DEF c, d, budget
  <2>7. ASSUME c = r \/ c \notin Owing PROVE request'[c].owed = 0
    BY <2>1, <2>2, <2>3, <2>7 DEF Owing
  <2>8. ASSUME c # r, c \in Owing PROVE request'[c].owed = 0
    <3>1. OwedBy(OwingUpTo(i - 1) \cup {c}) = request[c].owed + OwedBy(OwingUpTo(i - 1))
      BY <1>0, <2>1, <2>5, <2>6, OwedPut
    <3>2. OwingUpTo(i - 1) \cup {c} \in SUBSET OwingUpTo(j - 1)
      BY <2>5, <2>8
    <3>3. OwedBy(OwingUpTo(i - 1) \cup {c}) <= OwedBy(OwingUpTo(j - 1))
      BY <1>0, <2>5, <3>2, OwedSums
    <3>4. OwedBy(OwingUpTo(i - 1)) \in Nat /\ OwedBy(OwingUpTo(j - 1)) \in Nat
      BY <1>0, <2>5, OwedSums
    <3>5. Share(r, d, budget) > 0
      BY <1>2, <2>2, <2>3 DEF d
    <3>6. budget - OwedBy(OwingUpTo(j - 1)) > 0
      BY <2>2, <2>4, <3>4, <3>5 DEF Share
    <3>7. budget - OwedBy(OwingUpTo(i - 1)) > request[c].owed
      BY <2>2, <3>1, <3>3, <3>4, <3>6
    <3>8. Share(r, c, budget) = request[c].owed
      BY <2>2, <2>4, <2>8, <3>4, <3>7 DEF Share
    <3> QED
      BY <2>2, <2>3, <3>8
  <2>9. request'[c].owed = 0
    BY <2>7, <2>8
  <2> QED
    BY <2>9 DEF c
<1> QED
  BY <1>1, <1>2 DEF KeepsOrder

LEMMA TurningProperties ==
  ASSUME MInv, RowsTyped', NEW r \in Requests, Turning(r)
  PROVE  (ledger' # ledger => balance' >= balance) /\ KeepsOrder
<1>1. RowsTyped /\ balance \in Int /\ Listing
  BY DEF MInv, IInv, Columns
<1>2. WorthOf(r) \in Nat /\ \A c \in Requests : request[c].owed \in Nat
  BY <1>1, WorthTypes
<1>3. WorthOf(r)' \in Nat /\ request'[r].owed \in Nat
  BY RechargeAssumption DEF RowsTyped, Request, WorthOf
<1>4. ledger' # ledger => balance' >= balance
  BY <1>1, <1>2, <1>3 DEF Turning
<1>5. \A c \in Requests : ~(request'[c].owed < request[c].owed)
  <2>1. \A c \in Requests \ {r} : request'[c].owed = request[c].owed
    BY DEF Turning
  <2>2. request'[r].owed >= request[r].owed
    BY DEF Turning
  <2> QED
    BY <1>2, <1>3, <2>1, <2>2
<1>6. \A j \in DOMAIN declined : declined[j] \in Requests
  BY <1>1, ElementOfSeq, LenProperties DEF Listing
<1> QED
  BY <1>4, <1>5, <1>6 DEF KeepsOrder

LEMMA AsideProperties ==
  ASSUME MInv, Aside
  PROVE  (ledger' # ledger => balance' >= balance) /\ KeepsOrder
<1>1. RowsTyped /\ Listing
  BY DEF MInv, IInv
<1>2. \A j \in DOMAIN declined : declined[j] \in Requests
  BY <1>1, ElementOfSeq, LenProperties DEF Listing
<1>3. \A c \in Requests : request[c].owed \in Nat
  BY <1>1, WorthTypes
<1> QED
  BY <1>2, <1>3 DEF Aside, KeepsOrder

-----------------------------------------------------------------------------
(* Which step is of which kind. *)

LEMMA MoneyRow ==
  ASSUME MInv, NEW r \in Requests
  PROVE  /\ request[r] \in Request /\ RowOK(r) /\ request \in [Requests -> Request]
         /\ balance \in Int /\ Amount[r] \in Nat \ {0} /\ request[r].owed \in Nat
         /\ request[r].status # "cancelled" => request[r].owed = 0
<1>1. /\ request[r] \in Request /\ RowOK(r) /\ request \in [Requests -> Request]
      /\ balance \in Int /\ Amount[r] \in Nat \ {0}
  BY RechargeAssumption DEF MInv, IInv, RowsTyped, RowsOK, Columns
<1>2. request[r].owed \in Nat
  BY <1>1 DEF Request
<1> QED
  BY <1>1, <1>2 DEF RowOK

LEMMA MoneyTask ==
  ASSUME MInv, NEW w \in Workers, task[w].op \in Holding
  PROVE  /\ task[w].req \in Requests /\ Found(task[w]) /\ task[w].running \in BOOLEAN
         /\ task[w].entry \in Entries \cup {None} /\ task[w].before \in Int \cup {None}
<1>1. task[w] \in Task /\ Found(task[w]) /\ task[w].op \notin {"idle", "import"}
  BY DEF MInv, IInv, Columns, Holding
<1>2. task[w] \in [op: {"approve", "link", "verify", "decline", "reverse"}, req: Requests,
                   entry: Entries \cup {None}, running: BOOLEAN, before: Int \cup {None}]
  BY <1>1 DEF Task, Idle
<1> QED
  BY <1>1, <1>2

LEMMA CreditStep ==
  ASSUME MInv, NEW w \in Workers,
         Approve(w) \/ VerifyDeferred(w) \/ (Link(w) /\ Credits(task[w]))
  PROVE  \E r \in Requests, before \in Int, row \in Request : Crediting(r, before, row)
<1> DEFINE t == task[w]
           r == t.req
<1>0. t.op \in Holding
  BY DEF Approve, VerifyDeferred, Link, Holding
<1>1. r \in Requests /\ Found(t) /\ t.entry \in Entries \cup {None} /\ t.before \in Int \cup {None}
  BY <1>0, MoneyTask
<1>2. /\ request[r] \in Request /\ RowOK(r)
      /\ request[r].status # "cancelled" => request[r].owed = 0
  BY <1>1, MoneyRow
<1>3. CASE Approve(w)
  <2> DEFINE row == [request[r] EXCEPT !.status = "approved"]
  <2>1. request[r].status = "pending" /\ t.before \in Int
    BY <1>1, <1>3 DEF Approve, Found
  <2>2. row \in Request /\ row.status = "approved" /\ row.owed = 0
    BY <1>2, <2>1 DEF Request, Status
  <2>3. CreditAndAdjust(r, t.before, row) /\ declined' = declined /\ spent' = spent /\ imports' = imports
    BY <1>3 DEF Approve
  <2>4. r \notin Funded
    BY <2>1 DEF Funded
  <2> HIDE DEF row, r
  <2> QED
    BY <1>1, <1>2, <2>1, <2>2, <2>3, <2>4 DEF Crediting, Imported
<1>4. CASE VerifyDeferred(w)
  <2> DEFINE row == [request[r] EXCEPT !.verified = TRUE]
  <2>1. request[r].deferred /\ t.before \in Int
    BY <1>1, <1>4 DEF VerifyDeferred, Found
  <2>2. request[r].status = "approved" /\ request[r].owed = 0
    BY <1>2, <2>1 DEF RowOK
  <2>3. row \in Request /\ row.status = "approved" /\ row.owed = 0
    BY <1>2, <2>2 DEF Request
  <2>4. CreditAndAdjust(r, t.before, row) /\ declined' = declined /\ spent' = spent /\ imports' = imports
    BY <1>4 DEF VerifyDeferred
  <2>5. r \notin Funded
    BY <2>1 DEF Funded
  <2> HIDE DEF row, r
  <2> QED
    BY <1>1, <2>1, <2>2, <2>3, <2>4, <2>5 DEF Crediting, Imported
<1>5. CASE Link(w) /\ Credits(t)
  <2> DEFINE row == [request[r] EXCEPT !.status = "approved", !.entry = t.entry, !.verified = TRUE]
  <2>1. /\ t.op = "link" /\ t.before \in Int
        /\ request[r].status = "pending" \/ request[r].deferred
    BY <1>1, <1>5 DEF Link, Credits
  <2>2. request[r].status # "cancelled" /\ request[r].owed = 0
    BY <1>2, <2>1 DEF RowOK
  <2>3. row \in Request /\ row.status = "approved" /\ row.owed = 0
    BY <1>1, <1>2, <2>2 DEF Request, Status
  <2>4. CreditAndAdjust(r, t.before, row) /\ declined' = declined /\ spent' = spent
    BY <1>5 DEF Link
  <2>5. r \notin Funded
    BY <2>1 DEF Funded
  <2>6. Imported' = Imported
    BY <1>5 DEF Link, Imported, MInv, Columns
  <2> HIDE DEF row, r
  <2> QED
    BY <1>1, <2>1, <2>2, <2>3, <2>4, <2>5, <2>6 DEF Crediting
<1> QED
  BY <1>3, <1>4, <1>5

(* A row is written and stays worth the same. *)
LEMMA PlainTurn ==
  ASSUME MInv, NEW r \in Requests, NEW row \in Request,
         request' = [request EXCEPT ![r] = row], row.owed = request[r].owed,
         row.status = "approved" /\ ~row.deferred <=> r \in Funded,
         request[r].status = "cancelled" => row.status = "cancelled",
         balance' = balance, spent' = spent, Imported' = Imported, ledger' = ledger,
         declined' = declined
  PROVE  Turning(r)
<1>0. request[r] \in Request /\ request \in [Requests -> Request] /\ balance \in Int
      /\ Amount[r] \in Nat \ {0} /\ request[r].owed \in Nat
  BY MoneyRow
<1>1. request'[r] = row /\ \A c \in Requests \ {r} : request'[c] = request[c]
  BY <1>0
<1>2. r \in Funded' <=> r \in Funded
  BY <1>1 DEF Funded
<1>3. WorthOf(r)' = WorthOf(r) /\ WorthOf(r) \in Int
  BY <1>0, <1>1, <1>2 DEF WorthOf
<1> QED
  BY <1>0, <1>1, <1>3 DEF Turning

LEMMA AtOnceTurns ==
  ASSUME MInv, NEW r \in Requests, AtOnce(r)
  PROVE  Turning(r)
<1>0. /\ request[r] \in Request /\ RowOK(r) /\ request \in [Requests -> Request]
      /\ balance \in Int /\ Amount[r] \in Nat \ {0} /\ request[r].owed \in Nat
      /\ request[r].status # "cancelled" => request[r].owed = 0
  BY MoneyRow
<1>1. CASE Submit(r) \/ Cancel(r) \/ Reject(r)
  <2>1. PICK s \in {"pending", "cancelled", "rejected"} : request' = [request EXCEPT ![r].status = s]
    BY <1>1 DEF Submit, Cancel, Reject
  <2> DEFINE row == [request[r] EXCEPT !.status = s]
  <2>2. row \in Request /\ row.status = s /\ row.owed = request[r].owed
    BY <1>0 DEF Request, Status
  <2>3. request' = [request EXCEPT ![r] = row]
    BY <1>0, <2>1
  <2>4. /\ balance' = balance /\ spent' = spent /\ Imported' = Imported /\ ledger' = ledger
        /\ declined' = declined /\ request[r].status \in {"none", "pending"}
    BY <1>1 DEF Submit, Cancel, Reject, Imported
  <2> HIDE DEF row
  <2> QED
    BY <2>2, <2>3, <2>4, PlainTurn DEF Funded
<1>2. CASE Verify(r)
  <2> DEFINE row == [request[r] EXCEPT !.verified = TRUE]
  <2>1. /\ row \in Request /\ row.status = request[r].status /\ row.owed = request[r].owed
        /\ row.deferred = request[r].deferred
    BY <1>0 DEF Request
  <2>2. /\ request' = [request EXCEPT ![r] = row]
        /\ balance' = balance /\ spent' = spent /\ Imported' = Imported /\ ledger' = ledger
        /\ declined' = declined
    BY <1>2 DEF Verify, Imported
  <2> HIDE DEF row
  <2> QED
    BY <2>1, <2>2, PlainTurn DEF Funded
<1>3. CASE Delete(r)
  <2> DEFINE row == [request[r] EXCEPT !.status = IF @ = "pending" THEN "cancelled" ELSE @,
                                       !.entry = None, !.deleted = TRUE]
  <2>1. /\ row \in Request /\ row.owed = request[r].owed
        /\ row.status = IF request[r].status = "pending" THEN "cancelled" ELSE request[r].status
    BY <1>0 DEF Request, Status
  <2>2. /\ request' = [request EXCEPT ![r] = row] /\ request[r].status # "approved"
        /\ balance' = balance /\ spent' = spent /\ Imported' = Imported /\ ledger' = ledger
        /\ declined' = declined
    BY <1>3 DEF Delete, Imported
  <2> HIDE DEF row
  <2> QED
    BY <2>1, <2>2, PlainTurn DEF Funded
<1>4. CASE DeclineApproved(r)
  <2> DEFINE new == ~request[r].deferred
             row == [request[r] EXCEPT !.status = "cancelled", !.deferred = FALSE, !.advanced = new,
                                       !.owed = IF new THEN Amount[r] ELSE 0]
  <2>1. row \in Request /\ row.status = "cancelled" /\ row.owed = IF new THEN Amount[r] ELSE 0
    BY <1>0 DEF Request, Status
  <2>2. /\ request' = [request EXCEPT ![r] = row] /\ request[r].status = "approved"
        /\ \E place \in Places :
              declined' = IF new THEN Seqs!InsertAt(declined, place, r) ELSE declined
        /\ balance' = balance /\ spent' = spent /\ Imported' = Imported /\ ledger' = ledger
    BY <1>4 DEF DeclineApproved, Owe, Imported
  <2> HIDE DEF row
  <2>3. request'[r] = row /\ \A c \in Requests \ {r} : request'[c] = request[c]
    BY <1>0, <2>2
  <2>4. request[r].owed = 0 /\ (r \in Funded <=> new) /\ r \notin Funded'
    BY <1>0, <2>1, <2>2, <2>3 DEF Funded
  <2> HIDE DEF new
  <2>5. WorthOf(r) = row.owed /\ WorthOf(r)' = row.owed /\ row.owed \in Nat
    BY <1>0, <2>1, <2>3, <2>4 DEF WorthOf
  <2>6. row.owed >= request[r].owed
    BY <2>4, <2>5
  <2> QED
    BY <1>0, <2>1, <2>2, <2>3, <2>4, <2>5, <2>6 DEF Turning
<1> QED
  BY <1>1, <1>2, <1>3, <1>4 DEF AtOnce

LEMMA EndTurns ==
  ASSUME MInv, NEW w \in Workers,
         Defer(w) \/ DeclinePending(w) \/ Reverse(w) \/ (Link(w) /\ ~Credits(task[w]))
  PROVE  \E r \in Requests : Turning(r)
<1> DEFINE t == task[w]
<1>0. t.op \in Holding
  BY DEF Defer, DeclinePending, Reverse, Link, Holding
<1>1. PICK r \in Requests :
         /\ r = t.req /\ Found(t) /\ t.entry \in Entries \cup {None} /\ t.running \in BOOLEAN
  BY <1>0, MoneyTask
<1>2. /\ request[r] \in Request /\ RowOK(r) /\ request \in [Requests -> Request]
      /\ balance \in Int /\ Amount[r] \in Nat \ {0} /\ request[r].owed \in Nat
      /\ request[r].status # "cancelled" => request[r].owed = 0
  BY <1>1, MoneyRow
<1>3. CASE Defer(w)
  <2> DEFINE row == [request[r] EXCEPT !.status = "approved", !.deferred = TRUE]
  <2>1. row \in Request /\ row.owed = request[r].owed /\ row.deferred /\ row.status = "approved"
    BY <1>2 DEF Request, Status
  <2>2. request[r].status = "pending"
    BY <1>1, <1>3 DEF Defer, Found
  <2>3. /\ request' = [request EXCEPT ![r] = row]
        /\ balance' = balance /\ spent' = spent /\ Imported' = Imported /\ ledger' = ledger
        /\ declined' = declined
    BY <1>1, <1>3 DEF Defer, Imported
  <2> HIDE DEF row
  <2>4. Turning(r)
    BY <1>1, <2>1, <2>2, <2>3, PlainTurn DEF Funded
  <2> QED
    BY <1>1, <2>4
<1>4. CASE Link(w) /\ ~Credits(t)
  <2> DEFINE row == [request[r] EXCEPT !.status = "approved", !.entry = t.entry, !.verified = TRUE]
  <2>1. /\ row \in Request /\ row.owed = request[r].owed /\ row.status = "approved"
        /\ row.deferred = request[r].deferred
    BY <1>1, <1>2 DEF Request, Status
  <2>2. request[r].status = "approved" /\ ~request[r].deferred
    BY <1>1, <1>4 DEF Link, Credits, Found
  <2>3. /\ request' = [request EXCEPT ![r] = row]
        /\ balance' = balance /\ spent' = spent /\ ledger' = ledger /\ declined' = declined
    BY <1>1, <1>4 DEF Link
  <2>4. Imported' = Imported
    BY <1>1, <1>4, <2>2 DEF Link, Imported
  <2> HIDE DEF row
  <2>5. Turning(r)
    BY <1>1, <2>1, <2>2, <2>3, <2>4, PlainTurn DEF Funded
  <2> QED
    BY <1>1, <2>5
<1>5. CASE DeclinePending(w)
  <2> DEFINE new == ~t.running
             row == [request[r] EXCEPT !.status = "cancelled", !.deferred = FALSE, !.advanced = new,
                                       !.owed = IF new THEN Amount[r] ELSE 0]
  <2>1. row \in Request /\ row.status = "cancelled" /\ row.owed = IF new THEN Amount[r] ELSE 0
    BY ZenonT(90), <1>1, <1>2 DEF Request, Status
  <2>2. request[r].status = "pending"
    BY <1>1, <1>5 DEF DeclinePending, Found
  <2>3. /\ request' = [request EXCEPT ![r] = row]
        /\ declined' = IF new THEN Seqs!InsertAt(declined, Len(declined) + 1, r) ELSE declined
        /\ balance' = IF new THEN balance + Amount[r] ELSE balance
        /\ spent' = spent /\ Imported' = Imported
    BY <1>1, <1>5 DEF DeclinePending, Owe, Imported
  <2> HIDE DEF row
  <2>4. request'[r] = row /\ \A c \in Requests \ {r} : request'[c] = request[c]
    BY <1>1, <1>2, <2>3
  <2>5. request[r].owed = 0 /\ r \notin Funded /\ r \notin Funded'
    BY <1>2, <2>1, <2>2, <2>4 DEF Funded
  <2> HIDE DEF new
  <2>6. WorthOf(r) = 0 /\ WorthOf(r)' = row.owed /\ row.owed \in Nat
    BY <1>2, <2>1, <2>4, <2>5 DEF WorthOf
  <2>7. balance' = balance + WorthOf(r)' - WorthOf(r)
    BY <1>2, <2>1, <2>3, <2>6
  <2>8. Len(declined) + 1 \in Places
    <3>1. Len(declined) \in Nat
      BY LenProperties DEF MInv, Listing
    <3> QED
      BY <3>1 DEF Places
  <2>9. Turning(r)
    BY <1>1, <1>2, <2>1, <2>2, <2>3, <2>4, <2>5, <2>6, <2>7, <2>8 DEF Turning
  <2> QED
    BY <1>1, <2>9
<1>6. CASE Reverse(w)
  <2> DEFINE row == [request[r] EXCEPT !.status = "cancelled"]
  <2>1. row \in Request /\ row.status = "cancelled" /\ row.owed = request[r].owed
    BY <1>2 DEF Request, Status
  <2>2. request[r].status = "approved" /\ ~request[r].deferred
    BY <1>1, <1>6 DEF Reverse, Found
  <2>3. /\ request' = [request EXCEPT ![r] = row] /\ declined' = declined /\ ledger' = ledger
        /\ balance' = balance - Amount[r] /\ spent' = spent /\ Imported' = Imported
    BY <1>1, <1>6 DEF Reverse, Imported
  <2> HIDE DEF row
  <2>4. request'[r] = row /\ \A c \in Requests \ {r} : request'[c] = request[c]
    BY <1>1, <1>2, <2>3
  <2>5. request[r].owed = 0 /\ r \in Funded /\ r \notin Funded'
    BY <1>1, <1>2, <2>1, <2>2, <2>4 DEF Funded
  <2>6. WorthOf(r) = Amount[r] /\ WorthOf(r)' = 0
    BY <1>2, <2>1, <2>4, <2>5 DEF WorthOf
  <2>7. balance' = balance + WorthOf(r)' - WorthOf(r)
    BY <1>2, <2>3, <2>6
  <2>8. Turning(r)
    BY <1>1, <1>2, <2>1, <2>2, <2>3, <2>4, <2>5, <2>6, <2>7 DEF Turning
  <2> QED
    BY <1>1, <2>8
<1> QED
  BY <1>3, <1>4, <1>5, <1>6

(* A step that writes no request, no balance and no import. *)
LEMMA NothingWritten ==
  ASSUME MInv, UNCHANGED <<request, declined, balance, ledger, imports, spent>>
  PROVE  Aside
<1>1. Received' = Received
  BY DEF Received, Imported
<1>2. Received \in Int /\ balance \in Int /\ spent \in Int
  BY WorthTypes DEF MInv, IInv, Columns
<1> QED
  BY <1>1, <1>2 DEF Aside

LEMMA SpendAside ==
  ASSUME MInv, Spend \/ Receive
  PROVE  Aside
<1>1. Received' = Received
  BY DEF Spend, Receive, Received, Imported
<1>2. Received \in Int /\ balance \in Int /\ spent \in Int
  BY WorthTypes DEF MInv, IInv, Columns
<1> QED
  BY <1>1, <1>2 DEF Aside, Spend, Receive

LEMMA ImportAside ==
  ASSUME MInv, NEW w \in Workers, Import(w)
  PROVE  Aside
<1> DEFINE e == task[w].entry
<1>1. e \in Entries
  <2>1. task[w] \in Task /\ task[w].op = "import"
    BY DEF Import, MInv, Columns
  <2> QED
    BY <2>1 DEF Task, Idle
<1>2. /\ request' = request /\ declined' = declined /\ ledger' = ledger /\ spent' = spent
      /\ imports \in [Entries -> {"none", "import", "request"}]
      /\ IF imports[e] = "none"
         THEN balance' = balance + EntryAmount[e] /\ imports' = [imports EXCEPT ![e] = "import"]
         ELSE balance' = balance /\ imports' = imports
  BY DEF Import, MInv, Columns
<1>3. /\ Received \in Int /\ balance \in Int /\ spent \in Int /\ EntryAmount[e] \in Nat
      /\ IsFiniteSet(Imported) /\ Imported \subseteq Entries
  BY <1>1, WorthTypes, RechargeAssumption DEF MInv, IInv, Columns
<1> HIDE DEF e
<1>4. CASE imports[e] = "none"
  <2>1. e \notin Imported /\ Imported' = Imported \cup {e}
    BY <1>1, <1>2, <1>4 DEF Imported
  <2>2. IntOn(EntryAmount, Imported \cup {e})
    BY <1>1, <1>3, RechargeAssumption DEF IntOn
  <2>3. Received' = EntryAmount[e] + Received
    BY <1>3, <2>1, <2>2, SumPut DEF Received
  <2> QED
    BY <1>2, <1>3, <1>4, <2>3 DEF Aside
<1>5. CASE imports[e] # "none"
  <2>1. Received' = Received
    BY <1>2, <1>5 DEF Received, Imported
  <2> QED
    BY <1>2, <1>3, <1>5, <2>1 DEF Aside
<1> QED
  BY <1>4, <1>5

LEMMA StepKinds ==
  ASSUME MInv, [Next]_vars
  PROVE  \/ Aside
         \/ \E r \in Requests : \/ Turning(r)
                                \/ \E before \in Int, row \in Request : Crediting(r, before, row)
<1>1. CASE \E r \in Requests : AtOnce(r)
  BY <1>1, AtOnceTurns
<1>2. ASSUME NEW w \in Workers, Ends(w)
      PROVE  \/ Aside
             \/ \E r \in Requests : \/ Turning(r)
                                    \/ \E before \in Int, row \in Request : Crediting(r, before, row)
  <2>1. CASE Approve(w) \/ VerifyDeferred(w) \/ (Link(w) /\ Credits(task[w]))
    BY <2>1, CreditStep
  <2>2. CASE Defer(w) \/ DeclinePending(w) \/ Reverse(w) \/ (Link(w) /\ ~Credits(task[w]))
    BY <2>2, EndTurns
  <2>3. CASE ReadBalance(w) \/ LinkRefused(w) \/ ReverseRefused(w)
    <3>1. UNCHANGED <<request, declined, balance, ledger, imports, spent>>
      BY <2>3 DEF ReadBalance, LinkRefused, ReverseRefused
    <3> QED
      BY <3>1, NothingWritten
  <2>4. CASE Import(w)
    BY <2>4, ImportAside
  <2> QED
    BY <1>2, <2>1, <2>2, <2>3, <2>4 DEF Ends
<1>3. ASSUME \/ \E w \in Workers, r \in Requests : Begins(w, r)
             \/ \E w \in Workers, e \in Entries : StartImport(w, e)
             \/ UNCHANGED vars
      PROVE  Aside
  <2>1. UNCHANGED <<request, declined, balance, ledger, imports, spent>>
    BY <1>3 DEF Begins, StartApprove, StartLink, StartVerify, StartDecline, StartReverse, Start,
                StartImport, vars
  <2> QED
    BY <2>1, NothingWritten
<1> QED
  BY <1>1, <1>2, <1>3, SpendAside DEF Next

-----------------------------------------------------------------------------
(* Types *)

HoldingTask ==
  [op: Holding, req: Requests, entry: Entries \cup {None}, running: BOOLEAN,
   before: Int \cup {None}]

LEMMA TaskShapes ==
  /\ Task = {Idle} \cup HoldingTask \cup [op: {"import"}, entry: Entries]
  /\ Idle \in Task
BY DEF Task, HoldingTask, Holding

LEMMA TaskPut ==
  ASSUME Columns, NEW w \in Workers, NEW t \in Task, task' = [task EXCEPT ![w] = t]
  PROVE  task' \in [Workers -> Task]
BY DEF Columns

LEMMA CreditedTypes ==
  ASSUME MInv, NEW r \in Requests, NEW before \in Int, NEW row \in Request,
         Crediting(r, before, row)
  PROVE  balance' \in Int /\ fresh' \subseteq Requests
<1>1. RecoveredTotal(r, before) \in 0..Amount[r] /\ Amount[r] \in Nat
  BY RecoveredBound, RechargeAssumption DEF MInv, IInv
<1>2. balance \in Int /\ fresh \subseteq Requests
  BY DEF MInv, Columns
<1>3. /\ balance' = balance + Amount[r] - RecoveredTotal(r, before)
      /\ fresh' = {} \/ fresh' = fresh \cup {r}
  BY DEF Crediting, CreditAndAdjust
<1> QED
  BY <1>1, <1>2, <1>3

LEMMA BeginsTypes ==
  ASSUME MInv, NEW w \in Workers,
         \/ \E r \in Requests : Begins(w, r)
         \/ \E e \in Entries : StartImport(w, e)
         \/ ReadBalance(w)
  PROVE  Columns'
<1>0. Columns
  BY DEF MInv
<1>1. UNCHANGED <<balance, spent, fresh, imports>>
  BY DEF Begins, StartApprove, StartLink, StartVerify, StartDecline, StartReverse, Start,
         StartImport, ReadBalance
<1>2. ASSUME NEW t \in Task, task' = [task EXCEPT ![w] = t] PROVE Columns'
  BY <1>0, <1>1, <1>2, TaskPut DEF Columns
<1>3. ASSUME NEW r \in Requests, NEW op \in Holding, NEW e \in Entries \cup {None}, Start(w, op, r, e)
      PROVE  Columns'
  <2> DEFINE t == Begun(op, r, e)
  <2>1. t \in HoldingTask
    BY DEF HoldingTask, Begun, RunningCredit
  <2>2. task' = [task EXCEPT ![w] = t]
    BY <1>3 DEF Start, Begun
  <2> HIDE DEF t
  <2> QED
    BY <1>2, <2>1, <2>2, TaskShapes
<1>4. ASSUME NEW r \in Requests, Begins(w, r) PROVE Columns'
  <2>1. \E op \in Holding, e \in Entries \cup {None} : Start(w, op, r, e)
    BY <1>4 DEF Begins, StartApprove, StartLink, StartVerify, StartDecline, StartReverse, Holding
  <2> QED
    BY <1>3, <2>1
<1>5. ASSUME NEW e \in Entries, StartImport(w, e) PROVE Columns'
  <2> DEFINE t == [op |-> "import", entry |-> e]
  <2>1. t \in Task
    BY DEF Task
  <2>2. task' = [task EXCEPT ![w] = t]
    BY <1>5 DEF StartImport
  <2> HIDE DEF t
  <2> QED
    BY <1>2, <2>1, <2>2
<1>6. CASE ReadBalance(w)
  <2> DEFINE o == task[w]
             t == [op |-> o.op, req |-> o.req, entry |-> o.entry, running |-> o.running,
                   before |-> balance]
  <2>1. o.op \in Holding
    BY <1>6 DEF ReadBalance, Holding
  <2>2. o.req \in Requests /\ o.entry \in Entries \cup {None} /\ o.running \in BOOLEAN
    BY <2>1, MoneyTask
  <2>3. balance \in Int
    BY <1>0 DEF Columns
  <2> HIDE DEF o
  <2>4. t \in HoldingTask
    BY <2>1, <2>2, <2>3 DEF HoldingTask
  <2>5. task' = [task EXCEPT ![w] = t]
    BY <1>6 DEF ReadBalance, o
  <2> HIDE DEF t
  <2> QED
    BY <1>2, <2>4, <2>5, TaskShapes
<1> QED
  BY <1>4, <1>5, <1>6

LEMMA EndsTypes ==
  ASSUME MInv, NEW w \in Workers, Ends(w), ~ReadBalance(w)
  PROVE  Columns'
<1>0. /\ Columns /\ balance \in Int /\ spent \in -MaxIncome .. MaxSpent /\ fresh \subseteq Requests
      /\ imports \in [Entries -> {"none", "import", "request"}]
  BY DEF MInv, Columns
<1>1. task' \in [Workers -> Task]
  <2>1. Finish(w)
    BY DEF Ends, Approve, Defer, Link, LinkRefused, VerifyDeferred, DeclinePending, Reverse,
           ReverseRefused, Import
  <2> QED
    BY <1>0, <2>1, TaskShapes, TaskPut DEF Finish
<1>2. CASE Approve(w) \/ VerifyDeferred(w) \/ (Link(w) /\ Credits(task[w]))
  <2>1. balance' \in Int /\ fresh' \subseteq Requests
    BY <1>2, CreditStep, CreditedTypes
  <2>2. imports' \in [Entries -> {"none", "import", "request"}] /\ spent' = spent
    BY <1>0, <1>2 DEF Approve, VerifyDeferred, Link
  <2> QED
    BY <1>0, <1>1, <2>1, <2>2 DEF Columns
<1>3. CASE Defer(w) \/ DeclinePending(w) \/ Reverse(w) \/ (Link(w) /\ ~Credits(task[w]))
  <2>1. task[w].req \in Requests
    <3>1. task[w].op \in Holding
      BY <1>3 DEF Defer, DeclinePending, Reverse, Link, Holding
    <3> QED
      BY <3>1, MoneyTask
  <2>2. Amount[task[w].req] \in Nat
    BY <2>1, RechargeAssumption
  <2>3. balance' \in Int /\ fresh' \subseteq Requests /\ spent' = spent
    BY SMTT(30), <1>0, <1>3, <2>1, <2>2 DEF Defer, DeclinePending, Reverse, Link
  <2>4. imports' \in [Entries -> {"none", "import", "request"}]
    BY <1>0, <1>3 DEF Defer, DeclinePending, Reverse, Link
  <2> QED
    BY <1>0, <1>1, <2>3, <2>4 DEF Columns
<1>4. CASE LinkRefused(w) \/ ReverseRefused(w)
  BY <1>0, <1>1, <1>4 DEF Columns, LinkRefused, ReverseRefused
<1>5. CASE Import(w)
  <2>1. task[w].entry \in Entries
    <3>1. task[w] \in Task /\ task[w].op = "import"
      BY <1>0, <1>5 DEF Import, Columns
    <3> QED
      BY <3>1 DEF Task, Idle
  <2>2. EntryAmount[task[w].entry] \in Nat
    BY <2>1, RechargeAssumption
  <2> QED
    BY <1>0, <1>1, <1>5, <2>2 DEF Import, Columns
<1> QED
  BY <1>2, <1>3, <1>4, <1>5 DEF Ends

LEMMA ColumnsStep ==
  ASSUME MInv, [Next]_vars
  PROVE  Columns'
<1>0. /\ balance \in Int /\ spent \in -MaxIncome .. MaxSpent /\ fresh \subseteq Requests
      /\ imports \in [Entries -> {"none", "import", "request"}]
      /\ task \in [Workers -> Task] /\ MaxSpent \in Nat /\ MaxIncome \in Nat
  BY RechargeAssumption DEF MInv, Columns
<1>1. ASSUME NEW r \in Requests, AtOnce(r) PROVE Columns'
  BY <1>0, <1>1 DEF AtOnce, Submit, Cancel, Verify, DeclineApproved, Reject, Delete, Columns
<1>2. CASE Spend \/ Receive
  BY <1>0, <1>2 DEF Spend, Receive, Columns
<1>3. CASE UNCHANGED vars
  BY <1>0, <1>3 DEF vars, Columns
<1> QED
  BY <1>1, <1>2, <1>3, BeginsTypes, EndsTypes DEF Next

-----------------------------------------------------------------------------
LEMMA MoneyInit == Init => MInv
<1> SUFFICES ASSUME Init PROVE MInv
  OBVIOUS
<1>1. IInv
  BY InitIInv
<1>2. Columns
  BY RechargeAssumption, TaskShapes DEF Init, Columns
<1>3. \A r \in Requests : request[r].owed = 0 /\ request[r].status = "none"
  BY DEF Init, NoRequest
<1>4. Listing
  <2>1. <<>> \in Seq(Requests) /\ declined = <<>>
    BY DEF Init
  <2> QED
    BY <1>3, <2>1, EmptyElems DEF Listing
<1>5. Balanced
  <2>1. RowsTyped
    BY <1>1 DEF IInv
  <2>2. \A r \in Requests \ {} : Worth[r] = 0
    BY <1>3 DEF Worth, WorthOf, Funded
  <2>3. IntOn(Worth, Requests) /\ IsFiniteSet(Requests)
    BY <2>1, WorthTypes DEF IntOn
  <2>4. SumFunctionOnSet(Worth, {}) = SumFunctionOnSet(Worth, Requests)
    BY <2>2, <2>3, SumZeros
  <2>5. SumFunctionOnSet(Worth, {}) = 0
    BY SumEmpty
  <2>6. Imported = {}
    BY DEF Init, Imported
  <2>7. Received = 0
    BY <2>6, SumEmpty DEF Received
  <2>8. balance = Opening /\ spent = 0 /\ Opening \in Int
    BY RechargeAssumption DEF Init
  <2> QED
    BY <2>4, <2>5, <2>7, <2>8 DEF Balanced
<1> QED
  BY <1>1, <1>2, <1>4, <1>5 DEF MInv

LEMMA MoneyStep ==
  ASSUME MInv, [Next]_vars
  PROVE  MInv' /\ (ledger' # ledger => balance' >= balance) /\ KeepsOrder
<1>1. IInv' /\ RowsTyped'
  BY NextStep DEF MInv, IInv
<1>2. Columns'
  BY ColumnsStep
<1>3. CASE Aside
  <2>1. Listing'
    BY <1>3 DEF MInv, Aside, Listing
  <2> QED
    BY <1>1, <1>2, <1>3, <2>1, AsideBalance, AsideProperties DEF MInv
<1>4. ASSUME NEW r \in Requests, Turning(r)
      PROVE  MInv' /\ (ledger' # ledger => balance' >= balance) /\ KeepsOrder
  BY <1>1, <1>2, <1>4, TurnedBalance, ListingKept, TurningProperties DEF MInv
<1>5. ASSUME NEW r \in Requests, NEW before \in Int, NEW row \in Request, Crediting(r, before, row)
      PROVE  MInv' /\ (ledger' # ledger => balance' >= balance) /\ KeepsOrder
  BY <1>1, <1>2, <1>5, CreditedBalance, ListingKept, CreditingProperties DEF MInv
<1> QED
  BY <1>3, <1>4, <1>5, StepKinds

LEMMA MoneyHolds == Spec => []MInv
<1>1. Init => MInv
  BY MoneyInit
<1>2. MInv /\ [Next]_vars => MInv'
  BY MoneyStep
<1> QED
  BY <1>1, <1>2, PTL DEF Spec

(* The columns, the transactions and the list of declines are what they     *)
(* should be; in particular no credit recovers more than it is owed.        *)
THEOREM TypeCorrect == Spec => []TypeOK
<1>1. MInv => TypeOK
  BY DEF MInv, IInv, RowsTyped, Columns, Listing, TypeOK
<1> QED
  BY <1>1, MoneyHolds, PTL

(* Every unit of the balance is accounted for, whatever the order of        *)
(* approvals, declines, receipts, reversals and imports                     *)
(* (_credit_wallet_and_adjust, _decline_to_credit, reverse_wallet_recharge).*)
THEOREM MoneyIsExplained == Spec => []BalanceExplained
<1>1. MInv => BalanceExplained
  BY BalancedIsExplained DEF MInv, IInv
<1> QED
  BY <1>1, MoneyHolds, PTL

(* What an approval recovers is at most what it brings, also when the       *)
(* balance it read is no longer the balance it credits.                     *)
THEOREM RechargeNeverLowers == Spec => NeverBelow
<1>1. MInv /\ [Next]_vars => [ledger' # ledger => balance' >= balance]_vars
  BY MoneyStep
<1> QED
  BY <1>1, MoneyHolds, PTL DEF Spec, NeverBelow

(* A younger credit is recovered only by a recharge that settles all older  *)
(* ones in full (_recover_outstanding_decline_credits).                     *)
THEOREM OldestIsFirst == Spec => OldestFirst
<1>1. MInv /\ [Next]_vars => [KeepsOrder]_vars
  BY MoneyStep
<1> QED
  BY <1>1, MoneyHolds, PTL DEF Spec, OldestFirst, KeepsOrder
=============================================================================
