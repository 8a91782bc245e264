---------------------------- MODULE SlotExchange ----------------------------
(***************************************************************************)
(* Two users swap booked slots: one asks, the other accepts.               *)
(*                                                                         *)
(* The module is at the level of row locks.  Accepting locks the request,  *)
(* then both bookings, then all the slots, then every other request that   *)
(* names one of the slots, one row after another, and holds them until its *)
(* transaction commits; what it writes is seen from then on.  Declining,   *)
(* withdrawing and creating a request decide on rows read without a lock.  *)
(* PostgreSQL breaks a circular wait by rolling back one of the waiters.   *)
(***************************************************************************)
EXTENDS Integers, FiniteSets, Sequences

CONSTANTS
  Bookings,      \* primary keys of the bookings
  Slots,         \* primary keys of the booked slots
  Requests,      \* exchange requests that may be created
  Workers,       \* HTTP requests in progress at a time
  UserOf,        \* the user of each booking
  InitialOwner,  \* the booking of each slot at the start
  NoWorker,      \* a row nobody has locked
  NoRequest      \* a worker is on no request

ASSUME ExchangeAssumption ==
  /\ Bookings \subseteq Nat /\ Slots \subseteq Nat
  /\ IsFiniteSet(Bookings) /\ IsFiniteSet(Slots) /\ IsFiniteSet(Requests)
  /\ InitialOwner \in [Slots -> Bookings]
  /\ NoWorker \notin Workers /\ NoRequest \notin Requests

VARIABLES
  owner,    \* DailySlot.booking
  request,  \* the SlotExchangeRequest rows
  lock,     \* who has locked each row
  task      \* what each worker is in the middle of

vars == <<owner, request, lock, task>>

Statuses == {"NONE", "PENDING", "ACCEPTED", "DECLINED", "CANCELLED", "EXPIRED", "FAILED"}

Terms == [mine : Bookings, theirs : Bookings, offered : SUBSET Slots, requested : SUBSET Slots]

PlanOf(mine, theirs, offered, requested) ==
  [mine |-> mine, theirs |-> theirs, offered |-> offered, requested |-> requested]

NoTerms == PlanOf(0, 0, {}, {})

Rows == ({"request"} \X Requests) \cup ({"booking"} \X Bookings) \cup ({"slot"} \X Slots)

(* todo: the rows still to lock, in order; status: the answer to save;     *)
(* terms: what create_request or plan_exchange read; stale: the requests   *)
(* _close_overlapping found.                                               *)
Task == [step : {"idle", "create", "answer", "own", "plan", "close", "fail"},
         r : Requests \cup {NoRequest}, todo : Seq(Rows), status : Statuses,
         terms : Terms \cup {NoTerms}, stale : SUBSET Requests]

Idle == [step |-> "idle", r |-> NoRequest, todo |-> <<>>, status |-> "NONE",
         terms |-> NoTerms, stale |-> {}]

Owned(b) == {s \in Slots : owner[s] = b}

Set(w, t) == task' = [task EXCEPT ![w] = t]

At(w, step) == task[w].step = step /\ task[w].todo = <<>>

Pending(r) == request[r].status = "PENDING"

Write(r, status) == request' = [request EXCEPT ![r].status = status]

Unlocked == [x \in Rows |-> NoWorker]

Unlock(w) == lock' = [x \in Rows |-> IF lock[x] = w THEN NoWorker ELSE lock[x]]

Init ==
  /\ owner = InitialOwner
  /\ request = [r \in Requests |-> [status |-> "NONE", terms |-> NoTerms]]
  /\ lock = Unlocked
  /\ task = [w \in Workers |-> Idle]

-----------------------------------------------------------------------------
(* plan_exchange: each side is slots of one booking, of different users, as *)
(* many on one side as on the other.                                        *)
Plan(t) ==
  /\ t.offered # {} /\ \A s \in t.offered : owner[s] = t.mine
  /\ t.requested # {} /\ \A s \in t.requested : owner[s] = t.theirs
  /\ UserOf[t.mine] # UserOf[t.theirs]
  /\ Cardinality(t.offered) = Cardinality(t.requested)

Named(r) == request[r].terms.offered \cup request[r].terms.requested

Duplicate(r, t) ==
  /\ Pending(r)
  /\ UserOf[request[r].terms.mine] = UserOf[t.mine]
  /\ request[r].terms.requested \cap t.requested # {}

CreateLoad(w, mine, theirs) ==
  /\ At(w, "idle")
  /\ \E offered \in SUBSET Owned(mine), requested \in SUBSET Owned(theirs) :
       LET t == PlanOf(mine, theirs, offered, requested)
       IN /\ Plan(t)
          /\ ~\E r \in Requests : Duplicate(r, t)
          /\ Set(w, [Idle EXCEPT !.step = "create", !.terms = t])
  /\ UNCHANGED <<owner, request, lock>>

(* The new row refers to its bookings and slots.  The database looks at     *)
(* each of them when the creation commits (FOR KEY SHARE), and waits while  *)
(* an acceptance has it locked.                                             *)
Referenced(t) ==
  ({"booking"} \X {t.mine, t.theirs}) \cup ({"slot"} \X (t.offered \cup t.requested))

CreateCommit(w, r) ==
  /\ At(w, "create")
  /\ request[r].status = "NONE"
  /\ \A x \in Referenced(task[w].terms) : lock[x] = NoWorker
  /\ request' = [request EXCEPT ![r] = [status |-> "PENDING", terms |-> task[w].terms]]
  /\ Set(w, Idle)
  /\ UNCHANGED <<owner, lock>>

(* decline_request and cancel_request: the status is read, then written.    *)
AnswerLoad(w, r, status) ==
  /\ At(w, "idle") /\ Pending(r)
  /\ Set(w, [Idle EXCEPT !.step = "answer", !.r = r, !.status = status])
  /\ UNCHANGED <<owner, request, lock>>

AnswerCommit(w) ==
  /\ At(w, "answer")
  /\ lock[<<"request", task[w].r>>] = NoWorker
  /\ Write(task[w].r, task[w].status)
  /\ Set(w, Idle)
  /\ UNCHANGED <<owner, lock>>

(* expire_stale: only requests that are pending when they are written. *)
Expire(r) ==
  /\ Pending(r)
  /\ lock[<<"request", r>>] = NoWorker
  /\ Write(r, "EXPIRED")
  /\ UNCHANGED <<owner, lock, task>>

-----------------------------------------------------------------------------
(* accept_request *)

AcceptLoad(w, r) ==
  /\ At(w, "idle") /\ Pending(r)
  /\ Set(w, [Idle EXCEPT !.step = "own", !.r = r, !.todo = <<<<"request", r>>>>])
  /\ UNCHANGED <<owner, request, lock>>

(* SELECT FOR UPDATE, or an UPDATE, reaches its next row. *)
Lock(w) ==
  /\ task[w].todo # <<>>
  /\ lock[Head(task[w].todo)] \in {NoWorker, w}
  /\ lock' = [lock EXCEPT ![Head(task[w].todo)] = w]
  /\ Set(w, [task[w] EXCEPT !.todo = Tail(@)])
  /\ UNCHANGED <<owner, request>>

(* S as a sequence, in any order. *)
Orders(S) == {q \in [1..Cardinality(S) -> S] : \A x \in S : \E i \in DOMAIN q : q[i] = x}

(* The rows of one table with the keys S, in the order of the keys. *)
Ascending(kind, S) ==
  {[i \in DOMAIN q |-> <<kind, q[i]>>] :
     q \in {o \in Orders(S) : \A i, j \in DOMAIN o : i < j => o[i] < o[j]}}

(* Mutant: the offered side is locked before the other one. *)
LockOrder_AsGiven(t) ==
  {<<<<"booking", t.mine>>, <<"booking", t.theirs>>>> \o q :
     q \in Ascending("slot", t.offered \cup t.requested)}

(* Mutant: bookings and slots are read, but not locked. *)
LockOrder_NotLocked(t) == {<<>>}

(* The order of select_for_update: one sequence. *)
LockOrder(t) ==
  {o.bookings \o o.slots :
     o \in [bookings : Ascending("booking", {t.mine, t.theirs}),
            slots : Ascending("slot", t.offered \cup t.requested)]}

(* Each side of the request is slots of one booking: the one that has them  *)
(* now, whichever booking the request names.                                *)
ReadTerms(r) ==
  LET terms == request[r].terms
  IN {PlanOf(p[1], p[2], terms.offered, terms.requested) :
        p \in {q \in Bookings \X Bookings : /\ \A s \in terms.offered : owner[s] = q[1]
                                          /\ \A s \in terms.requested : owner[s] = q[2]}}

(* Mutant: the request is not looked at again under its lock. *)
ReadPlan_NoRecheck(w) ==
  /\ At(w, "own")
  /\ \E t \in ReadTerms(task[w].r) : \E todo \in LockOrder(t) :
       Set(w, [task[w] EXCEPT !.step = "plan", !.terms = t, !.todo = todo])
  /\ UNCHANGED <<owner, request, lock>>

(* The request is still pending; then its slots are read, and their         *)
(* bookings and they themselves are to be locked.                           *)
ReadPlan(w) ==
  /\ At(w, "own") /\ Pending(task[w].r)
  /\ \E t \in ReadTerms(task[w].r) : \E todo \in LockOrder(t) :
       Set(w, [task[w] EXCEPT !.step = "plan", !.terms = t, !.todo = todo])
  /\ UNCHANGED <<owner, request, lock>>

Overlapping(r) == {q \in Requests \ {r} : Pending(q) /\ Named(q) \cap Named(r) # {}}

(* The plan is checked under the locks and the swap is made; then the       *)
(* overlapping requests are looked up, to be updated in any order.          *)
Swap(w) ==
  /\ At(w, "plan")
  /\ Plan(task[w].terms)
  /\ task[w].terms = request[task[w].r].terms
  /\ \E q \in Orders(Overlapping(task[w].r)) :
       Set(w, [task[w] EXCEPT !.step = "close", !.stale = Overlapping(task[w].r),
                              !.todo = [i \in DOMAIN q |-> <<"request", q[i]>>]])
  /\ UNCHANGED <<owner, request, lock>>

(* The transaction ends.  The update of the overlapping requests is by      *)
(* primary key only.                                                        *)
Commit(w) ==
  /\ At(w, "close")
  /\ LET t == task[w].terms
     IN owner' = [s \in Slots |-> IF s \in t.offered THEN t.theirs
                                  ELSE IF s \in t.requested THEN t.mine ELSE owner[s]]
  /\ request' = [r \in Requests |->
                   IF r = task[w].r THEN [request[r] EXCEPT !.status = "ACCEPTED"]
                   ELSE IF r \in task[w].stale THEN [request[r] EXCEPT !.status = "FAILED"]
                   ELSE request[r]]
  /\ Unlock(w)
  /\ Set(w, Idle)

(* Mutant: the locks are kept while the request is closed. *)
PlanFails_LocksKept(w) ==
  /\ At(w, "own") \/ At(w, "plan")
  /\ Set(w, [task[w] EXCEPT !.step = "fail", !.terms = NoTerms])
  /\ UNCHANGED <<owner, request, lock>>

(* A rule does not hold: back to the savepoint, then the request is closed. *)
PlanFails(w) ==
  /\ At(w, "own") \/ At(w, "plan")
  /\ Unlock(w)
  /\ Set(w, [task[w] EXCEPT !.step = "fail", !.terms = NoTerms])
  /\ UNCHANGED <<owner, request>>

MarkFailed(w) ==
  /\ At(w, "fail")
  /\ lock[<<"request", task[w].r>>] = NoWorker
  /\ request' = IF Pending(task[w].r)
                THEN [request EXCEPT ![task[w].r].status = "FAILED"] ELSE request
  /\ Set(w, Idle)
  /\ UNCHANGED <<owner, lock>>

-----------------------------------------------------------------------------
WaitsFor(w, v) ==
  task[w].todo # <<>> /\ v # w /\ lock[Head(task[w].todo)] = v

(* Workers each of which waits for another of them. *)
Circular(W) == W # {} /\ \A w \in W : \E v \in W : WaitsFor(w, v)

(* The database finds the circular wait and rolls w back. *)
Victim(w) ==
  /\ \E W \in SUBSET Workers : w \in W /\ Circular(W)
  /\ Unlock(w)
  /\ Set(w, Idle)
  /\ UNCHANGED <<owner, request>>

Next ==
  \/ \E w \in Workers :
       \/ \E mine, theirs \in Bookings : CreateLoad(w, mine, theirs)
       \/ \E r \in Requests :
            \/ CreateCommit(w, r)
            \/ AcceptLoad(w, r)
            \/ \E status \in {"DECLINED", "CANCELLED"} : AnswerLoad(w, r, status)
       \/ AnswerCommit(w)
       \/ Lock(w) \/ ReadPlan(w) \/ Swap(w) \/ Commit(w)
       \/ PlanFails(w) \/ MarkFailed(w) \/ Victim(w)
  \/ \E r \in Requests : Expire(r)

Spec == Init /\ [][Next]_vars

-----------------------------------------------------------------------------
(* Types; an idle worker has nothing locked. *)
TypeOK ==
  /\ owner \in [Slots -> Bookings]
  /\ request \in [Requests -> [status : Statuses, terms : Terms \cup {NoTerms}]]
  /\ lock \in [Rows -> Workers \cup {NoWorker}]
  /\ task \in [Workers -> Task]
  /\ \A x \in Rows, w \in Workers : lock[x] = w => task[w].step \in {"own", "plan", "close"}

(* However accepts overlap, every booking keeps as many slots as it has     *)
(* been paid for.                                                           *)
SlotCountKept ==
  \A b \in Bookings :
    Cardinality(Owned(b)) = Cardinality({s \in Slots : InitialOwner[s] = b})

(* Slots change bookings only by the acceptance of a request that was       *)
(* neither declined, withdrawn nor expired, and only as it says.            *)
SwapsAgreed ==
  [][owner' # owner
       => \E r \in Requests :
            /\ Pending(r) /\ request'[r].status = "ACCEPTED"
            /\ LET t == request[r].terms
               IN \A s \in Slots :
                    <<owner[s], owner'[s]>> =
                      IF s \in t.offered THEN <<t.mine, t.theirs>>
                      ELSE IF s \in t.requested THEN <<t.theirs, t.mine>>
                      ELSE <<owner[s], owner[s]>>]_vars

(* Bookings and slots are locked in one order, so that no two accepts wait  *)
(* for each other with bookings and slots alone.                            *)
OrderedLocks ==
  \A W \in SUBSET Workers :
    Circular(W) => \E w \in W : Head(task[w].todo)[1] = "request"

(* "Same order everywhere (by primary key) so two exchanges never wait on   *)
(* each other" (slot_exchange.py:159).                                      *)
NeverWaitOnEachOther == \A W \in SUBSET Workers : ~Circular(W)
=============================================================================
