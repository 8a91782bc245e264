------------------------ MODULE SlotExchange_proofs ------------------------
(***************************************************************************)
(* Slot exchanges, for any bookings, slots, requests and workers: an accept *)
(* keeps the request and the slots it works on locked, so that what it has  *)
(* checked still holds when it commits, and rows are locked in one order.   *)
(***************************************************************************)
EXTENDS SlotExchange, InductionLemmas

Types ==
  /\ owner \in [Slots -> Bookings]
  /\ request \in [Requests -> [status : Statuses, terms : Terms \cup {NoTerms}]]
  /\ lock \in [Rows -> Workers \cup {NoWorker}]
  /\ task \in [Workers -> Task]

HeldInv(w) == \A x \in Rows : lock[x] = w => task[w].step \in {"own", "plan", "close"}

(* The worker has locked the row, or it is among those it will lock next. *)
Ahead(w, x) == \E i \in 1..Len(task[w].todo) : task[w].todo[i] = x

Covered(w, x) == lock[x] = w \/ Ahead(w, x)

(* The booking and slot rows a plan is made on. *)
PlanRows(t) ==
  {<<"booking", t.mine>>, <<"booking", t.theirs>>}
    \cup {<<"slot", s>> : s \in t.offered \cup t.requested}

(* A worker that accepts is on a pending request it keeps locked, on the    *)
(* rows of its plan, and, once it has swapped, on requests it will close.   *)
AcceptInv(w) ==
  LET k == task[w]
  IN /\ k.step \in {"idle", "create", "answer", "fail"} => k.todo = <<>>
     /\ k.step \in {"answer", "own", "plan", "close", "fail"} => k.r \in Requests
     /\ k.step = "answer" => k.status \in {"DECLINED", "CANCELLED"}
     /\ k.step \in {"create", "plan", "close"} => k.terms \in Terms
     /\ k.step = "own" => Covered(w, <<"request", k.r>>)
     /\ k.step \in {"plan", "close"} => lock[<<"request", k.r>>] = w /\ Pending(k.r)
     /\ k.step = "plan" => \A x \in PlanRows(k.terms) : Covered(w, x)
     /\ k.step = "close" =>
          /\ k.terms = request[k.r].terms /\ Plan(k.terms)
          /\ \A x \in PlanRows(k.terms) : lock[x] = w
          /\ \A q \in k.stale : Covered(w, <<"request", q>>)

(* The order in which booking and slot rows are locked. *)
Before(x, y) ==
  \/ x[1] = "booking" /\ y[1] = "slot"
  \/ x[1] = y[1] /\ x[1] \in {"booking", "slot"} /\ x[2] < y[2]

PlanRow == {x \in Rows : x[1] # "request"}

(* A worker locks booking and slot rows in this order, and request rows     *)
(* before and after them.                                                   *)
OrderInv(w) ==
  LET k == task[w]
  IN /\ k.step \in {"own", "close"} =>
          \A i \in 1..Len(k.todo) : k.todo[i][1] = "request"
     /\ k.step = "own" => \A x \in PlanRow : lock[x] # w
     /\ k.step = "plan" =>
          /\ \A i, j \in 1..Len(k.todo) : i < j => Before(k.todo[i], k.todo[j])
          /\ \A i \in 1..Len(k.todo) : \A x \in PlanRow :
               k.todo[i] \in PlanRow /\ (lock[x] = w => Before(x, k.todo[i]))

WorkerInv(w) == HeldInv(w) /\ AcceptInv(w) /\ OrderInv(w)

Inv == Types /\ \A w \in Workers : WorkerInv(w)

-----------------------------------------------------------------------------
(* Sequences of rows. *)

LEMMA Tails ==
  ASSUME NEW S, NEW q \in Seq(S), q # <<>>
  PROVE  /\ Head(q) \in S /\ Head(q) = q[1] /\ Len(q) \in Nat /\ Len(q) > 0
         /\ Tail(q) \in Seq(S) /\ Len(Tail(q)) = Len(q) - 1
         /\ \A i \in 1..Len(Tail(q)) : Tail(q)[i] = q[i + 1]
BY HeadTailProperties

LEMMA OrdersType ==
  ASSUME NEW S, IsFiniteSet(S), NEW q \in Orders(S)
  PROVE  /\ q \in Seq(S) /\ DOMAIN q = 1..Len(q)
         /\ \A x \in S : \E i \in 1..Len(q) : q[i] = x
<1>1. Cardinality(S) \in Nat
  BY FS_CardinalityType
<1>2. q \in [1..Cardinality(S) -> S] /\ \A x \in S : \E i \in DOMAIN q : q[i] = x
  BY DEF Orders
<1>3. q \in Seq(S) /\ Len(q) = Cardinality(S)
  BY <1>1, <1>2
<1> QED
  BY <1>2, <1>3

LEMMA AscendingType ==
  ASSUME NEW kind, NEW S, IsFiniteSet(S), NEW p \in Ascending(kind, S)
  PROVE  /\ p \in Seq({kind} \X S)
         /\ \A x \in S : \E i \in 1..Len(p) : p[i] = <<kind, x>>
         /\ \A i, j \in 1..Len(p) : i < j => p[i][2] < p[j][2]
         /\ \A i \in 1..Len(p) : p[i][1] = kind /\ p[i][2] \in S
<1>1. PICK q \in Orders(S) : /\ \A i, j \in DOMAIN q : i < j => q[i] < q[j]
                             /\ p = [i \in DOMAIN q |-> <<kind, q[i]>>]
  BY DEF Ascending
<1>2. /\ q \in Seq(S) /\ DOMAIN q = 1..Len(q)
      /\ \A x \in S : \E i \in 1..Len(q) : q[i] = x
  BY OrdersType
<1>3. \A i \in 1..Len(q) : q[i] \in S
  BY <1>2
<1>4. p \in Seq({kind} \X S) /\ Len(p) = Len(q)
  BY <1>1, <1>2, <1>3
<1>5. \A i \in 1..Len(p) : p[i] = <<kind, q[i]>>
  BY <1>1, <1>2, <1>4
<1> QED
  BY <1>1, <1>2, <1>3, <1>4, <1>5

(* The sequence a plan locks names every row of the plan, in order. *)
LEMMA LockOrderType ==
  ASSUME NEW t \in Terms, NEW q \in LockOrder(t)
  PROVE  /\ q \in Seq(Rows)
         /\ \A x \in PlanRows(t) : \E i \in 1..Len(q) : q[i] = x
         /\ \A i \in 1..Len(q) : q[i] \in PlanRow
         /\ \A i, j \in 1..Len(q) : i < j => Before(q[i], q[j])
<1> DEFINE B == {t.mine, t.theirs}  S == t.offered \cup t.requested
<1>1. B \subseteq Bookings /\ S \subseteq Slots
  BY DEF Terms
<1>2. IsFiniteSet(B) /\ IsFiniteSet(S)
  BY <1>1, ExchangeAssumption, FS_Subset
<1>3. PICK a \in Ascending("booking", B), b \in Ascending("slot", S) : q = a \o b
  BY DEF LockOrder
<1> HIDE DEF B, S
<1>4. /\ a \in Seq({"booking"} \X B)
      /\ \A x \in B : \E i \in 1..Len(a) : a[i] = <<"booking", x>>
      /\ \A i, j \in 1..Len(a) : i < j => a[i][2] < a[j][2]
      /\ \A i \in 1..Len(a) : a[i][1] = "booking" /\ a[i][2] \in B
  BY <1>2, AscendingType, Zenon
<1>5. /\ b \in Seq({"slot"} \X S)
      /\ \A x \in S : \E i \in 1..Len(b) : b[i] = <<"slot", x>>
      /\ \A i, j \in 1..Len(b) : i < j => b[i][2] < b[j][2]
      /\ \A i \in 1..Len(b) : b[i][1] = "slot" /\ b[i][2] \in S
  BY <1>2, AscendingType, Zenon
<1>6. {"booking"} \X B \subseteq Rows /\ {"slot"} \X S \subseteq Rows
  BY <1>1 DEF Rows
<1>7. a \in Seq(Rows) /\ b \in Seq(Rows) /\ Len(a) \in Nat /\ Len(b) \in Nat
  BY <1>4, <1>5, <1>6, SeqMonotonic, LenProperties
<1>8. /\ q \in Seq(Rows) /\ Len(q) = Len(a) + Len(b)
      /\ \A i \in 1..Len(q) : q[i] = IF i <= Len(a) THEN a[i] ELSE b[i - Len(a)]
  BY <1>3, <1>7, ConcatProperties
<1>9. \A x \in PlanRows(t) : \E i \in 1..Len(q) : q[i] = x
  <2> SUFFICES ASSUME NEW x \in PlanRows(t) PROVE \E i \in 1..Len(q) : q[i] = x
    OBVIOUS
  <2>1. CASE \E y \in B : x = <<"booking", y>>
    <3>1. PICK i \in 1..Len(a) : a[i] = x
      BY <2>1, <1>4
    <3> QED
      BY <3>1, <1>7, <1>8
  <2>2. CASE \E y \in S : x = <<"slot", y>>
    <3>1. PICK i \in 1..Len(b) : b[i] = x
      BY <2>2, <1>5
    <3>2. i + Len(a) \in 1..Len(q) /\ ~(i + Len(a) <= Len(a)) /\ (i + Len(a)) - Len(a) = i
      BY <1>7, <1>8
    <3>3. q[i + Len(a)] = b[i]
      BY <3>2, <1>8
    <3> QED
      BY <3>1, <3>2, <3>3
  <2> QED
    BY <2>1, <2>2 DEF PlanRows, B, S
<1>10. \A i \in 1..Len(q) : \/ q[i] = a[i] /\ i \in 1..Len(a)
                            \/ q[i] = b[i - Len(a)] /\ i - Len(a) \in 1..Len(b)
  BY <1>7, <1>8
<1>11. \A i \in 1..Len(q) : q[i] \in PlanRow
  <2> SUFFICES ASSUME NEW i \in 1..Len(q) PROVE q[i] \in PlanRow
    OBVIOUS
  <2>1. q[i] \in Rows
    BY <1>8
  <2>2. q[i][1] # "request"
    <3>1. CASE q[i] = a[i] /\ i \in 1..Len(a)
      BY <3>1, <1>4
    <3>2. CASE q[i] = b[i - Len(a)] /\ i - Len(a) \in 1..Len(b)
      <4>1. b[i - Len(a)][1] = "slot"
        BY <3>2, <1>5
      <4> QED
        BY <3>2, <4>1
    <3> QED
      BY <3>1, <3>2, <1>10
  <2> QED
    BY <2>1, <2>2 DEF PlanRow
<1>12. \A i, j \in 1..Len(q) : i < j => Before(q[i], q[j])
  <2> SUFFICES ASSUME NEW i \in 1..Len(q), NEW j \in 1..Len(q), i < j
               PROVE Before(q[i], q[j])
    OBVIOUS
  <2>1. CASE j <= Len(a)
    <3>1. i \in 1..Len(a) /\ j \in 1..Len(a) /\ q[i] = a[i] /\ q[j] = a[j]
      BY <2>1, <1>7, <1>8
    <3> QED
      BY <3>1, <1>4 DEF Before
  <2>2. CASE i > Len(a)
    <3>1. /\ i - Len(a) \in 1..Len(b) /\ j - Len(a) \in 1..Len(b)
          /\ i - Len(a) < j - Len(a)
          /\ q[i] = b[i - Len(a)] /\ q[j] = b[j - Len(a)]
      BY <2>2, <1>7, <1>8
    <3>2. b[i - Len(a)][1] = "slot" /\ b[j - Len(a)][1] = "slot"
      BY <3>1, <1>5
    <3>3. b[i - Len(a)][2] < b[j - Len(a)][2]
      BY <3>1, <1>5
    <3> QED
      BY <3>1, <3>2, <3>3 DEF Before
  <2>3. CASE i <= Len(a) /\ j > Len(a)
    <3>1. /\ i \in 1..Len(a) /\ q[i] = a[i]
          /\ j - Len(a) \in 1..Len(b) /\ q[j] = b[j - Len(a)]
      BY <2>3, <1>7, <1>8
    <3> QED
      BY <3>1, <1>4, <1>5 DEF Before
  <2> QED
    BY <2>1, <2>2, <2>3, <1>7
<1> QED
  BY <1>8, <1>9, <1>11, <1>12

-----------------------------------------------------------------------------
(* Steps of one worker and the invariants of the others. *)

LEMMA SetTask ==
  ASSUME Types, NEW w \in Workers, NEW k \in Task, Set(w, k)
  PROVE  /\ task' \in [Workers -> Task] /\ task'[w] = k
         /\ \A v \in Workers : v # w => task'[v] = task[v]
BY DEF Types, Set

LEMMA TaskFields ==
  ASSUME Types, NEW w \in Workers
  PROVE  /\ task[w] \in Task
         /\ task[w].step \in {"idle", "create", "answer", "own", "plan", "close", "fail"}
         /\ task[w].r \in Requests \cup {NoRequest} /\ task[w].todo \in Seq(Rows)
         /\ task[w].status \in Statuses /\ task[w].terms \in Terms \cup {NoTerms}
         /\ task[w].stale \in SUBSET Requests
BY DEF Types, Task

LEMMA TermsFields ==
  ASSUME NEW t \in Terms
  PROVE  /\ t.mine \in Bookings /\ t.theirs \in Bookings
         /\ t.offered \subseteq Slots /\ t.requested \subseteq Slots
         /\ PlanRows(t) \subseteq PlanRow /\ PlanRow \subseteq Rows
BY DEF Terms, PlanRows, PlanRow, Rows

LEMMA IdleType ==
  /\ Idle \in Task /\ Idle.step = "idle" /\ Idle.todo = <<>> /\ Idle.todo \in Seq(Rows)
  /\ Idle.status = "NONE" /\ Idle.terms = NoTerms /\ Idle.r = NoRequest /\ Idle.stale = {}
BY DEF Idle, Task, Statuses

LEMMA RequestRow == \A r \in Requests : <<"request", r>> \in Rows
BY DEF Rows

(* A step leaves v where it is: its locks, the request it has locked and    *)
(* the owners of the slots it has locked.                                   *)
Frame(v) ==
  /\ task'[v] = task[v]
  /\ \A x \in Rows : lock'[x] = v <=> lock[x] = v
  /\ task[v].step \in {"plan", "close"} => request'[task[v].r] = request[task[v].r]
  /\ \A s \in Slots : lock[<<"slot", s>>] = v => owner'[s] = owner[s]

LEMMA FrameInv ==
  ASSUME Types, NEW v \in Workers, WorkerInv(v), Frame(v)
  PROVE  WorkerInv(v)'
<1> DEFINE k == task[v]
<1>0. /\ task'[v] = k /\ k \in Task /\ k.terms \in Terms \cup {NoTerms}
      /\ \A x \in Rows : lock'[x] = v <=> lock[x] = v
  BY TaskFields DEF Frame
<1>1. HeldInv(v)'
  BY <1>0 DEF WorkerInv, HeldInv
<1>2. \A x \in Rows : Covered(v, x)' <=> Covered(v, x)
  BY <1>0 DEF Covered, Ahead
<1>3. k.step \in {"own", "plan", "close"} => <<"request", k.r>> \in Rows
  BY RequestRow DEF WorkerInv, AcceptInv
<1>4. k.step \in {"plan", "close"} => PlanRows(k.terms) \subseteq Rows
  BY TermsFields DEF WorkerInv, AcceptInv
<1>5. k.step \in {"plan", "close"} => Pending(k.r)' /\ lock'[<<"request", k.r>>] = v
  BY <1>0, <1>3 DEF WorkerInv, AcceptInv, Frame, Pending
<1>6. k.step = "close" =>
        /\ k.terms = request'[k.r].terms /\ Plan(k.terms)'
        /\ \A x \in PlanRows(k.terms) : lock'[x] = v
        /\ \A q \in k.stale : Covered(v, <<"request", q>>)'
  <2> SUFFICES ASSUME k.step = "close"
               PROVE  /\ k.terms = request'[k.r].terms /\ Plan(k.terms)'
                      /\ \A x \in PlanRows(k.terms) : lock'[x] = v
                      /\ \A q \in k.stale : Covered(v, <<"request", q>>)'
    OBVIOUS
  <2>1. /\ k.terms \in Terms /\ k.terms = request[k.r].terms /\ Plan(k.terms)
        /\ \A x \in PlanRows(k.terms) : lock[x] = v
        /\ \A q \in k.stale : Covered(v, <<"request", q>>)
    BY DEF WorkerInv, AcceptInv
  <2>2. \A s \in k.terms.offered \cup k.terms.requested : owner'[s] = owner[s]
    <3> SUFFICES ASSUME NEW s \in k.terms.offered \cup k.terms.requested
                 PROVE  owner'[s] = owner[s]
      OBVIOUS
    <3>1. s \in Slots /\ <<"slot", s>> \in PlanRows(k.terms)
      BY <2>1, TermsFields DEF PlanRows
    <3> QED
      BY <2>1, <3>1 DEF Frame
  <2>3. Plan(k.terms)'
    BY <2>1, <2>2, <1>0 DEF Plan
  <2>4. \A q \in k.stale : Covered(v, <<"request", q>>)'
    BY <2>1, <1>0, <1>2, RequestRow, TaskFields
  <2> QED
    BY <2>1, <2>3, <2>4, <1>0, <1>4 DEF Frame
<1>7. AcceptInv(v)'
  <2>1. k.step = "plan" => \A x \in PlanRows(k.terms) : Covered(v, x)'
    <3> SUFFICES ASSUME k.step = "plan", NEW x \in PlanRows(k.terms)
                 PROVE  Covered(v, x)'
      OBVIOUS
    <3>1. Covered(v, x)
      BY DEF WorkerInv, AcceptInv
    <3> QED
      BY <3>1, <1>2, <1>4
  <2>2. ASSUME k.step = "own", NEW x \in {<<"request", k.r>>} PROVE Covered(v, x)'
    <3>1. Covered(v, x) /\ x \in Rows
      BY <2>2, <1>3 DEF WorkerInv, AcceptInv
    <3> QED
      BY <3>1, <1>2
  <2>3. (task[v].step = "plan" => \A x \in PlanRows(task[v].terms) : Covered(v, x))'
    BY <2>1, <1>0 DEF PlanRows
  <2>4. (task[v].step = "own" => Covered(v, <<"request", task[v].r>>))'
    BY <2>2, <1>0 DEF Covered, Ahead
  <2>5. (task[v].step \in {"plan", "close"}
          => lock[<<"request", task[v].r>>] = v /\ Pending(task[v].r))'
    BY <1>5, <1>0 DEF Pending
  <2>6. (task[v].step = "close" =>
           /\ task[v].terms = request[task[v].r].terms /\ Plan(task[v].terms)
           /\ \A x \in PlanRows(task[v].terms) : lock[x] = v
           /\ \A q \in task[v].stale : Covered(v, <<"request", q>>))'
    BY <1>6, <1>0 DEF Covered, Ahead, PlanRows, Plan
  <2> QED
    BY <2>3, <2>4, <2>5, <2>6, <1>0 DEF WorkerInv, AcceptInv
<1>8. OrderInv(v)'
  <2>1. \A x \in PlanRow : x \in Rows
    BY DEF PlanRow
  <2> QED
    BY <2>1, <1>0 DEF WorkerInv, OrderInv
<1> QED
  BY <1>1, <1>7, <1>8 DEF WorkerInv

-----------------------------------------------------------------------------
(* The steps. *)

(* A step that changes only the task of w. *)
LEMMA OwnTaskStep ==
  ASSUME Inv, NEW w \in Workers, NEW k \in Task, Set(w, k), UNCHANGED <<owner, request, lock>>,
         WorkerInv(w)'
  PROVE  Inv'
<1>1. Types'
  BY SetTask DEF Inv, Types
<1>2. ASSUME NEW v \in Workers, v # w PROVE WorkerInv(v)'
  <2>1. Frame(v)
    BY <1>2, SetTask DEF Inv, Frame
  <2> QED
    BY <2>1, FrameInv DEF Inv
<1> QED
  BY <1>1, <1>2 DEF Inv

(* A step that ends with w idle, or about to close its request, and nothing *)
(* locked by w.                                                             *)
LEMMA RestInv ==
  ASSUME NEW w \in Workers, task'[w].todo = <<>>, task'[w].step \in {"idle", "create", "answer", "fail"},
         \A x \in Rows : lock'[x] # w,
         task'[w].step \in {"answer", "fail"} => task'[w].r \in Requests,
         task'[w].step = "answer" => task'[w].status \in {"DECLINED", "CANCELLED"},
         task'[w].step = "create" => task'[w].terms \in Terms
  PROVE  WorkerInv(w)'
BY DEF WorkerInv, HeldInv, AcceptInv, OrderInv

LEMMA RestLocks ==
  ASSUME Inv, NEW w \in Workers, task[w].step \in {"idle", "create", "answer", "fail"}
  PROVE  \A x \in Rows : lock[x] # w
BY DEF Inv, WorkerInv, HeldInv

LEMMA CreateLoadStep ==
  ASSUME Inv, NEW w \in Workers, NEW mine \in Bookings, NEW theirs \in Bookings,
         CreateLoad(w, mine, theirs)
  PROVE  Inv'
<1>1. PICK offered \in SUBSET Owned(mine), requested \in SUBSET Owned(theirs) :
        Set(w, [Idle EXCEPT !.step = "create",
                            !.terms = PlanOf(mine, theirs, offered, requested)])
  BY DEF CreateLoad
<1> DEFINE t == PlanOf(mine, theirs, offered, requested)
           k == [Idle EXCEPT !.step = "create", !.terms = t]
<1>2. t \in Terms
  BY DEF Terms, PlanOf, Owned
<1>3. k \in Task /\ k.step = "create" /\ k.todo = <<>> /\ k.terms = t
  BY <1>2, IdleType DEF Task
<1>4. task'[w] = k /\ UNCHANGED <<owner, request, lock>> /\ task[w].step = "idle"
  BY <1>1, <1>3, SetTask DEF Inv, CreateLoad, At
<1>5. WorkerInv(w)'
  BY <1>2, <1>3, <1>4, RestInv, RestLocks
<1> QED
  BY <1>1, <1>3, <1>4, <1>5, OwnTaskStep

LEMMA AnswerLoadStep ==
  ASSUME Inv, NEW w \in Workers, NEW r \in Requests, NEW status \in {"DECLINED", "CANCELLED"},
         AnswerLoad(w, r, status)
  PROVE  Inv'
<1> DEFINE k == [Idle EXCEPT !.step = "answer", !.r = r, !.status = status]
<1>1. k \in Task /\ k.step = "answer" /\ k.todo = <<>> /\ k.r = r /\ k.status = status
  BY IdleType DEF Task, Statuses
<1>2. Set(w, k) /\ UNCHANGED <<owner, request, lock>> /\ task[w].step = "idle"
  BY DEF AnswerLoad, At
<1>3. task'[w] = k
  BY <1>1, <1>2, SetTask DEF Inv
<1>4. WorkerInv(w)'
  BY <1>1, <1>2, <1>3, RestInv, RestLocks
<1> QED
  BY <1>1, <1>2, <1>4, OwnTaskStep

LEMMA AcceptLoadStep ==
  ASSUME Inv, NEW w \in Workers, NEW r \in Requests, AcceptLoad(w, r)
  PROVE  Inv'
<1> DEFINE row == <<"request", r>>
           k == [Idle EXCEPT !.step = "own", !.r = r, !.todo = <<row>>]
<1>0. row \in Rows /\ <<row>> \in Seq(Rows) /\ row[1] = "request"
  BY RequestRow
<1>1. k \in Task /\ k.step = "own" /\ k.todo = <<row>> /\ k.r = r
  BY <1>0 DEF Idle, Task, Statuses
<1>2. Set(w, k) /\ UNCHANGED <<owner, request, lock>> /\ task[w].step = "idle"
  BY DEF AcceptLoad, At
<1>3. task'[w] = k
  BY <1>1, <1>2, SetTask DEF Inv
<1>4. \A x \in Rows : lock'[x] # w
  BY <1>2, RestLocks
<1>5. Len(<<row>>) = 1 /\ <<row>>[1] = row
  OBVIOUS
<1>6. (Ahead(w, <<"request", task[w].r>>))'
  BY <1>1, <1>3, <1>5 DEF Ahead
<1>7. HeldInv(w)'
  BY <1>4 DEF HeldInv
<1>8. AcceptInv(w)'
  BY <1>1, <1>3, <1>6 DEF AcceptInv, Covered
<1>9. OrderInv(w)'
  <2> HIDE DEF row, k
  <2>1. \A i \in 1..Len(k.todo) : k.todo[i][1] = "request"
    BY <1>0, <1>1, <1>5
  <2> QED
    BY <1>1, <1>3, <1>4, <2>1 DEF OrderInv, PlanRow
<1>10. WorkerInv(w)'
  BY <1>7, <1>8, <1>9 DEF WorkerInv
<1> QED
  BY <1>1, <1>2, <1>10, OwnTaskStep

LEMMA ReadPlanStep ==
  ASSUME Inv, NEW w \in Workers, ReadPlan(w)
  PROVE  Inv'
<1>1. PICK mine \in Bookings, theirs \in Bookings :
        LET terms == request[task[w].r].terms
            t == PlanOf(mine, theirs, terms.offered, terms.requested)
        IN \E todo \in LockOrder(t) :
             Set(w, [task[w] EXCEPT !.step = "plan", !.terms = t, !.todo = todo])
  BY DEF ReadPlan, ReadTerms
<1> DEFINE r == task[w].r
           t == PlanOf(mine, theirs, request[r].terms.offered, request[r].terms.requested)
<1>2. PICK todo \in LockOrder(t) :
        Set(w, [task[w] EXCEPT !.step = "plan", !.terms = t, !.todo = todo])
  BY <1>1
<1> DEFINE k == [task[w] EXCEPT !.step = "plan", !.todo = todo, !.terms = t]
<1>3. /\ task[w].step = "own" /\ task[w].todo = <<>> /\ Pending(r)
      /\ UNCHANGED <<owner, request, lock>>
  BY DEF ReadPlan, At
<1>4. r \in Requests /\ lock[<<"request", r>>] = w
  BY <1>3 DEF Inv, WorkerInv, AcceptInv, Covered, Ahead
<1>5. t \in Terms
  <2>1. request[r].terms \in Terms \cup {NoTerms}
    BY <1>4 DEF Inv, Types
  <2> QED
    BY <2>1 DEF Terms, NoTerms, PlanOf
<1>6. /\ todo \in Seq(Rows)
      /\ \A x \in PlanRows(t) : \E i \in 1..Len(todo) : todo[i] = x
      /\ \A i \in 1..Len(todo) : todo[i] \in PlanRow
      /\ \A i, j \in 1..Len(todo) : i < j => Before(todo[i], todo[j])
  BY <1>5, LockOrderType
<1>7. /\ k \in Task /\ k.step = "plan" /\ k.r = r /\ k.todo = todo /\ k.terms = t
  <2> HIDE DEF t
  <2> QED
    BY <1>5, <1>6, TaskFields DEF Inv, Task
<1>8. task'[w] = k
  BY <1>2, <1>7, SetTask DEF Inv
<1> HIDE DEF t, k
<1>9. HeldInv(w)'
  BY <1>7, <1>8 DEF HeldInv
<1>10. AcceptInv(w)'
  <2>1. \A x \in PlanRows(t) : Ahead(w, x)'
    BY <1>6, <1>7, <1>8 DEF Ahead
  <2>2. \A x \in PlanRows(t) : Covered(w, x)'
    BY <2>1 DEF Covered
  <2>3. (task[w].step = "plan" => \A x \in PlanRows(task[w].terms) : Covered(w, x))'
    BY <2>2, <1>7, <1>8 DEF PlanRows
  <2>4. task'[w].r \in Requests /\ task'[w].terms \in Terms /\ task'[w].step = "plan"
    BY <1>4, <1>5, <1>7, <1>8
  <2>5. (lock[<<"request", task[w].r>>] = w /\ Pending(task[w].r))'
    BY <1>3, <1>4, <1>7, <1>8 DEF Pending
  <2> QED
    BY <2>3, <2>4, <2>5 DEF AcceptInv
<1>11. OrderInv(w)'
  <2>1. \A x \in PlanRow : lock'[x] # w
    BY <1>3 DEF Inv, WorkerInv, OrderInv
  <2> QED
    BY <2>1, <1>6, <1>7, <1>8 DEF OrderInv
<1>12. WorkerInv(w)'
  BY <1>9, <1>10, <1>11 DEF WorkerInv
<1> QED
  BY <1>2, <1>3, <1>7, <1>12, OwnTaskStep DEF k

LEMMA SwapStep ==
  ASSUME Inv, NEW w \in Workers, Swap(w)
  PROVE  Inv'
<1> DEFINE r == task[w].r
           t == task[w].terms
<1>1. PICK q \in Orders(Overlapping(r)) :
        Set(w, [task[w] EXCEPT !.step = "close", !.stale = Overlapping(r),
                               !.todo = [i \in DOMAIN q |-> <<"request", q[i]>>]])
  BY DEF Swap
<1> DEFINE rows == [i \in DOMAIN q |-> <<"request", q[i]>>]
           k == [task[w] EXCEPT !.step = "close", !.stale = Overlapping(r), !.todo = rows]
<1>2. /\ task[w].step = "plan" /\ task[w].todo = <<>> /\ Plan(t)
      /\ t = request[r].terms /\ UNCHANGED <<owner, request, lock>>
  BY DEF Swap, At
<1>3. /\ r \in Requests /\ lock[<<"request", r>>] = w /\ Pending(r) /\ t \in Terms
      /\ \A x \in PlanRows(t) : lock[x] = w
  BY <1>2 DEF Inv, WorkerInv, AcceptInv, Covered, Ahead
<1>4. Overlapping(r) \subseteq Requests /\ IsFiniteSet(Overlapping(r))
  BY ExchangeAssumption, FS_Subset DEF Overlapping
<1>5. /\ q \in Seq(Overlapping(r)) /\ DOMAIN q = 1..Len(q) /\ Len(q) \in Nat
      /\ \A x \in Overlapping(r) : \E i \in 1..Len(q) : q[i] = x
  BY <1>4, OrdersType, LenProperties
<1>6. \A i \in 1..Len(q) : q[i] \in Overlapping(r) /\ <<"request", q[i]>> \in Rows
  BY <1>4, <1>5, RequestRow, ElementOfSeq
<1>7. rows \in Seq(Rows) /\ Len(rows) = Len(q) /\ \A i \in 1..Len(q) : rows[i] = <<"request", q[i]>>
  <2>1. rows \in [1..Len(q) -> Rows]
    BY <1>5, <1>6
  <2>2. rows \in Seq(Rows) /\ Len(rows) = Len(q)
    BY <1>5, <2>1, IsASeq, LenProperties
  <2> QED
    BY <1>5, <2>2
<1> HIDE DEF rows
<1>8. /\ k \in Task /\ k.step = "close" /\ k.r = r /\ k.todo = rows /\ k.terms = t
      /\ k.stale = Overlapping(r)
  BY <1>4, <1>7, TaskFields DEF Inv, Task
<1>9. Set(w, k)
  BY <1>1 DEF rows
<1>10. task'[w] = k
  BY <1>8, <1>9, SetTask DEF Inv
<1> HIDE DEF k
<1>11. HeldInv(w)'
  BY <1>8, <1>10 DEF HeldInv
<1>12. AcceptInv(w)'
  <2>1. ASSUME NEW x \in Overlapping(r) PROVE (Ahead(w, <<"request", x>>))'
    <3>1. PICK i \in 1..Len(q) : q[i] = x
      BY <1>5
    <3> QED
      BY <3>1, <1>7, <1>8, <1>10 DEF Ahead
  <2>2. (\A x \in task[w].stale : Covered(w, <<"request", x>>))'
    BY <2>1, <1>8, <1>10 DEF Covered
  <2>3. (task[w].terms = request[task[w].r].terms /\ Plan(task[w].terms))'
    BY <1>2, <1>8, <1>10 DEF Plan
  <2>4. (\A x \in PlanRows(task[w].terms) : lock[x] = w)'
    BY <1>2, <1>3, <1>8, <1>10 DEF PlanRows
  <2>5. (lock[<<"request", task[w].r>>] = w /\ Pending(task[w].r))'
    BY <1>2, <1>3, <1>8, <1>10 DEF Pending
  <2>6. task'[w].r \in Requests /\ task'[w].terms \in Terms /\ task'[w].step = "close"
    BY <1>3, <1>8, <1>10
  <2> QED
    BY <2>2, <2>3, <2>4, <2>5, <2>6 DEF AcceptInv
<1>13. OrderInv(w)'
  <2>1. \A i \in 1..Len(rows) : rows[i][1] = "request"
    BY <1>7
  <2> QED
    BY <2>1, <1>8, <1>10 DEF OrderInv
<1>14. WorkerInv(w)'
  BY <1>11, <1>12, <1>13 DEF WorkerInv
<1> QED
  BY <1>2, <1>8, <1>9, <1>14, OwnTaskStep

LEMMA OnPlan ==
  ASSUME Inv, NEW v \in Workers, task[v].step \in {"plan", "close"}
  PROVE  /\ task[v].r \in Requests /\ Pending(task[v].r)
         /\ lock[<<"request", task[v].r>>] = v /\ v # NoWorker
BY ExchangeAssumption DEF Inv, WorkerInv, AcceptInv

(* A request nobody has locked is written, or one that has just been        *)
(* created: no worker is on it with a plan.                                 *)
LEMMA RequestStep ==
  ASSUME Inv, NEW w \in Workers, NEW r \in Requests, NEW row, Set(w, Idle),
         task[w].step \in {"idle", "create", "answer", "fail"},
         row \in [status : Statuses, terms : Terms \cup {NoTerms}],
         request' = [request EXCEPT ![r] = row], UNCHANGED <<owner, lock>>,
         lock[<<"request", r>>] = NoWorker \/ ~Pending(r)
  PROVE  Inv'
<1>1. Types' /\ task'[w] = Idle /\ \A v \in Workers : v # w => task'[v] = task[v]
  BY SetTask, IdleType DEF Inv, Types
<1>2. WorkerInv(w)'
  BY <1>1, IdleType, RestInv, RestLocks
<1>3. ASSUME NEW v \in Workers, v # w PROVE WorkerInv(v)'
  <2>1. task[v].step \in {"plan", "close"} => request'[task[v].r] = request[task[v].r]
    <3> SUFFICES ASSUME task[v].step \in {"plan", "close"}
                 PROVE  request'[task[v].r] = request[task[v].r]
      OBVIOUS
    <3>1. task[v].r # r
      BY OnPlan
    <3> QED
      BY <3>1, OnPlan DEF Inv, Types
  <2>2. Frame(v)
    BY <1>1, <1>3, <2>1 DEF Frame
  <2> QED
    BY <2>2, FrameInv DEF Inv
<1> QED
  BY <1>1, <1>2, <1>3 DEF Inv

LEMMA CreateCommitStep ==
  ASSUME Inv, NEW w \in Workers, NEW r \in Requests, CreateCommit(w, r)
  PROVE  Inv'
<1>1. task[w].step = "create" /\ task[w].terms \in Terms /\ ~Pending(r)
  BY DEF CreateCommit, At, Inv, WorkerInv, AcceptInv, Pending
<1>2. [status |-> "PENDING", terms |-> task[w].terms]
        \in [status : Statuses, terms : Terms \cup {NoTerms}]
  BY <1>1 DEF Statuses
<1> QED
  BY <1>1, <1>2, RequestStep DEF CreateCommit

LEMMA WrittenRow ==
  ASSUME Types, NEW r \in Requests, NEW status \in Statuses
  PROVE  [request[r] EXCEPT !.status = status] \in [status : Statuses, terms : Terms \cup {NoTerms}]
BY DEF Types

LEMMA AnswerCommitStep ==
  ASSUME Inv, NEW w \in Workers, AnswerCommit(w)
  PROVE  Inv'
<1> DEFINE r == task[w].r
           row == [request[r] EXCEPT !.status = task[w].status]
<1>1. task[w].step = "answer" /\ r \in Requests /\ task[w].status \in Statuses
  BY TaskFields DEF AnswerCommit, At, Inv, WorkerInv, AcceptInv
<1>2. row \in [status : Statuses, terms : Terms \cup {NoTerms}]
  BY <1>1, WrittenRow DEF Inv
<1>3. request' = [request EXCEPT ![r] = row]
  BY <1>1 DEF AnswerCommit, Write, Inv, Types
<1> QED
  BY <1>1, <1>2, <1>3, RequestStep DEF AnswerCommit

LEMMA MarkFailedStep ==
  ASSUME Inv, NEW w \in Workers, MarkFailed(w)
  PROVE  Inv'
<1> DEFINE r == task[w].r
           row == IF Pending(r) THEN [request[r] EXCEPT !.status = "FAILED"] ELSE request[r]
<1>1. task[w].step = "fail" /\ r \in Requests
  BY DEF MarkFailed, At, Inv, WorkerInv, AcceptInv
<1>2. row \in [status : Statuses, terms : Terms \cup {NoTerms}]
  <2>1. "FAILED" \in Statuses
    BY DEF Statuses
  <2>2. request[r] \in [status : Statuses, terms : Terms \cup {NoTerms}]
    BY <1>1 DEF Inv, Types
  <2> QED
    BY <1>1, <2>1, <2>2, WrittenRow DEF Inv
<1>3. request' = [request EXCEPT ![r] = row]
  BY <1>1 DEF MarkFailed, Inv, Types
<1> QED
  BY <1>1, <1>2, <1>3, RequestStep DEF MarkFailed

LEMMA ExpireStep ==
  ASSUME Inv, NEW r \in Requests, Expire(r)
  PROVE  Inv'
<1> DEFINE row == [request[r] EXCEPT !.status = "EXPIRED"]
<1>1. row \in [status : Statuses, terms : Terms \cup {NoTerms}]
  BY ZenonT(90), WrittenRow DEF Inv, Statuses
<1>2. request' = [request EXCEPT ![r] = row] /\ UNCHANGED <<owner, lock, task>>
  BY DEF Expire, Write, Inv, Types
<1>3. Types'
  BY <1>1, <1>2 DEF Inv, Types
<1>4. ASSUME NEW v \in Workers PROVE WorkerInv(v)'
  <2>1. task[v].step \in {"plan", "close"} => request'[task[v].r] = request[task[v].r]
    <3> SUFFICES ASSUME task[v].step \in {"plan", "close"}
                 PROVE  request'[task[v].r] = request[task[v].r]
      OBVIOUS
    <3>1. task[v].r # r
      BY OnPlan DEF Expire
    <3> QED
      BY <1>2, <3>1, OnPlan DEF Inv, Types
  <2>2. Frame(v)
    BY <1>2, <2>1 DEF Frame
  <2> QED
    BY <2>2, FrameInv DEF Inv
<1> QED
  BY <1>3, <1>4 DEF Inv

LEMMA LockStep ==
  ASSUME Inv, NEW w \in Workers, Lock(w)
  PROVE  Inv'
<1> DEFINE q == task[w].todo
           k == [task[w] EXCEPT !.todo = Tail(q)]
<1>1. /\ q # <<>> /\ lock[Head(q)] \in {NoWorker, w}
      /\ lock' = [lock EXCEPT ![Head(q)] = w] /\ Set(w, k) /\ UNCHANGED <<owner, request>>
  BY DEF Lock
<1>2. /\ task[w] \in Task /\ q \in Seq(Rows)
      /\ task[w].step \in {"idle", "create", "answer", "own", "plan", "close", "fail"}
  BY TaskFields DEF Inv
<1>3. /\ Head(q) \in Rows /\ Head(q) = q[1] /\ Len(q) \in Nat /\ Len(q) > 0
      /\ Tail(q) \in Seq(Rows) /\ Len(Tail(q)) = Len(q) - 1
      /\ \A i \in 1..Len(Tail(q)) : Tail(q)[i] = q[i + 1]
  BY <1>1, <1>2, Tails
<1>4. /\ k \in Task /\ k.todo = Tail(q) /\ k.step = task[w].step /\ k.r = task[w].r
      /\ k.terms = task[w].terms /\ k.status = task[w].status /\ k.stale = task[w].stale
  BY <1>2, <1>3 DEF Task
<1>5. task'[w] = k /\ \A v \in Workers : v # w => task'[v] = task[v]
  BY <1>1, <1>4, SetTask DEF Inv
<1> HIDE DEF k
<1>6. Types'
  BY <1>1, <1>3, <1>4, SetTask DEF Inv, Types
<1>7. ASSUME NEW v \in Workers, v # w PROVE WorkerInv(v)'
  <2>1. \A x \in Rows : lock'[x] = v <=> lock[x] = v
    BY <1>1, <1>3, <1>7, ExchangeAssumption DEF Inv, Types
  <2>2. Frame(v)
    BY <1>1, <1>5, <1>7, <2>1 DEF Frame
  <2> QED
    BY <2>2, FrameInv DEF Inv
<1>8. \A x \in Rows : lock'[x] = w <=> lock[x] = w \/ x = q[1]
  BY <1>1, <1>3 DEF Inv, Types
<1>9. task[w].step \in {"own", "plan", "close"}
  BY <1>1, <1>2 DEF Inv, WorkerInv, AcceptInv
<1>10. \A x \in Rows : Covered(w, x) => Covered(w, x)'
  <2> SUFFICES ASSUME NEW x \in Rows, Covered(w, x) PROVE Covered(w, x)'
    OBVIOUS
  <2>1. CASE lock[x] = w \/ x = q[1]
    BY <2>1, <1>8 DEF Covered
  <2>2. CASE lock[x] # w /\ x # q[1]
    <3>1. PICK i \in 1..Len(q) : q[i] = x
      BY <2>2 DEF Covered, Ahead
    <3>2. i # 1
      BY <2>2, <3>1
    <3>3. i - 1 \in 1..Len(Tail(q)) /\ (i - 1) + 1 = i
      BY <1>3, <3>1, <3>2
    <3>4. Tail(q)[i - 1] = x
      BY <1>3, <3>1, <3>3
    <3> QED
      BY <3>3, <3>4, <1>4, <1>5 DEF Covered, Ahead
  <2> QED
    BY <2>1, <2>2
<1>11. HeldInv(w)'
  BY <1>4, <1>5, <1>9 DEF HeldInv
<1>12. AcceptInv(w)'
  <2>0. task[w].r \in Requests /\ task[w].stale \subseteq Requests
    BY <1>9, TaskFields DEF Inv, WorkerInv, AcceptInv
  <2>1. ASSUME task[w].step = "own", NEW x \in {<<"request", task[w].r>>} PROVE Covered(w, x)'
    <3>1. x \in Rows /\ Covered(w, x)
      BY <2>0, <2>1, RequestRow DEF Inv, WorkerInv, AcceptInv
    <3> QED
      BY <3>1, <1>10
  <2>2. (task[w].step = "own" => Covered(w, <<"request", task[w].r>>))'
    BY <2>1, <1>4, <1>5 DEF Covered, Ahead
  <2>3. ASSUME task[w].step = "plan", NEW x \in PlanRows(task[w].terms) PROVE Covered(w, x)'
    <3>1. task[w].terms \in Terms /\ Covered(w, x)
      BY <2>3 DEF Inv, WorkerInv, AcceptInv
    <3>2. x \in Rows
      BY <3>1, TermsFields
    <3> QED
      BY <3>1, <3>2, <1>10
  <2>4. (task[w].step = "plan" => \A x \in PlanRows(task[w].terms) : Covered(w, x))'
    BY <2>3, <1>4, <1>5 DEF PlanRows
  <2>5. task[w].step \in {"plan", "close"}
          => lock[<<"request", task[w].r>>] = w /\ Pending(task[w].r)
    BY DEF Inv, WorkerInv, AcceptInv
  <2>6. (task[w].step \in {"plan", "close"}
          => lock[<<"request", task[w].r>>] = w /\ Pending(task[w].r))'
    BY <2>0, <2>5, <1>1, <1>4, <1>5, <1>8, RequestRow DEF Pending
  <2>7. ASSUME task[w].step = "close"
        PROVE  /\ task[w].terms \in Terms
               /\ task[w].terms = request[task[w].r].terms /\ Plan(task[w].terms)
               /\ \A x \in PlanRows(task[w].terms) : lock[x] = w
               /\ \A y \in task[w].stale : Covered(w, <<"request", y>>)
    BY <2>7 DEF Inv, WorkerInv, AcceptInv
  <2>8. ASSUME task[w].step = "close"
        PROVE  (\A x \in PlanRows(task[w].terms) : lock[x] = w)'
    <3>1. PlanRows(task[w].terms) \subseteq Rows
      BY <2>7, <2>8, TermsFields
    <3> QED
      BY <2>7, <2>8, <3>1, <1>4, <1>5, <1>8 DEF PlanRows
  <2>9. ASSUME task[w].step = "close", NEW y \in task[w].stale,
               NEW x \in {<<"request", y>>}
        PROVE  Covered(w, x)'
    <3>1. x \in Rows /\ Covered(w, x)
      BY <2>0, <2>7, <2>9, RequestRow
    <3> QED
      BY <3>1, <1>10
  <2>10. (task[w].step = "close" =>
            /\ task[w].terms = request[task[w].r].terms /\ Plan(task[w].terms)
            /\ \A x \in PlanRows(task[w].terms) : lock[x] = w
            /\ \A y \in task[w].stale : Covered(w, <<"request", y>>))'
    BY <2>7, <2>8, <2>9, <1>1, <1>4, <1>5 DEF Plan
  <2>11. /\ task'[w].r \in Requests
         /\ task'[w].step \in {"plan", "close"} => task'[w].terms \in Terms
         /\ task'[w].step \in {"own", "plan", "close"}
    BY <2>0, <1>4, <1>5, <1>9 DEF Inv, WorkerInv, AcceptInv
  <2> QED
    BY <2>2, <2>4, <2>6, <2>10, <2>11 DEF AcceptInv
<1>13. OrderInv(w)'
  <2>1. \A i \in 1..Len(Tail(q)) : i + 1 \in 1..Len(q) /\ Tail(q)[i] = q[i + 1]
    BY <1>3
  <2>2. ASSUME task[w].step \in {"own", "close"}
        PROVE  \A i \in 1..Len(Tail(q)) : Tail(q)[i][1] = "request"
    BY <2>1, <2>2 DEF Inv, WorkerInv, OrderInv
  <2>3. ASSUME task[w].step = "own"
        PROVE  \A x \in PlanRow : lock'[x] # w
    <3>1. q[1][1] = "request"
      BY <1>3, <2>3 DEF Inv, WorkerInv, OrderInv
    <3> QED
      BY <2>3, <3>1, <1>8 DEF Inv, WorkerInv, OrderInv, PlanRow
  <2>4. ASSUME task[w].step = "plan"
        PROVE  /\ \A i, j \in 1..Len(Tail(q)) : i < j => Before(Tail(q)[i], Tail(q)[j])
               /\ \A i \in 1..Len(Tail(q)) : \A x \in PlanRow :
                    Tail(q)[i] \in PlanRow /\ (lock'[x] = w => Before(x, Tail(q)[i]))
    <3>1. /\ \A i, j \in 1..Len(q) : i < j => Before(q[i], q[j])
          /\ \A i \in 1..Len(q) : \A x \in PlanRow :
               q[i] \in PlanRow /\ (lock[x] = w => Before(x, q[i]))
      BY <2>4 DEF Inv, WorkerInv, OrderInv
    <3>2. \A i, j \in 1..Len(Tail(q)) : i < j => Before(Tail(q)[i], Tail(q)[j])
      <4> SUFFICES ASSUME NEW i \in 1..Len(Tail(q)), NEW j \in 1..Len(Tail(q)), i < j
                   PROVE  Before(Tail(q)[i], Tail(q)[j])
        OBVIOUS
      <4>1. i + 1 < j + 1 /\ i + 1 \in 1..Len(q) /\ j + 1 \in 1..Len(q)
        BY <2>1
      <4>2. Before(q[i + 1], q[j + 1])
        BY <3>1, <4>1
      <4> QED
        BY <4>2, <2>1
    <3>3. ASSUME NEW i \in 1..Len(Tail(q)), NEW x \in PlanRow
          PROVE  Tail(q)[i] \in PlanRow /\ (lock'[x] = w => Before(x, Tail(q)[i]))
      <4>1. 1 < i + 1 /\ i + 1 \in 1..Len(q) /\ 1 \in 1..Len(q) /\ Tail(q)[i] = q[i + 1]
        BY <2>1, <1>3
      <4>2. Before(q[1], q[i + 1]) /\ q[i + 1] \in PlanRow
        BY <3>1, <4>1
      <4>3. lock[x] = w => Before(x, q[i + 1])
        BY <3>1, <4>1
      <4>4. x \in Rows
        BY DEF PlanRow
      <4> QED
        BY <4>1, <4>2, <4>3, <4>4, <1>8
    <3> QED
      BY <3>2, <3>3
  <2> QED
    BY <2>2, <2>3, <2>4, <1>4, <1>5 DEF OrderInv
<1>14. WorkerInv(w)'
  BY <1>11, <1>12, <1>13 DEF WorkerInv
<1> QED
  BY <1>6, <1>7, <1>14 DEF Inv

(* The locks of w are released and it goes on without any. *)
LEMMA UnlockStep ==
  ASSUME Inv, NEW w \in Workers, NEW k \in Task, Set(w, k), Unlock(w),
         UNCHANGED <<owner, request>>, k.todo = <<>>,
         k.step \in {"idle", "fail"}, k.step = "fail" => k.r \in Requests
  PROVE  Inv'
<1>1. task'[w] = k /\ \A v \in Workers : v # w => task'[v] = task[v]
  BY SetTask DEF Inv
<1>2. lock' \in [Rows -> Workers \cup {NoWorker}]
  BY DEF Unlock, Inv, Types
<1>3. \A x \in Rows : lock'[x] # w /\ \A v \in Workers : v # w => (lock'[x] = v <=> lock[x] = v)
  BY ExchangeAssumption DEF Unlock
<1>4. Types'
  BY <1>2, SetTask DEF Inv, Types
<1>5. WorkerInv(w)'
  BY <1>1, <1>3, RestInv
<1>6. ASSUME NEW v \in Workers, v # w PROVE WorkerInv(v)'
  <2>1. Frame(v)
    BY <1>1, <1>3, <1>6 DEF Frame
  <2> QED
    BY <2>1, FrameInv DEF Inv
<1> QED
  BY <1>4, <1>5, <1>6 DEF Inv

LEMMA PlanFailsStep ==
  ASSUME Inv, NEW w \in Workers, PlanFails(w)
  PROVE  Inv'
<1> DEFINE k == [task[w] EXCEPT !.step = "fail", !.terms = NoTerms]
<1>1. /\ Set(w, k) /\ Unlock(w) /\ UNCHANGED <<owner, request>>
      /\ task[w].step \in {"own", "plan"} /\ task[w].todo = <<>>
  BY DEF PlanFails, At
<1>2. task[w].r \in Requests
  BY <1>1 DEF Inv, WorkerInv, AcceptInv
<1>3. k \in Task /\ k.step = "fail" /\ k.todo = <<>> /\ k.r \in Requests
  BY <1>1, <1>2, TaskFields DEF Inv, Task
<1> HIDE DEF k
<1> QED
  BY <1>1, <1>3, UnlockStep

LEMMA VictimStep ==
  ASSUME Inv, NEW w \in Workers, Victim(w)
  PROVE  Inv'
<1> DEFINE k == Idle
<1>1. Set(w, k) /\ Unlock(w) /\ UNCHANGED <<owner, request>>
  BY DEF Victim
<1>2. k \in Task /\ k.step = "idle" /\ k.todo = <<>>
  BY IdleType
<1> HIDE DEF k
<1>3. k.step \in {"idle", "fail"} /\ (k.step = "fail" => k.r \in Requests)
  BY <1>2
<1> QED
  BY <1>1, <1>2, <1>3, UnlockStep

(* What a worker that commits has locked and changes. *)
LEMMA CommitLocks ==
  ASSUME Inv, NEW w \in Workers, Commit(w)
  PROVE  /\ task[w].r \in Requests /\ Pending(task[w].r)
         /\ task[w].terms \in Terms /\ task[w].terms = request[task[w].r].terms
         /\ Plan(task[w].terms)
         /\ \A s \in task[w].terms.offered \cup task[w].terms.requested :
              lock[<<"slot", s>>] = w
         /\ \A r \in task[w].stale \cup {task[w].r} :
              r \in Requests /\ lock[<<"request", r>>] = w
<1>1. task[w].step = "close" /\ task[w].todo = <<>>
  BY DEF Commit, At
<1>2. /\ task[w].r \in Requests /\ Pending(task[w].r)
      /\ task[w].terms \in Terms /\ task[w].terms = request[task[w].r].terms
      /\ Plan(task[w].terms) /\ lock[<<"request", task[w].r>>] = w
      /\ \A x \in PlanRows(task[w].terms) : lock[x] = w
      /\ \A r \in task[w].stale : lock[<<"request", r>>] = w
  BY <1>1 DEF Inv, WorkerInv, AcceptInv, Covered, Ahead
<1>3. task[w].stale \subseteq Requests
  BY TaskFields DEF Inv
<1>4. \A s \in task[w].terms.offered \cup task[w].terms.requested :
        <<"slot", s>> \in PlanRows(task[w].terms)
  BY DEF PlanRows
<1> QED
  BY <1>2, <1>3, <1>4

LEMMA CommitStep ==
  ASSUME Inv, NEW w \in Workers, Commit(w)
  PROVE  Inv'
<1> DEFINE t == task[w].terms
<1>1. /\ owner' = [s \in Slots |-> IF s \in t.offered THEN t.theirs
                                   ELSE IF s \in t.requested THEN t.mine ELSE owner[s]]
      /\ request' = [r \in Requests |->
                       IF r = task[w].r THEN [request[r] EXCEPT !.status = "ACCEPTED"]
                       ELSE IF r \in task[w].stale THEN [request[r] EXCEPT !.status = "FAILED"]
                       ELSE request[r]]
      /\ Unlock(w) /\ Set(w, Idle)
  BY DEF Commit
<1>2. task'[w] = Idle /\ task' \in [Workers -> Task]
      /\ \A v \in Workers : v # w => task'[v] = task[v]
  BY <1>1, SetTask, IdleType DEF Inv
<1>3. lock' \in [Rows -> Workers \cup {NoWorker}]
  BY <1>1 DEF Unlock, Inv, Types
<1>4. \A x \in Rows : lock'[x] # w /\ \A v \in Workers : v # w => (lock'[x] = v <=> lock[x] = v)
  BY <1>1, ExchangeAssumption DEF Unlock
<1>5. owner' \in [Slots -> Bookings]
  BY <1>1, CommitLocks, TermsFields DEF Inv, Types
<1>6. request' \in [Requests -> [status : Statuses, terms : Terms \cup {NoTerms}]]
  <2>1. "ACCEPTED" \in Statuses /\ "FAILED" \in Statuses
    BY DEF Statuses
  <2>2. \A r \in Requests : request'[r] \in [status : Statuses, terms : Terms \cup {NoTerms}]
    BY <1>1, <2>1, WrittenRow DEF Inv, Types
  <2> QED
    BY <1>1, <2>2
<1>7. Types'
  BY <1>2, <1>3, <1>5, <1>6 DEF Types
<1>8. WorkerInv(w)'
  BY <1>2, <1>4, RestInv, IdleType
<1>9. ASSUME NEW v \in Workers, v # w PROVE WorkerInv(v)'
  <2>1. task[v].step \in {"plan", "close"} => request'[task[v].r] = request[task[v].r]
    <3> SUFFICES ASSUME task[v].step \in {"plan", "close"}
                 PROVE  request'[task[v].r] = request[task[v].r]
      OBVIOUS
    <3>1. task[v].r \notin task[w].stale \cup {task[w].r} /\ task[v].r \in Requests
      BY ZenonT(90), <1>9, OnPlan, CommitLocks
    <3> QED
      BY <1>1, <3>1
  <2>2. ASSUME NEW s \in Slots, lock[<<"slot", s>>] = v PROVE owner'[s] = owner[s]
    <3>1. s \notin t.offered /\ s \notin t.requested
      BY <1>9, <2>2, CommitLocks
    <3> QED
      BY <1>1, <3>1
  <2>3. Frame(v)
    BY <1>2, <1>4, <1>9, <2>1, <2>2 DEF Frame
  <2> QED
    BY <2>3, FrameInv DEF Inv
<1> QED
  BY <1>7, <1>8, <1>9 DEF Inv

LEMMA InvInit == Init => Inv
<1> SUFFICES ASSUME Init PROVE Inv
  OBVIOUS
<1>1. Types
  BY ExchangeAssumption, IdleType DEF Init, Types, Statuses, Unlocked
<1>2. ASSUME NEW w \in Workers PROVE WorkerInv(w)
  <2>1. \A x \in Rows : lock[x] # w
    BY ExchangeAssumption DEF Init, Unlocked
  <2>2. task[w] = Idle
    BY DEF Init
  <2> QED
    BY <2>1, <2>2, IdleType DEF WorkerInv, HeldInv, AcceptInv, OrderInv
<1> QED
  BY <1>1, <1>2 DEF Inv

LEMMA InvStutter == ASSUME Inv, UNCHANGED vars PROVE Inv'
<1>1. Types'
  BY DEF Inv, Types, vars
<1>2. ASSUME NEW v \in Workers PROVE WorkerInv(v)'
  <2>1. Frame(v)
    BY DEF Frame, vars
  <2> QED
    BY <2>1, FrameInv DEF Inv
<1> QED
  BY <1>1, <1>2 DEF Inv

LEMMA InvStep == Inv /\ [Next]_vars => Inv'
<1> SUFFICES ASSUME Inv, [Next]_vars PROVE Inv'
  OBVIOUS
<1>1. CASE \E w \in Workers, mine, theirs \in Bookings : CreateLoad(w, mine, theirs)
  BY <1>1, CreateLoadStep
<1>2. CASE \E w \in Workers, r \in Requests : CreateCommit(w, r)
  BY <1>2, CreateCommitStep
<1>3. CASE \E w \in Workers, r \in Requests : AcceptLoad(w, r)
  BY <1>3, AcceptLoadStep
<1>4. CASE \E w \in Workers, r \in Requests, status \in {"DECLINED", "CANCELLED"} :
             AnswerLoad(w, r, status)
  BY <1>4, AnswerLoadStep
<1>5. CASE \E w \in Workers : AnswerCommit(w)
  BY <1>5, AnswerCommitStep
<1>6. CASE \E w \in Workers : Lock(w)
  BY <1>6, LockStep
<1>7. CASE \E w \in Workers : ReadPlan(w)
  BY <1>7, ReadPlanStep
<1>8. CASE \E w \in Workers : Swap(w)
  BY <1>8, SwapStep
<1>9. CASE \E w \in Workers : Commit(w)
  BY <1>9, CommitStep
<1>10. CASE \E w \in Workers : PlanFails(w)
  BY <1>10, PlanFailsStep
<1>11. CASE \E w \in Workers : MarkFailed(w)
  BY <1>11, MarkFailedStep
<1>12. CASE \E w \in Workers : Victim(w)
  BY <1>12, VictimStep
<1>13. CASE \E r \in Requests : Expire(r)
  BY <1>13, ExpireStep
<1>14. CASE UNCHANGED vars
  BY <1>14, InvStutter
<1> QED
  BY <1>1, <1>2, <1>3, <1>4, <1>5, <1>6, <1>7, <1>8, <1>9, <1>10, <1>11, <1>12, <1>13, <1>14
     DEF Next

LEMMA InvAlways == Spec => []Inv
BY InvInit, InvStep, PTL DEF Spec

(* Every row is of its type, and an idle worker has nothing locked. *)
THEOREM TypeCorrect == Spec => []TypeOK
<1>1. Inv => TypeOK
  BY DEF Inv, Types, WorkerInv, HeldInv, TypeOK
<1> QED
  BY <1>1, InvAlways, PTL

-----------------------------------------------------------------------------
(* A slot changes bookings only by a commit, and only as the accepted       *)
(* request says, which was pending until then.                              *)

Agreed(r) ==
  /\ Pending(r) /\ request'[r].status = "ACCEPTED"
  /\ LET t == request[r].terms
     IN \A s \in Slots :
          <<owner[s], owner'[s]>> =
            IF s \in t.offered THEN <<t.mine, t.theirs>>
            ELSE IF s \in t.requested THEN <<t.theirs, t.mine>>
            ELSE <<owner[s], owner[s]>>

LEMMA CommitAgreed ==
  ASSUME Inv, NEW w \in Workers, Commit(w)
  PROVE  \E r \in Requests : Agreed(r)
<1> DEFINE r == task[w].r
           t == task[w].terms
<1>1. /\ r \in Requests /\ Pending(r) /\ t = request[r].terms /\ t \in Terms /\ Plan(t)
  BY CommitLocks
<1>2. /\ \A s \in t.offered : owner[s] = t.mine
      /\ \A s \in t.requested : owner[s] = t.theirs
      /\ t.mine # t.theirs
  BY <1>1 DEF Plan
<1>3. request'[r].status = "ACCEPTED"
  BY <1>1 DEF Commit, Inv, Types
<1>4. \A s \in Slots : owner'[s] = IF s \in t.offered THEN t.theirs
                                   ELSE IF s \in t.requested THEN t.mine ELSE owner[s]
  BY DEF Commit
<1> HIDE DEF t
<1>5. \A s \in Slots :
        <<owner[s], owner'[s]>> =
          IF s \in t.offered THEN <<t.mine, t.theirs>>
          ELSE IF s \in t.requested THEN <<t.theirs, t.mine>>
          ELSE <<owner[s], owner[s]>>
  BY <1>2, <1>4
<1> QED
  BY <1>1, <1>3, <1>5 DEF Agreed

LEMMA OwnerKept ==
  ASSUME [Next]_vars, ~\E w \in Workers : Commit(w)
  PROVE  owner' = owner
BY DEF Next, vars, CreateLoad, CreateCommit, AcceptLoad, AnswerLoad, AnswerCommit, Lock,
       ReadPlan, Swap, PlanFails, MarkFailed, Victim, Expire

(* accept_request: slots change bookings only by the acceptance of a        *)
(* request that is pending until then, only as it says, whatever other      *)
(* accepts, answers and expiries come between its reads and its writes.     *)
THEOREM SwapsAsAgreed == Spec => SwapsAgreed
<1>1. Inv /\ [Next]_vars => (owner' # owner => \E r \in Requests : Agreed(r))
  BY OwnerKept, CommitAgreed
<1>2. Inv /\ [Next]_vars
        => [owner' # owner
              => \E r \in Requests :
                   /\ Pending(r) /\ request'[r].status = "ACCEPTED"
                   /\ LET t == request[r].terms
                      IN \A s \in Slots :
                           <<owner[s], owner'[s]>> =
                             IF s \in t.offered THEN <<t.mine, t.theirs>>
                             ELSE IF s \in t.requested THEN <<t.theirs, t.mine>>
                             ELSE <<owner[s], owner[s]>>]_vars
  BY <1>1 DEF Agreed
<1> QED
  BY <1>2, InvAlways, PTL DEF Spec, SwapsAgreed

-----------------------------------------------------------------------------
(* The number of slots of a booking. *)

LEMMA FiniteSlots ==
  ASSUME NEW S \in SUBSET Slots
  PROVE  IsFiniteSet(S) /\ Cardinality(S) \in Nat
BY ExchangeAssumption, FS_Subset, FS_CardinalityType

(* Swapping as many slots for as many leaves the number as it is. *)
LEMMA SwapCount ==
  ASSUME NEW S \in SUBSET Slots, NEW out \in SUBSET S, NEW in \in SUBSET Slots,
         in \cap S = {}, Cardinality(out) = Cardinality(in)
  PROVE  Cardinality((S \ out) \cup in) = Cardinality(S)
<1>1. /\ IsFiniteSet(S) /\ IsFiniteSet(S \ out) /\ IsFiniteSet(in) /\ IsFiniteSet(out)
      /\ Cardinality(S) \in Nat /\ Cardinality(in) \in Nat /\ Cardinality(S \ out) \in Nat
  BY FiniteSlots
<1>2. Cardinality(S \ out) = Cardinality(S) - Cardinality(out)
  <2>1. S \cap out = out
    OBVIOUS
  <2> QED
    BY <1>1, <2>1, FS_Difference
<1>3. (S \ out) \cap in = {} /\ Cardinality({}) = 0
  BY FS_EmptySet
<1>4. Cardinality((S \ out) \cup in) = Cardinality(S \ out) + Cardinality(in) - Cardinality({})
  <2>1. Cardinality((S \ out) \cup in)
          = Cardinality(S \ out) + Cardinality(in) - Cardinality((S \ out) \cap in)
    BY <1>1, FS_Union
  <2> QED
    BY <2>1, <1>3
<1> QED
  BY <1>1, <1>2, <1>3, <1>4

LEMMA CommitCount ==
  ASSUME Inv, NEW w \in Workers, Commit(w), NEW b \in Bookings
  PROVE  Cardinality(Owned(b)') = Cardinality(Owned(b))
<1> DEFINE t == task[w].terms
<1>1. t \in Terms /\ Plan(t)
  BY CommitLocks
<1>2. /\ t.mine \in Bookings /\ t.theirs \in Bookings
      /\ t.offered \subseteq Slots /\ t.requested \subseteq Slots
      /\ \A s \in t.offered : owner[s] = t.mine
      /\ \A s \in t.requested : owner[s] = t.theirs
      /\ t.mine # t.theirs /\ Cardinality(t.offered) = Cardinality(t.requested)
  BY <1>1, TermsFields DEF Plan
<1>3. \A s \in Slots : owner'[s] = IF s \in t.offered THEN t.theirs
                                   ELSE IF s \in t.requested THEN t.mine ELSE owner[s]
  BY DEF Commit
<1> HIDE DEF t
<1>4. CASE b = t.mine
  <2>1. Owned(b)' = (Owned(b) \ t.offered) \cup t.requested
    BY <1>2, <1>3, <1>4 DEF Owned
  <2>2. t.offered \subseteq Owned(b) /\ t.requested \cap Owned(b) = {} /\ Owned(b) \subseteq Slots
    BY <1>2, <1>4 DEF Owned
  <2> QED
    BY <2>1, <2>2, <1>2, SwapCount
<1>5. CASE b = t.theirs
  <2>1. Owned(b)' = (Owned(b) \ t.requested) \cup t.offered
    BY <1>2, <1>3, <1>5 DEF Owned
  <2>2. t.requested \subseteq Owned(b) /\ t.offered \cap Owned(b) = {} /\ Owned(b) \subseteq Slots
    BY <1>2, <1>5 DEF Owned
  <2> QED
    BY <2>1, <2>2, <1>2, SwapCount
<1>6. CASE b # t.mine /\ b # t.theirs
  <2>1. Owned(b)' = Owned(b)
    BY <1>2, <1>3, <1>6 DEF Owned
  <2> QED
    BY <2>1
<1> QED
  BY <1>4, <1>5, <1>6

(* accept_request: however exchanges overlap, every booking keeps as many   *)
(* slots as it has been paid for.                                           *)
THEOREM CountsKept == Spec => []SlotCountKept
<1>1. Init => SlotCountKept
  BY DEF Init, SlotCountKept, Owned
<1>2. Inv /\ SlotCountKept /\ [Next]_vars => SlotCountKept'
  <2> SUFFICES ASSUME Inv, SlotCountKept, [Next]_vars, NEW b \in Bookings
               PROVE  Cardinality(Owned(b)') = Cardinality({s \in Slots : InitialOwner[s] = b})
    BY DEF SlotCountKept
  <2>1. Cardinality(Owned(b)) = Cardinality({s \in Slots : InitialOwner[s] = b})
    BY DEF SlotCountKept
  <2>2. CASE \E w \in Workers : Commit(w)
    BY <2>1, <2>2, CommitCount
  <2>3. CASE ~\E w \in Workers : Commit(w)
    <3>1. Owned(b)' = Owned(b)
      BY <2>3, OwnerKept DEF Owned
    <3> QED
      BY <2>1, <3>1
  <2> QED
    BY <2>2, <2>3
<1> QED
  BY <1>1, <1>2, InvAlways, PTL DEF Spec

-----------------------------------------------------------------------------
(* Circular waits. *)

(* The booking and slot rows that come after a row. *)
After(x) == {y \in PlanRow : Before(x, y)}

LEMMA BeforeOrder ==
  ASSUME NEW x \in PlanRow, NEW y \in PlanRow, Before(x, y)
  PROVE  After(y) \subseteq After(x) /\ After(y) # After(x)
<1>1. \A z \in PlanRow : z[1] \in {"booking", "slot"} /\ z[2] \in Nat
  BY ExchangeAssumption DEF PlanRow, Rows
<1>2. y \in After(x) /\ y \notin After(y)
  BY <1>1 DEF After, Before
<1>3. \A z \in PlanRow : Before(y, z) => Before(x, z)
  BY <1>1 DEF Before
<1> QED
  BY <1>2, <1>3 DEF After

LEMMA FinitePlanRows == IsFiniteSet(PlanRow)
<1>1. IsFiniteSet({"booking"} \X Bookings) /\ IsFiniteSet({"slot"} \X Slots)
  BY ExchangeAssumption, FS_Product, FS_Singleton
<1>2. IsFiniteSet(({"booking"} \X Bookings) \cup ({"slot"} \X Slots))
  BY <1>1, FS_Union
<1>3. PlanRow \subseteq ({"booking"} \X Bookings) \cup ({"slot"} \X Slots)
  BY DEF PlanRow, Rows
<1> QED
  BY <1>2, <1>3, FS_Subset

(* A worker that waits for a booking or slot row waits for one that has     *)
(* locked it and, if it waits for such a row too, for a later one.          *)
LEMMA WaitsUpwards ==
  ASSUME Inv, NEW w \in Workers, NEW v \in Workers, NEW u \in Workers,
         WaitsFor(w, v), WaitsFor(v, u),
         Head(task[w].todo)[1] # "request", Head(task[v].todo)[1] # "request"
  PROVE  /\ Head(task[w].todo) \in PlanRow /\ Head(task[v].todo) \in PlanRow
         /\ Before(Head(task[w].todo), Head(task[v].todo))
<1> DEFINE x == Head(task[w].todo)
           y == Head(task[v].todo)
<1>1. /\ task[w].todo # <<>> /\ task[v].todo # <<>> /\ lock[x] = v
      /\ task[w].todo \in Seq(Rows) /\ task[v].todo \in Seq(Rows)
  BY TaskFields DEF WaitsFor, Inv
<1>2. x \in Rows /\ y \in Rows /\ y = task[v].todo[1] /\ 1 \in 1..Len(task[v].todo)
  BY <1>1, Tails
<1>3. x \in PlanRow /\ y \in PlanRow
  BY <1>2 DEF PlanRow
<1>5. task[v].step = "plan"
  <2>1. task[v].step \in {"own", "plan", "close"}
    BY <1>1, <1>2 DEF Inv, WorkerInv, HeldInv
  <2>2. task[v].step # "own"
    BY <1>1, <1>3 DEF Inv, WorkerInv, OrderInv
  <2>3. task[v].step # "close"
    BY <1>2 DEF Inv, WorkerInv, OrderInv
  <2> QED
    BY <2>1, <2>2, <2>3
<1> HIDE DEF x, y
<1>6. Before(x, y)
  BY <1>1, <1>2, <1>3, <1>5 DEF Inv, WorkerInv, OrderInv
<1> QED
  BY <1>3, <1>6 DEF x, y

LEMMA NoPlanCircle == Inv => OrderedLocks
<1> SUFFICES ASSUME Inv, NEW W \in SUBSET Workers, Circular(W),
                    \A w \in W : Head(task[w].todo)[1] # "request"
             PROVE  FALSE
  BY DEF OrderedLocks
<1> DEFINE x(w) == Head(task[w].todo)
           C == {After(x(w)) : w \in W}
<1>1. \A w \in W : \E v \in W : WaitsFor(w, v)
  BY DEF Circular
<1>2. \A w \in W : \E v \in W : Before(x(w), x(v)) /\ x(w) \in PlanRow /\ x(v) \in PlanRow
  BY <1>1, WaitsUpwards
<1>3. C \in SUBSET SUBSET PlanRow /\ C # {}
  <2>1. W # {}
    BY DEF Circular
  <2>2. \A w \in W : After(x(w)) \in SUBSET PlanRow
    BY DEF After
  <2> QED
    BY <2>1, <2>2
<1>4. PICK X \in C : \A Y \in C : Y \subseteq X => Y = X
  <2> HIDE DEF C
  <2> QED
    BY <1>3, FinitePlanRows, LeastSubset
<1>5. PICK w \in W : X = After(x(w))
  BY <1>4
<1>6. PICK v \in W : Before(x(w), x(v)) /\ x(w) \in PlanRow /\ x(v) \in PlanRow
  BY <1>2
<1>7. After(x(v)) \subseteq X /\ After(x(v)) # X /\ After(x(v)) \in C
  BY <1>5, <1>6, BeforeOrder
<1> QED
  BY <1>4, <1>7

(* plan_exchange: bookings and slots are locked in one order, so that a     *)
(* circular wait always has a worker in it that waits for a request row.    *)
THEOREM LocksOrdered == Spec => []OrderedLocks
BY NoPlanCircle, InvAlways, PTL
============================================================================
