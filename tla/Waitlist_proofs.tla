--------------------------- MODULE Waitlist_proofs ---------------------------
(***************************************************************************)
(* The length of the waitlist, the slots it hands out, and the rows it     *)
(* serves, for any number of users, rows, slots and workers.               *)
(***************************************************************************)
EXTENDS Waitlist, InductionLemmas

EntryRow == [user : Users \cup {Nobody}, status : Waiting \cup {"NEW", "DELETED"}]

Joinable(q) == q.user \in Users \cup {Nobody} /\ q.own \in Entries \cup {NoEntry}

(* The part of TypeOK the proofs need. *)
Typed ==
  /\ entry \in [Entries -> EntryRow]
  /\ task = [w \in Workers |-> task[w]]
  /\ \A w \in Workers : Joinable(task[w])

LEMMA TypedInit == Init => Typed
BY DEF Init, Typed, EntryRow, Joinable, Idle, Sweeper

(* A step of w changes the task of w only, to one of known shape. *)
LEMMA SetTask ==
  ASSUME Typed, NEW w \in Workers, NEW t, Joinable(t), Set(w, t)
  PROVE  /\ task' = [v \in Workers |-> task'[v]]
         /\ \A v \in Workers : Joinable(task'[v])
         /\ task'[w] = t
         /\ \A v \in Workers \ {w} : task'[v] = task[v]
BY DEF Typed, Set

LEMMA SetSweeper ==
  ASSUME Typed, NEW w \in Workers, NEW step \in Steps \ {"join"}, NEW todo, NEW slots,
         NEW processed, NEW failed, NEW clears,
         Set(w, Sweeper(step, todo, slots, processed, failed, clears))
  PROVE  /\ task' = [v \in Workers |-> task'[v]]
         /\ \A v \in Workers : Joinable(task'[v])
         /\ Joining' = Joining \ {w}
<1>1. Joinable(Sweeper(step, todo, slots, processed, failed, clears))
  BY DEF Sweeper, Joinable
<1>2. Sweeper(step, todo, slots, processed, failed, clears).step # "join"
  BY DEF Sweeper
<1>3. /\ task' = [v \in Workers |-> task'[v]]
      /\ \A v \in Workers : Joinable(task'[v])
      /\ task'[w].step # "join"
      /\ \A v \in Workers \ {w} : task'[v] = task[v]
  BY <1>1, <1>2, SetTask
<1> QED
  BY <1>3 DEF Joining, In

(* What a step does to the queue and to the requests about to join it: it   *)
(* adds none, ...                                                           *)
Shrinks == Active' \subseteq Active /\ Joining' \subseteq Joining

(* ... or a request finds room, ...                                         *)
Loads == Active' = Active /\ Cardinality(Active) < Depth

(* ... or one that found room gets a place.                                 *)
Joins ==
  \E w \in Joining, e \in Entries :
    Joining' \subseteq Joining \ {w} /\ Active' \subseteq Active \cup {e}

LEMMA FiniteSides ==
  /\ IsFiniteSet(Active) /\ IsFiniteSet(Joining)
  /\ IsFiniteSet(Active') /\ IsFiniteSet(Joining')
  /\ Cardinality(Active) \in Nat /\ Cardinality(Joining) \in Nat
  /\ Cardinality(Active') \in Nat /\ Cardinality(Joining') \in Nat
  /\ Cardinality(Workers) \in Nat /\ Cardinality(Joining') <= Cardinality(Workers)
<1>1. Active \subseteq Entries /\ Active' \subseteq Entries
  BY DEF Active
<1>2. Joining \subseteq Workers /\ Joining' \subseteq Workers
  BY DEF Joining
<1> QED
  BY <1>1, <1>2, WaitlistAssumption, FS_Subset, FS_CardinalityType

LEMMA BoundStep ==
  ASSUME DepthBound, Shrinks \/ Loads \/ Joins
  PROVE  DepthBound'
<1>0. Depth \in Nat
  BY WaitlistAssumption
<1>1. CASE Shrinks
  <2>1. Cardinality(Active') <= Cardinality(Active)
    BY <1>1, FiniteSides, FS_Subset DEF Shrinks
  <2>2. Cardinality(Joining') <= Cardinality(Joining)
    BY <1>1, FiniteSides, FS_Subset DEF Shrinks
  <2> QED
    BY <1>0, <2>1, <2>2, FiniteSides DEF DepthBound
<1>2. CASE Loads
  <2>1. Cardinality(Active') < Depth
    BY <1>2 DEF Loads
  <2> QED
    BY <1>0, <2>1, FiniteSides DEF DepthBound
<1>3. CASE Joins
  <2>1. PICK w \in Joining, e \in Entries :
          Joining' \subseteq Joining \ {w} /\ Active' \subseteq Active \cup {e}
    BY <1>3 DEF Joins
  <2>2. /\ IsFiniteSet(Joining \ {w}) /\ Cardinality(Joining \ {w}) = Cardinality(Joining) - 1
        /\ Cardinality(Joining') <= Cardinality(Joining \ {w})
    <3>1. /\ IsFiniteSet(Joining \ {w})
          /\ Cardinality(Joining \ {w}) = Cardinality(Joining) - 1
      BY FiniteSides, FS_RemoveElement
    <3> QED
      BY <2>1, <3>1, FS_Subset
  <2>3. /\ Cardinality(Active \cup {e}) <= Cardinality(Active) + 1
        /\ Cardinality(Active') <= Cardinality(Active \cup {e})
    <3>1. /\ IsFiniteSet(Active \cup {e})
          /\ Cardinality(Active \cup {e}) =
               IF e \in Active THEN Cardinality(Active) ELSE Cardinality(Active) + 1
      BY FiniteSides, FS_AddElement
    <3>2. Cardinality(Active') <= Cardinality(Active \cup {e})
      BY <2>1, <3>1, FS_Subset
    <3> QED
      BY <3>1, <3>2, FiniteSides
  <2>4. Cardinality(Active \cup {e}) \in Nat
    BY FiniteSides, FS_AddElement, FS_CardinalityType
  <2> QED
    BY <1>0, <2>2, <2>3, <2>4, FiniteSides DEF DepthBound
<1> QED
  BY <1>1, <1>2, <1>3

LEMMA SameActive ==
  ASSUME Typed, entry' = entry
  PROVE  Active' = Active /\ entry' \in [Entries -> EntryRow]
BY DEF Typed, Active

LEMMA DeleteActive ==
  ASSUME Typed, NEW S, Delete(S)
  PROVE  Active' \subseteq Active /\ entry' \in [Entries -> EntryRow]
BY DEF Typed, EntryRow, Delete, Active, Exists, Waiting

(* Every action of the waitlist is one of the three. *)
LEMMA WorkStep ==
  ASSUME Typed, NEW w \in Workers, Work(w)
  PROVE  Typed' /\ (Shrinks \/ Joins)
<1>0. "idle" \in Steps \ {"join"} /\ "sweep" \in Steps \ {"join"}
      /\ "marked" \in Steps \ {"join"} /\ "clear" \in Steps \ {"join"}
  BY DEF Steps
<1>1. CASE Create(w) \/ Rejoin(w)
  <2>1. w \in Joining
    BY <1>1 DEF Create, Rejoin, Joining
  <2>2. /\ task' = [v \in Workers |-> task'[v]]
        /\ \A v \in Workers : Joinable(task'[v])
        /\ Joining' = Joining \ {w}
    BY <1>0, <1>1, SetSweeper DEF Create, Rejoin, Idle
  <2>3. entry' \in [Entries -> EntryRow] /\ \E e \in Entries : Active' \subseteq Active \cup {e}
    <3>1. CASE Create(w)
      <4>1. PICK e \in Entries :
              entry' = [entry EXCEPT ![e] = [user |-> task[w].user, status |-> "ACTIVE"]]
        BY <3>1 DEF Create
      <4> QED
        BY <4>1, <2>1 DEF Typed, Joinable, EntryRow, Waiting, Active, Joining
    <3>2. CASE Rejoin(w)
      <4>1. task[w].own \in Entries
        BY <3>2 DEF Rejoin, Typed, Joinable
      <4> QED
        BY <3>2, <4>1 DEF Rejoin, Typed, EntryRow, Waiting, Active
    <3> QED
      BY <1>1, <3>1, <3>2
  <2> QED
    BY <2>1, <2>2, <2>3 DEF Typed, Joins
<1>2. CASE GiveUp(w) \/ SweepLoad(w) \/ ShortNotice(w) \/ Promote(w) \/ Refuse(w) \/ PassOver(w)
  <2>1. entry' = entry
    BY <1>2 DEF GiveUp, SweepLoad, ShortNotice, Promote, Refuse, PassOver
  <2>2. /\ task' = [v \in Workers |-> task'[v]]
        /\ \A v \in Workers : Joinable(task'[v])
        /\ Joining' = Joining \ {w}
    BY <1>0, <1>2, SetSweeper DEF GiveUp, SweepLoad, ShortNotice, Promote, Refuse, PassOver, Idle
  <2> QED
    BY <2>1, <2>2, SameActive DEF Typed, Shrinks
<1>3. CASE MarkRefused(w)
  <2>1. /\ task' = [v \in Workers |-> task'[v]]
        /\ \A v \in Workers : Joinable(task'[v])
        /\ Joining' = Joining \ {w}
    BY <1>0, <1>3, SetSweeper DEF MarkRefused
  <2>2. Active' \subseteq Active /\ entry' \in [Entries -> EntryRow]
    BY <1>3 DEF MarkRefused, Typed, EntryRow, Active, Exists, Waiting
  <2> QED
    BY <2>1, <2>2 DEF Typed, Shrinks
<1>4. CASE DeleteProcessed(w) \/ Clear(w)
  <2>1. /\ task' = [v \in Workers |-> task'[v]]
        /\ \A v \in Workers : Joinable(task'[v])
        /\ Joining' = Joining \ {w}
    BY <1>0, <1>4, SetSweeper DEF DeleteProcessed, Clear, Idle
  <2>2. Active' \subseteq Active /\ entry' \in [Entries -> EntryRow]
    BY <1>4, DeleteActive DEF DeleteProcessed, Clear
  <2> QED
    BY <2>1, <2>2 DEF Typed, Shrinks
<1> QED
  BY <1>1, <1>2, <1>3, <1>4 DEF Work

LEMMA NextStep ==
  ASSUME Typed, [Next]_vars
  PROVE  Typed' /\ (Shrinks \/ Loads \/ Joins)
<1>1. ASSUME NEW w \in Workers, NEW u \in Users, JoinLoad(w, u)
      PROVE  Typed' /\ Loads
  <2>1. PICK own \in Entries \cup {NoEntry} : Set(w, Joiner(u, own))
    BY <1>1 DEF JoinLoad, OwnRows
  <2>2. Joinable(Joiner(u, own))
    BY DEF Joiner, Joinable
  <2>3. /\ task' = [v \in Workers |-> task'[v]]
        /\ \A v \in Workers : Joinable(task'[v])
    BY <2>1, <2>2, SetTask
  <2>4. entry' = entry /\ Cardinality(Active) < Depth
    BY <1>1 DEF JoinLoad
  <2> QED
    BY <2>3, <2>4, SameActive DEF Typed, Loads
<1>2. ASSUME NEW w \in Workers, ClearDue(w) \/ \E S \in (SUBSET Slots) \ {{}} : Release(w, S)
      PROVE  Typed' /\ Shrinks
  <2>1. "wake" \in Steps \ {"join"}
    BY DEF Steps
  <2>2. /\ task' = [v \in Workers |-> task'[v]]
        /\ \A v \in Workers : Joinable(task'[v])
        /\ Joining' = Joining \ {w}
    BY <1>2, <2>1, SetSweeper DEF ClearDue, Release
  <2>3. entry' = entry
    BY <1>2 DEF ClearDue, Release
  <2> QED
    BY <2>2, <2>3, SameActive DEF Typed, Shrinks
<1>3. ASSUME NEW e \in Entries, OptOut(e)
      PROVE  Typed' /\ Shrinks
  BY <1>3 DEF OptOut, Exists, Typed, EntryRow, Waiting, Active, Joining, In, Shrinks
<1>4. ASSUME NEW s \in Slots, Book(s) \/ Close(s) \/ Open(s)
      PROVE  Typed' /\ Shrinks
  BY <1>4 DEF Book, Close, Open, Typed, Active, Joining, In, Shrinks
<1>5. CASE UNCHANGED vars
  BY <1>5 DEF vars, Typed, Active, Joining, In, Shrinks
<1> QED
  BY <1>1, <1>2, <1>3, <1>4, <1>5, WorkStep DEF Next

(* The depth check, made without a lock, lets the queue grow past the depth *)
(* by no more than the number of other requests in progress.                *)
THEOREM DepthCorrect == Workers # {} => (Spec => []DepthBound)
<1> SUFFICES ASSUME Workers # {} PROVE Spec => []DepthBound
  OBVIOUS
<1>1. Init => Typed /\ DepthBound
  <2> SUFFICES ASSUME Init PROVE DepthBound
    BY TypedInit
  <2>1. Active = {} /\ Joining = {}
    BY DEF Init, Active, Joining, In, Idle, Sweeper
  <2>2. Cardinality(Workers) \in Nat \ {0}
    BY WaitlistAssumption, FS_CardinalityType, FS_EmptySet
  <2> QED
    BY <2>1, <2>2, WaitlistAssumption, FS_EmptySet DEF DepthBound
<1>2. Typed /\ DepthBound /\ [Next]_vars => Typed' /\ DepthBound'
  BY NextStep, BoundStep
<1> QED
  BY <1>1, <1>2, PTL DEF Spec

(* A slot is given to a waiting user only while it is free: the list of     *)
(* slots a sweep read at its start may be out of date, the slots are locked *)
(* and looked at again for each booking.                                    *)
THEOREM PromotionSafe == Spec => PromotionTakesFree
<1> DEFINE Taken == \A s \in Slots : holder'[s] \in Users /\ holder'[s] # holder[s] => holder[s] = Free
<1>1. Init => holder = [s \in Slots |-> holder[s]]
  BY DEF Init
<1>2. holder = [s \in Slots |-> holder[s]] /\ [Next]_vars
        => (holder = [s \in Slots |-> holder[s]])' /\ Taken
  <2> SUFFICES ASSUME holder = [s \in Slots |-> holder[s]], [Next]_vars
               PROVE  (holder = [s \in Slots |-> holder[s]])' /\ Taken
    OBVIOUS
  <2>1. ASSUME NEW w \in Workers, Promote(w)
        PROVE  (holder = [s \in Slots |-> holder[s]])' /\ Taken
    BY <2>1 DEF Promote
  <2>2. ASSUME NEW w \in Workers, NEW S \in SUBSET Slots, Release(w, S)
        PROVE  (holder = [s \in Slots |-> holder[s]])' /\ Taken
    BY <2>2, WaitlistAssumption DEF Release
  <2>3. ASSUME NEW s \in Slots, Book(s) \/ Close(s) \/ Open(s)
        PROVE  (holder = [x \in Slots |-> holder[x]])' /\ Taken
    BY <2>3, WaitlistAssumption DEF Book, Close, Open
  <2>4. CASE holder' = holder
    BY <2>4
  <2>5. ASSUME NEW w \in Workers, Work(w)
        PROVE  Promote(w) \/ holder' = holder
    BY <2>5 DEF Work, Create, Rejoin, GiveUp, SweepLoad, ShortNotice, Refuse, PassOver,
                MarkRefused, DeleteProcessed, Clear
  <2> QED
    BY <2>1, <2>2, <2>3, <2>4, <2>5 DEF Next, vars, JoinLoad, ClearDue, OptOut
<1> QED
  BY <1>1, <1>2, PTL DEF Spec, PromotionTakesFree

-----------------------------------------------------------------------------
(* Who has served a row, and who will still look at it. *)

Served(e) == {w \in Workers : e \in task[w].processed}

Listed(e) == {w \in Workers : e \in Elems(task[w].todo)}

(* A sweep looks at each row once, and at none that does not exist yet.     *)
Swept(k, rows) ==
  /\ k.step = "join" => k.user \in Users
  /\ k.step \notin {"sweep", "marked"} => k.processed = {}
  /\ k.step # "sweep" => k.todo = <<>>
  /\ Distinct(k.todo) /\ Elems(k.todo) \cap k.processed = {}
  /\ \A e \in Elems(k.todo) \cup k.processed : rows[e].status # "NEW"

(* A row that exists has got no more bookings than sweeps under way have    *)
(* made for it; and whether it exists or not, those still to come are from  *)
(* the sweeps that have it on their list.                                   *)
Counted(e) ==
  /\ Exists(e) => promoted[e] <= Cardinality(Served(e))
  /\ promoted[e] + Cardinality(Listed(e)) <= Cardinality(Workers)
  /\ entry[e].status = "NEW" => promoted[e] = 0

(* Two rows that exist are of two users. *)
UniqueRows ==
  \A e, f \in Entries : Exists(e) /\ Exists(f) /\ entry[e].user = entry[f].user => e = f

OwnerKnown == \A e \in Entries : entry[e].status # "NEW" => entry[e].user \in Users

ServedInv ==
  /\ TypeOK
  /\ \A w \in Workers : Swept(task[w], entry)
  /\ \A e \in Entries : Counted(e)
  /\ UniqueRows
  /\ OwnerKnown

-----------------------------------------------------------------------------
(* Types *)

QueueOK == queue \in Seq(Entries) /\ Distinct(queue) /\ Elems(queue) = {e \in Entries : Exists(e)}

Shaped ==
  /\ entry \in [Entries -> EntryRow] /\ QueueOK
  /\ holder \in [Slots -> Users \cup {Free, Shut, Outsider}] /\ released \subseteq Slots
  /\ promoted \in [Entries -> Nat] /\ task \in [Workers -> Task]

LEMMA Types == (TypeOK <=> Shaped) /\ (TypeOK' <=> Shaped')
BY DEF TypeOK, Shaped, EntryRow, QueueOK, Distinct, Elems

LEMMA SweeperType ==
  ASSUME NEW step \in Steps, NEW todo \in Seq(Entries), NEW slots \in SUBSET Slots,
         NEW processed \in SUBSET Entries, NEW failed \in SUBSET Entries, NEW clears \in BOOLEAN
  PROVE  Sweeper(step, todo, slots, processed, failed, clears) \in Task
BY DEF Sweeper, Task

LEMMA IdleType == Idle \in Task
<1>1. <<>> \in Seq(Entries) /\ "idle" \in Steps
  BY DEF Steps
<1> QED
  BY <1>1, SweeperType DEF Idle

LEMMA JoinerType ==
  ASSUME NEW u \in Users, NEW own \in Entries \cup {NoEntry}
  PROVE  Joiner(u, own) \in Task
<1>1. <<>> \in Seq(Entries)
  OBVIOUS
<1> QED
  BY <1>1 DEF Joiner, Task, Steps

(* A step of w gives its task the value t and leaves the others alone.      *)
LEMMA TaskStep ==
  ASSUME task \in [Workers -> Task], NEW w \in Workers, NEW t \in Task, Set(w, t)
  PROVE  /\ task' \in [Workers -> Task] /\ task'[w] = t
         /\ \A v \in Workers \ {w} : task'[v] = task[v]
         /\ \A e : /\ Served(e)' = {v \in Workers : IF v = w THEN e \in t.processed
                                                             ELSE v \in Served(e)}
                   /\ Listed(e)' = {v \in Workers : IF v = w THEN e \in Elems(t.todo)
                                                             ELSE v \in Listed(e)}
<1>1. /\ task' \in [Workers -> Task] /\ task'[w] = t
      /\ \A v \in Workers \ {w} : task'[v] = task[v]
  BY DEF Set
<1> QED
  BY <1>1 DEF Served, Listed

(* Rows stay rows, and no row is new again. *)
RowsGrow == \A e \in Entries : entry'[e].status = "NEW" => entry[e].status = "NEW"

(* If the sweep of w keeps to its lists, every sweep does. *)
LEMMA SweptStep ==
  ASSUME task \in [Workers -> Task], NEW w \in Workers, NEW t \in Task, Set(w, t), RowsGrow,
         \A v \in Workers : Swept(task[v], entry), Swept(t, entry')
  PROVE  \A v \in Workers : Swept(task'[v], entry')
<1>1. task'[w] = t
  BY TaskStep
<1> SUFFICES ASSUME NEW v \in Workers, v # w PROVE Swept(task'[v], entry')
  BY <1>1
<1>2. task'[v] = task[v]
  BY TaskStep
<1>3. Swept(task[v], entry)
  OBVIOUS
<1>4. Elems(task[v].todo) \subseteq Entries /\ task[v].processed \subseteq Entries
  <2>1. task[v] \in Task
    OBVIOUS
  <2>2. task[v].todo \in Seq(Entries) /\ task[v].processed \subseteq Entries
    BY <2>1 DEF Task
  <2> QED
    BY <2>2, ElementOfSeq DEF Elems
<1> QED
  BY <1>2, <1>3, <1>4 DEF Swept, RowsGrow

LEMMA SweptSweeper ==
  ASSUME NEW step \in Steps \ {"join"}, NEW todo, NEW slots, NEW processed, NEW failed,
         NEW clears, NEW rows,
         step \notin {"sweep", "marked"} => processed = {},
         step # "sweep" => todo = <<>>,
         Distinct(todo), Elems(todo) \cap processed = {},
         \A e \in Elems(todo) \cup processed : rows[e].status # "NEW"
  PROVE  Swept(Sweeper(step, todo, slots, processed, failed, clears), rows)
BY DEF Swept, Sweeper

LEMMA SweptIdle == ASSUME NEW rows PROVE Swept(Idle, rows)
<1>1. "idle" \in Steps \ {"join"}
  BY DEF Steps
<1> QED
  BY <1>1, SweptSweeper, EmptyElems DEF Idle

-----------------------------------------------------------------------------
(* The bookings made for one row. *)

LEMMA CountTypes ==
  ASSUME TypeOK, TypeOK'
  PROVE  /\ Cardinality(Workers) \in Nat
         /\ \A e \in Entries :
              /\ promoted[e] \in Nat /\ promoted'[e] \in Nat
              /\ IsFiniteSet(Served(e)) /\ IsFiniteSet(Listed(e))
              /\ IsFiniteSet(Served(e)') /\ IsFiniteSet(Listed(e)')
              /\ Cardinality(Served(e)) \in Nat /\ Cardinality(Served(e)') \in Nat
              /\ Cardinality(Listed(e)) \in Nat /\ Cardinality(Listed(e)') \in Nat
<1>1. promoted \in [Entries -> Nat] /\ promoted' \in [Entries -> Nat]
  BY DEF TypeOK
<1>2. \A e : /\ Served(e) \subseteq Workers /\ Listed(e) \subseteq Workers
             /\ Served(e)' \subseteq Workers /\ Listed(e)' \subseteq Workers
  BY DEF Served, Listed
<1> QED
  BY <1>1, <1>2, WaitlistAssumption, FS_Subset, FS_CardinalityType

(* A step that makes no booking for e and puts it on no list.               *)
Quiet(e) ==
  /\ promoted'[e] = promoted[e] /\ Listed(e)' \subseteq Listed(e)
  /\ entry'[e].status = "NEW" => entry[e].status = "NEW"
  /\ Exists(e)' => \/ Exists(e) /\ Served(e) \subseteq Served(e)'
                   \/ entry[e].status = "NEW"

LEMMA CountQuiet ==
  ASSUME TypeOK, TypeOK', NEW e \in Entries, Counted(e), Quiet(e)
  PROVE  Counted(e)'
<1>1. Cardinality(Listed(e)') <= Cardinality(Listed(e))
  BY CountTypes, FS_Subset DEF Quiet
<1>2. promoted'[e] + Cardinality(Listed(e)') <= Cardinality(Workers)
  BY <1>1, CountTypes DEF Quiet, Counted
<1>3. Exists(e)' => promoted'[e] <= Cardinality(Served(e)')
  <2> SUFFICES ASSUME Exists(e)' PROVE promoted'[e] <= Cardinality(Served(e)')
    OBVIOUS
  <2>1. CASE Exists(e) /\ Served(e) \subseteq Served(e)'
    <3>1. Cardinality(Served(e)) <= Cardinality(Served(e)')
      BY <2>1, CountTypes, FS_Subset
    <3> QED
      BY <2>1, <3>1, CountTypes DEF Quiet, Counted
  <2>2. CASE entry[e].status = "NEW"
    BY <2>2, CountTypes DEF Quiet, Counted
  <2> QED
    BY <2>1, <2>2 DEF Quiet
<1> QED
  BY <1>2, <1>3 DEF Quiet, Counted

(* A sweep that has not served e puts it on its list.                       *)
LEMMA CountListed ==
  ASSUME TypeOK, TypeOK', NEW e \in Entries, Counted(e), Exists(e),
         entry' = entry, promoted' = promoted, Served(e)' = Served(e),
         Listed(e)' \cap Served(e) = {}
  PROVE  Counted(e)'
<1>1. Exists(e)' <=> Exists(e)
  BY DEF Exists
<1>2. Cardinality(Served(e) \cup Listed(e)') = Cardinality(Served(e)) + Cardinality(Listed(e)')
  <2>1. Served(e) \cap Listed(e)' = {} /\ Cardinality({}) = 0
    BY FS_EmptySet
  <2>2. Cardinality(Served(e) \cup Listed(e)')
          = Cardinality(Served(e)) + Cardinality(Listed(e)') - Cardinality(Served(e) \cap Listed(e)')
    BY CountTypes, FS_Union
  <2>3. Cardinality(Served(e) \cap Listed(e)') = 0
    BY <2>1
  <2>4. Cardinality(Served(e)) \in Nat /\ Cardinality(Listed(e)') \in Nat
    BY CountTypes
  <2> QED
    BY <2>2, <2>3, <2>4
<1>3. Cardinality(Served(e) \cup Listed(e)') <= Cardinality(Workers)
  <2>1. Served(e) \cup Listed(e)' \subseteq Workers
    BY DEF Served, Listed
  <2> QED
    BY <2>1, WaitlistAssumption, FS_Subset
<1>4. promoted[e] + Cardinality(Listed(e)') <= Cardinality(Workers)
  BY <1>2, <1>3, CountTypes DEF Counted
<1> QED
  BY <1>1, <1>4 DEF Counted

(* A sweep serves e and takes it off its list.                              *)
LEMMA CountServed ==
  ASSUME TypeOK, TypeOK', NEW e \in Entries, Counted(e), NEW w \in Workers,
         entry' = entry, promoted'[e] = promoted[e] + 1, entry[e].status # "NEW",
         w \in Listed(e), w \notin Served(e),
         Listed(e)' = Listed(e) \ {w}, Served(e)' = Served(e) \cup {w}
  PROVE  Counted(e)'
<1>1. Exists(e)' <=> Exists(e)
  BY DEF Exists
<1>2. Cardinality(Listed(e)') = Cardinality(Listed(e)) - 1
  BY ZenonT(90), CountTypes, FS_RemoveElement
<1>3. Cardinality(Served(e)') = Cardinality(Served(e)) + 1
  BY CountTypes, FS_AddElement
<1> QED
  BY <1>1, <1>2, <1>3, CountTypes DEF Counted

(* What the row of each status and the queue make of a step of w.           *)
LEMMA TaskQuiet ==
  ASSUME TypeOK, NEW w \in Workers, NEW t \in Task, Set(w, t), promoted' = promoted, RowsGrow,
         Elems(t.todo) \subseteq Elems(task[w].todo),
         \A e \in Entries :
           Exists(e)' => \/ Exists(e) /\ (e \in task[w].processed => e \in t.processed)
                         \/ entry[e].status = "NEW"
  PROVE  \A e \in Entries : Quiet(e)
<1> SUFFICES ASSUME NEW e \in Entries PROVE Quiet(e)
  OBVIOUS
<1>1. /\ Served(e)' = {v \in Workers : IF v = w THEN e \in t.processed ELSE v \in Served(e)}
      /\ Listed(e)' = {v \in Workers : IF v = w THEN e \in Elems(t.todo) ELSE v \in Listed(e)}
  BY TaskStep DEF TypeOK
<1>2. Listed(e)' \subseteq Listed(e)
  BY <1>1 DEF Listed
<1>3. (e \in task[w].processed => e \in t.processed) => Served(e) \subseteq Served(e)'
  BY <1>1 DEF Served
<1> QED
  BY <1>2, <1>3 DEF Quiet, RowsGrow

LEMMA AllCounted ==
  ASSUME ServedInv, TypeOK', \A e \in Entries : Quiet(e)
  PROVE  \A e \in Entries : Counted(e)'
BY CountQuiet DEF ServedInv

(* A step that leaves the rows alone. *)
LEMMA SameRows ==
  ASSUME ServedInv, entry' = entry, queue' = queue,
         NEW w \in Workers, NEW t \in Task, Set(w, t), Swept(t, entry),
         holder' \in [Slots -> Users \cup {Free, Shut, Outsider}], released' \subseteq Slots,
         promoted' \in [Entries -> Nat]
  PROVE  /\ TypeOK' /\ UniqueRows' /\ OwnerKnown' /\ RowsGrow
         /\ \A v \in Workers : Swept(task[v], entry)'
<1>1. TypeOK /\ task \in [Workers -> Task] /\ RowsGrow
  BY DEF ServedInv, TypeOK, RowsGrow
<1>2. \A v \in Workers : Swept(task'[v], entry')
  BY <1>1, SweptStep DEF ServedInv
<1>3. TypeOK'
  BY <1>1, TaskStep DEF TypeOK, Exists
<1>4. UniqueRows' /\ OwnerKnown'
  BY DEF ServedInv, UniqueRows, OwnerKnown, Exists
<1> QED
  BY <1>1, <1>2, <1>3, <1>4

(* A step that leaves the rows alone and serves nobody.                     *)
LEMMA PlainStep ==
  ASSUME ServedInv, entry' = entry, queue' = queue, promoted' = promoted,
         NEW w \in Workers, NEW t \in Task, Set(w, t), Swept(t, entry),
         holder' \in [Slots -> Users \cup {Free, Shut, Outsider}], released' \subseteq Slots,
         task[w].processed \subseteq t.processed, Elems(t.todo) \subseteq Elems(task[w].todo)
  PROVE  ServedInv'
<1>1. TypeOK /\ promoted' \in [Entries -> Nat]
  BY DEF ServedInv, TypeOK
<1>2. TypeOK' /\ UniqueRows' /\ OwnerKnown' /\ RowsGrow /\ \A v \in Workers : Swept(task[v], entry)'
  BY <1>1, SameRows
<1>3. \A e \in Entries : Exists(e)' => Exists(e)
  BY DEF Exists
<1>4. \A e \in Entries : Quiet(e)
  BY <1>1, <1>2, <1>3, TaskQuiet
<1> QED
  BY <1>2, <1>4, AllCounted DEF ServedInv

LEMMA TaskFields ==
  ASSUME ServedInv, NEW w \in Workers
  PROVE  /\ TypeOK /\ task[w] \in Task /\ Swept(task[w], entry)
         /\ task[w].user \in Users \cup {Nobody} /\ task[w].own \in Entries \cup {NoEntry}
         /\ task[w].todo \in Seq(Entries) /\ task[w].slots \in SUBSET Slots
         /\ task[w].processed \in SUBSET Entries /\ task[w].failed \in SUBSET Entries
         /\ task[w].clears \in BOOLEAN
         /\ ~In(w, "sweep") /\ ~In(w, "marked") => task[w].processed = {}
         /\ ~In(w, "sweep") => task[w].todo = <<>>
BY DEF ServedInv, TypeOK, Task, Swept, In

LEMMA QuietSteps ==
  ASSUME ServedInv, NEW w \in Workers,
         \/ GiveUp(w) \/ ShortNotice(w) \/ ClearDue(w) \/ Refuse(w) \/ PassOver(w)
         \/ \E u \in Users : JoinLoad(w, u)
         \/ \E S \in SUBSET Slots : Release(w, S)
  PROVE  ServedInv'
<1> DEFINE k == task[w]
<1>0. /\ TypeOK /\ k \in Task /\ Swept(k, entry)
      /\ k.todo \in Seq(Entries) /\ k.slots \in SUBSET Slots
      /\ k.processed \in SUBSET Entries /\ k.failed \in SUBSET Entries
      /\ k.clears \in BOOLEAN
      /\ ~In(w, "sweep") /\ ~In(w, "marked") => k.processed = {}
      /\ ~In(w, "sweep") => k.todo = <<>>
  BY TaskFields
<1>1. /\ holder \in [Slots -> Users \cup {Free, Shut, Outsider}] /\ released \in SUBSET Slots
  BY <1>0 DEF TypeOK
<1>2. {} \in SUBSET Slots /\ {} \in SUBSET Entries /\ <<>> \in Seq(Entries)
      /\ "wake" \in Steps \ {"join"} /\ "sweep" \in Steps \ {"join"} /\ "idle" \in Steps \ {"join"}
  BY DEF Steps
<1>3. In(w, "idle") \/ In(w, "join") \/ In(w, "wake") => k.processed = {} /\ k.todo = <<>>
  BY <1>0 DEF In
<1> DEFINE holders == Users \cup {Free, Shut, Outsider}
<1>4. CASE GiveUp(w) \/ ShortNotice(w)
  <2>1. /\ Set(w, Idle) /\ entry' = entry /\ queue' = queue /\ promoted' = promoted
        /\ holder' = holder /\ released' = released
        /\ k.processed = {} /\ k.todo = <<>>
    BY <1>3, <1>4 DEF GiveUp, ShortNotice
  <2>2. Idle.todo = <<>> /\ Idle.processed = {}
    BY DEF Idle, Sweeper
  <2> QED
    BY <1>1, <2>1, <2>2, IdleType, SweptIdle, PlainStep
<1>5. CASE ClearDue(w) \/ \E S \in SUBSET Slots : Release(w, S)
  <2>1. PICK S \in SUBSET Slots, b \in BOOLEAN : Set(w, Sweeper("wake", <<>>, S, {}, {}, b))
    <3>1. CASE ClearDue(w)
      BY <3>1 DEF ClearDue
    <3>2. CASE \E S \in SUBSET Slots : Release(w, S)
      BY <3>2 DEF Release
    <3> QED
      BY <1>5, <3>1, <3>2
  <2> DEFINE t == Sweeper("wake", <<>>, S, {}, {}, b)
  <2>2. t \in Task
    BY <1>2, SweeperType
  <2>3. Swept(t, entry)
    BY <1>2, SweptSweeper, EmptyElems
  <2>4. t.todo = <<>> /\ t.processed = {}
    BY DEF Sweeper
  <2>5. entry' = entry /\ queue' = queue /\ promoted' = promoted /\ k.processed = {} /\ k.todo = <<>>
    BY <1>3, <1>5 DEF ClearDue, Release
  <2>6. holder' \in [Slots -> holders] /\ released' \subseteq Slots
    BY <1>1, <1>5 DEF ClearDue, Release
  <2> HIDE DEF t
  <2> QED
    BY <2>1, <2>2, <2>3, <2>4, <2>5, <2>6, PlainStep DEF t
<1>6. CASE \E u \in Users : JoinLoad(w, u)
  <2>1. PICK u \in Users : JoinLoad(w, u)
    BY <1>6
  <2>2. PICK own \in Entries \cup {NoEntry} : Set(w, Joiner(u, own))
    BY <2>1 DEF JoinLoad, OwnRows
  <2> DEFINE t == Joiner(u, own)
  <2>3. t \in Task /\ t.todo = <<>> /\ t.processed = {}
    BY JoinerType DEF Joiner
  <2>4. Swept(t, entry)
    BY EmptyElems DEF Swept, Joiner
  <2>5. /\ entry' = entry /\ queue' = queue /\ promoted' = promoted
        /\ holder' = holder /\ released' = released
        /\ k.processed = {} /\ k.todo = <<>>
    BY <1>3, <2>1 DEF JoinLoad
  <2> HIDE DEF t
  <2> QED
    BY <1>1, <2>2, <2>3, <2>4, <2>5, PlainStep DEF t
<1>7. CASE Refuse(w) \/ PassOver(w)
  <2>1. /\ In(w, "sweep") /\ k.todo # <<>> /\ entry' = entry /\ queue' = queue
        /\ promoted' = promoted /\ holder' = holder /\ released' = released
    BY <1>7 DEF Refuse, PassOver
  <2>2. /\ Head(k.todo) \in Entries /\ Tail(k.todo) \in Seq(Entries)
        /\ Elems(k.todo) = {Head(k.todo)} \cup Elems(Tail(k.todo))
        /\ Distinct(k.todo) => Distinct(Tail(k.todo))
    BY <1>0, <2>1, TailElems
  <2>3. PICK failed \in SUBSET Entries :
          Set(w, Sweeper("sweep", Tail(k.todo), k.slots, k.processed, failed, k.clears))
    <3>1. k.failed \in SUBSET Entries /\ k.failed \cup {Head(k.todo)} \in SUBSET Entries
      BY <1>0, <2>2
    <3> QED
      BY <1>7, <3>1 DEF Refuse, PassOver
  <2> DEFINE t == Sweeper("sweep", Tail(k.todo), k.slots, k.processed, failed, k.clears)
  <2>4. t \in Task
    BY <1>0, <1>2, <2>2, SweeperType
  <2>5. t.todo = Tail(k.todo) /\ t.processed = k.processed
    BY DEF Sweeper
  <2>6. /\ Distinct(k.todo) /\ Elems(k.todo) \cap k.processed = {}
        /\ \A e \in Elems(k.todo) \cup k.processed : entry[e].status # "NEW"
    BY <1>0 DEF Swept
  <2>7. Swept(t, entry)
    BY <1>2, <2>2, <2>6, SweptSweeper
  <2> HIDE DEF t
  <2> QED
    BY <1>1, <2>1, <2>2, <2>3, <2>4, <2>5, <2>7, PlainStep DEF t
<1> QED
  BY <1>4, <1>5, <1>6, <1>7

LEMMA ActiveElems ==
  ASSUME TypeOK
  PROVE  ActiveQueue \in Seq(Entries) /\ Elems(ActiveQueue) = Active /\ Distinct(ActiveQueue)
<1>1. QueueOK
  BY Types DEF Shaped
<1>2. /\ Kept(queue, Active) \in Seq(Entries) /\ Elems(Kept(queue, Active)) = Elems(queue) \cap Active
      /\ Distinct(queue) => Distinct(Kept(queue, Active))
  BY <1>1, KeptElems DEF QueueOK
<1>3. Active \subseteq {e \in Entries : Exists(e)}
  BY DEF Active, Exists, Waiting
<1> QED
  BY <1>1, <1>2, <1>3 DEF QueueOK, ActiveQueue

LEMMA LoadStep ==
  ASSUME ServedInv, NEW w \in Workers, SweepLoad(w)
  PROVE  ServedInv'
<1> DEFINE offered == {s \in task[w].slots \cap released : holder[s] = Free}
           t == Sweeper("sweep", ActiveQueue, offered, {}, {}, task[w].clears)
<1>0. /\ TypeOK /\ task[w].slots \in SUBSET Slots /\ task[w].clears \in BOOLEAN
      /\ task[w].processed = {} /\ task[w].todo = <<>>
  BY TaskFields DEF SweepLoad, In
<1>1. /\ Set(w, t) /\ entry' = entry /\ queue' = queue /\ holder' = holder
      /\ released' = released /\ promoted' = promoted
  BY DEF SweepLoad
<1>2. ActiveQueue \in Seq(Entries) /\ Elems(ActiveQueue) = Active /\ Distinct(ActiveQueue)
  BY <1>0, ActiveElems
<1>3. t \in Task
  <2>1. offered \in SUBSET Slots /\ {} \in SUBSET Entries /\ "sweep" \in Steps
    BY <1>0 DEF Steps
  <2> HIDE DEF offered
  <2> QED
    BY <1>0, <1>2, <2>1, SweeperType
<1>4. t.todo = ActiveQueue /\ t.processed = {}
  BY DEF Sweeper
<1>5. Swept(t, entry)
  <2>1. \A e \in Active : entry[e].status # "NEW"
    BY DEF Active
  <2>2. "sweep" \in Steps \ {"join"}
    BY DEF Steps
  <2> HIDE DEF offered
  <2> QED
    BY <1>2, <2>1, <2>2, SweptSweeper
<1> HIDE DEF t
<1>6. /\ TypeOK' /\ UniqueRows' /\ OwnerKnown'
      /\ \A v \in Workers : Swept(task[v], entry)'
  <2>1. /\ holder \in [Slots -> Users \cup {Free, Shut, Outsider}] /\ released \subseteq Slots
        /\ promoted \in [Entries -> Nat]
    BY <1>0 DEF TypeOK
  <2> QED
    BY <1>1, <1>3, <1>5, <2>1, SameRows
<1>7. ASSUME NEW e \in Entries PROVE Counted(e)'
  <2>0. Counted(e)
    BY DEF ServedInv
  <2>1. /\ Served(e)' = {v \in Workers : IF v = w THEN e \in t.processed ELSE v \in Served(e)}
        /\ Listed(e)' = {v \in Workers : IF v = w THEN e \in Elems(t.todo) ELSE v \in Listed(e)}
    BY <1>0, <1>1, <1>3, TaskStep DEF TypeOK
  <2>2. Served(e)' = Served(e)
    BY <1>0, <1>4, <2>1 DEF Served
  <2>3. CASE e \in Active
    <3>1. Exists(e)
      BY <2>3 DEF Active, Exists, Waiting
    <3>2. ASSUME NEW v \in Workers, v \in Listed(e)', v \in Served(e) PROVE FALSE
      <4>1. CASE v = w
        BY <1>0, <3>2, <4>1 DEF Served
      <4>2. CASE v # w
        <5>1. v \in Listed(e)
          BY <2>1, <3>2, <4>2
        <5>2. Elems(task[v].todo) \cap task[v].processed = {}
          BY DEF ServedInv, Swept
        <5> QED
          BY <3>2, <5>1, <5>2 DEF Listed, Served
      <4> QED
        BY <4>1, <4>2
    <3>3. Listed(e)' \cap Served(e) = {}
      BY <3>2 DEF Served
    <3> QED
      BY <1>0, <1>1, <1>6, <2>0, <2>2, <3>1, <3>3, CountListed
  <2>4. CASE e \notin Active
    <3>1. Listed(e)' \subseteq Listed(e)
      BY <1>2, <1>4, <2>1, <2>4
    <3>2. Quiet(e)
      BY <1>1, <2>2, <3>1 DEF Quiet, Exists
    <3> QED
      BY <1>0, <1>6, <2>0, <3>2, CountQuiet
  <2> QED
    BY <2>3, <2>4
<1> QED
  BY <1>6, <1>7 DEF ServedInv

LEMMA PromoteStep ==
  ASSUME ServedInv, NEW w \in Workers, Promote(w)
  PROVE  ServedInv'
<1> DEFINE k == task[w]
           e == Head(k.todo)
<1>0. /\ TypeOK /\ Swept(k, entry) /\ OwnerKnown
      /\ k.todo \in Seq(Entries) /\ k.slots \in SUBSET Slots
      /\ k.processed \in SUBSET Entries /\ k.failed \in SUBSET Entries /\ k.clears \in BOOLEAN
  BY TaskFields DEF ServedInv
<1>1. PICK S \in (SUBSET k.slots) \ {{}} :
        /\ holder' = [s \in Slots |-> IF s \in S THEN entry[e].user ELSE holder[s]]
        /\ released' = released \ S
        /\ promoted' = [promoted EXCEPT ![e] = @ + 1]
        /\ Set(w, Sweeper("sweep", Tail(k.todo), k.slots \ S, k.processed \cup {e},
                          k.failed, k.clears))
  BY DEF Promote
<1>2. k.todo # <<>> /\ entry' = entry /\ queue' = queue
  BY DEF Promote
<1> DEFINE t == Sweeper("sweep", Tail(k.todo), k.slots \ S, k.processed \cup {e},
                        k.failed, k.clears)
<1>3. /\ e \in Entries /\ Tail(k.todo) \in Seq(Entries)
      /\ Elems(k.todo) = {e} \cup Elems(Tail(k.todo))
      /\ Distinct(k.todo) => Distinct(Tail(k.todo)) /\ e \notin Elems(Tail(k.todo))
  BY <1>0, <1>2, TailElems
<1>4. /\ Distinct(k.todo) /\ Elems(k.todo) \cap k.processed = {}
      /\ \A f \in Elems(k.todo) \cup k.processed : entry[f].status # "NEW"
  BY <1>0 DEF Swept
<1>5. "sweep" \in Steps \ {"join"}
  BY DEF Steps
<1> HIDE DEF e
<1>6. t \in Task
  <2>1. k.slots \ S \in SUBSET Slots /\ k.processed \cup {e} \in SUBSET Entries
    BY <1>0, <1>3
  <2> QED
    BY <1>0, <1>3, <1>5, <2>1, SweeperType
<1>7. Swept(t, entry)
  <2>1. Elems(Tail(k.todo)) \cap (k.processed \cup {e}) = {}
    BY <1>3, <1>4
  <2>2. \A f \in Elems(Tail(k.todo)) \cup (k.processed \cup {e}) : entry[f].status # "NEW"
    BY <1>3, <1>4
  <2> QED
    BY <1>3, <1>4, <1>5, <2>1, <2>2, SweptSweeper
<1>8. t.todo = Tail(k.todo) /\ t.processed = k.processed \cup {e}
  BY DEF Sweeper
<1>9. Set(w, t)
  BY <1>1
<1> HIDE DEF t
<1>10. /\ TypeOK' /\ UniqueRows' /\ OwnerKnown'
       /\ \A v \in Workers : Swept(task[v], entry)'
  <2>1. entry[e].user \in Users
    BY <1>0, <1>3, <1>4 DEF OwnerKnown
  <2>2. holder' \in [Slots -> Users \cup {Free, Shut, Outsider}] /\ released' \subseteq Slots
    BY <1>0, <1>1, <2>1 DEF TypeOK
  <2>3. promoted' \in [Entries -> Nat]
    BY <1>0, <1>1, <1>3 DEF TypeOK
  <2> QED
    BY <1>2, <1>6, <1>7, <1>9, <2>2, <2>3, SameRows
<1>11. ASSUME NEW f \in Entries PROVE Counted(f)'
  <2>0. Counted(f)
    BY DEF ServedInv
  <2>1. /\ Served(f)' = {v \in Workers : IF v = w THEN f \in t.processed ELSE v \in Served(f)}
        /\ Listed(f)' = {v \in Workers : IF v = w THEN f \in Elems(t.todo) ELSE v \in Listed(f)}
    BY <1>0, <1>6, <1>9, TaskStep DEF TypeOK
  <2>2. CASE f = e
    <3>1. promoted'[f] = promoted[f] + 1 /\ entry[f].status # "NEW"
      BY <1>0, <1>1, <1>3, <1>4, <2>2 DEF TypeOK
    <3>2. w \in Listed(f) /\ w \notin Served(f)
      BY <1>3, <1>4, <2>2 DEF Listed, Served
    <3>3. f \notin Elems(t.todo) /\ f \in t.processed
      BY <1>3, <1>4, <1>8, <2>2
    <3>4. Listed(f) \subseteq Workers /\ Served(f) \subseteq Workers
      BY DEF Listed, Served
    <3>5. Listed(f)' = Listed(f) \ {w} /\ Served(f)' = Served(f) \cup {w}
      BY <2>1, <3>3, <3>4
    <3> QED
      BY <1>0, <1>2, <1>10, <2>0, <3>1, <3>2, <3>5, CountServed
  <2>3. CASE f # e
    <3>1. promoted'[f] = promoted[f]
      BY <1>0, <1>1, <2>3 DEF TypeOK
    <3>2. Listed(f)' \subseteq Listed(f) /\ Served(f) \subseteq Served(f)'
      BY <1>3, <1>8, <2>1, <2>3 DEF Listed, Served
    <3>3. Quiet(f)
      BY <1>2, <3>1, <3>2 DEF Quiet, Exists
    <3> QED
      BY <1>0, <1>10, <2>0, <3>3, CountQuiet
  <2> QED
    BY <2>2, <2>3
<1> QED
  BY <1>10, <1>11 DEF ServedInv

(* A step of w that writes rows: what is left to show of it.                *)
LEMMA RowStep ==
  ASSUME ServedInv, NEW w \in Workers, NEW t \in Task, Set(w, t), Swept(t, entry'),
         entry' \in [Entries -> EntryRow], QueueOK', RowsGrow, UniqueRows', OwnerKnown',
         holder' = holder, released' = released, promoted' = promoted,
         t.todo = <<>>,
         \A e \in Entries :
           Exists(e)' => \/ Exists(e) /\ (e \in task[w].processed => e \in t.processed)
                         \/ entry[e].status = "NEW"
  PROVE  ServedInv'
<1>1. TypeOK
  BY DEF ServedInv
<1>2. TypeOK'
  <2>1. Shaped
    BY <1>1, Types
  <2>2. Shaped'
    BY <2>1, TaskStep DEF Shaped
  <2> QED
    BY <2>2, Types
<1>3. \A v \in Workers : Swept(task[v], entry)'
  BY <1>1, SweptStep DEF ServedInv, TypeOK
<1>4. Elems(t.todo) \subseteq Elems(task[w].todo)
  BY EmptyElems
<1>5. \A e \in Entries : Quiet(e)
  BY <1>1, <1>4, TaskQuiet
<1> QED
  BY <1>2, <1>3, <1>5, AllCounted DEF ServedInv

LEMMA CreateStep ==
  ASSUME ServedInv, NEW w \in Workers, Create(w)
  PROVE  ServedInv'
<1>0. TypeOK /\ task[w].user \in Users /\ task[w].processed = {} /\ UniqueRows /\ OwnerKnown
      /\ entry \in [Entries -> EntryRow]
  BY TaskFields, Types DEF Shaped, ServedInv, Create, Swept, In
<1>1. PICK e \in Entries :
        /\ entry[e].status = "NEW"
        /\ entry' = [entry EXCEPT ![e] = [user |-> task[w].user, status |-> "ACTIVE"]]
        /\ queue' = Append(queue, e)
  BY DEF Create
<1>2. OwnRows(task[w].user) = {} /\ Set(w, Idle)
      /\ holder' = holder /\ released' = released /\ promoted' = promoted
  BY DEF Create
<1>3. /\ entry'[e] = [user |-> task[w].user, status |-> "ACTIVE"]
      /\ \A f \in Entries \ {e} : entry'[f] = entry[f]
      /\ entry' \in [Entries -> EntryRow]
  BY <1>0, <1>1 DEF EntryRow, Waiting
<1>4. RowsGrow
  BY <1>1, <1>3 DEF RowsGrow
<1>5. ~Exists(e) /\ Exists(e)' /\ \A f \in Entries \ {e} : Exists(f)' <=> Exists(f)
  BY <1>1, <1>3 DEF Exists, Waiting
<1>6. QueueOK'
  <2>1. QueueOK
    BY <1>0, Types DEF Shaped
  <2>2. e \notin Elems(queue)
    BY <1>5, <2>1 DEF QueueOK
  <2>3. /\ Append(queue, e) \in Seq(Entries) /\ Elems(Append(queue, e)) = Elems(queue) \cup {e}
        /\ Distinct(Append(queue, e))
    BY <2>1, <2>2, AppendElems DEF QueueOK
  <2> QED
    BY <1>1, <1>5, <2>1, <2>3 DEF QueueOK
<1>7. UniqueRows' /\ OwnerKnown'
  <2>1. \A f \in Entries \ {e} : Exists(f) => entry[f].user # task[w].user
    BY <1>2 DEF OwnRows
  <2> QED
    BY <1>0, <1>3, <1>5, <2>1 DEF UniqueRows, OwnerKnown
<1>8. Idle.todo = <<>>
  BY DEF Idle, Sweeper
<1>9. Swept(Idle, entry') /\ Idle \in Task
  BY SweptIdle, IdleType
<1>10. \A f \in Entries :
         Exists(f)' => \/ Exists(f) /\ (f \in task[w].processed => f \in Idle.processed)
                       \/ entry[f].status = "NEW"
  BY <1>0, <1>1, <1>5
<1> QED
  BY <1>2, <1>3, <1>4, <1>6, <1>7, <1>8, <1>9, <1>10, RowStep

LEMMA RejoinStep ==
  ASSUME ServedInv, NEW w \in Workers, Rejoin(w)
  PROVE  ServedInv'
<1> DEFINE own == task[w].own
<1>0. /\ TypeOK /\ own \in Entries /\ task[w].processed = {} /\ UniqueRows /\ OwnerKnown
      /\ entry \in [Entries -> EntryRow] /\ QueueOK
  BY TaskFields, Types DEF Shaped, ServedInv, Rejoin, In
<1>1. /\ Exists(own) /\ entry' = [entry EXCEPT ![own].status = "ACTIVE"]
      /\ queue' = Append(Unqueued({own}), own) /\ Set(w, Idle)
      /\ holder' = holder /\ released' = released /\ promoted' = promoted
  BY DEF Rejoin
<1> HIDE DEF own
<1>2. /\ entry' \in [Entries -> EntryRow]
      /\ entry'[own].status = "ACTIVE"
      /\ \A f \in Entries : entry'[f].user = entry[f].user
      /\ \A f \in Entries \ {own} : entry'[f] = entry[f]
  BY <1>0, <1>1 DEF EntryRow, Waiting
<1>3. \A f \in Entries : Exists(f)' <=> Exists(f)
  BY <1>1, <1>2 DEF Exists, Waiting
<1>4. RowsGrow
  BY <1>2 DEF RowsGrow
<1>5. QueueOK'
  <2>1. /\ Unqueued({own}) \in Seq(Entries)
        /\ Elems(Unqueued({own})) = Elems(queue) \cap (Entries \ {own})
        /\ Distinct(Unqueued({own}))
    BY <1>0, KeptElems DEF Unqueued, QueueOK
  <2>2. /\ queue' \in Seq(Entries) /\ Distinct(queue')
        /\ Elems(queue') = Elems(Unqueued({own})) \cup {own}
    BY ZenonT(90), <1>0, <1>1, <2>1, AppendElems
  <2>3. Elems(queue') = {f \in Entries : Exists(f)}
    BY <1>0, <1>1, <2>1, <2>2 DEF QueueOK
  <2> QED
    BY <1>3, <2>2, <2>3 DEF QueueOK
<1>6. UniqueRows' /\ OwnerKnown'
  <2>1. entry[own].status # "NEW"
    BY <1>1 DEF Exists, Waiting
  <2> QED
    BY <1>0, <1>2, <1>3, <2>1 DEF UniqueRows, OwnerKnown
<1>7. Idle.todo = <<>> /\ Swept(Idle, entry') /\ Idle \in Task
  BY SweptIdle, IdleType DEF Idle, Sweeper
<1> QED
  BY <1>0, <1>1, <1>2, <1>3, <1>4, <1>5, <1>6, <1>7, RowStep

(* Rows keep their users, and only some of them go on existing.             *)
LEMMA FewerRows ==
  ASSUME UniqueRows, OwnerKnown,
         \A e \in Entries : /\ entry'[e].user = entry[e].user
                            /\ entry'[e].status = "NEW" <=> entry[e].status = "NEW"
                            /\ Exists(e)' => Exists(e)
  PROVE  UniqueRows' /\ OwnerKnown'
<1>1. ASSUME NEW e \in Entries, NEW f \in Entries, Exists(e)', Exists(f)',
             entry'[e].user = entry'[f].user
      PROVE  e = f
  <2>1. Exists(e) /\ Exists(f) /\ entry[e].user = entry[f].user
    BY <1>1
  <2> QED
    BY <2>1 DEF UniqueRows
<1>2. UniqueRows'
  BY <1>1 DEF UniqueRows
<1>3. OwnerKnown'
  BY DEF OwnerKnown
<1> QED
  BY <1>2, <1>3

LEMMA DeleteStep ==
  ASSUME ServedInv, NEW S \in SUBSET Entries, Delete(S)
  PROVE  /\ entry' \in [Entries -> EntryRow] /\ QueueOK' /\ RowsGrow /\ UniqueRows' /\ OwnerKnown'
         /\ \A e \in Entries : Exists(e)' <=> Exists(e) /\ e \notin S
<1>1. entry \in [Entries -> EntryRow] /\ QueueOK /\ UniqueRows /\ OwnerKnown
  BY Types DEF ServedInv, Shaped
<1>2. /\ entry' \in [Entries -> EntryRow]
      /\ \A e \in Entries : entry'[e].user = entry[e].user
      /\ \A e \in Entries : entry'[e].status = IF e \in S /\ Exists(e) THEN "DELETED" ELSE entry[e].status
  BY <1>1 DEF Delete, EntryRow
<1>3. \A e \in Entries : Exists(e)' <=> Exists(e) /\ e \notin S
  BY <1>2 DEF Exists, Waiting
<1>4. RowsGrow
  BY <1>2 DEF RowsGrow
<1>5. QueueOK'
  <2>1. /\ queue' \in Seq(Entries) /\ Distinct(queue')
        /\ Elems(queue') = Elems(queue) \cap (Entries \ S)
    BY <1>1, KeptElems DEF Delete, Unqueued, QueueOK
  <2> QED
    BY <1>1, <1>3, <2>1 DEF QueueOK
<1>6. \A e \in Entries : entry'[e].status = "NEW" <=> entry[e].status = "NEW"
  BY <1>2 DEF Exists, Waiting
<1> QED
  BY <1>1, <1>2, <1>3, <1>4, <1>5, <1>6, FewerRows

LEMMA FinishStep ==
  ASSUME ServedInv, NEW w \in Workers, DeleteProcessed(w) \/ Clear(w)
  PROVE  ServedInv'
<1>0. /\ TypeOK /\ task[w].processed \in SUBSET Entries
      /\ In(w, "clear") => task[w].processed = {}
  BY TaskFields DEF In
<1>1. PICK S \in SUBSET Entries : Delete(S) /\ task[w].processed \subseteq S
  <2>1. CASE DeleteProcessed(w)
    BY <1>0, <2>1 DEF DeleteProcessed
  <2>2. CASE Clear(w)
    BY <1>0, <2>2 DEF Clear
  <2> QED
    BY <2>1, <2>2
<1>2. PICK b \in BOOLEAN : \/ Set(w, Idle)
                           \/ Set(w, Sweeper("clear", <<>>, {}, {}, {}, b))
  BY DEF DeleteProcessed, Clear
<1> DEFINE cleared == Sweeper("clear", <<>>, {}, {}, {}, b)
<1>3. PICK t \in {Idle, cleared} : Set(w, t)
  BY <1>2
<1>4. t \in Task /\ t.todo = <<>> /\ Swept(t, entry')
  <2>1. Idle \in Task /\ Idle.todo = <<>> /\ Swept(Idle, entry')
    BY IdleType, SweptIdle DEF Idle, Sweeper
  <2>2. /\ "clear" \in Steps \ {"join"} /\ <<>> \in Seq(Entries) 
        /\ {} \in SUBSET Slots /\ {} \in SUBSET Entries
    BY DEF Steps
  <2>3. cleared \in Task
    BY <2>2, SweeperType
  <2>5. Swept(cleared, entry')
    <3>1. \A e \in Elems(<<>>) \cup {} : entry'[e].status # "NEW"
      BY EmptyElems
    <3> QED
      BY <2>2, <3>1, SweptSweeper, EmptyElems
  <2>4. cleared.todo = <<>>
    BY DEF Sweeper
  <2> HIDE DEF cleared
  <2> QED
    BY <1>3, <2>1, <2>3, <2>4, <2>5
<1>5. holder' = holder /\ released' = released /\ promoted' = promoted
  BY DEF DeleteProcessed, Clear
<1>6. /\ entry' \in [Entries -> EntryRow] /\ QueueOK' /\ RowsGrow /\ UniqueRows' /\ OwnerKnown'
      /\ \A e \in Entries : Exists(e)' <=> Exists(e) /\ e \notin S
  BY <1>1, DeleteStep
<1>7. \A e \in Entries :
         Exists(e)' => Exists(e) /\ (e \in task[w].processed => e \in t.processed)
  BY <1>1, <1>6
<1> HIDE DEF cleared
<1> QED
  BY <1>3, <1>4, <1>5, <1>6, <1>7, RowStep

LEMMA MarkStep ==
  ASSUME ServedInv, NEW w \in Workers, MarkRefused(w)
  PROVE  ServedInv'
<1> DEFINE k == task[w]
           t == Sweeper("marked", <<>>, {}, k.processed, {}, k.clears)
<1>0. /\ TypeOK /\ k.processed \in SUBSET Entries /\ k.clears \in BOOLEAN
      /\ entry \in [Entries -> EntryRow] /\ QueueOK /\ UniqueRows /\ OwnerKnown /\ Swept(k, entry)
  BY TaskFields, Types DEF Shaped, ServedInv
<1>1. /\ entry' = [e \in Entries |-> IF e \in k.failed /\ Exists(e)
                                     THEN [entry[e] EXCEPT !.status = "CANNOT_FULFILL"] ELSE entry[e]]
      /\ Set(w, t) /\ queue' = queue
      /\ holder' = holder /\ released' = released /\ promoted' = promoted
  BY DEF MarkRefused
<1>2. /\ entry' \in [Entries -> EntryRow]
      /\ \A e \in Entries : entry'[e].user = entry[e].user
      /\ \A e \in Entries : entry'[e].status =
                              IF e \in k.failed /\ Exists(e) THEN "CANNOT_FULFILL" ELSE entry[e].status
  BY <1>0, <1>1 DEF EntryRow, Waiting
<1>3. \A e \in Entries : Exists(e)' <=> Exists(e)
  BY <1>2 DEF Exists, Waiting
<1>4. RowsGrow
  BY <1>2 DEF RowsGrow
<1>5. UniqueRows' /\ OwnerKnown'
  <2>1. \A e \in Entries : entry'[e].status = "NEW" <=> entry[e].status = "NEW"
    BY <1>2 DEF Exists, Waiting
  <2> QED
    BY <1>0, <1>2, <1>3, <2>1, FewerRows
<1>6. QueueOK'
  BY <1>0, <1>1, <1>3 DEF QueueOK
<1>7. "marked" \in Steps \ {"join"} /\ <<>> \in Seq(Entries)
      /\ {} \in SUBSET Slots /\ {} \in SUBSET Entries
  BY DEF Steps
<1>8. t \in Task
  BY <1>0, <1>7, SweeperType
<1>9. Swept(t, entry')
  <2>1. \A e \in k.processed : entry'[e].status # "NEW"
    BY <1>0, <1>4 DEF Swept, RowsGrow
  <2> QED
    BY <1>7, <2>1, SweptSweeper, EmptyElems
<1>10. t.todo = <<>> /\ t.processed = k.processed
  BY DEF Sweeper
<1> HIDE DEF t
<1> QED
  BY <1>1, <1>2, <1>3, <1>4, <1>5, <1>6, <1>8, <1>9, <1>10, RowStep

(* Steps of no worker: a row is given up, a slot changes hands.             *)
LEMMA OtherStep ==
  ASSUME ServedInv,
         \/ \E e \in Entries : OptOut(e)
         \/ \E s \in Slots : Book(s) \/ Close(s) \/ Open(s)
         \/ UNCHANGED vars
  PROVE  ServedInv'
<1>0. TypeOK /\ entry \in [Entries -> EntryRow] /\ QueueOK /\ UniqueRows /\ OwnerKnown
  BY Types DEF ServedInv, Shaped
<1>1. task' = task /\ promoted' = promoted /\ queue' = queue
  BY DEF OptOut, Book, Close, Open, vars
<1>2. /\ entry' \in [Entries -> EntryRow]
      /\ \A f \in Entries : entry'[f].user = entry[f].user
      /\ \A f \in Entries : \/ entry'[f].status = entry[f].status
                            \/ /\ Exists(f)
                               /\ entry'[f].status = "OPT_OUT"
  <2>1. CASE \E e \in Entries : OptOut(e)
    <3>1. PICK e \in Entries : Exists(e) /\ entry' = [entry EXCEPT ![e].status = "OPT_OUT"]
      BY <2>1 DEF OptOut
    <3> QED
      BY <1>0, <3>1 DEF EntryRow, Waiting
  <2>2. CASE entry' = entry
    BY <1>0, <2>2
  <2> QED
    BY <2>1, <2>2 DEF Book, Close, Open, vars
<1>3. holder' \in [Slots -> Users \cup {Free, Shut, Outsider}] /\ released' \subseteq Slots
  <2>1. holder \in [Slots -> Users \cup {Free, Shut, Outsider}] /\ released \subseteq Slots
    BY <1>0 DEF TypeOK
  <2>2. ASSUME NEW s \in Slots, Book(s) \/ Close(s) \/ Open(s)
        PROVE  holder' \in [Slots -> Users \cup {Free, Shut, Outsider}] /\ released' \subseteq Slots
    BY <2>1, <2>2 DEF Book, Close, Open
  <2> QED
    BY <2>1, <2>2 DEF OptOut, vars
<1>4. \A f \in Entries : Exists(f)' <=> Exists(f)
  BY <1>2 DEF Exists, Waiting
<1>5. RowsGrow
  BY <1>2 DEF RowsGrow
<1>6. UniqueRows' /\ OwnerKnown'
  <2>1. \A e \in Entries : entry'[e].status = "NEW" <=> entry[e].status = "NEW"
    BY <1>2 DEF Exists, Waiting
  <2> QED
    BY <1>0, <1>2, <1>4, <2>1, FewerRows
<1>7. QueueOK'
  BY <1>0, <1>1, <1>4 DEF QueueOK
<1>8. TypeOK'
  <2>1. promoted' \in [Entries -> Nat] /\ task' \in [Workers -> Task]
    BY <1>0, <1>1 DEF TypeOK
  <2> QED
    BY <1>2, <1>3, <1>7, <2>1, Types DEF Shaped
<1>9. \A v \in Workers : Swept(task[v], entry)'
  <2> SUFFICES ASSUME NEW v \in Workers PROVE Swept(task[v], entry')
    BY <1>1
  <2>1. Swept(task[v], entry) /\ task[v].todo \in Seq(Entries) /\ task[v].processed \in SUBSET Entries
    BY TaskFields
  <2>2. Elems(task[v].todo) \subseteq Entries
    BY <2>1, ElementOfSeq DEF Elems
  <2> QED
    BY <1>5, <2>1, <2>2 DEF Swept, RowsGrow
<1>10. \A f \in Entries : Quiet(f)
  BY <1>1, <1>4, <1>5 DEF Quiet, RowsGrow, Listed, Served
<1> QED
  BY <1>6, <1>8, <1>9, <1>10, AllCounted DEF ServedInv

-----------------------------------------------------------------------------
LEMMA ServedInit == Init => ServedInv
<1> SUFFICES ASSUME Init PROVE ServedInv
  OBVIOUS
<1>1. /\ entry = [e \in Entries |-> [user |-> Nobody, status |-> "NEW"]] /\ queue = <<>>
      /\ promoted = [e \in Entries |-> 0] /\ task = [w \in Workers |-> Idle]
      /\ holder = [s \in Slots |-> Outsider] /\ released = {}
  BY DEF Init
<1>2. entry \in [Entries -> EntryRow] /\ \A e \in Entries : ~Exists(e) /\ entry[e].status = "NEW"
  BY <1>1 DEF EntryRow, Exists, Waiting
<1>3. QueueOK
  <2>1. <<>> \in Seq(Entries)
    OBVIOUS
  <2> QED
    BY <1>1, <1>2, <2>1, EmptyElems DEF QueueOK
<1>4. TypeOK
  BY <1>1, <1>2, <1>3, IdleType, Types DEF Shaped
<1>5. \A w \in Workers : Swept(task[w], entry)
  BY <1>1, SweptIdle
<1>6. \A e \in Entries : Listed(e) = {}
  BY <1>1, EmptyElems DEF Listed, Idle, Sweeper
<1>7. \A e \in Entries : Counted(e)
  <2>1. Cardinality({}) = 0 /\ Cardinality(Workers) \in Nat
    BY WaitlistAssumption, FS_EmptySet, FS_CardinalityType
  <2>2. \A e \in Entries : Cardinality(Listed(e)) = 0 /\ promoted[e] = 0
    BY <1>1, <1>6, <2>1
  <2> QED
    BY <1>2, <2>1, <2>2 DEF Counted
<1> QED
  BY <1>2, <1>4, <1>5, <1>7 DEF ServedInv, UniqueRows, OwnerKnown

LEMMA ServedStep == ServedInv /\ [Next]_vars => ServedInv'
<1> SUFFICES ASSUME ServedInv, [Next]_vars PROVE ServedInv'
  OBVIOUS
<1>1. ASSUME NEW w \in Workers, Work(w) PROVE ServedInv'
  BY <1>1, CreateStep, RejoinStep, QuietSteps, LoadStep, PromoteStep, MarkStep, FinishStep DEF Work
<1>2. ASSUME NEW w \in Workers,
             \/ ClearDue(w) \/ \E u \in Users : JoinLoad(w, u)
             \/ \E S \in (SUBSET Slots) \ {{}} : Release(w, S)
      PROVE  ServedInv'
  BY <1>2, QuietSteps
<1> QED
  BY <1>1, <1>2, OtherStep DEF Next

LEMMA ServedCorrect == Spec => []ServedInv
BY ServedInit, ServedStep, PTL DEF Spec

(* The rows, the queue and the sweeps are what they should be, and the      *)
(* queue has each existing row exactly once, whatever requests and sweeps   *)
(* do to it at the same time.                                               *)
THEOREM TypeCorrect == Spec => []TypeOK
<1>1. ServedInv => TypeOK
  BY DEF ServedInv
<1> QED
  BY <1>1, ServedCorrect, PTL

(* A user waits in one place: between reading that he has no row and        *)
(* creating one, others may create it, and rows may be deleted.             *)
THEOREM OnePlace == Spec => []OneRowPerUser
<1>1. ServedInv => OneRowPerUser
  <2> SUFFICES ASSUME UniqueRows, NEW u \in Users PROVE Cardinality(OwnRows(u)) <= 1
    BY DEF ServedInv, OneRowPerUser
  <2>1. CASE OwnRows(u) = {}
    BY <2>1, FS_EmptySet
  <2>2. CASE OwnRows(u) # {}
    <3>1. PICK e : e \in OwnRows(u)
      BY <2>2
    <3>2. OwnRows(u) = {e}
      BY <3>1 DEF OwnRows, UniqueRows
    <3> QED
      BY <3>2, FS_Singleton
  <2> QED
    BY <2>1, <2>2
<1> QED
  BY <1>1, ServedCorrect, PTL

(* A row is booked for at most once by each worker, also while sweeps that  *)
(* read it earlier go on after another one has served or deleted it.        *)
THEOREM PromotionsBounded == Spec => []PromotedBound
<1>1. ServedInv => PromotedBound
  <2> SUFFICES ASSUME ServedInv, NEW e \in Entries PROVE promoted[e] <= Cardinality(Workers)
    BY DEF PromotedBound
  <2>1. /\ promoted[e] + Cardinality(Listed(e)) <= Cardinality(Workers)
        /\ promoted[e] \in Nat
    BY DEF ServedInv, Counted, TypeOK
  <2>2. Cardinality(Listed(e)) \in Nat /\ Cardinality(Workers) \in Nat
    <3>1. Listed(e) \subseteq Workers
      BY DEF Listed
    <3> QED
      BY <3>1, WaitlistAssumption, FS_Subset, FS_CardinalityType
  <2> QED
    BY <2>1, <2>2
<1> QED
  BY <1>1, ServedCorrect, PTL

(* Whoever got a booking from the waitlist leaves it: while his row is      *)
(* there, a sweep that will delete it has it among the rows it processed.   *)
THEOREM PromotedAreLeaving == Spec => []PromotedLeaves
<1>1. ServedInv => PromotedLeaves
  <2> SUFFICES ASSUME ServedInv, NEW e \in Entries, promoted[e] > 0, Exists(e)
               PROVE  \E w \in Workers : e \in task[w].processed
    BY DEF PromotedLeaves
  <2>1. promoted[e] <= Cardinality(Served(e)) /\ promoted[e] \in Nat
    BY DEF ServedInv, Counted, TypeOK
  <2>2. Served(e) # {}
    <3>1. Cardinality({}) = 0
      BY FS_EmptySet
    <3> QED
      BY <2>1, <3>1
  <2> QED
    BY <2>2 DEF Served
<1> QED
  BY <1>1, ServedCorrect, PTL
=============================================================================
