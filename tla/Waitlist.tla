------------------------------ MODULE Waitlist ------------------------------
(***************************************************************************)
(* The waitlist of one equipment: users join and leave it, and whenever a  *)
(* booking gives slots back a sweep offers them to the waiting users in    *)
(* turn, each of whom gets a booking of his own (first come, first served). *)
(*                                                                         *)
(* A sweep runs after the commit of the request that released the slots    *)
(* (or in a Celery job), hence without a transaction around it: every      *)
(* query and every booking it makes is a step of its own, on a list of     *)
(* entries and a list of slots that it read once at the start.  Joining is *)
(* two steps, since the length of the queue is read without a lock.        *)
(***************************************************************************)
EXTENDS Integers, FiniteSets, Sequences, Filtering

CONSTANTS
  Users,     \* who may wait for the equipment
  Entries,   \* WaitlistEntry rows that may ever be created
  Slots,     \* daily slots of the equipment
  Workers,   \* requests and jobs in progress at a time
  Depth,     \* waitlist_queue_depth
  Free,      \* an AVAILABLE slot
  Shut,      \* a slot staff made unavailable
  Outsider,  \* whoever holds a slot without the waitlist
  NoEntry,   \* a user's entry when there is none
  Nobody     \* the user of a row not created yet

ASSUME WaitlistAssumption ==
  /\ Depth \in Nat \ {0}
  /\ Users \cap {Free, Shut, Outsider, Nobody} = {}
  /\ Cardinality({Free, Shut, Outsider}) = 3
  /\ NoEntry \notin Entries
  /\ IsFiniteSet(Entries) /\ IsFiniteSet(Workers)

VARIABLES
  entry,     \* the rows: their user and status
  queue,     \* existing rows in the order of created_at
  holder,    \* who has each slot
  released,  \* slots whose released_by_booking_at marker is set
  promoted,  \* bookings made for a row so far
  task       \* what each worker is in the middle of

vars == <<entry, queue, holder, released, promoted, task>>

Waiting == {"ACTIVE", "OPT_OUT", "CANNOT_FULFILL"}

Steps == {"idle", "join", "wake", "sweep", "marked", "clear"}

(* The loop's variables: entries not looked at yet, available slots not used *)
(* yet, processed_entry_ids, cannot_fulfill_remark_by_id.                    *)
Task == [step : Steps, user : Users \cup {Nobody}, own : Entries \cup {NoEntry},
         todo : Seq(Entries), slots : SUBSET Slots, processed : SUBSET Entries,
         failed : SUBSET Entries, clears : BOOLEAN]

Joiner(u, own) ==
  [step |-> "join", user |-> u, own |-> own, todo |-> <<>>, slots |-> {},
   processed |-> {}, failed |-> {}, clears |-> FALSE]

Sweeper(step, todo, slots, processed, failed, clears) ==
  [step |-> step, user |-> Nobody, own |-> NoEntry, todo |-> todo, slots |-> slots,
   processed |-> processed, failed |-> failed, clears |-> clears]

Idle == Sweeper("idle", <<>>, {}, {}, {}, FALSE)

Exists(e) == entry[e].status \in Waiting

Active == {e \in Entries : entry[e].status = "ACTIVE"}

OwnRows(u) == {e \in Entries : Exists(e) /\ entry[e].user = u}

ActiveQueue == Kept(queue, Active)

Unqueued(S) == Kept(queue, Entries \ S)

Set(w, t) == task' = [task EXCEPT ![w] = t]

In(w, step) == task[w].step = step

Init ==
  /\ entry = [e \in Entries |-> [user |-> Nobody, status |-> "NEW"]]
  /\ queue = <<>>
  /\ holder = [s \in Slots |-> Outsider]
  /\ released = {}
  /\ promoted = [e \in Entries |-> 0]
  /\ task = [w \in Workers |-> Idle]

-----------------------------------------------------------------------------
(* add_user_to_waitlist: the user's row and the length of the queue are     *)
(* read, then the row is created or made ACTIVE again, at the end.          *)

(* Mutant: off by one at the limit. *)
JoinLoad_OneMore(w, u) ==
  /\ In(w, "idle")
  /\ OwnRows(u) \cap Active = {}
  /\ Cardinality(Active) <= Depth
  /\ \E own \in IF OwnRows(u) = {} THEN {NoEntry} ELSE OwnRows(u) :
       Set(w, Joiner(u, own))
  /\ UNCHANGED <<entry, queue, holder, released, promoted>>

JoinLoad(w, u) ==
  /\ In(w, "idle")
  /\ OwnRows(u) \cap Active = {}
  /\ Cardinality(Active) < Depth
  /\ \E own \in IF OwnRows(u) = {} THEN {NoEntry} ELSE OwnRows(u) :
       Set(w, Joiner(u, own))
  /\ UNCHANGED <<entry, queue, holder, released, promoted>>

(* Mutant: nothing keeps a user from having two rows. *)
Create_NotUnique(w) ==
  /\ In(w, "join") /\ task[w].own = NoEntry
  /\ \E e \in Entries :
       /\ entry[e].status = "NEW"
       /\ entry' = [entry EXCEPT ![e] = [user |-> task[w].user, status |-> "ACTIVE"]]
       /\ queue' = Append(queue, e)
  /\ Set(w, Idle)
  /\ UNCHANGED <<holder, released, promoted>>

(* Unique together: equipment, user. *)
Create(w) ==
  /\ In(w, "join") /\ task[w].own = NoEntry
  /\ OwnRows(task[w].user) = {}
  /\ \E e \in Entries :
       /\ entry[e].status = "NEW"
       /\ entry' = [entry EXCEPT ![e] = [user |-> task[w].user, status |-> "ACTIVE"]]
       /\ queue' = Append(queue, e)
  /\ Set(w, Idle)
  /\ UNCHANGED <<holder, released, promoted>>

(* Mutant: the row keeps its old place and gets one at the end as well. *)
Rejoin_TwoPlaces(w) ==
  /\ In(w, "join") /\ task[w].own # NoEntry
  /\ Exists(task[w].own)
  /\ entry' = [entry EXCEPT ![task[w].own].status = "ACTIVE"]
  /\ queue' = Append(queue, task[w].own)
  /\ Set(w, Idle)
  /\ UNCHANGED <<holder, released, promoted>>

(* Saves the row, if it is still there. *)
Rejoin(w) ==
  /\ In(w, "join") /\ task[w].own # NoEntry
  /\ Exists(task[w].own)
  /\ entry' = [entry EXCEPT ![task[w].own].status = "ACTIVE"]
  /\ queue' = Append(Unqueued({task[w].own}), task[w].own)
  /\ Set(w, Idle)
  /\ UNCHANGED <<holder, released, promoted>>

(* An error response; nothing is written. *)
GiveUp(w) ==
  /\ In(w, "join")
  /\ Set(w, Idle)
  /\ UNCHANGED <<entry, queue, holder, released, promoted>>

(* cancel_my_waitlist_entry: one write, whatever the status was. *)
OptOut(e) ==
  /\ Exists(e) /\ entry[e].status # "OPT_OUT"
  /\ entry' = [entry EXCEPT ![e].status = "OPT_OUT"]
  /\ UNCHANGED <<queue, holder, released, promoted, task>>

-----------------------------------------------------------------------------
(* Slots change hands outside the waitlist. *)

(* A booking gives back slots, and a sweep of them follows the commit. *)
Release(w, S) ==
  /\ In(w, "idle")
  /\ \E h \in Users \cup {Outsider} : \A s \in S : holder[s] = h
  /\ holder' = [s \in Slots |-> IF s \in S THEN Free ELSE holder[s]]
  /\ released' = released \cup S
  /\ Set(w, Sweeper("wake", <<>>, S, {}, {}, FALSE))
  /\ UNCHANGED <<entry, queue, promoted>>

(* A free slot is booked by someone directly. *)
Book(s) ==
  /\ holder[s] = Free
  /\ holder' = [holder EXCEPT ![s] = Outsider]
  /\ released' = released \ {s}
  /\ UNCHANGED <<entry, queue, promoted, task>>

(* Staff change the status of an unbooked slot, which clears its marker. *)
Close(s) ==
  /\ holder[s] = Free
  /\ holder' = [holder EXCEPT ![s] = Shut]
  /\ released' = released \ {s}
  /\ UNCHANGED <<entry, queue, promoted, task>>

Open(s) ==
  /\ holder[s] = Shut
  /\ holder' = [holder EXCEPT ![s] = Free]
  /\ UNCHANGED <<entry, queue, released, promoted, task>>

-----------------------------------------------------------------------------
(* notify_waitlist_slots_available *)

(* clear_waitlist_due_before_reference sweeps all slots, then clears. *)
ClearDue(w) ==
  /\ In(w, "idle")
  /\ Set(w, Sweeper("wake", <<>>, Slots, {}, {}, TRUE))
  /\ UNCHANGED <<entry, queue, holder, released, promoted>>

(* The two lists are read. *)
SweepLoad(w) ==
  /\ In(w, "wake")
  /\ LET offered == {s \in task[w].slots \cap released : holder[s] = Free}
     IN Set(w, Sweeper("sweep", ActiveQueue, offered, {}, {}, task[w].clears))
  /\ UNCHANGED <<entry, queue, holder, released, promoted>>

(* Short notice: the waiting users are told, nobody is booked. *)
ShortNotice(w) ==
  /\ In(w, "wake") /\ ~task[w].clears
  /\ Set(w, Idle)
  /\ UNCHANGED <<entry, queue, holder, released, promoted>>

(* Mutant: the slots are not looked at again under the lock. *)
Promote_NoRecheck(w) ==
  /\ In(w, "sweep") /\ task[w].todo # <<>>
  /\ LET q == task[w]
         e == Head(q.todo)
     IN \E S \in (SUBSET q.slots) \ {{}} :
          /\ holder' = [s \in Slots |-> IF s \in S THEN entry[e].user ELSE holder[s]]
          /\ released' = released \ S
          /\ promoted' = [promoted EXCEPT ![e] = @ + 1]
          /\ Set(w, Sweeper("sweep", Tail(q.todo), q.slots \ S, q.processed \cup {e},
                            q.failed, q.clears))
  /\ UNCHANGED <<entry, queue>>

(* create_booking_for_waitlist_user, in a transaction of its own: the slots *)
(* are locked and have to be available still.                               *)
Promote(w) ==
  /\ In(w, "sweep") /\ task[w].todo # <<>>
  /\ LET q == task[w]
         e == Head(q.todo)
     IN \E S \in (SUBSET q.slots) \ {{}} :
          /\ \A s \in S : holder[s] = Free
          /\ holder' = [s \in Slots |-> IF s \in S THEN entry[e].user ELSE holder[s]]
          /\ released' = released \ S
          /\ promoted' = [promoted EXCEPT ![e] = @ + 1]
          /\ Set(w, Sweeper("sweep", Tail(q.todo), q.slots \ S, q.processed \cup {e},
                            q.failed, q.clears))
  /\ UNCHANGED <<entry, queue>>

(* It does not fit, the slots are gone, or a business rule refuses it. *)
Refuse(w) ==
  /\ In(w, "sweep") /\ task[w].todo # <<>> /\ task[w].slots # {}
  /\ LET q == task[w]
     IN Set(w, Sweeper("sweep", Tail(q.todo), q.slots, q.processed,
                       q.failed \cup {Head(q.todo)}, q.clears))
  /\ UNCHANGED <<entry, queue, holder, released, promoted>>

(* Over quota, or no slots are left: the entry stays as it is. *)
PassOver(w) ==
  /\ In(w, "sweep") /\ task[w].todo # <<>>
  /\ LET q == task[w]
     IN Set(w, Sweeper("sweep", Tail(q.todo), q.slots, q.processed, q.failed, q.clears))
  /\ UNCHANGED <<entry, queue, holder, released, promoted>>

(* After the loop: refused entries are marked, whatever they are by now. *)
MarkRefused(w) ==
  /\ In(w, "sweep") /\ task[w].todo = <<>>
  /\ entry' = [e \in Entries |-> IF e \in task[w].failed /\ Exists(e)
                                 THEN [entry[e] EXCEPT !.status = "CANNOT_FULFILL"]
                                 ELSE entry[e]]
  /\ Set(w, Sweeper("marked", <<>>, {}, task[w].processed, {}, task[w].clears))
  /\ UNCHANGED <<queue, holder, released, promoted>>

Delete(S) ==
  /\ entry' = [e \in Entries |-> IF e \in S /\ Exists(e)
                                 THEN [entry[e] EXCEPT !.status = "DELETED"] ELSE entry[e]]
  /\ queue' = Unqueued(S)

(* Mutant: only entries that are still in the queue are deleted. *)
DeleteProcessed_ActiveOnly(w) ==
  /\ In(w, "marked")
  /\ Delete(task[w].processed \cap Active)
  /\ Set(w, IF task[w].clears THEN Sweeper("clear", <<>>, {}, {}, {}, TRUE) ELSE Idle)
  /\ UNCHANGED <<holder, released, promoted>>

DeleteProcessed(w) ==
  /\ In(w, "marked")
  /\ Delete(task[w].processed)
  /\ Set(w, IF task[w].clears THEN Sweeper("clear", <<>>, {}, {}, {}, TRUE) ELSE Idle)
  /\ UNCHANGED <<holder, released, promoted>>

Clear(w) ==
  /\ In(w, "clear")
  /\ Delete(Entries)
  /\ Set(w, Idle)
  /\ UNCHANGED <<holder, released, promoted>>

-----------------------------------------------------------------------------
(* The steps a worker that began something goes on with. *)
Work(w) ==
  \/ Create(w) \/ Rejoin(w) \/ GiveUp(w)
  \/ SweepLoad(w) \/ ShortNotice(w)
  \/ Promote(w) \/ Refuse(w) \/ PassOver(w)
  \/ MarkRefused(w) \/ DeleteProcessed(w) \/ Clear(w)

Next ==
  \/ \E w \in Workers :
       \/ Work(w)
       \/ ClearDue(w)
       \/ \E u \in Users : JoinLoad(w, u)
       \/ \E S \in (SUBSET Slots) \ {{}} : Release(w, S)
  \/ \E e \in Entries : OptOut(e)
  \/ \E s \in Slots : Book(s) \/ Close(s) \/ Open(s)

Spec == Init /\ [][Next]_vars

-----------------------------------------------------------------------------
(* Types; the queue has each existing row once. *)
TypeOK ==
  /\ entry \in [Entries -> [user : Users \cup {Nobody}, status : Waiting \cup {"NEW", "DELETED"}]]
  /\ queue \in Seq(Entries)
  /\ \A i, j \in 1..Len(queue) : queue[i] = queue[j] => i = j
  /\ {queue[i] : i \in 1..Len(queue)} = {e \in Entries : Exists(e)}
  /\ holder \in [Slots -> Users \cup {Free, Shut, Outsider}]
  /\ released \subseteq Slots
  /\ promoted \in [Entries -> Nat]
  /\ task \in [Workers -> Task]

(* A user waits in one place, also when two of his requests overlap with a  *)
(* sweep that deletes his row.                                              *)
OneRowPerUser == \A u \in Users : Cardinality(OwnRows(u)) <= 1

Joining == {w \in Workers : In(w, "join")}

(* The depth is checked without a lock.  All the same the queue, with the   *)
(* users about to join it, is never longer than the depth plus one for each *)
(* other request in progress.                                               *)
DepthBound ==
  Cardinality(Active) + Cardinality(Joining) + 1 <= Depth + Cardinality(Workers)

(* A row is deleted only at the end of the sweep that served it, so a       *)
(* concurrent sweep may serve it too; but no sweep serves it twice, and     *)
(* none that starts after the first of them has ended does.                 *)
PromotedBound == \A e \in Entries : promoted[e] <= Cardinality(Workers)

(* A slot of anybody is never given to a waiting user: it has to be free    *)
(* when it is booked, not only when the sweep read its lists.               *)
PromotionTakesFree ==
  [][\A s \in Slots : holder'[s] \in Users /\ holder'[s] # holder[s] => holder[s] = Free]_vars

(* Whoever got a booking from the waitlist is on his way out of it, also if *)
(* he opted out or joined again meanwhile: a sweep will delete his row.     *)
PromotedLeaves ==
  \A e \in Entries :
    promoted[e] > 0 /\ Exists(e) => \E w \in Workers : e \in task[w].processed
=============================================================================
