---------------------------- MODULE SecondChance ----------------------------
(***************************************************************************)
(* What ClockRing promises, with no nodes and no pointers: a queue of      *)
(* pages whose head is the page under the hand, and the set of the pages   *)
(* whose reference bit is set.  A page leaves the queue in one of two ways: *)
(* the policy has named it, or room was asked for and it is the first in   *)
(* the queue that has not been referenced since it came or was last passed *)
(* over.  Either way it is the page that is then moved out of the tier.    *)
(***************************************************************************)
EXTENDS SequencesExt

CONSTANTS Pages, None

VARIABLES
  queue, referenced,
  task,  \* "rest", or what is going on: "leave", "sweep" or "evicted"
  going  \* the page that is on its way out, if there is one

Queued == ToSet(queue)

QueueInit ==
  /\ queue = <<>> /\ referenced = {}
  /\ task = "rest" /\ going = None

\* A new page is the last to be looked at.
Enqueue(p) ==
  /\ task = "rest" /\ p \notin Queued
  /\ queue' = Append(queue, p)
  /\ UNCHANGED <<referenced, task, going>>

Reference(p) ==
  /\ p \in Queued
  /\ referenced' = referenced \cup {p}
  /\ UNCHANGED <<queue, task, going>>

\* The policy names a page that is to leave, and it leaves from its place.
Name(p) ==
  /\ task = "rest"
  /\ task' = "leave" /\ going' = p
  /\ UNCHANGED <<queue, referenced>>

Withdraw ==
  /\ task = "leave"
  /\ \E i \in DOMAIN queue : queue[i] = going /\ queue' = RemoveAt(queue, i)
  /\ referenced' = referenced \ {going}
  /\ task' = "rest" /\ going' = None

\* Room is asked for: from now on pages are passed over until one is evicted.
AskForRoom ==
  /\ task = "rest"
  /\ task' = "sweep"
  /\ UNCHANGED <<queue, referenced, going>>

\* The second chance.
PassOver ==
  /\ task = "sweep"
  /\ queue # <<>> /\ Head(queue) \in referenced
  /\ queue' = Append(Tail(queue), Head(queue))
  /\ referenced' = referenced \ {Head(queue)}
  /\ UNCHANGED <<task, going>>

EvictHead ==
  /\ task = "sweep"
  /\ queue # <<>> /\ Head(queue) \notin referenced
  /\ queue' = Tail(queue)
  /\ task' = "evicted" /\ going' = Head(queue)
  /\ UNCHANGED referenced

\* The page evicted has been moved, or could not be.
Gone ==
  /\ task = "evicted"
  /\ task' = "rest" /\ going' = None
  /\ UNCHANGED <<queue, referenced>>

QueueNext ==
  \/ \E p \in Pages : Enqueue(p) \/ Reference(p) \/ Name(p)
  \/ Withdraw \/ AskForRoom \/ PassOver \/ EvictHead \/ Gone

QueueSpec == QueueInit /\ [][QueueNext]_<<queue, referenced, task, going>>

=============================================================================
