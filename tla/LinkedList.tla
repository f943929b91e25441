----------------------------- MODULE LinkedList -----------------------------
(***************************************************************************)
(* linked_list.c: the doubly linked list every kernel queue is built from. *)
(* A dll_Head has the layout of a dll_Entry, so the code stores the header *)
(* as the neighbour of the first and of the last entry, and writes         *)
(* header.first and header.last through next and prev.                     *)
(*                                                                         *)
(* A list of the kernel is used in one of two ways.  "stack" lists (chunks *)
(* of the frame manager, pages, heap allocations and threads of a process) *)
(* insert at the head and remove any entry; "queue" lists (disk requests)  *)
(* insert at the tail and remove at the head.  Every caller holds the lock *)
(* of the list, so a call is one step, and inserts an entry it allocated.  *)
(* (The disk driver counts its entries once more; that is in BufferCache.) *)
(***************************************************************************)
EXTENDS Integers, Sequences

CONSTANTS
    Entries, HEADER, NULL,
    MaxCount   \* bound on entry_count, which removing from a stack list never lowers

ASSUME ListAssumption == HEADER \notin Entries /\ NULL \notin Entries /\ HEADER # NULL

Nodes == Entries \cup {HEADER}

VARIABLES
    use,          \* how the kernel uses this list
    next, prev,   \* dll_Entry.next and .prev; of HEADER: first and last
    entry_count,  \* dll_Head.entry_count
    panic,
    members       \* what the list is meant to hold, first entry first

listVars == <<use, next, prev, entry_count, panic, members>>

first == next[HEADER]
last  == prev[HEADER]

ListTypes ==
    /\ use \in {"stack", "queue"}
    /\ next \in [Nodes -> Nodes \cup {NULL}]
    /\ prev \in [Nodes -> Nodes \cup {NULL}]
    /\ entry_count \in Nat
    /\ panic \in BOOLEAN
    /\ members \in Seq(Entries)

(* A header in zeroed memory. *)
ListInit ==
    /\ use \in {"stack", "queue"}
    /\ next = [n \in Nodes |-> NULL]
    /\ prev = [n \in Nodes |-> NULL]
    /\ entry_count = 0
    /\ panic = FALSE
    /\ members = <<>>

-----------------------------------------------------------------------------
(* Unlink e from its neighbours; the fields of e and the count stay. *)
remove_dll_entry(e) ==
    /\ next' = IF prev[e] = NULL THEN next ELSE [next EXCEPT ![prev[e]] = next[e]]
    /\ prev' = IF next[e] = NULL THEN prev ELSE [prev EXCEPT ![next[e]] = prev[e]]

(* Otherwise remove_dll_entry_head returns NULL. *)
HasHead == ~ (first \in {NULL, HEADER} \/ entry_count = 0)

remove_dll_entry_head ==
    /\ HasHead
    /\ entry_count' = entry_count - 1
    /\ remove_dll_entry(first)

(* The old first entry keeps HEADER as its prev, and last is not set. *)
insert_dll_entry_head(e) ==
    /\ panic' = (panic \/ (first = NULL /\ last # NULL))
    /\ next' = [next EXCEPT ![HEADER] = e, ![e] = IF first = NULL THEN HEADER ELSE first]
    /\ prev' = [prev EXCEPT ![e] = HEADER]
    /\ entry_count' = entry_count + 1

(* Mutant: the old last entry is not linked to the new one. *)
insert_tail_unlinked(e) ==
    /\ panic' = (panic \/ (last = NULL /\ first # NULL))
    /\ next' = IF last = NULL THEN [next EXCEPT ![HEADER] = e, ![e] = HEADER]
               ELSE [next EXCEPT ![e] = HEADER]
    /\ prev' = [prev EXCEPT ![HEADER] = e, ![e] = IF last = NULL THEN HEADER ELSE last]
    /\ entry_count' = entry_count + 1

(* When the list was emptied last is HEADER, and old_last->next is first. *)
insert_dll_entry_tail(e) ==
    /\ panic' = (panic \/ (last = NULL /\ first # NULL))
    /\ next' = IF last = NULL THEN [next EXCEPT ![HEADER] = e, ![e] = HEADER]
               ELSE [next EXCEPT ![e] = HEADER, ![last] = e]
    /\ prev' = [prev EXCEPT ![HEADER] = e, ![e] = IF last = NULL THEN HEADER ELSE last]
    /\ entry_count' = entry_count + 1

-----------------------------------------------------------------------------
On(e) == \E i \in DOMAIN members : members[i] = e

Push(e) == /\ use = "stack" /\ ~ On(e)
           /\ insert_dll_entry_head(e)
           /\ members' = <<e>> \o members
           /\ UNCHANGED use

(* Removing an entry takes the ones inserted after it out as well: the prev   *)
(* of every entry of a stack list is HEADER.                                  *)
Unlink(e) == /\ use = "stack" /\ On(e)
             /\ remove_dll_entry(e)
             /\ members' = LET i == CHOOSE i \in DOMAIN members : members[i] = e
                           IN SubSeq(members, i + 1, Len(members))
             /\ UNCHANGED <<use, entry_count, panic>>

Enqueue(e) == /\ use = "queue" /\ ~ On(e)
              /\ insert_dll_entry_tail(e)
              /\ members' = Append(members, e)
              /\ UNCHANGED use

Dequeue == /\ use = "queue"
           /\ remove_dll_entry_head
           /\ members' = Tail(members)
           /\ UNCHANGED <<use, panic>>

ListNext == \/ \E e \in Entries : \/ entry_count < MaxCount /\ (Push(e) \/ Enqueue(e))
                                  \/ Unlink(e)
            \/ Dequeue

ListSpec == ListInit /\ [][ListNext]_listVars

-----------------------------------------------------------------------------
(* Properties *)

(* Where the loop of every user of a list is after i rounds: from first along *)
(* next until NULL or the header.                                             *)
At(i) == IF i = 0 THEN HEADER ELSE members[i]

MeetsMembers == /\ \A i \in 0 .. Len(members) - 1 : next[At(i)] = members[i + 1]
                /\ next[At(Len(members))] \in {NULL, HEADER}

(* The loop over a list meets exactly the entries the list is meant to hold,  *)
(* in order, and ends: for a queue list that is first in, first out, for a    *)
(* stack list the entries older than the last one removed, although           *)
(* insert_dll_entry_head leaves prev and last behind.  remove_dll_entry_head  *)
(* serves a queue exactly when it is not empty: entry_count agrees with the   *)
(* links.  The sanity checks of the insert functions never fire.              *)
ListSound ==
    /\ MeetsMembers
    /\ use = "queue" => (members # <<>> <=> HasHead)
    /\ ~ panic
=============================================================================
