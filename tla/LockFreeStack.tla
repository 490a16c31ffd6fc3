---------------------------- MODULE LockFreeStack ----------------------------
(***************************************************************************)
(* The Treiber stack of topics/concurrency/lockfree_stack.cpp with its     *)
(* node memory: delete returns a node to the allocator, which may hand the *)
(* same address out again.  main starts the pushers, joins them and then   *)
(* pops from one thread; Concurrent lets poppers run beside the pushers.   *)
(*                                                                         *)
(* A weak CAS that fails spuriously leaves everything as it was, so it is  *)
(* a stuttering step; a relaxed load that returns a stale head only makes  *)
(* the next CAS fail, which the CAS steps already allow for.               *)
(***************************************************************************)
EXTENDS Naturals, Sequences

CONSTANTS Pushers, M,     \* N threads, each pushing M values
          Poppers,        \* {main} in the demo
          Nodes, Null,    \* addresses the allocator can return, and nullptr
          Concurrent      \* FALSE: poppers start after the pushers are joined

VARIABLES head,          \* head_
          live,          \* the addresses in use
          value, next,   \* the fields of a node
          pc, node, k,   \* pushers: program counter, new node, loop counter
          old, succ,     \* poppers: old_head and the old_head->next passed on
          popped,        \* what each popper received, in order
          destroyed      \* ~LockFreeStack has run
vars == <<head, live, value, next, pc, node, k, old, succ, popped, destroyed>>

Init ==
  /\ head = Null /\ live = {} /\ destroyed = FALSE
  /\ value = [n \in Nodes |-> <<>>] /\ next = [n \in Nodes |-> Null]
  /\ pc = [t \in Pushers \cup Poppers |-> "start"]
  /\ node = [t \in Pushers |-> Null] /\ k = [t \in Pushers |-> 0]
  /\ old = [t \in Poppers |-> Null] /\ succ = [t \in Poppers |-> Null]
  /\ popped = [t \in Poppers |-> <<>>]

(* push: new Node(value); node->next = head_.load() *)
PushLoad(t) ==
  /\ pc[t] = "start" /\ k[t] < M
  /\ \E n \in Nodes \ live :
       /\ live' = live \cup {n}
       /\ node' = [node EXCEPT ![t] = n]
       /\ value' = [value EXCEPT ![n] = <<t, k[t]>>]
       /\ next' = [next EXCEPT ![n] = head]
  /\ pc' = [pc EXCEPT ![t] = "cas"]
  /\ UNCHANGED <<head, k, old, succ, popped, destroyed>>

(* push: compare_exchange_weak(node->next, node), which reloads node->next *)
(* when it fails.                                                          *)
PushStore(t) ==
  /\ pc[t] = "cas"
  /\ head' = node[t]
  /\ pc' = [pc EXCEPT ![t] = "start"] /\ k' = [k EXCEPT ![t] = @ + 1]
  /\ UNCHANGED <<live, value, next, node, old, succ, popped, destroyed>>
PushCasNoReload(t) ==
  /\ pc[t] = "cas" /\ head = next[node[t]]
  /\ head' = node[t]
  /\ pc' = [pc EXCEPT ![t] = "start"] /\ k' = [k EXCEPT ![t] = @ + 1]
  /\ UNCHANGED <<live, value, next, node, old, succ, popped, destroyed>>
PushCas(t) ==
  /\ pc[t] = "cas"
  /\ IF head = next[node[t]]
     THEN /\ head' = node[t]
          /\ pc' = [pc EXCEPT ![t] = "start"] /\ k' = [k EXCEPT ![t] = @ + 1]
          /\ UNCHANGED next
     ELSE /\ next' = [next EXCEPT ![node[t]] = head]
          /\ UNCHANGED <<head, pc, k>>
  /\ UNCHANGED <<live, value, node, old, succ, popped, destroyed>>

PushersJoined == \A t \in Pushers : pc[t] = "start" /\ k[t] = M

(* pop: old_head = head_.load(); return false when it is null. *)
PopLoad(t) ==
  /\ pc[t] = "start"
  /\ Concurrent \/ PushersJoined
  /\ old' = [old EXCEPT ![t] = head]
  /\ pc' = [pc EXCEPT ![t] = IF head = Null THEN "exit" ELSE "next"]
  /\ UNCHANGED <<head, live, value, next, node, k, succ, popped, destroyed>>

(* pop: old_head->next, evaluated before the CAS it is an argument of. *)
PopNext(t) ==
  /\ pc[t] = "next"
  /\ succ' = [succ EXCEPT ![t] = next[old[t]]]
  /\ pc' = [pc EXCEPT ![t] = "cas"]
  /\ UNCHANGED <<head, live, value, next, node, k, old, popped, destroyed>>

PopCas(t) ==
  /\ pc[t] = "cas"
  /\ IF head = old[t]
     THEN /\ head' = succ[t]
          /\ pc' = [pc EXCEPT ![t] = "take"]
          /\ UNCHANGED old
     ELSE /\ old' = [old EXCEPT ![t] = head]
          /\ pc' = [pc EXCEPT ![t] = IF head = Null THEN "exit" ELSE "next"]
          /\ UNCHANGED head
  /\ UNCHANGED <<live, value, next, node, k, succ, popped, destroyed>>

(* pop: value = std::move(old_head->value); delete old_head; ++count *)
PopTakeLeaks(t) ==
  /\ pc[t] = "take"
  /\ popped' = [popped EXCEPT ![t] = Append(@, value[old[t]])]
  /\ pc' = [pc EXCEPT ![t] = "start"]
  /\ UNCHANGED <<head, live, value, next, node, k, old, succ, destroyed>>
PopTake(t) ==
  /\ pc[t] = "take"
  /\ popped' = [popped EXCEPT ![t] = Append(@, value[old[t]])]
  /\ live' = live \ {old[t]}
  /\ pc' = [pc EXCEPT ![t] = "start"]
  /\ UNCHANGED <<head, value, next, node, k, old, succ, destroyed>>

(* The nodes of the list from n on: the smallest set that holds n and,     *)
(* with a node, the one its next points to.                                *)
ClosedFrom(n, S) == n \in S \cup {Null} /\ \A x \in S : next[x] \in S \cup {Null}
Follow(n) == {x \in Nodes : \A S \in SUBSET Nodes : ClosedFrom(n, S) => x \in S}

(* ~LockFreeStack deletes what is still on the list. *)
Destroy ==
  /\ ~destroyed /\ PushersJoined /\ \A t \in Poppers : pc[t] = "exit"
  /\ live' = live \ Follow(head)
  /\ destroyed' = TRUE
  /\ UNCHANGED <<head, value, next, pc, node, k, old, succ, popped>>

Ended == destroyed /\ UNCHANGED vars

Push(t) == PushLoad(t) \/ PushCas(t)
Pop(t) == PopLoad(t) \/ PopNext(t) \/ PopCas(t) \/ PopTake(t)
Next == (\E t \in Pushers : Push(t)) \/ (\E t \in Poppers : Pop(t)) \/ Destroy \/ Ended

(* The threads are scheduled. *)
Spec ==
  /\ Init /\ [][Next]_vars /\ WF_vars(Destroy)
  /\ \A t \in Pushers : WF_vars(Push(t))
  /\ \A t \in Poppers : WF_vars(Pop(t))

----------------------------------------------------------------------------
(* The list holds exactly the nodes in use that no thread owns: a node     *)
(* being pushed is not on it yet, one being taken no longer is, and a lost *)
(* race between CASes drops or shares none.                                *)
Owned == {node[t] : t \in {u \in Pushers : pc[u] = "cas"}}
         \cup {old[t] : t \in {u \in Poppers : pc[u] = "take"}}
ListIsExact == ~destroyed => Follow(head) = live \ Owned

(* "Pushed N, popped count": when the popper gives up it has every value   *)
(* exactly once, the values of each pusher in reverse order.               *)
AllPoppedLifo ==
  \A t \in Poppers : pc[t] = "exit" =>
    /\ {popped[t][j] : j \in 1..Len(popped[t])} = Pushers \X (0..M - 1)
    /\ \A a, b \in 1..Len(popped[t]) :
         a < b => ~(popped[t][a][1] = popped[t][b][1] /\ popped[t][a][2] <= popped[t][b][2])

(* No node is leaked once the stack is gone. *)
NothingLeaked == destroyed => live = {}

(* Every push succeeds in the end and main finishes, though each failed    *)
(* CAS only means that another thread's succeeded.                         *)
GoneThrough == destroyed

(* The header's "push/pop with atomic head and ABA-safe": head_ never      *)
(* points to a node that has been deleted.                                 *)
AbaSafe == ~destroyed => head \in live \cup {Null}
=============================================================================
