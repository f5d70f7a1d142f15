------------------------------ MODULE Win32Tss ------------------------------
(***************************************************************************)
(* The Win32 thread-specific storage of src/src/cthread.c: tss_create,     *)
(* tss_set, tss_get, tss_delete and the _cthread_tss_cleanup that runs     *)
(* when a thread that has a node list exits.                               *)
(*                                                                         *)
(* A TLS index (tss_t) holds, per thread, a pointer to a CThreadTSSData    *)
(* node { value, key, next }.  Each thread also links its nodes into a     *)
(* list of its own, _cthread_tss_head .. _cthread_tss_tail, which the      *)
(* cleanup walks to clear the values and free the nodes.                   *)
(*                                                                         *)
(* Nodes live in a heap of addresses 1..MaxNodes; malloc hands out the     *)
(* next one and fails when none is left.  A freed address is not reused,   *)
(* so a stale pointer still finds the contents the node last had; every    *)
(* access to a freed node or through NULL is recorded in `fault`, and the  *)
(* program stops there.                                                    *)
(*                                                                         *)
(* The destructor table _cthread_tss_dtors is left out: destructors are    *)
(* client code, and this model has them change no TSS state, so one pass  *)
(* of the TSS_DTOR_ITERATIONS loop clears every value.                     *)
(***************************************************************************)
EXTENDS Naturals, Sequences, SequencesExt

CONSTANTS
  Threads,       \* the threads using thread-specific storage
  Keys,          \* the TLS indices TlsAlloc can hand out
  Values,        \* the non-NULL void* values clients store
  NoValue,       \* a NULL value
  MaxNodes,      \* nodes malloc can hand out before it returns NULL
  TlsSetCanFail  \* TRUE: TlsSetValue may fail

ASSUME /\ NoValue \notin Values
       /\ MaxNodes \in Nat
       /\ TlsSetCanFail \in BOOLEAN

NULL == 0
Addr == 1..MaxNodes

VARIABLES
  keys,      \* TLS indices allocated by TlsAlloc and not yet TlsFree'd
  slot,      \* slot[t][k]: TlsGetValue(k) in thread t
  head,      \* _cthread_tss_head, per thread
  tail,      \* _cthread_tss_tail, per thread
  node,      \* the contents of each node address
  nextAddr,  \* the next address malloc hands out
  freed,     \* addresses given back with free
  alive,     \* the thread has not exited
  ret,       \* what each thread's last call returned
  last,      \* last[t][k]: the value t last stored with tss_set under k
  fault      \* the invalid memory accesses the program has made

vars == <<keys, slot, head, tail, node, nextAddr, freed, alive, ret, last, fault>>

NoNode == [value |-> NoValue, key |-> NULL, next |-> NULL]

Init ==
  /\ keys = {}
  /\ slot = [t \in Threads |-> [k \in Keys |-> NULL]]
  /\ head = [t \in Threads |-> NULL]
  /\ tail = [t \in Threads |-> NULL]
  /\ node = [a \in Addr |-> NoNode]
  /\ nextAddr = 1
  /\ freed = {}
  /\ alive = [t \in Threads |-> TRUE]
  /\ ret = [t \in Threads |-> "none"]
  /\ last = [t \in Threads |-> [k \in Keys |-> NoValue]]
  /\ fault = {}

\* The faults of reading or writing the nodes of a set of addresses.
UseOf(as) == IF as \cap freed = {} THEN {} ELSE {"use_after_free"}

\* The node list from address a on: data = data->next until NULL.
RECURSIVE ListFrom(_)
ListFrom(a) == IF a = NULL THEN <<>> ELSE <<a>> \o ListFrom(node[a].next)

\* The nodes the loop `while (prev->next != data) prev = prev->next;` reads,
\* from prev = p on.  It ends at the node whose next is data, or at the last
\* node of the list, whose NULL next the loop then dereferences.
RECURSIVE WalkTo(_, _)
WalkTo(p, data) ==
  <<p>> \o (IF node[p].next \in {data, NULL} THEN <<>> ELSE WalkTo(node[p].next, data))

\* Thread t can make a call: it has not exited, and no fault has ended the
\* program.
Live(t) == alive[t] /\ fault = {}

-----------------------------------------------------------------------------

\* tss_create: TlsAlloc returns a free index, whose slot it zeroes in every
\* thread, or TLS_OUT_OF_INDEXES.
tss_create(t) ==
  /\ Live(t)
  /\ IF keys = Keys
     THEN /\ ret' = [ret EXCEPT ![t] = "thrd_error"]
          /\ UNCHANGED <<keys, slot, last>>
     ELSE \E k \in Keys \ keys:
            /\ keys' = keys \cup {k}
            /\ slot' = [u \in Threads |-> [slot[u] EXCEPT ![k] = NULL]]
            /\ last' = [u \in Threads |-> [last[u] EXCEPT ![k] = NoValue]]
            /\ ret' = [ret EXCEPT ![t] = "thrd_success"]
  /\ UNCHANGED <<head, tail, node, nextAddr, freed, alive, fault>>

\* Mutant: data->key is returned instead of data->value.
tss_get_key(t, k) ==
  /\ Live(t) /\ k \in keys
  /\ ret' = [ret EXCEPT ![t] = IF slot[t][k] = NULL THEN NoValue
                                ELSE node[slot[t][k]].key]
  /\ fault' = fault \cup UseOf({slot[t][k]})
  /\ UNCHANGED <<keys, slot, head, tail, node, nextAddr, freed, alive, last>>

\* tss_get: TlsGetValue(key), then data->value.
tss_get(t, k) ==
  /\ Live(t) /\ k \in keys
  /\ ret' = [ret EXCEPT ![t] = IF slot[t][k] = NULL THEN NoValue
                                ELSE node[slot[t][k]].value]
  /\ fault' = fault \cup UseOf({slot[t][k]})
  /\ UNCHANGED <<keys, slot, head, tail, node, nextAddr, freed, alive, last>>

\* Mutant: data->value = val only for a node tss_set has just made.
SetExisting_lost(t, k, v) ==
  /\ fault' = fault \cup UseOf({slot[t][k]})
  /\ UNCHANGED node

\* tss_set on a key that already has a node in this thread:
\* data->value = val.
SetExisting(t, k, v) ==
  /\ node' = [node EXCEPT ![slot[t][k]].value = v]
  /\ fault' = fault \cup UseOf({slot[t][k]})

\* The new node a, { NULL, key, NULL }, linked after the tail:
\* _cthread_tss_tail->next = data.  The tail itself is not advanced.
LinkNode(t, k, a) ==
  LET made == [node EXCEPT ![a] = [value |-> NoValue, key |-> k, next |-> NULL]]
  IN IF tail[t] = NULL THEN made ELSE [made EXCEPT ![tail[t]].next = a]

\* tss_set: TlsGetValue(key); with no node yet, malloc one, link it into
\* the thread's list, and TlsSetValue(key, data), freeing the node when that
\* fails; then data->value = val.
tss_set(t, k, v) ==
  /\ Live(t) /\ k \in keys
  /\ IF slot[t][k] # NULL
     THEN /\ SetExisting(t, k, v)
          /\ last' = [last EXCEPT ![t][k] = v]
          /\ ret' = [ret EXCEPT ![t] = "thrd_success"]
          /\ UNCHANGED <<slot, head, tail, nextAddr, freed>>
     ELSE IF nextAddr > MaxNodes
     THEN /\ ret' = [ret EXCEPT ![t] = "thrd_error"]
          /\ UNCHANGED <<slot, head, tail, node, nextAddr, freed, last, fault>>
     ELSE LET a == nextAddr IN
          /\ nextAddr' = a + 1
          /\ tail' = IF tail[t] = NULL THEN [tail EXCEPT ![t] = a] ELSE tail
          /\ head' = IF head[t] = NULL THEN [head EXCEPT ![t] = a] ELSE head
          /\ fault' = fault \cup UseOf({tail[t]})
          /\ \/ /\ slot' = [slot EXCEPT ![t][k] = a]
                /\ node' = [LinkNode(t, k, a) EXCEPT ![a].value = v]
                /\ last' = [last EXCEPT ![t][k] = v]
                /\ ret' = [ret EXCEPT ![t] = "thrd_success"]
                /\ UNCHANGED freed
             \/ /\ TlsSetCanFail
                /\ node' = LinkNode(t, k, a)
                /\ freed' = freed \cup {a}
                /\ ret' = [ret EXCEPT ![t] = "thrd_error"]
                /\ UNCHANGED <<slot, last>>
  /\ UNCHANGED <<keys, alive>>

\* Mutant: tss_delete leaves out TlsFree(key).
TlsFree_missing(k) == UNCHANGED keys

\* TlsFree(key): the index is free for TlsAlloc again.
TlsFree(k) == keys' = keys \ {k}

\* tss_delete: unhook this thread's node for key from the list and free it;
\* clear the destructor and TlsFree(key).  A node other than the head is
\* looked for from the head, but its predecessor's next is left pointing at
\* it, and a node that is not on the list makes the loop run off its end.
tss_delete(t, k) ==
  /\ Live(t) /\ k \in keys
  /\ TlsFree(k)
  /\ LET data == slot[t][k]
         walk == IF head[t] = NULL THEN <<>> ELSE WalkTo(head[t], data)
         prev == IF walk = <<>> THEN NULL ELSE Last(walk)
     IN IF data = NULL
        THEN UNCHANGED <<head, tail, freed, fault>>
        ELSE IF data = head[t]
        THEN /\ head' = [head EXCEPT ![t] = node[data].next]
             /\ tail' = IF data = tail[t] THEN [tail EXCEPT ![t] = NULL] ELSE tail
             /\ freed' = freed \cup {data}
             /\ fault' = fault \cup UseOf({data})
        ELSE IF prev # NULL /\ node[prev].next = NULL
        THEN /\ fault' = fault \cup UseOf(Range(walk)) \cup {"null_deref"}
             /\ UNCHANGED <<head, tail, freed>>
        ELSE /\ tail' = IF data = tail[t] THEN [tail EXCEPT ![t] = prev] ELSE tail
             /\ freed' = freed \cup {data}
             /\ fault' = fault \cup UseOf(Range(walk) \cup {data})
             /\ UNCHANGED head
  /\ UNCHANGED <<slot, node, nextAddr, alive, ret, last>>

\* _cthread_tss_cleanup: the first loop clears the value of every node on
\* the list (the destructors are left out), the second frees the nodes from
\* the head; then head and tail are set to NULL.
tss_cleanup(t) ==
  LET list == Range(ListFrom(head[t])) IN
  /\ node' = [a \in Addr |-> IF a \in list
                             THEN [node[a] EXCEPT !.value = NoValue]
                             ELSE node[a]]
  /\ freed' = freed \cup list
  /\ fault' = fault \cup UseOf(list)
                    \cup (IF list \cap freed = {} THEN {} ELSE {"double_free"})
  /\ head' = [head EXCEPT ![t] = NULL]
  /\ tail' = [tail EXCEPT ![t] = NULL]

\* The thread ends: it returns from its function or calls thrd_exit, or the
\* TLS callback runs at DLL_THREAD_DETACH; each calls _cthread_tss_cleanup
\* when _cthread_tss_head != NULL.
ThreadExit(t) ==
  /\ Live(t)
  /\ alive' = [alive EXCEPT ![t] = FALSE]
  /\ IF head[t] = NULL
     THEN UNCHANGED <<head, tail, node, freed, fault>>
     ELSE tss_cleanup(t)
  /\ UNCHANGED <<keys, slot, nextAddr, ret, last>>

Next ==
  \E t \in Threads:
    \/ tss_create(t)
    \/ \E k \in Keys: tss_get(t, k)
    \/ \E k \in Keys: tss_delete(t, k)
    \/ \E k \in Keys, v \in Values \cup {NoValue}: tss_set(t, k, v)
    \/ ThreadExit(t)

Spec == Init /\ [][Next]_vars

-----------------------------------------------------------------------------
(* Properties.                                                             *)

TypeOK ==
  /\ keys \subseteq Keys
  /\ slot \in [Threads -> [Keys -> Addr \cup {NULL}]]
  /\ head \in [Threads -> Addr \cup {NULL}]
  /\ tail \in [Threads -> Addr \cup {NULL}]
  /\ nextAddr \in 1..(MaxNodes + 1)
  /\ freed \subseteq Addr
  /\ alive \in [Threads -> BOOLEAN]
  /\ ret \in [Threads -> {"none", "thrd_success", "thrd_error", NoValue} \cup Values]
  /\ last \in [Threads -> [Keys -> Values \cup {NoValue}]]
  /\ fault \subseteq {"use_after_free", "null_deref", "double_free"}

\* The value tss_get(k) returns in thread t.
Stored(t, k) == IF slot[t][k] = NULL THEN NoValue ELSE node[slot[t][k]].value

(* While a thread runs, every key in use maps, in that thread, to NULL or  *)
(* to a node that is still allocated: tss_delete frees a node only with    *)
(* TlsFree of its key, and a new TlsAlloc of the index zeroes every        *)
(* thread's slot.                                                          *)
SlotNeverDangles ==
  \A t \in Threads, k \in keys:
    alive[t] /\ slot[t][k] # NULL => slot[t][k] \notin freed

(* tss_get returns what the thread last stored with tss_set under the same *)
(* key, or NULL when it has stored nothing since tss_create.               *)
StoredIsLastSet ==
  \A t \in Threads, k \in keys: alive[t] => Stored(t, k) = last[t][k]

(* The TSS code never reads, writes or frees a node it has freed, and      *)
(* never dereferences NULL: tss_delete, tss_set and the cleanup at thread  *)
(* exit touch only nodes still allocated.                                  *)
MemorySafe == fault = {}

=============================================================================
