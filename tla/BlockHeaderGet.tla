--------------------------- MODULE BlockHeaderGet ---------------------------
(***************************************************************************)
(* The per-connection tracker that answers a remote peer's GetBlockHeaders *)
(* requests (shell_automaton peer/remote_requests/block_header_get).       *)
(*                                                                         *)
(* Each connected peer owns a PeerRemoteRequestsBlockHeaderGetState: a     *)
(* BTreeSet `queue` of requested hashes and a `current` slot that holds at *)
(* most one storage lookup in flight.  Lookups run in the storage service  *)
(* off the control loop and come back, in any order, as actions carrying   *)
(* the RequestId they were issued with.  A disconnect drops the peer's     *)
(* state at once; the lookups it left in flight still answer later and     *)
(* must be discarded.                                                      *)
(***************************************************************************)
EXTENDS Naturals, FiniteSets

CONSTANTS
    Peers,          \* peer addresses (model values)
    Hashes,         \* block hashes: naturals, so that the BTreeSet order is <
    Known,          \* the hashes whose header the block storage holds
    NoHeader,       \* None: the storage holds no header for the hash
    NoHash,         \* block_hash() of an Idle slot
    NoReq,          \* storage_req_id() of a slot that is not Pending
    RequestIds      \* ids the RequestId counter hands out (see FreshId)

ASSUME Hashes \subseteq Nat /\ Known \subseteq Hashes
ASSUME RequestIds \subseteq Nat /\ RequestIds # {}

VARIABLES
    connected,      \* peers whose connection, and so whose state, exists
    queue,          \* [Peers -> SUBSET Hashes]: the BTreeSet queue
    current,        \* [Peers -> slot]: PeerRemoteRequestsBlockHeaderGetCurrentState
    storage,        \* storage lookups in flight: [id, peer, hash, stale]
    requested       \* history: [Peers -> SUBSET Hashes] asked for and not yet answered

vars == <<connected, queue, current, storage, requested>>

-----------------------------------------------------------------------------
(* The header the storage returns for a hash: Some(header) or None.  A     *)
(* header is identified with the hash it was stored under.                 *)
StoredHeader(h) == IF h \in Known THEN h ELSE NoHeader

(* The four variants of PeerRemoteRequestsBlockHeaderGetCurrentState.  The *)
(* Idle variant's `time` is not read by anything modelled and is dropped.  *)
Idle == [kind |-> "Idle"]
Pending(h, id) == [kind |-> "Pending", block_hash |-> h, storage_req_id |-> id]
Error(h) == [kind |-> "Error", block_hash |-> h]
Success(h, r) == [kind |-> "Success", block_hash |-> h, result |-> r]

(* Faults of the kind a slip in this code would make, each breaking one   *)
(* property below (PROJECT.json "mutants"): the slot test reading the      *)
(* Success variant; a storage_req_id that forgets the id; a duplicate      *)
(* check that looks only at the queue; a response matched to any Pending  *)
(* slot of the peer without comparing RequestIds.                          *)
SuccessCountsAsPending(c) == c.kind = "Success"
ReqIdNotKept(c) == NoReq

is_pending(c) == c.kind = "Pending"

is_success(c) == c.kind = "Success"

storage_req_id(c) == IF is_pending(c) THEN c.storage_req_id ELSE NoReq

block_hash(c) == IF c.kind = "Idle" THEN NoHash ELSE c.block_hash

QueueOnlyCheck(p, h) == h \in queue[p]

is_pending_or_queued(p, h) ==
    h \in queue[p] \/ block_hash(current[p]) = h

(* A RequestId is only ever compared for equality with the ids still held  *)
(* by a Pending slot or a lookup in flight, so handing out the least id    *)
(* none of them holds is indistinguishable from the code's ever-growing    *)
(* counter, and keeps the state space finite.                              *)
IdsInUse ==
    {r.id : r \in storage} \cup {storage_req_id(current[p]) : p \in Peers}

FreshId == CHOOSE id \in RequestIds \ IdsInUse :
               \A j \in RequestIds \ IdsInUse : id <= j

(* BTreeSet::iter().next(): the least hash of the queue.                   *)
FirstQueued(p) == CHOOSE h \in queue[p] : \A g \in queue[p] : h <= g

(* A storage answer is the one this slot waits for when its RequestId is   *)
(* the slot's storage_req_id.                                              *)
AnyPendingAwaits(r) ==
    r.peer \in connected /\ is_pending(current[r.peer])

AwaitedBy(r) ==
    r.peer \in connected /\ storage_req_id(current[r.peer]) = r.id

-----------------------------------------------------------------------------
Init ==
    /\ connected = {}
    /\ queue = [p \in Peers |-> {}]
    /\ current = [p \in Peers |-> Idle]
    /\ storage = {}
    /\ requested = [p \in Peers |-> {}]

(* A connection is accepted or dialled: the peer's state is created with   *)
(* the Default tracker (empty queue, Idle slot).                           *)
Connect(p) ==
    /\ p \notin connected
    /\ connected' = connected \cup {p}
    /\ queue' = [queue EXCEPT ![p] = {}]
    /\ current' = [current EXCEPT ![p] = Idle]
    /\ UNCHANGED <<storage, requested>>

(* Teardown removes all connection-scoped state at once; the lookups the   *)
(* peer left in flight are not cancelled, they will answer late.           *)
Disconnect(p) ==
    /\ p \in connected
    /\ connected' = connected \ {p}
    /\ queue' = [queue EXCEPT ![p] = {}]
    /\ current' = [current EXCEPT ![p] = Idle]
    /\ storage' = {IF r.peer = p THEN [r EXCEPT !.stale = TRUE] ELSE r : r \in storage}
    /\ requested' = [requested EXCEPT ![p] = {}]

(* A GetBlockHeaders message asks for h: the Enqueue action is enabled     *)
(* only when h is neither queued nor in the slot.                          *)
Enqueue(p, h) ==
    /\ p \in connected
    /\ ~is_pending_or_queued(p, h)
    /\ queue' = [queue EXCEPT ![p] = @ \cup {h}]
    /\ requested' = [requested EXCEPT ![p] = @ \cup {h}]
    /\ UNCHANGED <<connected, current, storage>>

(* When nothing is in flight, the least queued hash moves into the slot    *)
(* and a storage lookup is issued under a fresh RequestId.                 *)
InitNext(p) ==
    /\ p \in connected
    /\ ~is_pending(current[p])
    /\ queue[p] # {}
    /\ RequestIds \ IdsInUse # {}
    /\ LET h == FirstQueued(p) IN
       /\ queue' = [queue EXCEPT ![p] = @ \ {h}]
       /\ current' = [current EXCEPT ![p] = Pending(h, FreshId)]
       /\ storage' = storage \cup
                {[id |-> FreshId, peer |-> p, hash |-> h, stale |-> FALSE]}
    /\ UNCHANGED <<connected, requested>>

(* The storage service answers lookup r, Ok(Option<header>) or Err.  The   *)
(* answer resolves the slot that awaits it (and the header, when found, is *)
(* written to the peer); an answer nobody awaits is looked up, found       *)
(* missing and dropped.                                                    *)
StorageRespond(r) ==
    /\ r \in storage
    /\ storage' = storage \ {r}
    /\ \E ok \in BOOLEAN :
         IF AwaitedBy(r)
         THEN LET h == block_hash(current[r.peer]) IN
              /\ current' = [current EXCEPT ![r.peer] =
                                IF ok THEN Success(h, StoredHeader(r.hash))
                                      ELSE Error(h)]
              /\ requested' = [requested EXCEPT ![r.peer] = @ \ {h}]
         ELSE UNCHANGED <<current, requested>>
    /\ UNCHANGED <<connected, queue>>

Next ==
    \/ \E p \in Peers : Connect(p) \/ Disconnect(p) \/ InitNext(p)
    \/ \E p \in Peers, h \in Hashes : Enqueue(p, h)
    \/ \E r \in storage : StorageRespond(r)

(* The control loop always runs the scheduler and the storage service      *)
(* always answers; the remote peer (Connect, Disconnect, Enqueue) owes     *)
(* nothing.                                                                *)
Fairness ==
    /\ \A p \in Peers : WF_vars(InitNext(p))
    /\ \A id \in RequestIds :
         WF_vars(\E r \in storage : r.id = id /\ StorageRespond(r))

Spec == Init /\ [][Next]_vars /\ Fairness

-----------------------------------------------------------------------------
(* §3: a hash in the slot is never also in the queue.  It rests on         *)
(* Enqueue's is_pending_or_queued check covering the slot as well as the   *)
(* queue, across the pop in InitNext.                                      *)
NotQueuedAndCurrent ==
    \A p \in connected : block_hash(current[p]) \notin queue[p]

(* Every answer written to a peer carries the header stored under the hash *)
(* the peer asked for, even though answers of lookups issued for an        *)
(* earlier connection of the same address, or for another peer, arrive    *)
(* while this slot is Pending.  It rests on the RequestId correlation.     *)
AnswerMatchesRequest ==
    \A p \in connected :
        is_success(current[p]) =>
            current[p].result = StoredHeader(current[p].block_hash)

(* §4.4: at most one storage lookup per connection is in flight; lookups   *)
(* left by an earlier connection of the same address do not count.         *)
OneLookupPerConnection ==
    \A p \in connected :
        Cardinality({r \in storage : r.peer = p /\ ~r.stale}) <= 1

(* A lookup in flight for a connected peer is eventually resolved.         *)
LookupResolves ==
    \A p \in Peers :
        (p \in connected /\ is_pending(current[p])) ~> ~is_pending(current[p])

(* Every hash a peer asks for is eventually answered (Success or Error)    *)
(* unless the peer disconnects first.                                      *)
RequestAnswered ==
    \A p \in Peers, h \in Hashes :
        (h \in requested[p]) ~> (h \notin requested[p])

=============================================================================
