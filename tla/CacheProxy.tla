----------------------------- MODULE CacheProxy -----------------------------
(***************************************************************************)
(* The caching proxy beside the workers (cmd/cache-proxy): the disk cache  *)
(* with its index, the requests that share one fetch, the peers that ask   *)
(* each other before the origin, and the tunnels. A body is whole ("full") *)
(* or a part of it ("part"); the index is kept in order of last access.    *)
(***************************************************************************)
EXTENDS Integers, Sequences, SequencesExt, FiniteSets, FiniteSetsExt

CONSTANT Setups   \* [nodes, size: key -> bytes, max (bytes), faults,
                  \*  reqs: sequence of [node, key, kind]]

VARIABLES setup,
          file,     \* file[n][k]: "none", "part" or "full"
          order,    \* order[n]: the index, least recently used first
          cur,      \* cur[n]: currentSize
          flight,   \* flight[n][k]: the request that fetches, 0 for nobody
          req,      \* the requests and their handlers
          broken,   \* broken[n]: keys whose last write failed
          faults

vars == <<setup, file, order, cur, flight, req, broken, faults>>

Nodes == 1..setup.nodes
Keys == DOMAIN setup.size
Reqs == DOMAIN setup.reqs

Node(r) == setup.reqs[r].node
Key(r) == setup.reqs[r].key

\* len(data); a part is shorter.
Size(k, body) == IF body = "full" THEN setup.size[k] ELSE setup.size[k] - 1
Total(entries) == FoldSeq(LAMBDA e, s : e.size + s, 0, entries)

Init ==
  /\ setup \in Setups
  /\ file = [n \in Nodes |-> [k \in Keys |-> "none"]]
  /\ order = [n \in Nodes |-> <<>>]
  /\ cur = [n \in Nodes |-> 0]
  /\ flight = [n \in Nodes |-> [k \in Keys |-> 0]]
  /\ req = [r \in Reqs |-> [pc |-> "idle", val |-> "none", call |-> 0, linked |-> FALSE,
                            legs |-> {}, closed |-> FALSE]]
  /\ broken = [n \in Nodes |-> {}] /\ faults = setup.faults

At(r, pc) == req[r].pc = pc
Go(r, pc) == req' = [req EXCEPT ![r].pc = pc]
Got(r, body, pc) == req' = [req EXCEPT ![r].pc = pc, ![r].val = body]
Fault == faults > 0 /\ faults' = faults - 1

-----------------------------------------------------------------------------
(* HandleProxy, from a hit to the shared fetch.                            *)

HandleProxy(r) ==
  /\ At(r, "idle")
  /\ Go(r, CASE setup.reqs[r].kind = "get" -> "look"
             [] setup.reqs[r].kind = "connect" -> "dial"
             [] OTHER -> "forward")
  /\ UNCHANGED <<setup, file, order, cur, flight, broken, faults>>

\* Get reads the file outside the lock.
Get(r) ==
  /\ At(r, "look")
  /\ LET body == file[Node(r)][Key(r)]
     IN  IF body = "none" THEN Go(r, "do") ELSE Got(r, body, "touch")
  /\ UNCHANGED <<setup, file, order, cur, flight, broken, faults>>

\* The first entry of the key becomes the most recent.
touchLocked(entries, k) ==
  LET i == SelectInSeq(entries, LAMBDA e : e.key = k)
  IN  IF i = 0 THEN entries ELSE Append(RemoveAt(entries, i), entries[i])

ServeHit(r) ==
  /\ At(r, "touch") /\ Go(r, "served")
  /\ order' = [order EXCEPT ![Node(r)] = touchLocked(@, Key(r))]
  /\ UNCHANGED <<setup, file, cur, flight, broken, faults>>

\* No other request fetches the key.
Leads(r) == flight[Node(r)][Key(r)] = 0

\* singleFlight.Do: fetch, or wait for the one that does.
Do(r) ==
  /\ At(r, "do")
  /\ IF Leads(r)
     THEN /\ Go(r, "peers") /\ flight' = [flight EXCEPT ![Node(r)][Key(r)] = r]
     ELSE /\ req' = [req EXCEPT ![r].pc = "wait", ![r].call = flight[Node(r)][Key(r)]]
          /\ UNCHANGED flight
  /\ UNCHANGED <<setup, file, order, cur, broken, faults>>

\* resolve: the service's addresses without the node's own.
Peers(r) == Nodes \ {Node(r)}

\* FetchFromPeers: a peer that says it has the key is asked for it; whatever goes
\* wrong or takes too long, the origin is next.
FetchFromPeers(r) ==
  /\ At(r, "peers")
  /\ \/ \E q \in Peers(r) : file[q][Key(r)] # "none" /\ Go(r, "peerget")
     \/ Go(r, "origin")
  /\ UNCHANGED <<setup, file, order, cur, flight, broken, faults>>

HandlePeerGet(r) ==
  /\ At(r, "peerget")
  /\ \/ \E q \in Peers(r) :
          /\ file[q][Key(r)] # "none" /\ Got(r, file[q][Key(r)], "fetched")
          /\ order' = [order EXCEPT ![q] = touchLocked(@, Key(r))]
     \/ Go(r, "origin") /\ UNCHANGED order
  /\ UNCHANGED <<setup, file, cur, flight, broken, faults>>

\* fetchOrigin: the body, or an error (the origin's, the network's, or this
\* request's own client has left).
fetchOrigin(r) ==
  /\ At(r, "origin") /\ \E body \in {"full", "err"} : Got(r, body, "fetched")
  /\ UNCHANGED <<setup, file, order, cur, flight, broken, faults>>

fetchDedup(r) == FetchFromPeers(r) \/ HandlePeerGet(r) \/ fetchOrigin(r)

After(body) == IF body = "err" THEN "failed" ELSE "put"

\* The waiters have been released; the call is forgotten.
Forget(r) ==
  /\ At(r, "fetched") /\ Go(r, After(req[r].val))
  /\ flight' = [flight EXCEPT ![Node(r)][Key(r)] = 0]
  /\ UNCHANGED <<setup, file, order, cur, broken, faults>>

\* Mutant: only a fetch that succeeds wakes the requests that wait.
OnSuccess(r) == req[req[r].call].val = "full"

\* c.wg.Done comes when the fetch returns, with a body or an error.
Released(r) == req[req[r].call].pc \notin {"peers", "peerget", "origin"}

Wait(r) ==
  /\ At(r, "wait") /\ Released(r)
  /\ LET body == req[req[r].call].val IN Got(r, body, After(body))
  /\ UNCHANGED <<setup, file, order, cur, flight, broken, faults>>

-----------------------------------------------------------------------------
(* Put: evict under the lock, write without it, enter under it again.      *)


Freed(n, i) == Total(SubSeq(order[n], 1, i))

Fits(n, i, size) == cur[n] - Freed(n, i) + size <= setup.max

\* The files of the first i entries are removed.
Evicted(n, i) == {order[n][j].key : j \in 1..i}

\* An open file that is removed is written to no effect.
evictOldest(r) ==
  LET n == Node(r)
      size == Size(Key(r), req[r].val)
      i == Min({j \in 0..Len(order[n]) : Fits(n, j, size) \/ j = Len(order[n])})
      gone == Evicted(n, i)
  IN  /\ At(r, "put")
      /\ file' = [file EXCEPT ![n] = [k \in Keys |-> IF k \in gone THEN "none" ELSE @[k]]]
      /\ order' = [order EXCEPT ![n] = SubSeq(@, i + 1, Len(@))]
      /\ cur' = [cur EXCEPT ![n] = @ - Freed(n, i)]
      /\ broken' = [broken EXCEPT ![n] = @ \ gone]
      /\ req' = [q \in Reqs |->
                   IF q = r THEN [req[q] EXCEPT !.pc = "write"]
                   ELSE IF Node(q) = n /\ Key(q) \in gone THEN [req[q] EXCEPT !.linked = FALSE]
                   ELSE req[q]]
      /\ UNCHANGED <<setup, flight, faults>>

\* os.WriteFile truncates the file, or fails and the body is served all the same.
WriteBegins(r) ==
  /\ At(r, "write")
  /\ \/ /\ req' = [req EXCEPT ![r].pc = "writing", ![r].linked = TRUE]
        /\ file' = [file EXCEPT ![Node(r)][Key(r)] = "part"] /\ UNCHANGED faults
     \/ Fault /\ Go(r, "served") /\ UNCHANGED file
  /\ UNCHANGED <<setup, order, cur, flight, broken>>

OtherWriter(r) ==
  \E q \in Reqs \ {r} : At(q, "writing") /\ req[q].linked /\ Node(q) = Node(r) /\ Key(q) = Key(r)

\* The end of the write; while another writer of the same file is at work the
\* file may be a part of either.
Written(r) == {req[r].val} \cup (IF OtherWriter(r) THEN {"part"} ELSE {})

WriteEnds(r) ==
  /\ At(r, "writing")
  /\ \/ /\ IF req[r].linked
           THEN \E body \in Written(r) : file' = [file EXCEPT ![Node(r)][Key(r)] = body]
           ELSE UNCHANGED file
        /\ Go(r, "enter") /\ UNCHANGED <<broken, faults>>
     \/ /\ Fault /\ Go(r, "served")
        /\ broken' = IF req[r].linked THEN [broken EXCEPT ![Node(r)] = @ \cup {Key(r)}] ELSE broken
        /\ UNCHANGED file
  /\ UNCHANGED <<setup, order, cur, flight>>

\* The entry is appended, also when the key has one already.
Put(r) ==
  LET n == Node(r)
      size == Size(Key(r), req[r].val)
  IN  /\ At(r, "enter") /\ Go(r, "served")
      /\ order' = [order EXCEPT ![n] = Append(@, [key |-> Key(r), size |-> size])]
      /\ cur' = [cur EXCEPT ![n] = @ + size]
      /\ UNCHANGED <<setup, file, flight, broken, faults>>

-----------------------------------------------------------------------------
(* What is not cached.                                                     *)

forwardUncached(r) ==
  /\ At(r, "forward") /\ \E pc \in {"served", "failed"} : Go(r, pc)
  /\ UNCHANGED <<setup, file, order, cur, flight, broken, faults>>

Legs == {"up", "down"}

Dial(r) ==
  /\ At(r, "dial")
  /\ \/ req' = [req EXCEPT ![r].pc = "tunnel", ![r].legs = Legs]
     \/ Go(r, "failed")
  /\ UNCHANGED <<setup, file, order, cur, flight, broken, faults>>

\* A copy that ends closes both connections.
ClosesBoth(r) == TRUE

LegEnds(r, leg) ==
  /\ At(r, "tunnel") /\ leg \in req[r].legs
  /\ LET rest == req[r].legs \ {leg}
     IN  req' = [req EXCEPT ![r].legs = rest, ![r].closed = ClosesBoth(r),
                            ![r].pc = IF rest = {} THEN "served" ELSE @]
  /\ UNCHANGED <<setup, file, order, cur, flight, broken, faults>>

handleConnect(r) == req[r].closed /\ \E leg \in Legs : LegEnds(r, leg)

-----------------------------------------------------------------------------
Ended == {"idle", "served", "failed"}

\* scanExisting: every file is an entry, a part of one included.
scanExisting(n) == {k \in Keys : file[n][k] # "none"}

\* The process dies and comes back; its files have stayed. ModTime gives the order.
Restart(n) ==
  /\ Fault
  /\ req' = [r \in Reqs |-> IF Node(r) = n /\ req[r].pc \notin Ended
                            THEN [req[r] EXCEPT !.pc = "failed"] ELSE req[r]]
  /\ flight' = [flight EXCEPT ![n] = [k \in Keys |-> 0]]
  /\ \E keys \in SetToSeqs(scanExisting(n)) :
       LET entries == [i \in DOMAIN keys |->
                         [key |-> keys[i], size |-> Size(keys[i], file[n][keys[i]])]]
       IN  /\ order' = [order EXCEPT ![n] = entries]
           /\ cur' = [cur EXCEPT ![n] = Total(entries)]
  /\ broken' = [broken EXCEPT ![n] = {}]
  /\ UNCHANGED <<setup, file>>

\* What the handler of a request does by itself: every wait in it has a timeout.
Step(r) ==
  \/ Get(r) \/ ServeHit(r) \/ Do(r) \/ fetchDedup(r) \/ Forget(r) \/ Wait(r)
  \/ evictOldest(r) \/ WriteBegins(r) \/ WriteEnds(r) \/ Put(r)
  \/ forwardUncached(r) \/ Dial(r) \/ handleConnect(r)

Next ==
  \/ \E r \in Reqs : HandleProxy(r) \/ Step(r) \/ \E leg \in Legs : LegEnds(r, leg)
  \/ \E n \in Nodes : Restart(n)

AllReqs == UNION {DOMAIN s.reqs : s \in Setups}

Spec == Init /\ [][Next]_vars /\ \A r \in AllReqs : WF_vars(r \in Reqs /\ Step(r))

-----------------------------------------------------------------------------
Bodies == {"none", "part", "full"}
Pcs == Ended \cup {"look", "touch", "do", "wait", "peers", "peerget", "origin", "fetched", "put",
                   "write", "writing", "enter", "forward", "dial", "tunnel"}

\* Types: every request is at a known step and every index entry has a known shape.
TypeOK ==
  /\ setup \in Setups /\ faults \in 0..setup.faults
  /\ file \in [Nodes -> [Keys -> Bodies]] /\ flight \in [Nodes -> [Keys -> 0..Len(setup.reqs)]]
  /\ \A n \in Nodes : /\ \A i \in DOMAIN order[n] : order[n][i].key \in Keys
                      /\ cur[n] \in Nat /\ broken[n] \subseteq Keys
  /\ req \in [Reqs -> [pc : Pcs, val : Bodies \cup {"err"}, call : 0..Len(setup.reqs),
                       linked : BOOLEAN, legs : SUBSET Legs, closed : BOOLEAN]]

\* fetchDedup: concurrent misses of a key on one node make one fetch, also when
\* a request comes between the end of a fetch and the call being forgotten.
SingleFetch ==
  \A r, q \in Reqs :
    /\ Node(r) = Node(q) /\ Key(r) = Key(q)
    /\ req[r].pc \in {"peers", "peerget", "origin"} /\ req[q].pc \in {"peers", "peerget", "origin"}
    => r = q

Writing(n, k) == {r \in Reqs : Node(r) = n /\ Key(r) = k /\ req[r].pc \in {"writing", "enter"}}

\* Every file can be evicted: it has an entry, its writer is about to make one, or
\* its write failed; and currentSize is the sum of the entries. So what eviction
\* compares with the budget never leaves a file out, through double entries,
\* evictions during a write and restarts.
Evictable ==
  \A n \in Nodes :
    /\ cur[n] = Total(order[n])
    /\ \A k \in Keys : file[n][k] # "none" =>
         (\E i \in DOMAIN order[n] : order[n][i].key = k) \/ Writing(n, k) # {} \/ k \in broken[n]

\* HandleProxy: every request that comes is answered (none comes twice), whatever
\* happens to the request it waits for; and handleConnect: when either direction
\* of a tunnel ends, the other one does too.
RequestsEnded ==
  \A r \in Reqs : req[r].pc \in Ended \/ (At(r, "tunnel") /\ req[r].legs = Legs)

\* Put: on a node without peers a part of a body is on disk only while a writer
\* of it is at work, however many write it at once and whatever is evicted under
\* them; until a write fails or the process dies. (Who reads it in that while is
\* served the part, and a peer keeps it.)
TornWhileWritten ==
  setup.nodes = 1 /\ faults = setup.faults =>
    \A k \in Keys : file[1][k] = "part" =>
      \E r \in Reqs : Key(r) = k /\ At(r, "writing") /\ req[r].linked
=============================================================================
