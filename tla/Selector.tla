------------------------------ MODULE Selector ------------------------------
(***************************************************************************)
(* The packet path of src/src/tunnel.c: tunnel_packets and tunnel_get, the *)
(* weighted pick over tunnels_active with the static flow history, and the *)
(* operations that change what that pick sees: tunnel_create (whose static *)
(* id counter the reconnect thread increments without the lock),           *)
(* tunnel_set_insert, tunnel_set_delete and tunnel_set_replace on the      *)
(* active array, and tunnel_free.                                          *)
(*                                                                         *)
(* The active set is the array itself: slots[1..len] are the tunnels, and  *)
(* slot len+1 is what the array holds just past its length, which the walk *)
(* of tunnel_get can read. tunnel_set_delete shifts the tail left without  *)
(* clearing the old last slot, and unwritten slots are Junk (realloc does  *)
(* not initialise them).                                                   *)
(*                                                                         *)
(* Weights are fixed point: MaxW stands for 1.0 and MinW for 0.005. Hashes *)
(* are HashBits wide instead of 32 bits (the packet hash 2*HashBits), so   *)
(* UINT32_MAX is HashMod - 1. The pick ((wh / UINT32_MAX) * total) is kept *)
(* exact by scaling both sides of every comparison by HashMod - 1.         *)
(***************************************************************************)
EXTENDS Integers, Sequences, SequencesExt, FiniteSets, FiniteSetsExt,
        Functions, Bitwise

CONSTANTS
  Recs,        \* tunnel_t records the heap can hold at once
  NoRec,       \* no record
  Junk,        \* an array slot never written since the array was allocated
  HashBits,    \* width of the folded hash (32 in the code)
  HistSize,    \* TUNNEL_HISTORY_SIZE (1024 in the code)
  MaxRepeat,   \* the largest repeat count tunnel_packets is called with
  IdMod,       \* 2^16: the range of the uint16_t id
  MinW, MaxW,  \* the weights 0.005 and 1.0 in fixed point
  MaxSends,    \* bound on the packets forwarded in one behaviour
  MtuZero      \* whether cktp_tunnel_get_mtu can report an MTU of 0

ASSUME /\ NoRec \notin Recs /\ Junk \notin Recs
       /\ HashBits \in Nat \ {0} /\ HistSize \in Nat \ {0}
       /\ MaxRepeat \in Nat /\ IdMod \in Nat \ {0} /\ MaxSends \in Nat
       /\ MinW \in Nat \ {0} /\ MaxW \in Nat /\ MinW < MaxW
       /\ MtuZero \in BOOLEAN

HashMod == 2^HashBits
UintMax == HashMod - 1                  \* UINT32_MAX
Hashes == 0..(HashMod * HashMod - 1)    \* the uint64_t hash argument
Ids == 0..(IdMod - 1)
Cap == Cardinality(Recs) + 1            \* allocated size of the array
NoSend == [h |-> 0, rep |-> 0, t |-> NoRec]

VARIABLES
  rec,      \* per record: heap status, id and weight
  slots,    \* tunnels_active.tunnels[0..Cap-1], as slots[1..Cap]
  len,      \* tunnels_active.length
  nextId,   \* the static id counter of tunnel_create
  rt,       \* per record: the reconnect thread creating and installing it
  hist,     \* the static tunnel_history table
  lock,     \* tunnels_lock: "free", or "leaked" by a return that kept it
  sends,    \* packets forwarded so far (bounded by MaxSends)
  ub,       \* ghost: a chosen tunnel pointer was not a live record
  last      \* ghost: the previous step's forward, or NoSend

vars == <<rec, slots, len, nextId, rt, hist, lock, sends, ub, last>>

Record == [mem: {"unalloc", "live", "deleting", "freed"}, id: Ids,
           weight: MinW..MaxW]
Unallocated == [mem |-> "unalloc", id |-> 0, weight |-> MaxW]
Freed == [mem |-> "freed", id |-> 0, weight |-> MaxW]
NoThread == [pc |-> "none", tmp |-> 0, target |-> NoRec]

Active == {slots[i] : i \in 1..len}
IndexOf(r) == CHOOSE i \in 1..len : slots[i] = r
\* A tunnel tunnel_add does not refuse: allocated, neither active (OPEN or
\* OPENING, the states it refuses) nor driven by a reconnect thread.
Idle(r) == rec[r].mem = "live" /\ r \notin Active /\ rt[r].pc = "none"

-----------------------------------------------------------------------------
(* The set operations on the active array.                                 *)

\* tunnel_set_insert: store at index length, then length++.
SetInsert(r) == /\ slots' = [slots EXCEPT ![len + 1] = r]
                /\ len' = len + 1

\* A tunnel_set_delete that shifts the entries but forgets length--.
SetDeleteNoDecrement(i) == /\ slots' = [j \in 1..Cap |->
                                          IF i <= j /\ j < len THEN slots[j + 1]
                                                               ELSE slots[j]]
                           /\ UNCHANGED len

\* tunnel_set_delete: shift the entries after i left by one and decrement
\* the length; the old last slot keeps its pointer.
SetDelete(i) == /\ slots' = [j \in 1..Cap |->
                               IF i <= j /\ j < len THEN slots[j + 1]
                                                    ELSE slots[j]]
                /\ len' = len - 1

\* tunnel_free of a record tunnel_set_replace displaced: an OPENING record
\* (a reconnected one) only becomes DELETING and stays allocated, with no
\* set holding it; any other is freed.
Release(r) == \/ rec' = [rec EXCEPT ![r] = Freed]
              \/ rec' = [rec EXCEPT ![r].mem = "deleting"]

-----------------------------------------------------------------------------
(* The operations that change the active array or create records, each one *)
(* locked region (the reconnect thread's tunnel_create is not locked).     *)

\* tunnel_add on a new URL: tunnel_create under the lock (id = id++).
AddCreate(r) ==
  /\ lock = "free" /\ rec[r].mem = "unalloc"
  /\ rec' = [rec EXCEPT ![r] = [mem |-> "live", id |-> nextId,
                                weight |-> MaxW]]
  /\ nextId' = (nextId + 1) % IdMod
  /\ UNCHANGED <<slots, len, rt, hist, lock, sends, ub, last>>

\* The reconnect manager finds active tunnel r timed out and starts a
\* reconnect thread, whose tunnel_create mallocs record n and loads the
\* static id without the lock.
ReconnectStart(n, r) ==
  /\ lock = "free" /\ r \in Active /\ rec[n].mem = "unalloc"
  /\ \A m \in Recs : rt[m].target # r            \* tunnel->reconnect
  /\ rec' = [rec EXCEPT ![n].mem = "live"]
  /\ rt' = [rt EXCEPT ![n] = [pc |-> "read", tmp |-> nextId, target |-> r]]
  /\ UNCHANGED <<slots, len, nextId, hist, lock, sends, ub, last>>

\* The rest of tunnel->id = id++ in the reconnect thread: store the loaded
\* value in the record and the loaded value + 1 in the counter.
ReconnectIdStore(n) ==
  /\ rt[n].pc = "read"
  /\ rec' = [rec EXCEPT ![n].id = rt[n].tmp]
  /\ nextId' = (rt[n].tmp + 1) % IdMod
  /\ rt' = [rt EXCEPT ![n].pc = "run"]
  /\ UNCHANGED <<slots, len, hist, lock, sends, ub, last>>

\* tunnel_reconnect after a successful open: replace the old tunnel in the
\* active array and tunnel_free it; if it is no longer active but still
\* cached, the cache replace finds it (the new record stays, DEAD, and the
\* old one is tunnel_free'd); otherwise tunnel_free of the new record, still
\* OPENING, only marks it DELETING.
ReconnectSucceed(n) ==
  LET r == rt[n].target IN
  /\ lock = "free" /\ rt[n].pc = "run"
  /\ IF r \in Active
       THEN /\ slots' = [slots EXCEPT ![IndexOf(r)] = n]
            /\ Release(r)
       ELSE /\ IF rec[r].mem = "live" THEN Release(r)
                 ELSE rec' = [rec EXCEPT ![n].mem = "deleting"]
            /\ UNCHANGED slots
  /\ rt' = [rt EXCEPT ![n] = NoThread]
  /\ last' = NoSend
  /\ UNCHANGED <<len, nextId, hist, lock, sends, ub>>

\* tunnel_reconnect after a failed open: tunnel_set_delete on the active
\* array by the url string freed at line 814, which can match the old
\* tunnel, another active tunnel whose URL was allocated there, or nothing.
\* Then tunnel_free of the new record: freed if the delete found a tunnel
\* (it was made DEAD), else still OPENING and only marked DELETING.
ReconnectFail(n) ==
  /\ lock = "free" /\ rt[n].pc = "run"
  /\ \E v \in Active \cup {NoRec} :
       /\ IF v # NoRec THEN SetDelete(IndexOf(v)) ELSE UNCHANGED <<slots, len>>
       /\ rec' = [rec EXCEPT ![n] = IF v # NoRec THEN Freed
                                    ELSE [@ EXCEPT !.mem = "deleting"]]
  /\ rt' = [rt EXCEPT ![n] = NoThread]
  /\ last' = NoSend
  /\ UNCHANGED <<nextId, hist, lock, sends, ub>>

\* Mutant: an activation that does not check the tunnel is already active.
ActivateTwice(r) ==
  /\ lock = "free" /\ rec[r].mem = "live" /\ rt[r].pc = "none"
  /\ SetInsert(r)
  /\ last' = NoSend
  /\ UNCHANGED <<rec, nextId, rt, hist, lock, sends, ub>>

\* tunnel_activate opening record r: insert it into the active array.
Activate(r) ==
  /\ lock = "free" /\ Idle(r)
  /\ SetInsert(r)
  /\ last' = NoSend
  /\ UNCHANGED <<rec, nextId, rt, hist, lock, sends, ub>>

\* tunnel_delete of an active tunnel: remove it from the active array only.
Deactivate(r) ==
  /\ lock = "free" /\ r \in Active
  /\ SetDelete(IndexOf(r))
  /\ last' = NoSend
  /\ UNCHANGED <<rec, nextId, rt, hist, lock, sends, ub>>

\* tunnel_delete of a cached, inactive tunnel: remove it and tunnel_free it
\* (an OPENING one is freed by its activate thread a little later).
DeleteCached(r) ==
  /\ lock = "free" /\ Idle(r)
  /\ rec' = [rec EXCEPT ![r] = Freed]
  /\ last' = NoSend
  /\ UNCHANGED <<slots, len, nextId, rt, hist, lock, sends, ub>>

-----------------------------------------------------------------------------
(* tunnel_get's arithmetic on a sequence ws of weights (the active array's *)
(* in order). Pick values are scaled by UintMax: the real pick is          *)
(* (wh / UINT32_MAX) * total, so pick >= w is wh * total >= w * UintMax.   *)

\* hash % TUNNEL_HISTORY_SIZE
HistIdx(h) == h % HistSize
\* (uint32_t)(hash ^ (hash >> 32))
HistHash(h) == (h ^^ (h \div HashMod)) % HashMod
\* hist_hash * (repeat + 1) in uint32_t arithmetic
WeightHash(h, rep) == (HistHash(h) * (rep + 1)) % HashMod

TotalWeight(ws) == SumFunction(ws)

\* Mutant: the walk compares the pick with each weight but never subtracts
\* the weights it passes.
RECURSIVE WalkNoSubtract(_, _, _)
WalkNoSubtract(ws, i, p) ==
  IF i <= Len(ws) /\ p >= ws[i] * UintMax
    THEN WalkNoSubtract(ws, i + 1, p)
    ELSE i

\* The walk: while idx < length and pick >= weight[idx], pick -= weight[idx]
\* and idx++. Returns the 1-based index it stops at, Len(ws) + 1 when the
\* pick outlasts every weight.
RECURSIVE Walk(_, _, _)
Walk(ws, i, p) ==
  IF i <= Len(ws) /\ p >= ws[i] * UintMax
    THEN Walk(ws, i + 1, p - ws[i] * UintMax)
    ELSE i

\* The candidate index for weight hash wh.
PickIndex(ws, wh) == Walk(ws, 1, wh * TotalWeight(ws))

\* bad_tunnel * 0.75, clamped to at least 0.005.
Punish(w) == Max({MinW, (w * 3) \div 4})
\* tunnel * 1.15, clamped to at most 1.0.
Reward(w) == Min({MaxW, w + (w * 3) \div 20})

-----------------------------------------------------------------------------
\* Mutant: tunnel_get taking the punishment path without the repeat != 0
\* guard, so a first transmission of a flow moves off its previous tunnel.
ForwardPunishAlways(h, rep) ==
  LET ws == [i \in 1..len |-> rec[slots[i]].weight]
      slot == HistIdx(h)
      h32 == HistHash(h)
      idx0 == PickIndex(ws, WeightHash(h, rep))
      hit == hist[slot].hash = h32
      badIdx == IF hit THEN SelectInSeq(slots, LAMBDA x :
                               x \in Active /\ rec[x].id = hist[slot].id)
                       ELSE 0
      bad == IF badIdx \in 1..len THEN slots[badIdx] ELSE NoRec
      idx == IF bad # NoRec /\ slots[idx0] = bad THEN (idx0 % len) + 1
                                                 ELSE idx0
      t == slots[idx]
      punished == IF bad = NoRec THEN rec
                  ELSE [rec EXCEPT ![bad].weight = Punish(@)]
      wild == t \notin Recs \/ rec[t].mem \in {"unalloc", "freed"}
  IN
  /\ lock = "free" /\ len > 0 /\ sends < MaxSends
  /\ IF wild
       THEN /\ rec' = punished
            /\ \E gid \in Ids :
                 hist' = [hist EXCEPT ![slot] = [hash |-> h32, id |-> gid]]
            /\ ub' = TRUE
       ELSE /\ rec' = [punished EXCEPT ![t].weight = Reward(@)]
            /\ hist' = [hist EXCEPT ![slot] = [hash |-> h32, id |-> rec[t].id]]
            /\ UNCHANGED ub
  /\ lock' \in IF MtuZero THEN {"free", "leaked"} ELSE {"free"}
  /\ sends' = sends + 1
  /\ last' = [h |-> h, rep |-> rep, t |-> t]
  /\ UNCHANGED <<slots, len, nextId, rt>>

(* tunnel_packets with tunnel_get: one packet forwarded under the lock.    *)
(* Otherwise the walk picks a candidate slot; a repeat whose history slot  *)
(* still holds this flow's 32-bit hash punishes the first active tunnel    *)
(* with the recorded id and, if that is the candidate (same pointer),      *)
(* moves to the next index modulo the length; the chosen tunnel is         *)
(* rewarded and recorded in the history. A chosen pointer that is not a    *)
(* live record (Junk or freed memory) is undefined behaviour: its weight   *)
(* and id are garbage, so the id recorded is any. Then the MTU check,      *)
(* whose 0 answer returns with the lock still held; the fragmentation and  *)
(* send paths both unlock.                                                 *)
Forward(h, rep) ==
  LET ws == [i \in 1..len |-> rec[slots[i]].weight]
      slot == HistIdx(h)
      h32 == HistHash(h)
      idx0 == PickIndex(ws, WeightHash(h, rep))
      hit == rep # 0 /\ hist[slot].hash = h32
      badIdx == IF hit THEN SelectInSeq(slots, LAMBDA x :
                               x \in Active /\ rec[x].id = hist[slot].id)
                       ELSE 0
      bad == IF badIdx \in 1..len THEN slots[badIdx] ELSE NoRec
      idx == IF bad # NoRec /\ slots[idx0] = bad THEN (idx0 % len) + 1
                                                 ELSE idx0
      t == slots[idx]
      punished == IF bad = NoRec THEN rec
                  ELSE [rec EXCEPT ![bad].weight = Punish(@)]
      wild == t \notin Recs \/ rec[t].mem \in {"unalloc", "freed"}
  IN
  /\ lock = "free" /\ len > 0 /\ sends < MaxSends
  /\ IF wild
       THEN /\ rec' = punished
            /\ \E gid \in Ids :
                 hist' = [hist EXCEPT ![slot] = [hash |-> h32, id |-> gid]]
            /\ ub' = TRUE
       ELSE /\ rec' = [punished EXCEPT ![t].weight = Reward(@)]
            /\ hist' = [hist EXCEPT ![slot] = [hash |-> h32, id |-> rec[t].id]]
            /\ UNCHANGED ub
  /\ lock' \in IF MtuZero THEN {"free", "leaked"} ELSE {"free"}
  /\ sends' = sends + 1
  /\ last' = [h |-> h, rep |-> rep, t |-> t]
  /\ UNCHANGED <<slots, len, nextId, rt>>

\* tunnel_packets when tunnel_get finds no active tunnel: unlock, warn and
\* drop the packet.
ForwardNoTunnel ==
  /\ lock = "free" /\ len = 0
  /\ UNCHANGED vars

-----------------------------------------------------------------------------
Init ==
  /\ rec = [r \in Recs |-> Unallocated]
  /\ slots = [i \in 1..Cap |-> Junk]
  /\ len = 0
  /\ nextId = 0
  /\ rt = [r \in Recs |-> NoThread]
  /\ hist = [s \in 0..(HistSize - 1) |-> [hash |-> 0, id |-> 0]]
  /\ lock = "free"
  /\ sends = 0
  /\ ub = FALSE
  /\ last = NoSend

Next ==
  \/ \E r \in Recs : \/ AddCreate(r) \/ Activate(r) \/ Deactivate(r)
                     \/ DeleteCached(r) \/ ReconnectIdStore(r)
                     \/ ReconnectSucceed(r) \/ ReconnectFail(r)
                     \/ \E a \in Recs : ReconnectStart(r, a)
  \/ \E h \in Hashes, rep \in 0..MaxRepeat : Forward(h, rep)
  \/ ForwardNoTunnel

Spec == Init /\ [][Next]_vars

-----------------------------------------------------------------------------
TypeOK ==
  /\ rec \in [Recs -> Record]
  /\ slots \in [1..Cap -> Recs \cup {Junk}] /\ len \in 0..(Cap - 1)
  /\ nextId \in Ids
  /\ rt \in [Recs -> [pc: {"none", "read", "run"}, tmp: Ids,
                      target: Recs \cup {NoRec}]]
  /\ hist \in [0..(HistSize - 1) -> [hash: 0..UintMax, id: Ids]]
  /\ lock \in {"free", "leaked"}
  /\ sends \in 0..MaxSends
  /\ ub \in BOOLEAN

\* The first index at which the running weight sum exceeds the pick; the
\* definition the walk of tunnel_get is meant to compute.
RefIndex(ws, wh) ==
  LET Above == {i \in 1..Len(ws) :
                 wh * TotalWeight(ws) < UintMax * SumFunctionOnSet(ws, 1..i)}
  IN IF Above = {} THEN Len(ws) + 1 ELSE Min(Above)

(* The weighted pick of tunnel_get (its subtracting walk over the active  *)
(* array) selects, for every weight hash below UINT32_MAX and whatever the *)
(* weights the punish and reward updates have left, the reference index:  *)
(* the first tunnel whose cumulative weight exceeds the pick, inside the  *)
(* array.                                                                  *)
SelectionAgreesWithReference ==
  LET ws == [i \in 1..len |-> rec[slots[i]].weight] IN
  len > 0 => \A wh \in 0..(UintMax - 1) :
               /\ PickIndex(ws, wh) = RefIndex(ws, wh)
               /\ PickIndex(ws, wh) \in 1..len

(* Flow stability (spec 8): two consecutive first transmissions of the    *)
(* same hash, with no change to the array or the weights in between, go   *)
(* through the same tunnel, although the first one's reward has raised    *)
(* that tunnel's weight and so the total the second pick scales by.       *)
FlowStable ==
  [][(/\ sends' = sends + 1 /\ last # NoSend
      /\ last.rep = 0 /\ last'.rep = 0 /\ last'.h = last.h)
        => last'.t = last.t]_vars

(* Every tunnel pointer tunnel_get returns, and whose weight and id it     *)
(* reads and writes, is a live record: never a slot past the array's      *)
(* length that holds junk or a freed tunnel.                               *)
NoWildPointer == ~ub

(* Tunnel ids are process-unique (spec 2: "16-bit unsigned, process-unique *)
(* monotonic"), which the history relies on to name a tunnel: no two      *)
(* allocated records carry the same id, whether tunnel_create runs under   *)
(* the lock (tunnel_add) or not (tunnel_reconnect).                        *)
UniqueIds ==
  LET Named == {r \in Recs : rec[r].mem \in {"live", "deleting"}
                                /\ rt[r].pc # "read"}
  IN \A a, b \in Named : a # b => rec[a].id # rec[b].id

(* The active array is a tunnel set as TunnelSet states it: whatever the  *)
(* interleaving of activations, deactivations, failed and successful      *)
(* reconnections, its first length entries are distinct tunnels and each  *)
(* step appends one, removes one keeping the order of the rest, or puts a  *)
(* new tunnel in an entry's place (tunnel_set_insert, tunnel_set_delete,   *)
(* tunnel_set_replace).                                                    *)
ActiveSet == INSTANCE TunnelSet WITH Elems <- Recs,
                                     set <- [i \in 1..len |-> slots[i]]

ActiveSetRefined == ActiveSet!Spec
====
