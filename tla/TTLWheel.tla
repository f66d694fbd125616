-------------------------------- MODULE TTLWheel --------------------------------
(***************************************************************************)
(* TTLManager of store/ttl_manager.go: time wheels of growing intervals.    *)
(* A key's entry goes to the first wheel its delay fits, and to none if it  *)
(* fits none.  tick turns the first wheel only: it takes the current slot's *)
(* list off under the lock and handles the entries after the unlock, with   *)
(* AddKey and RemoveKey running in between.  An entry's rounds are always 0, *)
(* since its slots are below slotCount.                                     *)
(***************************************************************************)
EXTENDS Integers, Sequences, FiniteSets

CONSTANTS
    WheelKeys, WheelTTLs,
    WheelShape,     \* for each wheel its slotCount and interval, in time units
    WheelTime, MaxEntries       \* bounds: when the clock stops, the entries at a time

ASSUME WheelAssumption ==
    /\ WheelShape \in Seq([slots : Nat \ {0}, interval : Nat \ {0}]) /\ WheelShape # << >>
    /\ WheelTTLs \subseteq Nat

VARIABLES
    instant,    \* the time, in parts of the first wheel's interval
    ticked,     \* the ticker has fired at this instant, or does not fire at it
    wheels,     \* the entries of each slot of each wheel
    current,    \* currentSlot of the first wheel; the others' stay 0
    adding,     \* the entries AddKey has found a place for and not put there
    handling,   \* the list that tick has taken off
    expiring    \* the entries whose expireKey goroutine runs

wheelVars == <<instant, ticked, wheels, current, adding, handling, expiring>>

Levels == DOMAIN WheelShape
Slots(l) == 0..(WheelShape[l].slots - 1)

WheelInit ==
    /\ instant = 0 /\ ticked = TRUE
    /\ wheels = [l \in Levels |-> [s \in Slots(l) |-> {}]]
    /\ current = 0 /\ adding = {} /\ handling = {} /\ expiring = {}

-----------------------------------------------------------------------------

(* The slots an entry is away in wheel l, and the wheels it fits.           *)
SlotsAway(e, l) == (e.expire - instant) \div WheelShape[l].interval
Fitting(e) == {l \in Levels : SlotsAway(e, l) < WheelShape[l].slots}

(* addToWheel, up to the wheel's lock: an entry that has expired, one for   *)
(* which there is no wheel, or the first wheel that fits ...                *)
Places(e) ==
    {[entry |-> e, level |-> l, slots |-> SlotsAway(e, l)] :
        l \in {l \in Fitting(e) : \A m \in Fitting(e) : l <= m}}

(* ... and under it, counting from the slot that is current by then.        *)
TargetSlot(p) == ((IF p.level = 1 THEN current ELSE 0) + p.slots) % WheelShape[p.level].slots
Put(p) == wheels' = [wheels EXCEPT ![p.level][TargetSlot(p)] = @ \cup {p.entry}]

AddToWheel(e) ==
    \/ e.expire <= instant /\ expiring' = expiring \cup {e} /\ UNCHANGED wheels
    \/ e.expire > instant /\ Places(e) = {} /\ UNCHANGED <<expiring, wheels>>
    \/ /\ e.expire > instant /\ UNCHANGED expiring
       /\ \E p \in Places(e) : Put(p)

Entries ==
    {p.entry : p \in adding} \cup handling \cup expiring
        \cup UNION {UNION {wheels[l][s] : s \in Slots(l)} : l \in Levels}

(* AddKey, whose ttl is above 0, and its turn under the lock: tick may come *)
(* in between.                                                              *)
AddKey(k, ttl) ==
    /\ Cardinality(Entries) < MaxEntries
    /\ adding' = adding \cup Places([key |-> k, expire |-> instant + ttl])
    /\ UNCHANGED <<instant, ticked, wheels, current, handling, expiring>>

PutEntry(p) ==
    /\ p \in adding /\ adding' = adding \ {p} /\ Put(p)
    /\ UNCHANGED <<instant, ticked, current, handling, expiring>>

(* RemoveKey does not find the entries that tick has taken off, nor those   *)
(* about to be put.                                                         *)
Removed(slots, k) == [s \in DOMAIN slots |-> {e \in slots[s] : e.key # k}]

RemoveKey(k) ==
    /\ wheels' = [l \in Levels |-> Removed(wheels[l], k)]
    /\ UNCHANGED <<instant, ticked, current, adding, handling, expiring>>

(* tick under the lock ...                                                  *)
Tick ==
    /\ ~ticked /\ ticked' = TRUE
    /\ handling' = handling \cup wheels[1][current]
    /\ wheels' = [wheels EXCEPT ![1][current] = {}]
    /\ current' = (current + 1) % WheelShape[1].slots
    /\ UNCHANGED <<instant, adding, expiring>>

(* ... and each entry after it: expired, or added again.                    *)
HandleEntryUnchecked(e) ==
    /\ e \in handling /\ handling' = handling \ {e}
    /\ expiring' = expiring \cup {e}
    /\ UNCHANGED <<instant, ticked, wheels, current, adding>>

HandleEntry(e) ==
    /\ e \in handling /\ handling' = handling \ {e}
    /\ IF instant > e.expire
       THEN expiring' = expiring \cup {e} /\ UNCHANGED wheels
       ELSE AddToWheel(e)
    /\ UNCHANGED <<instant, ticked, current, adding>>

(* expireKey: shard.Delete of the key, whose failure is only logged.        *)
ExpireKey(e) ==
    /\ e \in expiring /\ expiring' = expiring \ {e}
    /\ UNCHANGED <<instant, ticked, wheels, current, adding, handling>>

(* Time moves on once the ticker that is due has fired, its list is handled *)
(* and no AddKey is half-way: the code is taken to be fast beside a second. *)
(* The ticker fires once per interval of the first wheel.                   *)
WheelClock ==
    /\ ticked /\ handling = {} /\ adding = {} /\ instant < WheelTime
    /\ instant' = instant + 1
    /\ ticked' = ((instant + 1) % WheelShape[1].interval # 0)
    /\ UNCHANGED <<wheels, current, adding, handling, expiring>>

WheelNext ==
    \/ \E k \in WheelKeys : RemoveKey(k) \/ \E ttl \in WheelTTLs : AddKey(k, ttl)
    \/ Tick \/ WheelClock
    \/ \E p \in adding : PutEntry(p)
    \/ \E e \in handling : HandleEntry(e)
    \/ \E e \in expiring : ExpireKey(e)

WheelSpec == WheelInit /\ [][WheelNext]_wheelVars

-----------------------------------------------------------------------------

(* The wheel is on time, for any phase of the ticker at which a key is      *)
(* added: expireKey never runs before the entry's expiry, and an entry of   *)
(* the first wheel is overdue by less than one interval when its slot comes *)
(* (AddKey, addToWheel, tick).  The other wheels promise nothing: nobody    *)
(* turns them.                                                              *)
WheelOnTime ==
    /\ \A e \in expiring : e.expire <= instant
    /\ \A s \in Slots(1) : \A e \in wheels[1][s] :
          instant <= e.expire + WheelShape[1].interval

=============================================================================
