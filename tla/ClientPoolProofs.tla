--------------------------- MODULE ClientPoolProofs ---------------------------
(***************************************************************************)
(* The client library's pool for any number of goroutines, clients,        *)
(* requests and failures, and any sizes: every client has one owner, the   *)
(* size is the number of clients, no connection leaks, and answers stay in *)
(* step with requests.  First what every step keeps: types, the owner of   *)
(* every client, where goroutines, cleanup and Close are, answers in step  *)
(* with requests, and the ways a step can count clients; then the counting *)
(* itself and the conclusions.                                             *)
(***************************************************************************)
EXTENDS ClientPool, TLAPS

\* Leaves that name no prover are for Zenon.
USE Zenon

\* What a goroutine does while it owns a client, and while it owns none.
Owning == {"probe", "probing", "discard", "have", "calling", "putprobe",
           "putprobing", "putdiscard", "push"}
Free == {"idle", "take", "create", "dial"}
Replies == [req : Nat, ans : Nat, lost : Nat]

ChannelTypes ==
    /\ channel \in Seq(Clients) /\ chanClosed \in BOOLEAN
    /\ currentSize \in Nat /\ closed \in BOOLEAN
ClientTypes == made \subseteq Clients /\ open \subseteq Clients
ConnTypes ==
    /\ conn \in [Clients -> Nat] /\ alive \in [Clients -> BOOLEAN]
    /\ sent \in [Clients -> Nat] /\ answered \in [Clients -> Nat]
    /\ read \in [Clients -> Nat] /\ lost \in [Clients -> Nat]
UserTypes ==
    /\ pc \in [Users -> Owning \cup Free] /\ held \in [Users -> Clients \cup {None}]
    /\ num \in [Users -> Nat] /\ on \in [Users -> Nat]
    /\ reply \in [Users -> Replies \cup {None}]
CleanerTypes ==
    /\ cpc \in {"wait", "drain", "remove", "create", "count", "push", "stopped"}
    /\ toRemove \in Seq(Clients) /\ toKeep \in Seq(Clients)
    /\ needed \in 0 .. minSize /\ fresh \in Clients \cup {None}

PoolTypeOK ==
    /\ ChannelTypes /\ ClientTypes /\ ConnTypes /\ UserTypes /\ CleanerTypes
    /\ kpc \in {"start", "close", "drain", "done"}

\* A sequence without repetition.
Distinct(s) == \A j, k \in DOMAIN s : j # k => s[j] # s[k]

\* The places a client can be in are apart.
Owned == Hands \ {None}
Apart ==
    /\ Distinct(channel) /\ Distinct(toRemove) /\ Distinct(toKeep)
    /\ \A c \in Elems(channel) : c \notin Elems(toRemove) /\ c \notin Elems(toKeep)
    /\ \A c \in Elems(toRemove) : c \notin Elems(toKeep)
    /\ \A u \in Users : held[u] \notin InPool
    /\ fresh \notin InPool
    /\ \A u \in Users : held[u] # None => held[u] # fresh
    /\ \A u, v \in Users : u # v /\ held[u] # None => held[u] # held[v]
    /\ Owned \subseteq made

\* Where goroutines, cleanup and Close are, against what they hold.
UserPhases == \A u \in Users : held[u] # None <=> pc[u] \in Owning
CleanupPhases ==
    /\ fresh # None <=> cpc \in {"count", "push"}
    /\ cpc \in {"create", "count", "push"} => needed > 0
    /\ cpc \notin {"drain", "remove"} => toRemove = << >> /\ toKeep = << >>
ClosePhases ==
    /\ closed <=> kpc # "start"
    /\ chanClosed <=> kpc \in {"drain", "done"}
    /\ kpc = "done" => channel = << >>
Phases == UserPhases /\ CleanupPhases /\ ClosePhases

PoolInv == PoolTypeOK /\ Apart /\ Phases /\ open = Owned

-----------------------------------------------------------------------------
(* Sequences of clients *)

\* Taking the first client out of a sequence without repetition, as Take,
\* cleanup and Close do, leaves the others.
LEMMA TakesFirst ==
    ASSUME NEW S, NEW s \in Seq(S), s # << >>, Distinct(s)
    PROVE  /\ Head(s) \in S /\ Head(s) \in Elems(s)
           /\ Tail(s) \in Seq(S) /\ Distinct(Tail(s))
           /\ Elems(Tail(s)) = Elems(s) \ {Head(s)}
  <1>1. /\ Len(s) \in Nat \ {0} /\ DOMAIN s = 1 .. Len(s) /\ Head(s) = s[1]
        /\ Tail(s) \in Seq(S) /\ DOMAIN Tail(s) = 1 .. Len(s) - 1
        /\ \A k \in 1 .. Len(s) - 1 : Tail(s)[k] = s[k + 1]
        /\ \A k \in 1 .. Len(s) : s[k] \in S
    BY SMT
  <1> USE <1>1
  <1>2. Distinct(Tail(s))
    BY SMT DEF Distinct
  <1>3. ASSUME NEW c \in Elems(s), c # Head(s)
        PROVE  c \in Elems(Tail(s))
    <2>1. PICK k \in 1 .. Len(s) : s[k] = c
      BY <1>3 DEF Elems
    <2>2. k - 1 \in DOMAIN Tail(s) /\ Tail(s)[k - 1] = c
      BY SMT, <1>3, <2>1
    <2> QED
      BY <2>2 DEF Elems
  <1>4. ASSUME NEW c \in Elems(Tail(s))
        PROVE  c \in Elems(s) /\ c # Head(s)
    <2>1. PICK k \in 1 .. Len(s) - 1 : Tail(s)[k] = c
      BY <1>4 DEF Elems
    <2>2. k + 1 \in DOMAIN s /\ s[k + 1] = c /\ k + 1 # 1 /\ 1 \in DOMAIN s
      BY SMT, <2>1
    <2> QED
      BY <2>2 DEF Elems, Distinct
  <1>5. Head(s) \in S /\ Head(s) \in Elems(s)
    BY SMT DEF Elems
  <1> QED
    BY <1>2, <1>3, <1>4, <1>5

\* Putting a client behind the others.
LEMMA PutsLast ==
    ASSUME NEW S, NEW s \in Seq(S), NEW c \in S, Distinct(s), c \notin Elems(s)
    PROVE  /\ Append(s, c) \in Seq(S) /\ Distinct(Append(s, c))
           /\ Elems(Append(s, c)) = Elems(s) \cup {c}
  <1>1. /\ Len(s) \in Nat /\ DOMAIN s = 1 .. Len(s)
        /\ Append(s, c) \in Seq(S) /\ DOMAIN Append(s, c) = 1 .. Len(s) + 1
        /\ \A k \in 1 .. Len(s) : Append(s, c)[k] = s[k]
        /\ Append(s, c)[Len(s) + 1] = c
    BY SMT
  <1> USE <1>1
  <1>2. \A k \in 1 .. Len(s) : s[k] # c
    BY DEF Elems
  <1>3. Distinct(Append(s, c))
    BY SMT, <1>2 DEF Distinct
  <1>4. \A x \in Elems(Append(s, c)) : x \in Elems(s) \cup {c}
    BY SMT DEF Elems
  <1>5. \A x \in Elems(s) \cup {c} : x \in Elems(Append(s, c))
    BY SMT DEF Elems
  <1> QED
    BY <1>3, <1>4, <1>5

-----------------------------------------------------------------------------
(* Types *)

\* What a step leaves alone keeps its types.
LEMMA TypesStay ==
    ASSUME PoolInv
    PROVE  /\ UNCHANGED pool => ChannelTypes'
           /\ UNCHANGED clients => ClientTypes'
           /\ UNCHANGED conns => ConnTypes'
           /\ UNCHANGED users => UserTypes'
           /\ UNCHANGED cleaner => CleanerTypes'
           /\ UNCHANGED kpc => kpc' \in {"start", "close", "drain", "done"}
  <1>1. PoolTypeOK
    BY DEF PoolInv
  <1> USE <1>1
  <1>2. UNCHANGED pool => ChannelTypes'
    BY DEF PoolTypeOK, ChannelTypes, pool
  <1>3. UNCHANGED clients => ClientTypes'
    BY DEF PoolTypeOK, ClientTypes, clients
  <1>4. UNCHANGED conns => ConnTypes'
    BY DEF PoolTypeOK, ConnTypes, conns
  <1>5. UNCHANGED users => UserTypes'
    BY DEF PoolTypeOK, UserTypes, users
  <1>6. UNCHANGED cleaner => CleanerTypes'
    BY DEF PoolTypeOK, CleanerTypes, cleaner
  <1> QED
    BY <1>2, <1>3, <1>4, <1>5, <1>6 DEF PoolTypeOK

\* A goroutine that owns a client has one.
LEMMA OwnerHas ==
    ASSUME PoolInv, NEW u \in Users, pc[u] \in Owning
    PROVE  held[u] \in Clients /\ held[u] \in made /\ held[u] # None
  <1>1. held[u] # None /\ held[u] \in Clients \cup {None} /\ held[u] \in Owned
    BY DEF PoolInv, Phases, UserPhases, PoolTypeOK, UserTypes, Hands, Owned
  <1> QED
    BY <1>1 DEF PoolInv, Apart

\* The steps of one protocol client keep them.
LEMMA ConnStepTypes ==
    ASSUME PoolInv, NEW c \in Clients, NEW u \in Users
    PROVE  /\ Send(u, c) => ConnTypes' /\ sent[c] + 1 \in Nat /\ conn[c] \in Nat
           /\ Receive(u, c) => ConnTypes'
           /\ ReceiveFails(u, c) => ConnTypes'
           /\ ReceiveTimesOut(u, c) => ConnTypes'
  <1>1. ConnTypes
    BY DEF PoolInv, PoolTypeOK
  <1> USE <1>1
  <1>2. Send(u, c) => ConnTypes' /\ sent[c] + 1 \in Nat /\ conn[c] \in Nat
    BY SMT DEF ConnTypes, Send
  <1>3. Receive(u, c) => ConnTypes'
    BY SMT DEF ConnTypes, Receive
  <1>4. ReceiveFails(u, c) => ConnTypes'
    BY DEF ConnTypes, ReceiveFails, conns
  <1>5. ReceiveTimesOut(u, c) => ConnTypes'
    BY SMT DEF ConnTypes, ReceiveTimesOut
  <1> QED
    BY <1>2, <1>3, <1>4, <1>5

\* So do its Start and its Stop.
LEMMA DialStepTypes ==
    ASSUME PoolInv, NEW c \in Clients, Connected(c) \/ realClose(c)
    PROVE  ConnTypes' /\ ClientTypes'
  <1>1. ConnTypes /\ ClientTypes
    BY DEF PoolInv, PoolTypeOK
  <1>2. CASE Connected(c)
    BY <1>1, <1>2 DEF ConnTypes, ClientTypes, Connected
  <1>3. CASE realClose(c)
    BY <1>1, <1>3 DEF ConnTypes, ClientTypes, realClose
  <1> QED
    BY <1>2, <1>3

\* A goroutine's step keeps the types.
LEMMA UserStepTypes ==
    ASSUME PoolInv, NEW u \in Users, User(u)
    PROVE  PoolTypeOK'
  <1>0. PoolTypeOK /\ ChannelTypes /\ UserTypes /\ ClientTypes
    BY DEF PoolInv, PoolTypeOK
  <1> USE <1>0
  <1> USE TypesStay
  <1>1. CASE GetCheck(u)
    <2>1. UserTypes'
      BY <1>1 DEF UserTypes, GetCheck, Goto, Owning, Free, UserStays
    <2> QED
      BY <1>1, <2>1 DEF PoolTypeOK, GetCheck
  <1>2. CASE Take(u)
    <2> USE <1>2
    <2>1. Head(channel) \in Clients /\ Tail(channel) \in Seq(Clients)
      BY SMT DEF ChannelTypes, Take
    <2>2. ChannelTypes'
      BY <2>1 DEF ChannelTypes, Take
    <2>3. UserTypes'
      BY <2>1 DEF UserTypes, Take, Has, Goto, UserStays, Owning, Free
    <2> QED
      BY <2>2, <2>3 DEF PoolTypeOK, Take
  <1>3. CASE TakeNothing(u)
    <2>1. UserTypes'
      BY <1>3 DEF UserTypes, TakeNothing, Goto, Owning, Free, UserStays
    <2> QED
      BY <1>3, <2>1 DEF PoolTypeOK, TakeNothing
  <1>4. CASE Probe(u)
    <2> USE <1>4
    <2>1. held[u] \in Clients
      BY OwnerHas DEF Probe, Owning
    <2>2. ConnTypes' /\ sent[held[u]] + 1 \in Nat /\ conn[held[u]] \in Nat
      BY <2>1, ConnStepTypes DEF Probe
    <2>3. UserTypes'
      BY <2>1, <2>2 DEF UserTypes, Probe, Goto, Owning, Free, Send
    <2>4. ClientTypes'
      BY DEF ClientTypes, Probe, clients
    <2> QED
      BY <2>2, <2>3, <2>4 DEF PoolTypeOK, Probe
  <1>5. CASE ProbeSucceeds(u)
    <2> USE <1>5
    <2>1. held[u] \in Clients
      BY OwnerHas DEF ProbeSucceeds, Owning
    <2>2. ConnTypes'
      BY <2>1, ConnStepTypes DEF ProbeSucceeds
    <2>3. UserTypes'
      BY <2>1, <2>2 DEF UserTypes, ProbeSucceeds, Goto, Owning, Free, CallOver
    <2>4. ClientTypes'
      BY DEF ClientTypes, ProbeSucceeds, clients
    <2> QED
      BY <2>2, <2>3, <2>4 DEF PoolTypeOK, ProbeSucceeds
  <1>6. CASE ProbeFails(u)
    <2> USE <1>6
    <2>1. held[u] \in Clients
      BY OwnerHas DEF ProbeFails, Owning
    <2>2. ConnTypes'
      BY <2>1, ConnStepTypes DEF ProbeFails
    <2>3. UserTypes'
      BY <2>1, <2>2 DEF UserTypes, ProbeFails, Goto, Owning, Free, CallOver
    <2>4. ClientTypes'
      BY DEF ClientTypes, ProbeFails, clients
    <2> QED
      BY <2>2, <2>3, <2>4 DEF PoolTypeOK, ProbeFails
  <1>7. CASE Discard(u)
    <2> USE <1>7
    <2>1. held[u] \in Clients
      BY OwnerHas DEF Discard, Owning
    <2>2. ConnTypes' /\ ClientTypes'
      BY <2>1, DialStepTypes DEF Discard
    <2>3. UserTypes'
      BY DEF UserTypes, Discard, Goto, Has, UserStays, Owning, Free
    <2>4. ChannelTypes'
      BY SMT DEF ChannelTypes, Discard, decrementSize
    <2> QED
      BY <2>2, <2>3, <2>4 DEF PoolTypeOK, Discard
  <1>8. CASE createNewClient(u)
    <2> USE <1>8
    <2>1. UserTypes'
      BY DEF UserTypes, createNewClient, Goto, UserStays, Owning, Free
    <2>2. ChannelTypes'
      BY SMT DEF ChannelTypes, createNewClient
    <2> QED
      BY <2>1, <2>2 DEF PoolTypeOK, createNewClient
  <1>9. CASE Dial(u)
    <2> USE <1>9
    <2>1. PICK c \in Clients \ made : Connected(c) /\ Has(u, c)
      BY DEF Dial
    <2>2. ConnTypes' /\ ClientTypes'
      BY <2>1, DialStepTypes
    <2>3. UserTypes'
      BY <2>1 DEF UserTypes, Dial, Goto, Has, UserStays, Owning, Free
    <2> QED
      BY <2>2, <2>3 DEF PoolTypeOK, Dial
  <1>10. CASE DialFails(u)
    <2> USE <1>10
    <2>1. UserTypes'
      BY DEF UserTypes, DialFails, Goto, UserStays, Owning, Free
    <2>2. ChannelTypes'
      BY SMT DEF ChannelTypes, DialFails, decrementSize
    <2> QED
      BY <2>1, <2>2 DEF PoolTypeOK, DialFails
  <1>11. CASE Call(u)
    <2> USE <1>11
    <2>1. held[u] \in Clients
      BY OwnerHas DEF Call, Owning
    <2>2. ConnTypes' /\ sent[held[u]] + 1 \in Nat /\ conn[held[u]] \in Nat
      BY <2>1, ConnStepTypes DEF Call
    <2>3. UserTypes'
      BY <2>1, <2>2 DEF UserTypes, Call, Goto, Owning, Free, Send
    <2>4. ClientTypes'
      BY DEF ClientTypes, Call, clients
    <2> QED
      BY <2>2, <2>3, <2>4 DEF PoolTypeOK, Call
  <1>12. CASE CallReturns(u)
    <2> USE <1>12
    <2>1. held[u] \in Clients
      BY OwnerHas DEF CallReturns, Owning
    <2>2. ConnTypes'
      BY <2>1, ConnStepTypes DEF CallReturns
    <2>3. [req |-> num[u], ans |-> read'[held[u]], lost |-> lost[held[u]]] \in Replies
      BY <2>1, <2>2 DEF PoolTypeOK, UserTypes, ConnTypes, Replies
    <2>4. reply' \in [Users -> Replies \cup {None}]
      BY <2>3 DEF UserTypes, CallReturns
    <2>5. UserTypes'
      BY <2>4 DEF UserTypes, CallReturns, Goto, Owning, Free
    <2> QED
      BY <2>2, <2>5 DEF PoolTypeOK, CallReturns
  <1>13. CASE CallFails(u)
    <2> USE <1>13
    <2>1. held[u] \in Clients
      BY OwnerHas DEF CallFails, Owning
    <2>2. ConnTypes'
      BY <2>1, ConnStepTypes DEF CallFails
    <2>3. UserTypes'
      BY <2>1, <2>2 DEF UserTypes, CallFails, Goto, Owning, Free, CallOver
    <2>4. ClientTypes'
      BY DEF ClientTypes, CallFails, clients
    <2> QED
      BY <2>2, <2>3, <2>4 DEF PoolTypeOK, CallFails
  <1>14. CASE Put(u)
    <2> USE <1>14
    <2>1. held[u] \in Clients
      BY OwnerHas DEF Put, Owning
    <2>2. ConnTypes' /\ ClientTypes'
      BY <2>1, DialStepTypes DEF Put, ClientTypes
    <2>3. UserTypes'
      BY DEF UserTypes, Put, Goto, Has, Owning, Free
    <2> QED
      BY <2>2, <2>3 DEF PoolTypeOK, Put
  <1>15. CASE Push(u)
    <2> USE <1>15
    <2>1. held[u] \in Clients
      BY OwnerHas DEF Push, Owning
    <2>2. ChannelTypes'
      BY SMT, <2>1 DEF ChannelTypes, Push
    <2>3. UserTypes'
      BY DEF UserTypes, Push, Goto, Has, UserStays, Owning, Free
    <2> QED
      BY <2>2, <2>3 DEF PoolTypeOK, Push
  <1>16. CASE UserPanics(u)
    BY <1>16 DEF PoolTypeOK, UserPanics, Panic
  <1> QED
    BY SMT, <1>1, <1>2, <1>3, <1>4, <1>5, <1>6, <1>7, <1>8, <1>9, <1>10, <1>11, <1>12,
       <1>13, <1>14, <1>15, <1>16, Zenon DEF User

\* A step of cleanup keeps the types.
LEMMA CleanupStepTypes ==
    ASSUME PoolInv, cleanup
    PROVE  PoolTypeOK'
  <1>0. PoolTypeOK /\ ChannelTypes /\ CleanerTypes /\ ClientTypes
    BY DEF PoolInv, PoolTypeOK
  <1> USE <1>0
  <1> USE TypesStay
  <1>1. CASE CleanupStart
    <2>1. CleanerTypes'
      BY <1>1 DEF CleanerTypes, CleanupStart
    <2> QED
      BY <1>1, <2>1 DEF PoolTypeOK, CleanupStart
  <1>2. CASE CleanupDrain
    <2> USE <1>2
    <2>1. ChannelTypes' /\ Head(channel) \in Clients
      BY SMT DEF ChannelTypes, CleanupDrain
    <2>2. /\ Append(toRemove, Head(channel)) \in Seq(Clients)
          /\ Append(toKeep, Head(channel)) \in Seq(Clients)
      BY SMT, <2>1 DEF CleanerTypes
    <2>3. CleanerTypes'
      BY <2>2 DEF CleanerTypes, CleanupDrain
    <2> QED
      BY <2>1, <2>3 DEF PoolTypeOK, CleanupDrain
  <1>3. CASE CleanupDrained
    <2>1. CleanerTypes'
      BY <1>3 DEF CleanerTypes, CleanupDrained
    <2> QED
      BY <1>3, <2>1 DEF PoolTypeOK, CleanupDrained
  <1>4. CASE CleanupRemove
    <2> USE <1>4
    <2>1. CleanerTypes' /\ Head(toRemove) \in Clients
      BY SMT DEF CleanerTypes, CleanupRemove
    <2>2. ConnTypes' /\ ClientTypes'
      BY <2>1, DialStepTypes DEF CleanupRemove
    <2>3. ChannelTypes'
      BY SMT DEF ChannelTypes, CleanupRemove, decrementSize
    <2> QED
      BY <2>1, <2>2, <2>3 DEF PoolTypeOK, CleanupRemove
  <1>5. CASE CleanupRestore
    <2> USE <1>5
    <2>1. CleanerTypes' /\ Head(toKeep) \in Clients
      BY SMT DEF CleanerTypes, CleanupRestore
    <2> USE <2>1
    <2>2. ConnTypes' /\ ClientTypes'
      BY DialStepTypes DEF CleanupRestore
    <2>3. Append(channel, Head(toKeep)) \in Seq(Clients) /\ currentSize \in Nat
      BY SMT DEF ChannelTypes
    <2>4. channel' \in Seq(Clients)
      BY <2>3 DEF ChannelTypes, CleanupRestore
    <2>5. currentSize' \in Nat
      BY SMT, <2>3 DEF CleanupRestore, decrementSize
    <2>6. ChannelTypes'
      BY <2>4, <2>5 DEF ChannelTypes, CleanupRestore
    <2> QED
      BY <2>2, <2>6 DEF PoolTypeOK, CleanupRestore
  <1>6. CASE CleanupNeeded
    <2>1. CleanerTypes'
      BY SMT, <1>6, PoolAssumption DEF CleanerTypes, ChannelTypes, CleanupNeeded
    <2> QED
      BY <1>6, <2>1 DEF PoolTypeOK, CleanupNeeded
  <1>7. CASE CleanupCreate
    <2> USE <1>7
    <2>1. CASE \E c \in Clients \ made : Connected(c) /\ fresh' = c /\ cpc' = "count"
                  /\ UNCHANGED needed
      <3>1. PICK c \in Clients \ made : Connected(c) /\ fresh' = c /\ cpc' = "count"
                  /\ UNCHANGED needed
        BY <2>1
      <3>2. ConnTypes' /\ ClientTypes'
        BY <3>1, DialStepTypes
      <3>3. CleanerTypes'
        BY <3>1 DEF CleanerTypes, CleanupCreate
      <3> QED
        BY <3>2, <3>3 DEF PoolTypeOK, CleanupCreate
    <2>2. CASE cpc' = "wait" /\ needed' = 0 /\ UNCHANGED <<clients, conns, fresh>>
      <3>1. CleanerTypes'
        BY SMT, <2>2, PoolAssumption DEF CleanerTypes, CleanupCreate
      <3> QED
        BY <2>2, <3>1 DEF PoolTypeOK, CleanupCreate
    <2> QED
      BY <2>1, <2>2 DEF CleanupCreate
  <1>8. CASE CleanupCount
    <2> USE <1>8
    <2>1. CleanerTypes'
      BY DEF CleanerTypes, CleanupCount
    <2>2. ChannelTypes'
      BY SMT DEF ChannelTypes, CleanupCount
    <2> QED
      BY <2>1, <2>2 DEF PoolTypeOK, CleanupCount
  <1>9. CASE CleanupPush
    <2> USE <1>9
    <2>1. fresh \in Clients /\ needed > 0
      BY DEF CleanupPush, PoolInv, Phases, CleanupPhases, CleanerTypes
    <2>2. CleanerTypes'
      BY SMT, <2>1, PoolAssumption DEF CleanerTypes, CleanupPush
    <2>3. ChannelTypes'
      BY SMT, <2>1 DEF ChannelTypes, CleanupPush
    <2> QED
      BY <2>2, <2>3 DEF PoolTypeOK, CleanupPush
  <1>10. CASE CleanupPanics
    BY <1>10 DEF PoolTypeOK, CleanupPanics, Panic
  <1> QED
    BY <1>1, <1>2, <1>3, <1>4, <1>5, <1>6, <1>7, <1>8, <1>9, <1>10 DEF cleanup

\* So do the steps of Close, of the server, of the health check and of time.
LEMMA OtherStepTypes ==
    ASSUME PoolInv,
           \/ Close
           \/ \E c \in Clients : ServerAnswers(c) \/ Break(c) \/ Reconnect(c) \/ Age(c)
    PROVE  PoolTypeOK'
  <1>0. PoolTypeOK /\ ChannelTypes /\ ConnTypes /\ ClientTypes
    BY DEF PoolInv, PoolTypeOK
  <1> USE <1>0
  <1> USE TypesStay
  <1>1. CASE CloseSet
    <2>1. ChannelTypes'
      BY <1>1 DEF ChannelTypes, CloseSet
    <2> QED
      BY <1>1, <2>1 DEF PoolTypeOK, CloseSet
  <1>2. CASE CloseChannel
    <2>1. ChannelTypes'
      BY <1>2 DEF ChannelTypes, CloseChannel
    <2> QED
      BY <1>2, <2>1 DEF PoolTypeOK, CloseChannel
  <1>3. CASE CloseDrain
    <2> USE <1>3
    <2>1. ChannelTypes' /\ Head(channel) \in Clients
      BY SMT DEF ChannelTypes, CloseDrain
    <2>2. ConnTypes' /\ ClientTypes'
      BY <2>1, DialStepTypes DEF CloseDrain
    <2> QED
      BY <2>1, <2>2 DEF PoolTypeOK, CloseDrain
  <1>4. CASE CloseZero
    <2>1. ChannelTypes'
      BY <1>4 DEF ChannelTypes, CloseZero
    <2> QED
      BY <1>4, <2>1 DEF PoolTypeOK, CloseZero
  <1>5. ASSUME NEW c \in Clients, ServerAnswers(c)
        PROVE  PoolTypeOK'
    <2>1. ConnTypes'
      BY SMT, <1>5 DEF ConnTypes, ServerAnswers
    <2> QED
      BY <1>5, <2>1 DEF PoolTypeOK, ServerAnswers
  <1>6. ASSUME NEW c \in Clients, Break(c)
        PROVE  PoolTypeOK'
    <2>1. ConnTypes'
      BY <1>6 DEF ConnTypes, Break
    <2> QED
      BY <1>6, <2>1 DEF PoolTypeOK, Break
  <1>7. ASSUME NEW c \in Clients, Reconnect(c)
        PROVE  PoolTypeOK'
    <2>1. ConnTypes'
      BY SMT, <1>7 DEF ConnTypes, Reconnect
    <2> QED
      BY <1>7, <2>1 DEF PoolTypeOK, Reconnect
  <1>8. ASSUME NEW c \in Clients, Age(c)
        PROVE  PoolTypeOK'
    <2>1. ClientTypes'
      BY <1>8 DEF ClientTypes, Age
    <2> QED
      BY <1>8, <2>1 DEF PoolTypeOK, Age
  <1> QED
    BY <1>1, <1>2, <1>3, <1>4, <1>5, <1>6, <1>7, <1>8 DEF Close

-----------------------------------------------------------------------------
(* Owners *)

\* The pool's sequences hold clients.
LEMMA SequencesAreOfClients ==
    ASSUME PoolInv
    PROVE  /\ Elems(channel) \subseteq Clients /\ Elems(toRemove) \subseteq Clients
           /\ Elems(toKeep) \subseteq Clients
  <1>1. \A s \in Seq(Clients) : Elems(s) \subseteq Clients
    BY SMT DEF Elems
  <1> QED
    BY <1>1 DEF PoolInv, PoolTypeOK, ChannelTypes, CleanerTypes

\* A step that moves no client.
LEMMA NothingMoves ==
    ASSUME PoolInv, UNCHANGED <<channel, toRemove, toKeep, held, fresh, made>>
    PROVE  Apart' /\ Owned' = Owned
  BY DEF PoolInv, Apart, Owned, Hands, InPool

\* The select of Get moves a client from the channel to the goroutine.
LEMMA TakeMoves ==
    ASSUME PoolInv, NEW u \in Users, Take(u)
    PROVE  Apart' /\ Owned' = Owned
  <1> DEFINE h == Head(channel)
  <1>1. /\ h \in Clients /\ h \in Elems(channel) /\ Distinct(channel')
        /\ Elems(channel') = Elems(channel) \ {h}
    BY TakesFirst DEF PoolInv, PoolTypeOK, ChannelTypes, Apart, Take
  <1> USE <1>1
  <1>2. held[u] = None
    BY DEF PoolInv, Phases, UserPhases, Take, Owning
  <1>3. \A v \in Users : held'[v] = IF v = u THEN h ELSE held[v]
    BY DEF PoolInv, PoolTypeOK, UserTypes, Take, Has
  <1>4. h # None
    BY PoolAssumption
  <1>5. UNCHANGED <<toRemove, toKeep, fresh, made>>
    BY DEF Take, clients, cleaner
  <1> HIDE DEF h
  <1>6. Owned' = Owned
    BY <1>2, <1>3, <1>4, <1>5 DEF Owned, Hands, InPool
  <1>7. Apart
    BY DEF PoolInv
  <1>8. Apart'
    BY SMT, <1>2, <1>3, <1>4, <1>5, <1>6, <1>7 DEF Apart, Hands, InPool, Owned
  <1> QED
    BY <1>6, <1>8

\* Put moves it back, unless the channel is full.
LEMMA PushMoves ==
    ASSUME PoolInv, NEW u \in Users, Push(u)
    PROVE  Apart' /\ Owned' = Owned
  <1> DEFINE h == held[u]
  <1>0. Apart
    BY DEF PoolInv
  <1>1. CASE Len(channel) < maxSize
    <2>1. h \in Clients /\ h # None /\ h \notin Elems(channel)
      BY <1>0, OwnerHas DEF Push, Owning, Apart, InPool
    <2> USE <2>1
    <2>2. Distinct(channel') /\ Elems(channel') = Elems(channel) \cup {h}
      <3>1. channel' = Append(channel, h) /\ channel \in Seq(Clients) /\ Distinct(channel)
        BY <1>0, <1>1 DEF PoolInv, PoolTypeOK, ChannelTypes, Apart, Push
      <3> HIDE DEF h
      <3> QED
        BY <3>1, PutsLast, ZenonT(30)
    <2>3. \A v \in Users : held'[v] = IF v = u THEN None ELSE held[v]
      BY <1>1 DEF PoolInv, PoolTypeOK, UserTypes, Push, Has
    <2>4. UNCHANGED <<toRemove, toKeep, fresh, made>>
      BY DEF Push, clients, cleaner
    <2>5. /\ Elems(channel) \subseteq Clients /\ Elems(toRemove) \subseteq Clients
          /\ Elems(toKeep) \subseteq Clients /\ None \notin Clients
      BY SequencesAreOfClients, PoolAssumption
    <2>6. h = held[u]
      OBVIOUS
    <2> HIDE DEF h
    <2>7. Owned' = Owned
      BY <2>2, <2>3, <2>4, <2>6 DEF Owned, Hands, InPool
    <2>8. Apart'
      BY SMT, <1>0, <2>2, <2>3, <2>4, <2>5, <2>6, <2>7 DEF Apart, Hands, InPool, Owned
    <2> QED
      BY <2>7, <2>8
  <1>2. CASE ~(Len(channel) < maxSize)
    BY <1>2, NothingMoves DEF Push, clients, cleaner
  <1> QED
    BY <1>1, <1>2

\* A client that was dialled is new.
LEMMA DialMoves ==
    ASSUME PoolInv, NEW u \in Users, pc[u] = "dial", NEW c \in Clients \ made,
           Has(u, c), made' = made \cup {c}, UNCHANGED <<pool, cleaner>>
    PROVE  Apart' /\ Owned' = Owned \cup {c} /\ c \notin Owned
  <1>0. Apart
    BY DEF PoolInv
  <1>1. c # None /\ c \notin Owned
    BY <1>0, PoolAssumption DEF Apart
  <1> USE <1>1
  <1>2. held[u] = None
    BY DEF PoolInv, Phases, UserPhases, Owning
  <1>3. \A v \in Users : held'[v] = IF v = u THEN c ELSE held[v]
    BY DEF PoolInv, PoolTypeOK, UserTypes, Has
  <1>4. UNCHANGED <<channel, toRemove, toKeep, fresh>>
    BY DEF pool, cleaner
  <1>5. Owned' = Owned \cup {c}
    BY <1>2, <1>3, <1>4 DEF Owned, Hands, InPool
  <1>6. Apart'
    BY SMT, <1>0, <1>2, <1>3, <1>4, <1>5 DEF Apart, Hands, InPool, Owned
  <1> QED
    BY <1>5, <1>6

\* A goroutine that gives its client up leaves it to nobody.
LEMMA DropMoves ==
    ASSUME PoolInv, NEW u \in Users, pc[u] \in Owning, Has(u, None),
           UNCHANGED <<channel, toRemove, toKeep, fresh, made>>
    PROVE  Apart' /\ Owned' = Owned \ {held[u]} /\ held[u] \in Owned
  <1>0. Apart
    BY DEF PoolInv
  <1>1. held[u] # None /\ held[u] \in Owned
    BY OwnerHas DEF Owned, Hands
  <1> USE <1>1
  <1>2. \A v \in Users : held'[v] = IF v = u THEN None ELSE held[v]
    BY DEF PoolInv, PoolTypeOK, UserTypes, Has
  <1>3. /\ Elems(channel) \subseteq Clients /\ Elems(toRemove) \subseteq Clients
        /\ Elems(toKeep) \subseteq Clients /\ None \notin Clients
    BY SequencesAreOfClients, PoolAssumption
  <1>4. Owned' = Owned \ {held[u]}
    BY SMT, <1>0, <1>2 DEF Apart, Owned, Hands, InPool
  <1>5. Apart'
    BY SMT, <1>0, <1>2, <1>3, <1>4 DEF Apart, Hands, InPool, Owned
  <1> QED
    BY <1>4, <1>5

\* cleanup moves a client from the channel to one of its lists.
LEMMA DrainMoves ==
    ASSUME PoolInv, CleanupDrain
    PROVE  Apart' /\ Owned' = Owned
  <1> DEFINE h == Head(channel)
  <1>0. /\ Apart /\ channel \in Seq(Clients) /\ toRemove \in Seq(Clients)
        /\ toKeep \in Seq(Clients) /\ channel' = Tail(channel) /\ channel # << >>
        /\ \/ toRemove' = Append(toRemove, h) /\ UNCHANGED toKeep
           \/ toKeep' = Append(toKeep, h) /\ UNCHANGED toRemove
        /\ UNCHANGED <<held, fresh, made>>
    BY DEF PoolInv, PoolTypeOK, ChannelTypes, CleanerTypes, CleanupDrain, users, clients
  <1>1. /\ h \in Clients /\ h \in Elems(channel) /\ Distinct(channel')
        /\ Elems(channel') = Elems(channel) \ {h}
    BY <1>0, TakesFirst DEF Apart
  <1>2. h # None
    BY <1>1, PoolAssumption
  <1> HIDE DEF h
  <1>3. CASE toRemove' = Append(toRemove, h) /\ UNCHANGED toKeep
    <2>0. /\ h \notin Elems(toRemove) /\ Distinct(toRemove) /\ toRemove \in Seq(Clients)
          /\ h \in Clients /\ toRemove' = Append(toRemove, h)
      BY <1>0, <1>1, <1>3 DEF Apart
    <2>1. Distinct(toRemove') /\ Elems(toRemove') = Elems(toRemove) \cup {h}
      BY ZenonT(30), <2>0, PutsLast
    <2>2. Owned' = Owned
      BY SMT, <1>0, <1>1, <1>3, <2>1 DEF Owned, Hands, InPool
    <2>3. Apart'
      BY SMT, <1>0, <1>1, <1>2, <1>3, <2>1, <2>2 DEF Apart, Hands, InPool, Owned
    <2> QED
      BY <2>2, <2>3
  <1>4. CASE toKeep' = Append(toKeep, h) /\ UNCHANGED toRemove
    <2>0. /\ h \notin Elems(toKeep) /\ Distinct(toKeep) /\ toKeep \in Seq(Clients)
          /\ h \in Clients /\ toKeep' = Append(toKeep, h)
      BY <1>0, <1>1, <1>4 DEF Apart
    <2>1. Distinct(toKeep') /\ Elems(toKeep') = Elems(toKeep) \cup {h}
      BY <2>0, PutsLast, ZenonT(30)
    <2>2. Owned' = Owned
      BY <1>0, <1>1, <1>4, <2>1 DEF Owned, Hands, InPool
    <2>3. Apart'
      BY SMT, <1>0, <1>1, <1>2, <1>4, <2>1, <2>2 DEF Apart, Hands, InPool, Owned
    <2> QED
      BY <2>2, <2>3
  <1> QED
    BY <1>0, <1>3, <1>4

\* It closes the first client of toRemove ...
LEMMA RemoveMoves ==
    ASSUME PoolInv, CleanupRemove
    PROVE  /\ Apart' /\ Owned' = Owned \ {Head(toRemove)}
           /\ Head(toRemove) \in Owned
  <1> DEFINE h == Head(toRemove)
  <1>0. /\ Apart /\ toRemove \in Seq(Clients) /\ toRemove' = Tail(toRemove)
        /\ toRemove # << >> /\ UNCHANGED <<channel, toKeep, held, fresh, made>>
    BY DEF PoolInv, PoolTypeOK, CleanerTypes, CleanupRemove, users, realClose
  <1> USE <1>0
  <1>1. /\ h \in Clients /\ h \in Elems(toRemove) /\ Distinct(toRemove')
        /\ Elems(toRemove') = Elems(toRemove) \ {h}
    BY TakesFirst DEF Apart
  <1> USE <1>1
  <1>2. h # None
    BY PoolAssumption
  <1> HIDE DEF h
  <1>3. Owned' = Owned \ {h} /\ h \in Owned
    BY SMT, <1>2 DEF Apart, Owned, Hands, InPool
  <1>4. Apart'
    BY <1>2, <1>3 DEF Apart, Hands, InPool, Owned
  <1> QED
    BY <1>3, <1>4 DEF h

\* ... and gives the first of toKeep back to the channel, or closes it when the
\* channel is full.
LEMMA RestoreMoves ==
    ASSUME PoolInv, CleanupRestore
    PROVE  /\ Apart' /\ Head(toKeep) \in Owned
           /\ Owned' = IF Len(channel) < maxSize THEN Owned ELSE Owned \ {Head(toKeep)}
  <1> DEFINE h == Head(toKeep)
  <1>0. /\ Apart /\ toKeep \in Seq(Clients) /\ toKeep' = Tail(toKeep)
        /\ channel \in Seq(Clients) /\ toKeep # << >>
        /\ IF Len(channel) < maxSize THEN channel' = Append(channel, h)
                                     ELSE UNCHANGED channel
        /\ UNCHANGED <<toRemove, held, fresh, made>>
    BY DEF PoolInv, PoolTypeOK, ChannelTypes, CleanerTypes, CleanupRestore, users, clients, realClose
  <1>1. /\ h \in Clients /\ h \in Elems(toKeep) /\ Distinct(toKeep')
        /\ Elems(toKeep') = Elems(toKeep) \ {h}
    BY <1>0, TakesFirst DEF Apart
  <1>2. h # None /\ h \in Owned
    BY <1>1, PoolAssumption DEF Owned, Hands, InPool
  <1> HIDE DEF h
  <1>3. CASE Len(channel) < maxSize
    <2>0. /\ h \notin Elems(channel) /\ Distinct(channel) /\ channel \in Seq(Clients)
          /\ h \in Clients /\ channel' = Append(channel, h)
      BY <1>0, <1>1, <1>3 DEF Apart
    <2>1. Distinct(channel') /\ Elems(channel') = Elems(channel) \cup {h}
      BY <2>0, PutsLast, ZenonT(30)
    <2>2. Owned' = Owned
      BY <1>0, <1>1, <2>1 DEF Owned, Hands, InPool
    <2>3. Apart'
      BY <1>0, <1>1, <1>2, <2>1, <2>2 DEF Apart, Hands, InPool, Owned
    <2> QED
      BY <1>2, <1>3, <2>2, <2>3 DEF h
  <1>4. CASE ~(Len(channel) < maxSize)
    <2>1. UNCHANGED channel
      BY <1>0, <1>4
    <2>2. Owned' = Owned \ {h}
      BY SMT, <1>0, <1>1, <1>2, <2>1 DEF Apart, Owned, Hands, InPool
    <2>3. Apart'
      BY <1>0, <1>1, <1>2, <2>1, <2>2 DEF Apart, Hands, InPool, Owned
    <2> QED
      BY <1>2, <1>4, <2>2, <2>3 DEF h
  <1> QED
    BY <1>3, <1>4

\* The clients cleanup creates are new, and go to the channel.
LEMMA CreateMoves ==
    ASSUME PoolInv, cpc = "create", NEW c \in Clients \ made, made' = made \cup {c},
           fresh' = c, UNCHANGED <<channel, toRemove, toKeep, held>>
    PROVE  Apart' /\ Owned' = Owned \cup {c} /\ c \notin Owned
  <1>0. Apart
    BY DEF PoolInv
  <1>1. c # None /\ c \notin Owned
    BY <1>0, PoolAssumption DEF Apart
  <1> USE <1>1
  <1>2. fresh = None
    BY DEF PoolInv, Phases, CleanupPhases
  <1>3. Owned' = Owned \cup {c}
    BY <1>2 DEF Owned, Hands, InPool
  <1>4. Apart'
    BY <1>0, <1>2, <1>3 DEF Apart, Hands, InPool, Owned
  <1> QED
    BY <1>3, <1>4

\* It gives the client it created to the channel.
LEMMA CleanupPushMoves ==
    ASSUME PoolInv, CleanupPush
    PROVE  Apart' /\ Owned' = Owned
  <1>0. /\ Apart /\ channel \in Seq(Clients) /\ fresh # None /\ fresh \in Clients
        /\ channel' = Append(channel, fresh) /\ fresh' = None
        /\ UNCHANGED <<toRemove, toKeep, held, made>>
    <2>1. cpc = "push" /\ channel' = Append(channel, fresh) /\ fresh' = None
          /\ UNCHANGED <<toRemove, toKeep, held, made>>
      BY DEF CleanupPush, users, clients
    <2>2. fresh # None
      BY <2>1 DEF PoolInv, Phases, CleanupPhases
    <2>3. Apart /\ channel \in Seq(Clients) /\ fresh \in Clients
      BY <2>2 DEF PoolInv, PoolTypeOK, ChannelTypes, CleanerTypes
    <2> QED
      BY <2>1, <2>2, <2>3
  <1> USE <1>0
  <1>1. fresh \notin Elems(channel)
    BY DEF Apart, InPool
  <1>2. Distinct(channel') /\ Elems(channel') = Elems(channel) \cup {fresh}
    BY <1>1, PutsLast, ZenonT(30) DEF Apart
  <1>3. /\ Elems(channel) \subseteq Clients /\ Elems(toRemove) \subseteq Clients
        /\ Elems(toKeep) \subseteq Clients /\ None \notin Clients
    BY SequencesAreOfClients, PoolAssumption
  <1>4. Owned' = Owned
    BY <1>2 DEF Owned, Hands, InPool
  <1>5. Apart'
    BY <1>1, <1>2, <1>3, <1>4 DEF Apart, Hands, InPool, Owned
  <1> QED
    BY <1>4, <1>5

\* Close takes the clients of the channel.
LEMMA CloseMoves ==
    ASSUME PoolInv, CloseDrain
    PROVE  Apart' /\ Owned' = Owned \ {Head(channel)} /\ Head(channel) \in Owned
  <1> DEFINE h == Head(channel)
  <1>0. /\ Apart /\ channel \in Seq(Clients) /\ channel' = Tail(channel)
        /\ channel # << >> /\ UNCHANGED <<toRemove, toKeep, held, fresh, made>>
    BY DEF PoolInv, PoolTypeOK, ChannelTypes, CloseDrain, users, cleaner, realClose
  <1> USE <1>0
  <1>1. /\ h \in Clients /\ h \in Elems(channel) /\ Distinct(channel')
        /\ Elems(channel') = Elems(channel) \ {h}
    BY TakesFirst DEF Apart
  <1> USE <1>1
  <1>2. h # None
    BY PoolAssumption
  <1> HIDE DEF h
  <1>3. Owned' = Owned \ {h} /\ h \in Owned
    BY SMT, <1>2 DEF Apart, Owned, Hands, InPool
  <1>4. Apart'
    BY <1>2, <1>3 DEF Apart, Hands, InPool, Owned
  <1> QED
    BY <1>3, <1>4 DEF h

-----------------------------------------------------------------------------
(* Phases *)

\* A goroutine holds a client exactly while it owns one.
LEMMA UserStepPhases ==
    ASSUME PoolInv, NEW u \in Users, User(u)
    PROVE  UserPhases'
  <1>0. UserPhases /\ UserTypes /\ ChannelTypes
    BY DEF PoolInv, Phases, PoolTypeOK
  <1> USE <1>0
  <1>1. CASE GetCheck(u)
    BY <1>1 DEF GetCheck, Goto, UserPhases, UserTypes, Owning, Free
  <1>2. CASE Take(u)
    <2>1. Head(channel) # None
      BY SMT, <1>2, PoolAssumption DEF Take, ChannelTypes
    <2> QED
      BY <1>2, <2>1 DEF Take, Goto, Has, UserPhases, UserTypes, Owning, Free
  <1>3. CASE TakeNothing(u)
    BY <1>3 DEF TakeNothing, Goto, UserPhases, UserTypes, Owning, Free
  <1>4. CASE Probe(u)
    BY <1>4 DEF Probe, Goto, UserPhases, UserTypes, Owning, Free
  <1>5. CASE ProbeSucceeds(u)
    BY <1>5 DEF ProbeSucceeds, Goto, UserPhases, UserTypes, Owning, Free
  <1>6. CASE ProbeFails(u)
    BY <1>6 DEF ProbeFails, Goto, UserPhases, UserTypes, Owning, Free
  <1>7. CASE Discard(u)
    BY <1>7 DEF Discard, Goto, Has, UserPhases, UserTypes, Owning, Free
  <1>8. CASE createNewClient(u)
    BY <1>8 DEF createNewClient, Goto, UserPhases, UserTypes, Owning, Free
  <1>9. CASE Dial(u)
    BY SMT, <1>9, PoolAssumption DEF Dial, Goto, Has, UserPhases, UserTypes, Owning, Free
  <1>10. CASE DialFails(u)
    BY <1>10 DEF DialFails, Goto, UserPhases, UserTypes, Owning, Free
  <1>11. CASE Call(u)
    BY <1>11 DEF Call, Goto, UserPhases, UserTypes, Owning, Free
  <1>12. CASE CallReturns(u)
    BY <1>12 DEF CallReturns, Goto, UserPhases, UserTypes, Owning, Free
  <1>13. CASE CallFails(u)
    BY <1>13 DEF CallFails, Goto, UserPhases, UserTypes, Owning, Free
  <1>14. CASE Put(u)
    BY SMT, <1>14 DEF Put, Goto, Has, UserPhases, UserTypes, Owning, Free
  <1>15. CASE Push(u)
    BY SMTT(20), <1>15 DEF Push, Goto, Has, UserPhases, UserTypes, Owning, Free
  <1>16. CASE UserPanics(u)
    BY <1>16 DEF UserPanics, Panic, users, UserPhases
  <1> QED
    BY SMT, <1>1, <1>2, <1>3, <1>4, <1>5, <1>6, <1>7, <1>8, <1>9, <1>10, <1>11, <1>12,
       <1>13, <1>14, <1>15, <1>16, Zenon DEF User

\* A goroutine leaves cleanup and Close where they are.
LEMMA UserStepFrame ==
    ASSUME NEW u \in Users, User(u)
    PROVE  /\ UNCHANGED <<cleaner, kpc, closed, chanClosed>>
           /\ UNCHANGED channel \/ Take(u) \/ Push(u)
  BY DEF User, GetCheck, Take, TakeNothing, Probe, ProbeSucceeds, ProbeFails,
     Discard, createNewClient, Dial, DialFails, Call, CallReturns, CallFails, Put, Push,
     UserPanics, Panic, pool

\* So a goroutine's step keeps all phases.
LEMMA UserStepKeepsPhases ==
    ASSUME PoolInv, NEW u \in Users, User(u)
    PROVE  Phases'
  <1>0. CleanupPhases /\ ClosePhases
    BY DEF PoolInv, Phases
  <1> USE <1>0
  <1>1. UserPhases'
    BY UserStepPhases
  <1>2. CleanupPhases'
    BY UserStepFrame DEF CleanupPhases, cleaner
  <1>3. UNCHANGED channel \/ kpc # "done"
    BY UserStepFrame DEF ClosePhases, Take, Push
  <1>4. UNCHANGED <<kpc, closed, chanClosed>>
    BY UserStepFrame
  <1>5. ClosePhases'
    BY <1>3, <1>4 DEF ClosePhases
  <1> QED
    BY <1>1, <1>2, <1>5 DEF Phases

\* A step of cleanup.
LEMMA CleanupStepPhases ==
    ASSUME PoolInv, cleanup
    PROVE  Phases'
  <1>0. UserPhases /\ CleanupPhases /\ ClosePhases /\ CleanerTypes /\ ChannelTypes
    BY DEF PoolInv, Phases, PoolTypeOK
  <1> USE <1>0
  <1>1. UNCHANGED <<users, kpc, closed, chanClosed>>
    BY DEF cleanup, CleanupStart, CleanupDrain, CleanupDrained, CleanupRemove,
       CleanupRestore, CleanupNeeded, CleanupCreate, CleanupCount, CleanupPush,
       CleanupPanics, Panic, pool
  <1>2. UserPhases'
    BY <1>1 DEF UserPhases, users
  <1>3. UNCHANGED channel \/ ~chanClosed \/ channel # << >>
    BY DEF cleanup, CleanupStart, CleanupDrain, CleanupDrained, CleanupRemove,
       CleanupRestore, CleanupNeeded, CleanupCreate, CleanupCount, CleanupPush,
       CleanupPanics, Panic, pool
  <1>4. ClosePhases'
    BY <1>1, <1>3 DEF ClosePhases
  <1>5. CleanupPhases'
    <2>1. CASE CleanupStart \/ CleanupDrained
      BY <2>1 DEF CleanupPhases, CleanupStart, CleanupDrained
    <2>2. CASE CleanupDrain
      BY <2>2 DEF CleanupPhases, CleanupDrain
    <2>3. CASE CleanupRemove \/ CleanupRestore
      BY <2>3 DEF CleanupPhases, CleanupRemove, CleanupRestore
    <2>4. CASE CleanupNeeded
      BY SMT, <2>4, PoolAssumption DEF CleanupPhases, CleanupNeeded, ChannelTypes, CleanerTypes
    <2>5. CASE CleanupCreate
      BY <2>5, PoolAssumption DEF CleanupPhases, CleanupCreate
    <2>6. CASE CleanupCount
      BY <2>6 DEF CleanupPhases, CleanupCount
    <2>7. CASE CleanupPush
      BY SMT, <2>7, PoolAssumption DEF CleanupPhases, CleanupPush, CleanerTypes
    <2>8. CASE CleanupPanics
      BY <2>8 DEF CleanupPhases, CleanupPanics, Panic, cleaner
    <2> QED
      BY <2>1, <2>2, <2>3, <2>4, <2>5, <2>6, <2>7, <2>8 DEF cleanup
  <1> QED
    BY <1>2, <1>4, <1>5 DEF Phases

\* A step of Close, of the server, of the health check or of time.
LEMMA OtherStepPhases ==
    ASSUME PoolInv,
           \/ Close
           \/ \E c \in Clients : ServerAnswers(c) \/ Break(c) \/ Reconnect(c) \/ Age(c)
    PROVE  Phases'
  <1>0. UserPhases /\ CleanupPhases /\ ClosePhases
    BY DEF PoolInv, Phases
  <1> USE <1>0
  <1>1. UNCHANGED <<users, cleaner>>
    BY DEF Close, CloseSet, CloseChannel, CloseDrain, CloseZero, ServerAnswers,
       Break, Reconnect, Age
  <1>2. UserPhases' /\ CleanupPhases'
    BY <1>1 DEF UserPhases, CleanupPhases, users, cleaner
  <1>3. CASE Close
    <2>1. ChannelTypes
      BY DEF PoolInv, PoolTypeOK
    <2>2. ClosePhases'
      BY SMT, <1>3, <2>1
      DEF ClosePhases, Close, CloseSet, CloseChannel, CloseDrain, CloseZero, ChannelTypes
    <2> QED
      BY <1>2, <2>2 DEF Phases
  <1>4. CASE \E c \in Clients : ServerAnswers(c) \/ Break(c) \/ Reconnect(c) \/ Age(c)
    <2>1. UNCHANGED <<pool, kpc>>
      BY <1>4 DEF ServerAnswers, Break, Reconnect, Age
    <2> QED
      BY <1>2, <2>1 DEF Phases, ClosePhases, pool
  <1> QED
    BY <1>3, <1>4

-----------------------------------------------------------------------------
-----------------------------------------------------------------------------
(* Steps and owners *)

\* A step that moves, opens and closes no client.
LEMMA QuietOwns ==
    ASSUME PoolInv, UNCHANGED <<channel, toRemove, toKeep, held, fresh, made, open>>
    PROVE  Apart' /\ open' = Owned'
  BY NothingMoves DEF PoolInv

\* A goroutine's step keeps the places apart, and open what somebody owns.
LEMMA UserStepOwns ==
    ASSUME PoolInv, NEW u \in Users, User(u)
    PROVE  Apart' /\ open' = Owned'
  <1>0. /\ UNCHANGED cleaner /\ UNCHANGED closed /\ open = Owned
        /\ UNCHANGED <<toRemove, toKeep, fresh>>
    BY UserStepFrame DEF PoolInv, cleaner
  <1> USE <1>0
  <1>1. CASE \/ GetCheck(u) \/ TakeNothing(u) \/ Probe(u) \/ ProbeSucceeds(u)
             \/ ProbeFails(u) \/ UserPanics(u)
    BY <1>1, QuietOwns DEF GetCheck, TakeNothing, Probe, ProbeSucceeds,
       ProbeFails, UserPanics, Panic, pool, clients, users
  <1>2. CASE \/ createNewClient(u) \/ DialFails(u) \/ Call(u) \/ CallReturns(u)
             \/ CallFails(u)
    BY <1>2, QuietOwns DEF createNewClient, DialFails, Call, CallReturns,
       CallFails, pool, clients
  <1>3. CASE Take(u)
    BY <1>3, TakeMoves DEF Take, clients
  <1>4. CASE Discard(u)
    BY <1>4, DropMoves DEF Discard, Owning, realClose
  <1>5. CASE Dial(u)
    <2>1. PICK c \in Clients \ made : Connected(c) /\ Has(u, c)
      BY <1>5 DEF Dial
    <2>2. Apart' /\ Owned' = Owned \cup {c}
      BY <1>5, <2>1, DialMoves DEF Dial, Connected
    <2> QED
      BY <2>1, <2>2 DEF Connected
  <1>6. CASE Put(u)
    <2> USE <1>6
    <2>1. CASE closed
      <3>1. Apart' /\ Owned' = Owned \ {held[u]}
        BY <2>1, DropMoves DEF Put, Owning, realClose, cleaner, pool
      <3> QED
        BY <2>1, <3>1 DEF Put, realClose
    <2>2. CASE ~closed
      BY <2>2, QuietOwns DEF Put, pool
    <2> QED
      BY <2>1, <2>2
  <1>7. CASE Push(u)
    BY <1>7, PushMoves DEF Push, clients
  <1> QED
    BY <1>1, <1>2, <1>3, <1>4, <1>5, <1>6, <1>7 DEF User

\* So does a step of cleanup.
LEMMA CleanupStepOwns ==
    ASSUME PoolInv, cleanup
    PROVE  Apart' /\ open' = Owned'
  <1>0. open = Owned
    BY DEF PoolInv
  <1> USE <1>0
  <1>1. CASE \/ CleanupStart \/ CleanupDrained \/ CleanupNeeded \/ CleanupCount
             \/ CleanupPanics
    BY <1>1, QuietOwns DEF CleanupStart, CleanupDrained, CleanupNeeded, CleanupCount,
       CleanupPanics, Panic, pool, clients, users, cleaner
  <1>2. CASE CleanupDrain
    BY <1>2, DrainMoves DEF CleanupDrain, clients
  <1>3. CASE CleanupRemove
    BY <1>3, RemoveMoves DEF CleanupRemove, realClose
  <1>4. CASE CleanupRestore
    BY <1>4, RestoreMoves DEF CleanupRestore, realClose, clients
  <1>5. CASE CleanupCreate
    <2> USE <1>5
    <2>1. ASSUME NEW c \in Clients \ made, Connected(c), fresh' = c
          PROVE  Apart' /\ open' = Owned'
      <3>1. Apart' /\ Owned' = Owned \cup {c}
        BY <2>1, CreateMoves DEF CleanupCreate, Connected, pool, users
      <3> QED
        BY <2>1, <3>1 DEF Connected
    <2>2. ASSUME UNCHANGED <<clients, conns, fresh>>
          PROVE  Apart' /\ open' = Owned'
      BY <2>2, QuietOwns DEF CleanupCreate, pool, clients, users
    <2> QED
      BY <2>1, <2>2 DEF CleanupCreate
  <1>6. CASE CleanupPush
    BY <1>6, CleanupPushMoves DEF CleanupPush, clients
  <1> QED
    BY <1>1, <1>2, <1>3, <1>4, <1>5, <1>6 DEF cleanup

\* So do the steps of Close, of the server, of the health check and of time.
LEMMA OtherStepOwns ==
    ASSUME PoolInv,
           \/ Close
           \/ \E c \in Clients : ServerAnswers(c) \/ Break(c) \/ Reconnect(c) \/ Age(c)
    PROVE  Apart' /\ open' = Owned'
  <1>1. CASE CloseSet \/ CloseChannel \/ CloseZero
    BY <1>1, QuietOwns DEF CloseSet, CloseChannel, CloseZero, clients, users, cleaner
  <1>2. CASE CloseDrain
    BY <1>2, CloseMoves DEF PoolInv, CloseDrain, realClose
  <1>3. CASE \E c \in Clients : ServerAnswers(c) \/ Break(c) \/ Reconnect(c) \/ Age(c)
    BY <1>3, QuietOwns DEF ServerAnswers, Break, Reconnect, Age, pool, clients,
       users, cleaner
  <1> QED
    BY <1>1, <1>2, <1>3 DEF Close

\* Every step of the pool keeps types, places and phases.
LEMMA PoolStep ==
    ASSUME PoolInv, [Next]_vars
    PROVE  PoolInv'
  <1>1. ASSUME NEW u \in Users, User(u)
        PROVE  PoolInv'
    BY <1>1, UserStepTypes, UserStepKeepsPhases, UserStepOwns
    DEF PoolInv
  <1>2. CASE cleanup
    BY <1>2, CleanupStepTypes, CleanupStepPhases, CleanupStepOwns
    DEF PoolInv
  <1>3. CASE \/ Close
             \/ \E c \in Clients : ServerAnswers(c) \/ Break(c) \/ Reconnect(c) \/ Age(c)
    BY <1>3, OtherStepTypes, OtherStepPhases, OtherStepOwns
    DEF PoolInv
  <1>4. CASE UNCHANGED vars
    <2>1. UNCHANGED <<pool, clients, conns, users, cleaner, kpc>>
      BY <1>4 DEF vars
    <2> USE <2>1
    <2>2. PoolTypeOK'
      BY TypesStay DEF PoolTypeOK
    <2>3. Phases'
      BY DEF PoolInv, Phases, UserPhases, CleanupPhases, ClosePhases, pool,
         users, cleaner
    <2>4. Apart' /\ open' = Owned'
      BY QuietOwns DEF pool, clients, users, cleaner
    <2> QED
      BY <2>2, <2>3, <2>4 DEF PoolInv
  <1> QED
    BY <1>1, <1>2, <1>3, <1>4 DEF Next

\* The places are apart, read as the run's property.
LEMMA PlacesHaveOneOwner ==
    ASSUME PoolInv
    PROVE  OneOwner
  <1> DEFINE all == channel \o toRemove \o toKeep
  <1>0. /\ channel \in Seq(Clients) /\ toRemove \in Seq(Clients) /\ toKeep \in Seq(Clients)
        /\ Apart
    BY DEF PoolInv, PoolTypeOK, ChannelTypes, CleanerTypes
  <1>1. \A j, k \in DOMAIN all : j # k => all[j] # all[k]
    <2>1. /\ DOMAIN all = 1 .. Len(channel) + Len(toRemove) + Len(toKeep)
          /\ Len(channel) \in Nat /\ Len(toRemove) \in Nat /\ Len(toKeep) \in Nat
          /\ DOMAIN channel = 1 .. Len(channel) /\ DOMAIN toRemove = 1 .. Len(toRemove)
          /\ DOMAIN toKeep = 1 .. Len(toKeep)
          /\ \A k \in 1 .. Len(channel) : all[k] = channel[k]
          /\ \A k \in 1 .. Len(toRemove) : all[k + Len(channel)] = toRemove[k]
          /\ \A k \in 1 .. Len(toKeep) :
                 all[k + Len(channel) + Len(toRemove)] = toKeep[k]
      BY SMT, <1>0
    <2> HIDE DEF all
    <2>2. \A k \in DOMAIN all :
              \/ k \in DOMAIN channel /\ all[k] = channel[k]
              \/ /\ k - Len(channel) \in DOMAIN toRemove
                 /\ all[k] = toRemove[k - Len(channel)]
              \/ /\ k - Len(channel) - Len(toRemove) \in DOMAIN toKeep
                 /\ all[k] = toKeep[k - Len(channel) - Len(toRemove)]
      BY SMT, <2>1
    <2>3. /\ \A j, k \in DOMAIN channel : j # k => channel[j] # channel[k]
          /\ \A j, k \in DOMAIN toRemove : j # k => toRemove[j] # toRemove[k]
          /\ \A j, k \in DOMAIN toKeep : j # k => toKeep[j] # toKeep[k]
      BY <1>0 DEF Apart, Distinct
    <2>4. /\ \A j \in DOMAIN channel, k \in DOMAIN toRemove : channel[j] # toRemove[k]
          /\ \A j \in DOMAIN channel, k \in DOMAIN toKeep : channel[j] # toKeep[k]
          /\ \A j \in DOMAIN toRemove, k \in DOMAIN toKeep : toRemove[j] # toKeep[k]
      BY <1>0 DEF Apart, Elems
    <2> QED
      BY SMTT(20), <2>1, <2>2, <2>3, <2>4
  <1> HIDE DEF all
  <1>2. /\ \A u, v \in Users : u # v /\ held[u] # None => held[u] # held[v]
        /\ \A u \in Users : held[u] \notin InPool
        /\ fresh \notin InPool
        /\ fresh # None => \A u \in Users : held[u] # fresh
    BY <1>0 DEF Apart
  <1> QED
    BY <1>1, <1>2 DEF OneOwner, all

\* Once Close, cleanup and the users have ended, nothing is open.
LEMMA NothingIsLeft ==
    ASSUME PoolInv
    PROVE  NothingLeaks
  <1>1. open = Owned /\ Phases
    BY DEF PoolInv
  <1> USE <1>1
  <1>2. ASSUME kpc = "done", cpc = "stopped", \A u \in Users : pc[u] = "idle"
        PROVE  open = {}
    <2>1. /\ channel = << >> /\ toRemove = << >> /\ toKeep = << >> /\ fresh = None
          /\ \A u \in Users : held[u] = None
      BY <1>2 DEF Phases, UserPhases, CleanupPhases, ClosePhases, Owning
    <2>2. Elems(<< >>) = {}
      BY SMT DEF Elems
    <2> QED
      BY <2>1, <2>2 DEF Owned, Hands, InPool
  <1> QED
    BY <1>2 DEF NothingLeaks, Owned

-----------------------------------------------------------------------------
(* Answers: requests carry no numbers, so that they stay in step rests on a  *)
(* connection's having one owner, and its owner one request.                  *)

Asking == {"probing", "putprobing", "calling"}

\* The goroutine waits for an answer on the client's connection of now.
Waits(u, c) == held[u] = c /\ pc[u] \in Asking /\ on[u] = conn[c]

\* Requests that were sent on a connection and neither answered to a caller nor
\* given up: the one its owner waits for, if it does.
Zero(c) == sent[c] = 0 /\ read[c] = 0 /\ lost[c] = 0
NewAtZero == \A c \in Clients \ made : Zero(c)
OnKnown == \A u \in Users : pc[u] \in Asking => on[u] <= conn[held[u]]
WaitsInStep ==
    \A u \in Users : \A c \in made : Waits(u, c) =>
        num[u] = sent[c] /\ sent[c] = read[c] + lost[c] + 1
RestsInStep ==
    \A c \in made : alive[c] /\ (\A u \in Users : ~Waits(u, c)) =>
        sent[c] = read[c] + lost[c]
InStep == NewAtZero /\ OnKnown /\ WaitsInStep /\ RestsInStep /\ AnswersInStep

\* What two states have in common outside one client ...
OtherClients(c) ==
    \A d \in Clients \ {c} :
        /\ conn'[d] = conn[d] /\ alive'[d] = alive[d] /\ sent'[d] = sent[d]
        /\ read'[d] = read[d] /\ lost'[d] = lost[d]

\* ... and outside one goroutine.
OtherUsers(u) ==
    \A v \in Users \ {u} :
        /\ held'[v] = held[v] /\ pc'[v] = pc[v] /\ on'[v] = on[v] /\ num'[v] = num[v]
        /\ reply'[v] = reply[v]

\* The client's connection, after a step of its owner.
OwnInStep(u, c) ==
    /\ pc'[u] \in Asking =>
           /\ held'[u] = c /\ on'[u] <= conn'[c]
           /\ on'[u] = conn'[c] =>
                  num'[u] = sent'[c] /\ sent'[c] = read'[c] + lost'[c] + 1
    /\ alive'[c] /\ ~(pc'[u] \in Asking /\ on'[u] = conn'[c]) =>
           sent'[c] = read'[c] + lost'[c]

\* A step of the one goroutine that owns a client keeps every connection in step,
\* if it keeps this one.
LEMMA OwnerKeepsStep ==
    ASSUME PoolInv, InStep, NEW u \in Users, NEW c \in Clients, OtherClients(c), OtherUsers(u),
           made' = made \cup {c}, \A v \in Users \ {u} : held[v] # c,
           held[u] = c \/ held[u] = None, OwnInStep(u, c),
           reply'[u] # None => reply'[u].ans = reply'[u].req - reply'[u].lost
    PROVE  InStep'
  <1>0. /\ NewAtZero /\ OnKnown /\ WaitsInStep /\ RestsInStep /\ AnswersInStep
        /\ made \subseteq Clients /\ None \notin Clients
    BY PoolAssumption DEF PoolInv, InStep, PoolTypeOK, ClientTypes
  <1> USE <1>0
  <1>1. NewAtZero'
    BY DEF NewAtZero, Zero, OtherClients
  <1>2. \A v \in Users : pc[v] \in Asking => held[v] \in Clients
    BY OwnerHas DEF Asking, Owning
  <1>3. OnKnown'
    <2>1. ASSUME NEW v \in Users, pc'[v] \in Asking
          PROVE  on'[v] <= conn'[held'[v]]
      <3> USE <2>1
      <3>1. CASE v = u
        BY <3>1 DEF OwnInStep
      <3>2. CASE v # u
        <4>1. /\ held'[v] = held[v] /\ pc'[v] = pc[v] /\ on'[v] = on[v]
              /\ held[v] \in Clients \ {c}
          BY <1>2, <3>2 DEF OtherUsers
        <4> QED
          BY <4>1 DEF OtherClients, OnKnown
      <3> QED
        BY <3>1, <3>2
    <2> QED
      BY <2>1 DEF OnKnown
  <1>4. WaitsInStep'
    <2>1. ASSUME NEW v \in Users, NEW d \in made', Waits(v, d)'
          PROVE  num'[v] = sent'[d] /\ sent'[d] = read'[d] + lost'[d] + 1
      <3>1. CASE v = u
        BY <2>1, <3>1 DEF OwnInStep, Waits
      <3>2. CASE v # u
        <4>1. /\ held'[v] = held[v] /\ pc'[v] = pc[v] /\ on'[v] = on[v]
              /\ num'[v] = num[v] /\ held[v] # c
          BY <3>2 DEF OtherUsers
        <4> USE <4>1
        <4>2. d = held[v] /\ d # c /\ d \in made /\ d \in Clients
          BY <2>1 DEF Waits
        <4>3. Waits(v, d)
          BY <2>1, <4>2 DEF Waits, OtherClients
        <4> QED
          BY <4>2, <4>3, ZenonT(30) DEF OtherClients, WaitsInStep
      <3> QED
        BY <3>1, <3>2
    <2> QED
      BY <2>1 DEF WaitsInStep
  <1>5. RestsInStep'
    <2>1. ASSUME NEW d \in made', alive'[d], \A v \in Users : ~Waits(v, d)'
          PROVE  sent'[d] = read'[d] + lost'[d]
      <3> USE <2>1
      <3>1. CASE d = c
        BY <3>1 DEF OwnInStep, Waits
      <3>2. CASE d # c
        <4>1. d \in made /\ d \in Clients \ {c}
          BY <3>2
        <4> USE <4>1
        <4>2. ASSUME NEW v \in Users
              PROVE  ~Waits(v, d)
          <5>1. CASE v = u
            BY <3>2, <5>1 DEF Waits
          <5>2. CASE v # u
            BY ZenonT(30), <5>2 DEF Waits, OtherUsers, OtherClients
          <5> QED
            BY <5>1, <5>2
        <4> QED
          BY <4>2 DEF RestsInStep, OtherClients
      <3> QED
        BY <3>1, <3>2
    <2> QED
      BY <2>1 DEF RestsInStep
  <1>6. AnswersInStep'
    BY DEF AnswersInStep, OtherUsers
  <1> QED
    BY <1>1, <1>3, <1>4, <1>5, <1>6 DEF InStep

\* A goroutine that asks nobody before and after its step, and keeps its client.
LEMMA QuietInStep ==
    ASSUME PoolInv, InStep, NEW u \in Users, NEW l, Goto(u, l), l \notin Asking,
           pc[u] \notin Asking, UNCHANGED <<conns, made, held, num, on, reply>>
    PROVE  InStep'
  <1>0. /\ NewAtZero /\ OnKnown /\ WaitsInStep /\ RestsInStep /\ AnswersInStep
    BY DEF PoolInv, InStep
  <1> USE <1>0
  <1>1. \A v \in Users : pc'[v] \in Asking <=> pc[v] \in Asking
    BY DEF PoolInv, PoolTypeOK, UserTypes, Goto
  <1>2. \A v \in Users : \A c : Waits(v, c)' <=> Waits(v, c)
    BY <1>1 DEF Waits, conns
  <1>3. NewAtZero' /\ OnKnown'
    BY <1>1 DEF NewAtZero, Zero, OnKnown, conns
  <1>4. WaitsInStep' /\ RestsInStep'
    BY <1>2 DEF WaitsInStep, RestsInStep, conns
  <1>5. AnswersInStep'
    BY DEF AnswersInStep
  <1> QED
    BY <1>3, <1>4, <1>5 DEF InStep

\* The client of a goroutine is no other goroutine's; what is known of its
\* connection while the goroutine waits and while it does not.
LEMMA OwnerInStep ==
    ASSUME PoolInv, InStep, NEW u \in Users, pc[u] \in Owning
    PROVE  LET c == held[u]
           IN /\ c \in Clients /\ made \cup {c} = made
              /\ \A v \in Users \ {u} : held[v] # c
              /\ conn[c] \in Nat /\ sent[c] \in Nat /\ read[c] \in Nat /\ lost[c] \in Nat
              /\ on[u] \in Nat /\ num[u] \in Nat
              /\ pc[u] \in Asking => on[u] <= conn[c]
              /\ pc[u] \in Asking /\ on[u] = conn[c] =>
                     num[u] = sent[c] /\ sent[c] = read[c] + lost[c] + 1
              /\ alive[c] /\ ~(pc[u] \in Asking /\ on[u] = conn[c]) =>
                     sent[c] = read[c] + lost[c]
              /\ reply[u] # None => reply[u].ans = reply[u].req - reply[u].lost
  <1> DEFINE c == held[u]
  <1>1. c \in Clients /\ c \in made /\ c # None
    BY OwnerHas
  <1> USE <1>1
  <1>2. \A v \in Users \ {u} : held[v] # c
    BY DEF PoolInv, Apart
  <1>3. /\ conn[c] \in Nat /\ sent[c] \in Nat /\ read[c] \in Nat /\ lost[c] \in Nat
        /\ on[u] \in Nat /\ num[u] \in Nat
    BY DEF PoolInv, PoolTypeOK, ConnTypes, UserTypes
  <1>4. pc[u] \in Asking => on[u] <= conn[c]
    BY DEF PoolInv, InStep, OnKnown
  <1>5. pc[u] \in Asking /\ on[u] = conn[c] =>
            num[u] = sent[c] /\ sent[c] = read[c] + lost[c] + 1
    BY DEF PoolInv, InStep, WaitsInStep, Waits
  <1>6. ASSUME alive[c], ~(pc[u] \in Asking /\ on[u] = conn[c])
        PROVE  sent[c] = read[c] + lost[c]
    <2>1. \A v \in Users : ~Waits(v, c)
      BY <1>2, <1>6 DEF Waits
    <2> QED
      BY <1>6, <2>1 DEF PoolInv, InStep, RestsInStep
  <1>7. reply[u] # None => reply[u].ans = reply[u].req - reply[u].lost
    BY DEF PoolInv, InStep, AnswersInStep
  <1>8. made \cup {c} = made
    OBVIOUS
  <1> QED
    BY <1>2, <1>3, <1>4, <1>5, <1>6, <1>7, <1>8

\* Sends, receives and failures, seen from the connection.
LEMMA ConnStep ==
    ASSUME PoolInv, InStep, NEW u \in Users, NEW c \in Clients
    PROVE  /\ Send(u, c) =>
                  /\ OtherClients(c) /\ alive[c] /\ conn'[c] = conn[c]
                  /\ sent'[c] = sent[c] + 1 /\ read'[c] = read[c] /\ lost'[c] = lost[c]
                  /\ num'[u] = sent[c] + 1 /\ on'[u] = conn[c]
           /\ Receive(u, c) =>
                  /\ OtherClients(c) /\ conn'[c] = conn[c] /\ on[u] = conn[c]
                  /\ sent'[c] = sent[c] /\ read'[c] = read[c] + 1 /\ lost'[c] = lost[c]
           /\ ReceiveTimesOut(u, c) =>
                  /\ OtherClients(c) /\ conn'[c] = conn[c] /\ on[u] = conn[c]
                  /\ sent'[c] = sent[c] /\ read'[c] = read[c] /\ lost'[c] = lost[c] + 1
           /\ UNCHANGED conns =>
                  /\ OtherClients(c) /\ conn'[c] = conn[c] /\ alive'[c] = alive[c]
                  /\ sent'[c] = sent[c] /\ read'[c] = read[c] /\ lost'[c] = lost[c]
  <1>1. ConnTypes /\ UserTypes
    BY DEF PoolInv, PoolTypeOK
  <1> USE <1>1
  <1>2. Send(u, c) =>
            /\ OtherClients(c) /\ alive[c] /\ conn'[c] = conn[c]
            /\ sent'[c] = sent[c] + 1 /\ read'[c] = read[c] /\ lost'[c] = lost[c]
            /\ num'[u] = sent[c] + 1 /\ on'[u] = conn[c]
    BY DEF ConnTypes, UserTypes, Send, OtherClients
  <1>3. Receive(u, c) =>
            /\ OtherClients(c) /\ conn'[c] = conn[c] /\ on[u] = conn[c]
            /\ sent'[c] = sent[c] /\ read'[c] = read[c] + 1 /\ lost'[c] = lost[c]
    BY DEF ConnTypes, Receive, OtherClients
  <1>4. ReceiveTimesOut(u, c) =>
            /\ OtherClients(c) /\ conn'[c] = conn[c] /\ on[u] = conn[c]
            /\ sent'[c] = sent[c] /\ read'[c] = read[c] /\ lost'[c] = lost[c] + 1
    BY DEF ConnTypes, ReceiveTimesOut, OtherClients
  <1>5. UNCHANGED conns =>
            /\ OtherClients(c) /\ conn'[c] = conn[c] /\ alive'[c] = alive[c]
            /\ sent'[c] = sent[c] /\ read'[c] = read[c] /\ lost'[c] = lost[c]
    BY DEF conns, OtherClients
  <1> QED
    BY <1>2, <1>3, <1>4, <1>5

\* Stop and Start, seen from the connection.
LEMMA StopsOne ==
    ASSUME PoolInv, InStep, NEW c \in Clients, realClose(c)
    PROVE  OtherClients(c) /\ ~alive'[c]
  BY DEF PoolInv, PoolTypeOK, ConnTypes, realClose, OtherClients

\* A dial starts the counters of one client.
LEMMA StartsOne ==
    ASSUME PoolInv, InStep, NEW c \in Clients, Connected(c)
    PROVE  /\ OtherClients(c) /\ sent'[c] = sent[c] /\ read'[c] = read[c]
           /\ lost'[c] = lost[c] /\ made' = made \cup {c}
  BY DEF PoolInv, PoolTypeOK, ConnTypes, Connected, OtherClients

\* A step that leaves connections and goroutines alone.
LEMMA NothingAsked ==
    ASSUME PoolInv, InStep, UNCHANGED <<conns, users, made>>
    PROVE  InStep'
  <1>0. /\ NewAtZero /\ OnKnown /\ WaitsInStep /\ RestsInStep /\ AnswersInStep
    BY DEF PoolInv, InStep
  <1> USE <1>0
  <1>1. \A v \in Users : \A c : Waits(v, c)' <=> Waits(v, c)
    BY DEF Waits, conns, users
  <1>2. NewAtZero' /\ OnKnown'
    BY DEF NewAtZero, Zero, OnKnown, conns, users
  <1>3. WaitsInStep' /\ RestsInStep'
    BY <1>1 DEF WaitsInStep, RestsInStep, conns, users
  <1>4. AnswersInStep'
    BY DEF AnswersInStep, users
  <1> QED
    BY <1>2, <1>3, <1>4 DEF InStep

\* A goroutine that keeps its client.
LEMMA KeeperInStep ==
    ASSUME PoolInv, InStep, NEW u \in Users, pc[u] \in Owning, OtherUsers(u), made' = made,
           OtherClients(held[u]), OwnInStep(u, held[u]),
           reply'[u] \in {reply[u], None}
    PROVE  InStep'
  <1> DEFINE c == held[u]
  <1>1. /\ c \in Clients /\ made' = made \cup {c} /\ \A v \in Users \ {u} : held[v] # c
        /\ reply[u] # None => reply[u].ans = reply[u].req - reply[u].lost
    BY OwnerInStep
  <1>2. /\ reply'[u] # None => reply'[u].ans = reply'[u].req - reply'[u].lost
        /\ held[u] = c /\ OtherClients(c) /\ OwnInStep(u, c)
    BY <1>1
  <1> HIDE DEF c
  <1> QED
    BY <1>1, <1>2, OwnerKeepsStep

\* The owner of a client sends, ...
LEMMA SendInStep ==
    ASSUME PoolInv, InStep, NEW u \in Users, pc[u] \in Owning, pc[u] \notin Asking,
           Send(u, held[u]), pc'[u] \in Asking, held'[u] = held[u]
    PROVE  OtherClients(held[u]) /\ OwnInStep(u, held[u])
  <1> DEFINE c == held[u]
  <1>1. /\ c \in Clients /\ conn[c] \in Nat
        /\ alive[c] => sent[c] = read[c] + lost[c]
    BY OwnerInStep
  <1>2. /\ OtherClients(c) /\ alive[c] /\ conn'[c] = conn[c]
        /\ sent'[c] = sent[c] + 1 /\ read'[c] = read[c] /\ lost'[c] = lost[c]
        /\ num'[u] = sent[c] + 1 /\ on'[u] = conn[c]
    BY <1>1, ConnStep
  <1>3. held'[u] = c
    OBVIOUS
  <1> HIDE DEF c
  <1>4. OwnInStep(u, c)
    BY SMT, <1>1, <1>2, <1>3 DEF OwnInStep
  <1> QED
    BY <1>2, <1>4 DEF c

\* ... and stops waiting: an answer is read, none comes in time, or the connection
\* is not there any more.
LEMMA DoneInStep ==
    ASSUME PoolInv, InStep, NEW u \in Users, pc[u] \in Asking, pc'[u] \notin Asking,
           \/ Receive(u, held[u]) \/ ReceiveFails(u, held[u])
           \/ ReceiveTimesOut(u, held[u])
    PROVE  OtherClients(held[u]) /\ OwnInStep(u, held[u])
  <1> DEFINE c == held[u]
  <1>0. pc[u] \in Owning
    BY DEF Asking, Owning
  <1>1. /\ c \in Clients /\ read[c] \in Nat /\ lost[c] \in Nat
        /\ on[u] = conn[c] => sent[c] = read[c] + lost[c] + 1
        /\ alive[c] /\ on[u] # conn[c] => sent[c] = read[c] + lost[c]
    BY <1>0, OwnerInStep
  <1> USE <1>1
  <1>2. c \in open
    BY <1>0, OwnerHas DEF PoolInv, Owned, Hands
  <1>3. CASE Receive(u, c)
    <2>1. /\ OtherClients(c) /\ on[u] = conn[c]
          /\ sent'[c] = sent[c] /\ read'[c] = read[c] + 1 /\ lost'[c] = lost[c]
      BY <1>3, ConnStep
    <2> HIDE DEF c
    <2>2. OwnInStep(u, c)
      BY SMT, <2>1 DEF OwnInStep
    <2> QED
      BY <2>1, <2>2 DEF c
  <1>4. CASE ReceiveTimesOut(u, c)
    <2>1. /\ OtherClients(c) /\ on[u] = conn[c]
          /\ sent'[c] = sent[c] /\ read'[c] = read[c] /\ lost'[c] = lost[c] + 1
      BY <1>4, ConnStep
    <2> HIDE DEF c
    <2>2. OwnInStep(u, c)
      BY SMT, <2>1 DEF OwnInStep
    <2> QED
      BY <2>1, <2>2 DEF c
  <1>5. CASE ReceiveFails(u, c)
    <2>1. /\ OtherClients(c) /\ alive'[c] = alive[c] /\ sent'[c] = sent[c]
          /\ read'[c] = read[c] /\ lost'[c] = lost[c] /\ (~alive[c] \/ on[u] # conn[c])
      BY <1>2, <1>5, ConnStep DEF ReceiveFails
    <2> HIDE DEF c
    <2>2. OwnInStep(u, c)
      BY <2>1 DEF OwnInStep
    <2> QED
      BY <2>1, <2>2 DEF c
  <1> QED
    BY <1>3, <1>4, <1>5

\* A goroutine that asks nobody and leaves its connection, or closes it.
LEMMA LeaveInStep ==
    ASSUME PoolInv, InStep, NEW u \in Users, pc[u] \in Owning, pc[u] \notin Asking,
           pc'[u] \notin Asking, UNCHANGED conns \/ realClose(held[u])
    PROVE  OtherClients(held[u]) /\ OwnInStep(u, held[u])
  <1> DEFINE c == held[u]
  <1>1. c \in Clients /\ (alive[c] => sent[c] = read[c] + lost[c])
    BY OwnerInStep
  <1> USE <1>1
  <1>2. CASE UNCHANGED conns
    <2>1. /\ OtherClients(c) /\ alive'[c] = alive[c] /\ sent'[c] = sent[c]
          /\ read'[c] = read[c] /\ lost'[c] = lost[c]
      BY <1>2, ConnStep
    <2> HIDE DEF c
    <2>2. OwnInStep(u, c)
      BY <2>1 DEF OwnInStep
    <2> QED
      BY <2>1, <2>2 DEF c
  <1>3. CASE realClose(c)
    <2>1. OtherClients(c) /\ ~alive'[c]
      BY <1>3, StopsOne
    <2> QED
      BY <2>1 DEF OwnInStep
  <1> QED
    BY <1>2, <1>3

\* A goroutine's step keeps answers in step.
LEMMA UserStepInStep ==
    ASSUME PoolInv, InStep, NEW u \in Users, User(u)
    PROVE  InStep'
  <1>0. UserTypes
    BY DEF PoolInv, PoolTypeOK
  <1> USE <1>0
  <1>1. CASE GetCheck(u)
    BY <1>1, QuietInStep DEF GetCheck, Asking, UserStays, clients
  <1>2. CASE Take(u)
    <2> USE <1>2
    <2> DEFINE c == Head(channel)
    <2>1. c \in Clients /\ c \in Elems(channel)
      BY TakesFirst DEF PoolInv, PoolTypeOK, ChannelTypes, Apart, Take
    <2> USE <2>1
    <2>2. \A v \in Users : held[v] # c
      BY DEF PoolInv, Apart, InPool
    <2>3. c \in made
      BY PoolAssumption DEF PoolInv, Apart, Owned, Hands, InPool
    <2>4. held[u] = None /\ made' = made \cup {c}
      BY <2>3 DEF PoolInv, Phases, UserPhases, Take, Owning, clients
    <2>5. /\ OtherUsers(u) /\ pc'[u] \notin Asking
          /\ reply'[u] # None => reply'[u].ans = reply'[u].req - reply'[u].lost
      <3>1. reply[u] # None => reply[u].ans = reply[u].req - reply[u].lost
        BY DEF PoolInv, InStep, AnswersInStep
      <3>2. OtherUsers(u) /\ pc'[u] \notin Asking
        BY DEF UserTypes, Take, Goto, Has, OtherUsers, Asking, UserStays
      <3> QED
        BY <3>1, <3>2 DEF Take, UserStays
    <2>6. /\ OtherClients(c) /\ conn'[c] = conn[c] /\ alive'[c] = alive[c]
          /\ sent'[c] = sent[c] /\ read'[c] = read[c] /\ lost'[c] = lost[c]
      BY ConnStep DEF Take
    <2>7. alive[c] => sent[c] = read[c] + lost[c]
      BY <2>2, <2>3 DEF PoolInv, InStep, RestsInStep, Waits
    <2>8. OwnInStep(u, c)
      BY <2>5, <2>6, <2>7 DEF OwnInStep
    <2> HIDE DEF c
    <2> QED
      BY <2>2, <2>4, <2>5, <2>6, <2>8, OwnerKeepsStep
  <1>3. CASE TakeNothing(u)
    BY <1>3, QuietInStep DEF TakeNothing, Asking, UserStays, clients
  <1>4. CASE Probe(u)
    <2> USE <1>4
    <2>1. pc[u] \notin Asking /\ pc[u] \in Owning /\ made' = made
      BY DEF Probe, Owning, Asking, clients
    <2>2. OtherUsers(u) /\ pc'[u] \in Asking /\ held'[u] = held[u]
      BY DEF UserTypes, Probe, Goto, OtherUsers, Asking, Send
    <2>3. OtherClients(held[u]) /\ OwnInStep(u, held[u])
      BY <2>1, <2>2, SendInStep DEF Probe
    <2> QED
      BY <2>1, <2>2, <2>3, KeeperInStep DEF Probe
  <1>5. CASE ProbeSucceeds(u)
    <2> USE <1>5
    <2>1. pc[u] \in Asking /\ pc[u] \in Owning /\ made' = made
      BY DEF ProbeSucceeds, Owning, Asking, clients
    <2>2. OtherUsers(u) /\ pc'[u] \notin Asking /\ held'[u] = held[u]
      BY DEF UserTypes, ProbeSucceeds, Goto, OtherUsers, Asking, CallOver
    <2>3. OtherClients(held[u]) /\ OwnInStep(u, held[u])
      BY <2>1, <2>2, DoneInStep DEF ProbeSucceeds
    <2> QED
      BY <2>1, <2>2, <2>3, KeeperInStep DEF ProbeSucceeds, CallOver
  <1>6. CASE ProbeFails(u)
    <2> USE <1>6
    <2>1. pc[u] \in Owning /\ made' = made
      BY DEF ProbeFails, Owning, clients
    <2>2. OtherUsers(u) /\ pc'[u] \notin Asking
      BY DEF UserTypes, ProbeFails, Goto, OtherUsers, Asking, CallOver
    <2> USE <2>2
    <2>3. OtherClients(held[u]) /\ OwnInStep(u, held[u])
      <3>1. CASE pc[u] \in {"probing", "putprobing"}
        BY <3>1, DoneInStep DEF ProbeFails, Asking
      <3>2. CASE pc[u] \in {"probe", "putprobe"} /\ UNCHANGED conns
        BY <2>1, <3>2, LeaveInStep DEF Asking
      <3> QED
        BY <3>1, <3>2 DEF ProbeFails
    <2> QED
      BY <2>1, <2>3, KeeperInStep DEF ProbeFails, CallOver
  <1>7. CASE Discard(u)
    <2> USE <1>7
    <2>1. pc[u] \notin Asking /\ pc[u] \in Owning /\ made' = made
      BY DEF Discard, Owning, Asking, realClose
    <2>2. OtherUsers(u) /\ pc'[u] \notin Asking
      BY DEF UserTypes, Discard, Goto, Has, OtherUsers, Asking, UserStays
    <2>3. OtherClients(held[u]) /\ OwnInStep(u, held[u])
      BY <2>1, <2>2, LeaveInStep DEF Discard
    <2> QED
      BY <2>1, <2>2, <2>3, KeeperInStep DEF Discard, UserStays
  <1>8. CASE createNewClient(u)
    BY <1>8, QuietInStep DEF createNewClient, Asking, UserStays, clients
  <1>9. CASE Dial(u)
    <2> USE <1>9
    <2>1. PICK c \in Clients \ made : Connected(c) /\ Has(u, c)
      BY DEF Dial
    <2> USE <2>1
    <2>2. c \notin Owned /\ c # None
      BY DialMoves, PoolAssumption DEF Dial, Connected
    <2>3. (\A v \in Users : held[v] # c) /\ held[u] = None
      BY <2>2 DEF PoolInv, Phases, UserPhases, Owning, Dial, Owned, Hands
    <2>4. OtherUsers(u) /\ pc'[u] \notin Asking
      BY DEF UserTypes, Dial, Goto, Has, OtherUsers, Asking, UserStays
    <2>5. reply'[u] # None => reply'[u].ans = reply'[u].req - reply'[u].lost
      BY DEF Dial, UserStays, PoolInv, InStep, AnswersInStep
    <2>6. /\ OtherClients(c) /\ sent'[c] = 0 /\ read'[c] = 0
          /\ lost'[c] = 0 /\ made' = made \cup {c}
      BY StartsOne DEF PoolInv, InStep, NewAtZero, Zero
    <2>7. OwnInStep(u, c)
      BY SMT, <2>4, <2>6 DEF OwnInStep
    <2> QED
      BY <2>3, <2>4, <2>5, <2>6, <2>7, OwnerKeepsStep
  <1>10. CASE DialFails(u)
    BY <1>10, QuietInStep DEF DialFails, Asking, UserStays, clients
  <1>11. CASE Call(u)
    <2> USE <1>11
    <2>1. pc[u] \notin Asking /\ pc[u] \in Owning /\ made' = made
      BY DEF Call, Owning, Asking, clients
    <2>2. OtherUsers(u) /\ pc'[u] \in Asking /\ held'[u] = held[u]
      BY DEF UserTypes, Call, Goto, OtherUsers, Asking, Send
    <2>3. OtherClients(held[u]) /\ OwnInStep(u, held[u])
      BY <2>1, <2>2, SendInStep DEF Call
    <2> QED
      BY <2>1, <2>2, <2>3, KeeperInStep DEF Call
  <1>12. CASE CallReturns(u)
    <2> USE <1>12
    <2> DEFINE c == held[u]
    <2>1. pc[u] \in Asking /\ pc[u] \in Owning /\ made' = made
      BY DEF CallReturns, Owning, Asking, clients
    <2> USE <2>1
    <2>2. OtherUsers(u) /\ pc'[u] \notin Asking
      BY DEF UserTypes, CallReturns, Goto, OtherUsers, Asking
    <2>3. OtherClients(c) /\ OwnInStep(u, c)
      BY <2>2, DoneInStep DEF CallReturns
    <2>4. /\ c \in Clients /\ made' = made \cup {c} /\ \A v \in Users \ {u} : held[v] # c
      BY OwnerInStep
    <2>5. /\ on[u] = conn[c] => num[u] = sent[c] /\ sent[c] = read[c] + lost[c] + 1
          /\ read[c] \in Nat /\ lost[c] \in Nat
      BY OwnerInStep
    <2>6. on[u] = conn[c] /\ read'[c] = read[c] + 1
      BY <2>4, ConnStep DEF CallReturns
    <2>7. PICK r : r = [req |-> num[u], ans |-> read'[c], lost |-> lost[c]]
      OBVIOUS
    <2>8. reply'[u] = r
      BY <2>7 DEF UserTypes, CallReturns
    <2>9. r.ans = r.req - r.lost
      <3> HIDE DEF c
      <3> QED
        BY SMT, <2>5, <2>6, <2>7
    <2>10. held[u] = c
      OBVIOUS
    <2> HIDE DEF c
    <2> QED
      BY <2>2, <2>3, <2>4, <2>8, <2>9, <2>10, OwnerKeepsStep
  <1>13. CASE CallFails(u)
    <2> USE <1>13
    <2>1. pc[u] \in Asking /\ pc[u] \in Owning /\ made' = made
      BY DEF CallFails, Owning, Asking, clients
    <2>2. OtherUsers(u) /\ pc'[u] \notin Asking /\ held'[u] = held[u]
      BY DEF UserTypes, CallFails, Goto, OtherUsers, Asking, CallOver
    <2>3. OtherClients(held[u]) /\ OwnInStep(u, held[u])
      BY <2>1, <2>2, DoneInStep DEF CallFails
    <2> QED
      BY <2>1, <2>2, <2>3, KeeperInStep DEF CallFails, CallOver
  <1>14. CASE Put(u)
    <2> USE <1>14
    <2>1. pc[u] \notin Asking /\ pc[u] \in Owning /\ made' = made
      BY DEF Put, Owning, Asking, realClose
    <2>2. OtherUsers(u) /\ pc'[u] \notin Asking /\ reply'[u] = None
      BY DEF UserTypes, Put, Goto, Has, OtherUsers, Asking
    <2>3. OtherClients(held[u]) /\ OwnInStep(u, held[u])
      BY <2>1, <2>2, LeaveInStep DEF Put
    <2> QED
      BY <2>1, <2>2, <2>3, KeeperInStep
  <1>15. CASE Push(u)
    <2> USE <1>15
    <2>1. pc[u] \notin Asking /\ pc[u] \in Owning /\ made' = made
      BY DEF Push, Owning, Asking, clients
    <2>2. OtherUsers(u) /\ pc'[u] \notin Asking
      BY DEF UserTypes, Push, Goto, Has, OtherUsers, Asking, UserStays
    <2>3. OtherClients(held[u]) /\ OwnInStep(u, held[u])
      BY <2>1, <2>2, LeaveInStep DEF Push
    <2> QED
      BY <2>1, <2>2, <2>3, KeeperInStep DEF Push, UserStays
  <1>16. CASE UserPanics(u)
    BY <1>16, NothingAsked DEF UserPanics, Panic, clients
  <1> QED
    BY SMT, <1>1, <1>2, <1>3, <1>4, <1>5, <1>6, <1>7, <1>8, <1>9, <1>10, <1>11, <1>12,
       <1>13, <1>14, <1>15, <1>16, Zenon DEF User

\* A step of somebody else than the client's owner, on one connection.
LEMMA OthersKeepStep ==
    ASSUME PoolInv, InStep, NEW c \in Clients, OtherClients(c), UNCHANGED users,
           made' = made \cup {c},
           \A u \in Users : held[u] = c /\ pc[u] \in Asking =>
               /\ on[u] <= conn'[c]
               /\ on[u] = conn'[c] =>
                      num[u] = sent'[c] /\ sent'[c] = read'[c] + lost'[c] + 1,
           alive'[c] /\ (\A u \in Users : ~Waits(u, c)') => sent'[c] = read'[c] + lost'[c]
    PROVE  InStep'
  <1>0. /\ NewAtZero /\ OnKnown /\ WaitsInStep /\ RestsInStep /\ AnswersInStep
        /\ made \subseteq Clients
    BY DEF PoolInv, InStep, PoolTypeOK, ClientTypes
  <1> USE <1>0
  <1>1. UNCHANGED <<pc, held, num, on, reply>>
    BY DEF users
  <1> USE <1>1
  <1>2. NewAtZero'
    BY DEF NewAtZero, Zero, OtherClients
  <1>3. \A v \in Users : pc[v] \in Asking => held[v] \in Clients
    BY OwnerHas DEF Asking, Owning
  <1>4. OnKnown'
    BY <1>3 DEF OnKnown, OtherClients
  <1>5. \A v \in Users : \A d \in Clients \ {c} : Waits(v, d)' <=> Waits(v, d)
    BY DEF Waits, OtherClients
  <1>6. WaitsInStep'
    <2>1. ASSUME NEW v \in Users, NEW d \in made', Waits(v, d)'
          PROVE  num'[v] = sent'[d] /\ sent'[d] = read'[d] + lost'[d] + 1
      <3>1. CASE d = c
        BY <2>1, <3>1 DEF Waits
      <3>2. CASE d # c
        BY <1>5, <2>1, <3>2 DEF WaitsInStep, OtherClients
      <3> QED
        BY <3>1, <3>2
    <2> QED
      BY <2>1 DEF WaitsInStep
  <1>7. RestsInStep'
    <2>1. ASSUME NEW d \in made', alive'[d], \A v \in Users : ~Waits(v, d)'
          PROVE  sent'[d] = read'[d] + lost'[d]
      <3>1. CASE d = c
        BY <2>1, <3>1
      <3>2. CASE d # c
        BY <1>5, <2>1, <3>2 DEF RestsInStep, OtherClients
      <3> QED
        BY <3>1, <3>2
    <2> QED
      BY <2>1 DEF RestsInStep
  <1>8. AnswersInStep'
    BY DEF AnswersInStep
  <1> QED
    BY <1>2, <1>4, <1>6, <1>7, <1>8 DEF InStep

\* A client no goroutine holds is closed or dialled by cleanup or Close.
LEMMA UnheldInStep ==
    ASSUME PoolInv, InStep, NEW c \in Clients, \A u \in Users : held[u] # c, UNCHANGED users,
           \/ realClose(c) /\ c \in made
           \/ Connected(c) /\ c \notin made
    PROVE  InStep'
  <1>1. CASE realClose(c) /\ c \in made
    <2>1. OtherClients(c) /\ ~alive'[c] /\ made' = made \cup {c}
      BY <1>1, StopsOne DEF realClose
    <2> QED
      BY <2>1, OthersKeepStep
  <1>2. CASE Connected(c) /\ c \notin made
    <2>1. /\ OtherClients(c) /\ sent'[c] = 0 /\ read'[c] = 0 /\ lost'[c] = 0
          /\ made' = made \cup {c}
      BY <1>2, StartsOne DEF PoolInv, InStep, NewAtZero, Zero
    <2>2. sent'[c] = read'[c] + lost'[c]
      BY SMT, <2>1
    <2> QED
      BY <2>1, <2>2, OthersKeepStep
  <1> QED
    BY <1>1, <1>2

\* cleanup touches only clients no goroutine has.
LEMMA CleanupStepInStep ==
    ASSUME PoolInv, InStep, cleanup
    PROVE  InStep'
  <1>0. UNCHANGED users /\ Apart
    BY DEF PoolInv, cleanup, CleanupStart, CleanupDrain, CleanupDrained, CleanupRemove,
       CleanupRestore, CleanupNeeded, CleanupCreate, CleanupCount, CleanupPush,
       CleanupPanics, Panic
  <1> USE <1>0
  <1>1. ASSUME UNCHANGED <<clients, conns>>
        PROVE  InStep'
    BY <1>1, NothingAsked DEF clients
  <1> USE <1>1
  <1>2. CASE CleanupRemove
    <2> DEFINE h == Head(toRemove)
    <2>1. h \in Clients /\ h \in Elems(toRemove)
      BY <1>2, TakesFirst DEF PoolInv, PoolTypeOK, CleanerTypes, Apart, CleanupRemove
    <2>2. h \in made /\ \A u \in Users : held[u] # h
      BY <2>1, PoolAssumption DEF Apart, Owned, Hands, InPool
    <2>3. realClose(h)
      BY <1>2 DEF CleanupRemove
    <2> HIDE DEF h
    <2> QED
      BY <2>1, <2>2, <2>3, UnheldInStep
  <1>3. CASE CleanupRestore
    <2> DEFINE h == Head(toKeep)
    <2>1. h \in Clients /\ h \in Elems(toKeep)
      BY <1>3, TakesFirst DEF PoolInv, PoolTypeOK, CleanerTypes, Apart, CleanupRestore
    <2>2. h \in made /\ \A u \in Users : held[u] # h
      BY <2>1, PoolAssumption DEF Apart, Owned, Hands, InPool
    <2>3. UNCHANGED <<clients, conns>> \/ realClose(h)
      BY <1>3 DEF CleanupRestore
    <2> HIDE DEF h
    <2> QED
      BY <2>1, <2>2, <2>3, UnheldInStep
  <1>4. CASE CleanupCreate
    <2>1. ASSUME NEW c \in Clients \ made, Connected(c)
          PROVE  InStep'
      <3>1. c # None /\ c \notin Owned
        BY PoolAssumption DEF Apart
      <3>2. \A u \in Users : held[u] # c
        BY <3>1 DEF Owned, Hands
      <3> QED
        BY <2>1, <3>2, UnheldInStep
    <2> QED
      BY <1>4, <2>1 DEF CleanupCreate
  <1> QED
    BY <1>2, <1>3, <1>4 DEF cleanup, CleanupStart, CleanupDrain, CleanupDrained,
       CleanupNeeded, CleanupCount, CleanupPush, CleanupPanics, Panic

\* A reconnection gives up what its owner waited for; the rest asks nothing.
LEMMA OtherStepInStep ==
    ASSUME PoolInv, InStep,
           \/ Close
           \/ \E c \in Clients : ServerAnswers(c) \/ Break(c) \/ Reconnect(c) \/ Age(c)
    PROVE  InStep'
  <1>0. ConnTypes /\ Apart
    BY DEF PoolInv, PoolTypeOK
  <1> USE <1>0
  <1>1. CASE CloseSet \/ CloseChannel \/ CloseZero
    BY <1>1, NothingAsked DEF CloseSet, CloseChannel, CloseZero, clients
  <1>2. CASE CloseDrain
    <2> DEFINE h == Head(channel)
    <2>1. h \in Clients /\ h \in Elems(channel)
      BY <1>2, TakesFirst DEF PoolInv, PoolTypeOK, ChannelTypes, Apart, CloseDrain
    <2>2. h \in made /\ \A u \in Users : held[u] # h
      BY <2>1, PoolAssumption DEF Apart, Owned, Hands, InPool
    <2>3. realClose(h) /\ UNCHANGED users
      BY <1>2 DEF CloseDrain
    <2> HIDE DEF h
    <2> QED
      BY <2>1, <2>2, <2>3, UnheldInStep
  <1>3. ASSUME NEW c \in Clients, ServerAnswers(c)
        PROVE  InStep'
    <2>1. UNCHANGED <<conn, alive, sent, read, lost, made, users>>
      BY <1>3 DEF ServerAnswers, clients
    <2>2. \A v \in Users : \A d : Waits(v, d)' <=> Waits(v, d)
      BY <2>1 DEF Waits, users
    <2> QED
      BY <2>1, <2>2 DEF PoolInv, InStep, NewAtZero, Zero, OnKnown, WaitsInStep,
         RestsInStep, AnswersInStep, users
  <1>4. ASSUME NEW c \in Clients, Break(c)
        PROVE  InStep'
    <2>1. UNCHANGED <<conn, sent, read, lost, made, users>>
      BY <1>4 DEF Break, clients
    <2> USE <2>1
    <2>2. \A v \in Users : \A d : Waits(v, d)' <=> Waits(v, d)
      BY DEF Waits, users
    <2>3. \A d \in Clients : alive'[d] => alive[d]
      BY <1>4 DEF Break, ConnTypes
    <2>4. made \subseteq Clients /\ InStep
      BY DEF PoolInv, PoolTypeOK, ClientTypes
    <2>5. RestsInStep'
      BY <2>2, <2>3, <2>4 DEF InStep, RestsInStep
    <2> QED
      BY <2>2, <2>4, <2>5 DEF InStep, NewAtZero, Zero, OnKnown, WaitsInStep,
         AnswersInStep, users
  <1>5. ASSUME NEW c \in Clients, Reconnect(c)
        PROVE  InStep'
    <2>1. /\ OtherClients(c) /\ conn'[c] = conn[c] + 1 /\ conn[c] \in Nat
          /\ sent'[c] = 0 /\ read'[c] = 0 /\ lost'[c] = 0
      BY <1>5 DEF Reconnect, ConnTypes, OtherClients
    <2> USE <2>1
    <2>2. UNCHANGED users /\ made' = made \cup {c}
      BY <1>5 DEF Reconnect, clients, PoolInv, Apart
    <2>3. sent'[c] = read'[c] + lost'[c]
      BY SMT
    <2>4. ASSUME NEW u \in Users, held[u] = c, pc[u] \in Asking
          PROVE  on[u] <= conn'[c] /\ on[u] # conn'[c]
      <3>1. on[u] <= conn[c] /\ on[u] \in Nat
        BY <2>4 DEF PoolInv, InStep, OnKnown, PoolTypeOK, UserTypes
      <3> QED
        BY SMT, <3>1
    <2> QED
      BY <2>2, <2>3, <2>4, OthersKeepStep
  <1>6. ASSUME NEW c \in Clients, Age(c)
        PROVE  InStep'
    BY <1>6, NothingAsked DEF Age
  <1> QED
    BY <1>1, <1>2, <1>3, <1>4, <1>5, <1>6 DEF Close


\* Nothing has been asked of the clients NewClientPool makes.
LEMMA AnswersInit ==
    ASSUME Init
    PROVE  InStep
  <1>1. \A u \in Users : pc[u] \notin Asking
    BY DEF Asking, Init
  <1>2. \A c \in Clients : Zero(c) /\ sent[c] = read[c] + lost[c]
    BY SMT DEF Init, Zero
  <1> QED
    BY <1>1, <1>2 DEF InStep, NewAtZero, OnKnown, WaitsInStep, RestsInStep,
       AnswersInStep, Waits, Init

\* Every step of the pool keeps answers in step.
LEMMA AnswersStep ==
    ASSUME PoolInv, InStep, [Next]_vars
    PROVE  InStep'
  <1>1. CASE UNCHANGED vars
    BY <1>1, NothingAsked DEF vars, clients
  <1> QED
    BY <1>1, UserStepInStep, CleanupStepInStep, OtherStepInStep DEF Next

-----------------------------------------------------------------------------
(* How a step counts *)

\* The clients that count, and what cleanup will still add.
Counted == Owned \ (IF cpc = "count" THEN {fresh} ELSE {})
Dialling == {u \in Users : pc[u] = "dial"}
Missing == IF cpc \in {"create", "count"} THEN needed
           ELSE IF cpc = "push" THEN needed - 1 ELSE 0


\* The ways a step can count: nothing, a client that is closed, a goroutine's
\* client once it is dialled, a goroutine that is to dial, its dial taken back, a
\* client cleanup created.
Keeps == UNCHANGED <<currentSize, closed>>
NothingCounted ==
    /\ Keeps /\ Counted' = Counted /\ Dialling' = Dialling
    /\ Missing' = Missing \/ (Missing' \in Nat /\ Missing' <= Missing)
ClosedCounted ==
    /\ decrementSize /\ UNCHANGED closed /\ Dialling' = Dialling /\ Missing' = Missing
    /\ \E c \in Counted : Counted' = Counted \ {c}
DialledCounted ==
    /\ Keeps /\ Missing' = Missing
    /\ \E c : c \notin Counted /\ Counted' = Counted \cup {c}
    /\ \E u \in Dialling : Dialling' = Dialling \ {u}
DialCounted ==
    /\ currentSize < maxSize /\ currentSize' = currentSize + 1 /\ UNCHANGED closed
    /\ Counted' = Counted /\ Missing' = Missing
    /\ \E u : u \notin Dialling /\ Dialling' = Dialling \cup {u}
DialTakenBack ==
    /\ decrementSize /\ UNCHANGED closed /\ Counted' = Counted /\ Missing' = Missing
    /\ \E u \in Dialling : Dialling' = Dialling \ {u}
CreatedCounted ==
    /\ currentSize' = currentSize + 1 /\ UNCHANGED closed /\ Dialling' = Dialling
    /\ \E c : c \notin Counted /\ Counted' = Counted \cup {c}
    /\ Missing' = Missing - 1

\* cleanup finds clients missing; and once the pool is closed nothing counts.
MissingFound ==
    /\ Keeps /\ Counted' = Counted /\ Dialling' = Dialling
    /\ Missing' = IF currentSize < minSize THEN minSize - currentSize ELSE 0
CountsOneWay ==
    \/ NothingCounted \/ ClosedCounted \/ DialledCounted \/ DialCounted \/ DialTakenBack
    \/ CreatedCounted \/ MissingFound \/ closed'

\* What cleanup will still add is at most minSize.
LEMMA MissingBounded ==
    ASSUME PoolInv
    PROVE  Missing \in 0 .. minSize /\ currentSize \in Nat /\ maxSize \in Nat /\ minSize \in Nat
  <1>1. CleanerTypes /\ CleanupPhases /\ currentSize \in Nat
    BY DEF PoolInv, PoolTypeOK, ChannelTypes, Phases
  <1> QED
    BY SMT, <1>1, PoolAssumption DEF CleanerTypes, CleanupPhases, Missing

\* The goroutines that dial, after one of them has moved on.
LEMMA DiallingMoves ==
    ASSUME PoolInv, NEW u \in Users, NEW l, Goto(u, l)
    PROVE  Dialling' = IF l = "dial" THEN Dialling \cup {u} ELSE Dialling \ {u}
  <1>1. \A v \in Users : pc'[v] = IF v = u THEN l ELSE pc[v]
    BY DEF PoolInv, PoolTypeOK, UserTypes, Goto
  <1> QED
    BY <1>1 DEF Dialling

\* A goroutine that neither starts nor ends a dial, nor moves a client out of
\* what somebody owns, counts nothing.
LEMMA QuietUserCounts ==
    ASSUME PoolInv, NEW u \in Users, NEW l, Goto(u, l), l # "dial", pc[u] # "dial",
           UNCHANGED <<currentSize, closed, cleaner>>, Owned' = Owned
    PROVE  CountsOneWay
  <1>1. Dialling' = Dialling
    BY DiallingMoves DEF Dialling
  <1>2. Counted' = Counted /\ Missing' = Missing
    BY DEF Counted, Missing, cleaner
  <1> QED
    BY <1>1, <1>2 DEF CountsOneWay, NothingCounted, Keeps

\* A goroutine's step counts in one of these ways.
LEMMA UserStepCounts ==
    ASSUME PoolInv, NEW u \in Users, User(u)
    PROVE  CountsOneWay
  <1>0. /\ UNCHANGED cleaner /\ UNCHANGED closed
        /\ UNCHANGED <<toRemove, toKeep, fresh>>
    BY UserStepFrame DEF cleaner
  <1>q. ASSUME UNCHANGED <<channel, held, made>>
        PROVE  Owned' = Owned
    BY <1>0, <1>q, NothingMoves
  <1>1. CASE GetCheck(u) \/ TakeNothing(u) \/ Probe(u) \/ ProbeSucceeds(u) \/ ProbeFails(u)
    BY <1>0, <1>1, <1>q, QuietUserCounts
    DEF GetCheck, TakeNothing, Probe, ProbeSucceeds, ProbeFails, pool, clients
  <1>2. CASE Call(u) \/ CallReturns(u) \/ CallFails(u)
    BY <1>0, <1>2, <1>q, QuietUserCounts DEF Call, CallReturns, CallFails, pool, clients
  <1>3. CASE Take(u)
    <2>1. Owned' = Owned
      BY <1>3, TakeMoves
    <2>2. pc[u] # "dial" /\ UNCHANGED currentSize /\ \E l \in {"discard", "probe"} : Goto(u, l)
      BY <1>3 DEF Take
    <2> QED
      BY <1>0, <2>1, <2>2, QuietUserCounts
  <1>4. CASE Push(u)
    <2>1. Owned' = Owned
      BY <1>4, PushMoves
    <2>2. /\ pc[u] # "dial" /\ UNCHANGED currentSize
          /\ \E l \in {"idle", "putdiscard"} : Goto(u, l)
      BY <1>4 DEF Push
    <2> QED
      BY <1>0, <2>1, <2>2, QuietUserCounts
  <1>5. CASE Discard(u)
    <2> USE <1>5
    <2>1. Owned' = Owned \ {held[u]} /\ held[u] \in Owned /\ held[u] # fresh
      BY DropMoves DEF Discard, Owning, realClose, cleaner, PoolInv, Apart, Owned
    <2>2. Dialling' = Dialling
      <3>1. pc[u] # "dial" /\ \E l \in {"create", "idle"} : Goto(u, l)
        BY DEF Discard
      <3> QED
        BY <3>1, DiallingMoves DEF Dialling
    <2>3. Counted' = Counted \ {held[u]} /\ held[u] \in Counted /\ Missing' = Missing
      BY <1>0, <2>1 DEF Counted, Missing, cleaner
    <2> QED
      BY <1>0, <2>2, <2>3 DEF Discard, CountsOneWay, ClosedCounted
  <1>6. CASE createNewClient(u)
    <2> USE <1>6
    <2>1. Owned' = Owned
      BY <1>0, NothingMoves DEF createNewClient, clients
    <2>2. CASE currentSize >= maxSize
      BY <1>0, <2>1, <2>2, QuietUserCounts DEF createNewClient
    <2>3. CASE ~(currentSize >= maxSize)
      <3> USE <2>3
      <3>1. Dialling' = Dialling \cup {u} /\ u \notin Dialling
        BY DiallingMoves DEF createNewClient, Dialling
      <3>2. Counted' = Counted /\ Missing' = Missing
        BY <1>0, <2>1 DEF Counted, Missing, cleaner
      <3>3. currentSize < maxSize
        BY SMT, MissingBounded
      <3> QED
        BY <1>0, <3>1, <3>2, <3>3 DEF createNewClient, CountsOneWay, DialCounted
    <2> QED
      BY <2>2, <2>3
  <1>7. CASE Dial(u)
    <2> USE <1>7
    <2>1. PICK c \in Clients \ made : Connected(c) /\ Has(u, c)
      BY DEF Dial
    <2>2. Owned' = Owned \cup {c} /\ c \notin Owned
      BY <2>1, DialMoves DEF Dial, Connected
    <2>3. c # fresh
      BY <2>1, <2>2, PoolAssumption DEF Owned, Hands
    <2>4. pc[u] = "dial" /\ Goto(u, "have") /\ UNCHANGED currentSize
      BY DEF Dial, pool
    <2>5. Dialling' = Dialling \ {u} /\ u \in Dialling
      BY SMT, <2>4, DiallingMoves DEF Dialling
    <2>6. Counted' = Counted \cup {c} /\ c \notin Counted /\ Missing' = Missing
      BY <1>0, <2>2, <2>3 DEF Counted, Missing, cleaner
    <2>7. Keeps
      BY <1>0, <2>4 DEF Keeps
    <2>8. DialledCounted
      BY <2>5, <2>6, <2>7 DEF DialledCounted
    <2> QED
      BY <2>8 DEF CountsOneWay
  <1>8. CASE DialFails(u)
    <2> USE <1>8
    <2>1. Owned' = Owned
      BY <1>0, NothingMoves DEF DialFails, clients
    <2>2. Dialling' = Dialling \ {u} /\ u \in Dialling
      BY DiallingMoves, ZenonT(30) DEF DialFails, Dialling
    <2>3. Counted' = Counted /\ Missing' = Missing
      BY <1>0, <2>1 DEF Counted, Missing, cleaner
    <2> QED
      BY <2>2, <2>3 DEF DialFails, CountsOneWay, DialTakenBack
  <1>9. CASE Put(u)
    <2>1. CASE closed
      BY <1>0, <2>1 DEF CountsOneWay
    <2>2. CASE ~closed
      BY <1>0, <1>9, <1>q, <2>2, QuietUserCounts DEF Put, pool, clients
    <2> QED
      BY <2>1, <2>2
  <1>10. CASE UserPanics(u)
    <2>1. UNCHANGED <<channel, held, made, pc, currentSize>>
      BY <1>10 DEF UserPanics, Panic, pool, clients, users
    <2>2. Dialling' = Dialling /\ Counted' = Counted /\ Missing' = Missing
      BY <1>0, <1>q, <2>1 DEF cleaner, Dialling, Counted, Missing
    <2> QED
      BY <1>0, <2>1, <2>2 DEF CountsOneWay, NothingCounted, Keeps
  <1> QED
    BY <1>1, <1>2, <1>3, <1>4, <1>5, <1>6, <1>7, <1>8, <1>9, <1>10 DEF User

\* A step that moves no client, and lets no goroutine move, counts nothing.
LEMMA QuietCounts ==
    ASSUME PoolInv, UNCHANGED <<currentSize, closed, pc>>, Counted' = Counted,
           Missing' = Missing \/ (Missing' \in Nat /\ Missing' <= Missing)
    PROVE  CountsOneWay
  <1>1. Dialling' = Dialling
    BY DEF Dialling
  <1> QED
    BY <1>1 DEF CountsOneWay, NothingCounted, Keeps

\* cleanup takes the client out of the count that it closes.
LEMMA CleanupCloses ==
    ASSUME PoolInv, NEW c \in Owned, Owned' = Owned \ {c}, decrementSize,
           UNCHANGED <<closed, pc>>, cpc = "remove", cpc' = cpc
    PROVE  CountsOneWay
  <1>1. /\ Dialling' = Dialling /\ Counted' = Counted \ {c} /\ c \in Counted
        /\ Missing' = Missing
    BY DEF Dialling, Counted, Missing
  <1> QED
    BY <1>1 DEF CountsOneWay, ClosedCounted

\* A step of cleanup counts in one of these ways.
LEMMA CleanupStepCounts ==
    ASSUME PoolInv, cleanup
    PROVE  CountsOneWay
  <1>0. CleanupPhases /\ CleanerTypes /\ UNCHANGED pc
    BY DEF PoolInv, Phases, PoolTypeOK, cleanup, CleanupStart, CleanupDrain,
       CleanupDrained, CleanupRemove, CleanupRestore, CleanupNeeded, CleanupCreate,
       CleanupCount, CleanupPush, CleanupPanics, Panic, users
  <1> USE <1>0
  <1>1. CASE CleanupStart \/ CleanupDrained
    <2>1. /\ Owned' = Owned /\ UNCHANGED <<fresh, currentSize, closed>>
          /\ cpc \in {"wait", "drain"} /\ cpc' \in {"stopped", "drain", "remove"}
      BY <1>1, NothingMoves DEF CleanupStart, CleanupDrained, pool, clients, users
    <2>2. Counted' = Counted /\ Missing' = Missing
      BY <2>1 DEF Counted, Missing
    <2> QED
      BY <2>1, <2>2, QuietCounts
  <1>2. CASE CleanupDrain
    <2>1. Owned' = Owned
      BY <1>2, DrainMoves
    <2>2. Counted' = Counted /\ Missing' = Missing /\ UNCHANGED <<currentSize, closed>>
      BY <1>2, <2>1 DEF CleanupDrain, Counted, Missing
    <2> QED
      BY <2>2, QuietCounts
  <1>3. CASE CleanupRemove
    BY <1>3, RemoveMoves, CleanupCloses DEF CleanupRemove
  <1>4. CASE CleanupRestore
    <2> USE <1>4
    <2> DEFINE h == Head(toKeep)
    <2>1. h \in Owned /\ Owned' = IF Len(channel) < maxSize THEN Owned ELSE Owned \ {h}
      BY RestoreMoves
    <2> USE <2>1
    <2>2. CASE Len(channel) < maxSize
      <3>1. Counted' = Counted /\ Missing' = Missing /\ UNCHANGED <<currentSize, closed>>
        BY <2>2 DEF CleanupRestore, Counted, Missing
      <3> QED
        BY <3>1, QuietCounts
    <2>3. CASE ~(Len(channel) < maxSize)
      <3>1. /\ decrementSize /\ UNCHANGED closed /\ Owned' = Owned \ {h}
            /\ cpc = "remove" /\ cpc' = cpc
        BY <2>3 DEF CleanupRestore
      <3> QED
        BY <3>1, CleanupCloses
    <2> QED
      BY <2>2, <2>3
  <1>5. CASE CleanupNeeded
    <2>1. Owned' = Owned
      BY <1>5, NothingMoves DEF CleanupNeeded, pool, clients, users
    <2>2. /\ Dialling' = Dialling /\ Counted' = Counted /\ UNCHANGED <<currentSize, closed>>
          /\ Missing' = IF currentSize < minSize THEN minSize - currentSize ELSE 0
      BY <1>5, <2>1 DEF CleanupNeeded, pool, Dialling, Counted, Missing
    <2> QED
      BY <2>2 DEF CountsOneWay, MissingFound, Keeps
  <1>6. CASE CleanupCreate
    <2> USE <1>6
    <2>1. ASSUME NEW c \in Clients \ made, Connected(c), fresh' = c, cpc' = "count",
                 UNCHANGED needed
          PROVE  CountsOneWay
      <3>1. Owned' = Owned \cup {c} /\ c \notin Owned
        BY <2>1, CreateMoves DEF CleanupCreate, Connected, pool, users
      <3>2. Counted' = Counted /\ Missing' = Missing /\ UNCHANGED <<currentSize, closed>>
        BY <2>1, <3>1 DEF CleanupCreate, Counted, Missing, pool
      <3> QED
        BY <3>2, QuietCounts
    <2>2. ASSUME cpc' = "wait", needed' = 0, UNCHANGED <<clients, conns, fresh>>
          PROVE  CountsOneWay
      <3>1. Owned' = Owned /\ Missing' = 0 /\ UNCHANGED <<currentSize, closed>>
        BY <2>2, NothingMoves DEF CleanupCreate, pool, clients, users, Missing
      <3> USE <3>1
      <3>2. Counted' = Counted
        BY <2>2 DEF Counted, CleanupCreate
      <3>3. Missing' \in Nat /\ Missing' <= Missing
        BY SMT, MissingBounded
      <3> QED
        BY <3>2, <3>3, QuietCounts
    <2> QED
      BY <2>1, <2>2 DEF CleanupCreate
  <1>7. CASE CleanupCount
    <2> USE <1>7
    <2>1. Owned' = Owned /\ UNCHANGED <<fresh, closed>>
      BY NothingMoves DEF CleanupCount, clients, users
    <2>2. fresh \in Owned
      BY DEF CleanupCount, CleanupPhases, Owned, Hands
    <2>3. /\ Dialling' = Dialling /\ Counted' = Counted \cup {fresh} /\ fresh \notin Counted
      BY <2>1, <2>2 DEF CleanupCount, Dialling, Counted
    <2>4. Missing' = Missing - 1
      BY DEF CleanupCount, Missing
    <2> QED
      BY <2>1, <2>3, <2>4 DEF CleanupCount, CountsOneWay, CreatedCounted
  <1>8. CASE CleanupPush
    <2> USE <1>8
    <2>1. Owned' = Owned
      BY CleanupPushMoves
    <2>2. Counted' = Counted /\ UNCHANGED <<currentSize, closed>>
      BY <2>1 DEF CleanupPush, Counted
    <2>3. Missing' \in Nat /\ Missing' <= Missing
      BY SMT, PoolAssumption DEF CleanupPush, Missing, CleanupPhases, CleanerTypes
    <2> QED
      BY <2>2, <2>3, QuietCounts
  <1>9. CASE CleanupPanics
    <2>1. UNCHANGED <<channel, toRemove, toKeep, held, fresh, made, currentSize, closed, cpc,
                      needed>>
      BY <1>9 DEF CleanupPanics, Panic, pool, clients, users, cleaner
    <2>2. Counted' = Counted /\ Missing' = Missing
      BY <2>1, NothingMoves DEF Counted, Missing
    <2> QED
      BY <2>1, <2>2, QuietCounts
  <1> QED
    BY <1>1, <1>2, <1>3, <1>4, <1>5, <1>6, <1>7, <1>8, <1>9 DEF cleanup

\* So does every other step; once Close has begun there is nothing to count.
LEMMA EveryStepCounts ==
    ASSUME PoolInv, [Next]_vars
    PROVE  CountsOneWay
  <1>1. CASE Close
    <2>1. closed'
      BY <1>1 DEF PoolInv, Phases, ClosePhases, Close, CloseSet, CloseChannel,
         CloseZero, CloseDrain
    <2> QED
      BY <2>1 DEF CountsOneWay
  <1>2. CASE \/ \E c \in Clients : ServerAnswers(c) \/ Break(c) \/ Reconnect(c) \/ Age(c)
             \/ UNCHANGED vars
    <2>1. UNCHANGED <<channel, toRemove, toKeep, held, fresh, made, currentSize, closed, pc,
                      cpc, needed>>
      BY <1>2 DEF ServerAnswers, Break, Reconnect, Age, pool, clients, users, cleaner,
         vars
    <2>2. Counted' = Counted /\ Missing' = Missing
      BY <2>1, NothingMoves DEF Counted, Missing
    <2> QED
      BY <2>1, <2>2, QuietCounts
  <1> QED
    BY <1>1, <1>2, UserStepCounts, CleanupStepCounts DEF Next

-----------------------------------------------------------------------------
(* Counting *)

INSTANCE FiniteSetTheorems

\* Until Close, the size is the number of clients that count and of goroutines
\* that dial, and what cleanup will still add keeps it within its bound.
Counts ==
    ~closed => /\ currentSize + Missing <= maxSize + minSize
               /\ IsFiniteSet(Counted) /\ IsFiniteSet(Dialling)
               /\ currentSize = Cardinality(Counted) + Cardinality(Dialling)

\* The number of clients and of dialling goroutines, before the pool is closed.
LEMMA CountedNow ==
    ASSUME PoolInv, Counts, ~closed
    PROVE  /\ currentSize + Missing <= maxSize + minSize
           /\ IsFiniteSet(Counted) /\ IsFiniteSet(Dialling)
           /\ Cardinality(Counted) \in Nat /\ Cardinality(Dialling) \in Nat
           /\ currentSize = Cardinality(Counted) + Cardinality(Dialling)
           /\ Missing \in 0 .. minSize /\ currentSize \in Nat /\ maxSize \in Nat
           /\ minSize \in Nat
  BY FS_CardinalityType, MissingBounded DEF Counts

\* Adding a member that was not counted.
LEMMA OneMore ==
    ASSUME NEW A, NEW B, NEW x, IsFiniteSet(A), x \notin A, B = A \cup {x}
    PROVE  IsFiniteSet(B) /\ Cardinality(B) = Cardinality(A) + 1
  BY FS_AddElement

\* Removing one that was counted.
LEMMA OneLess ==
    ASSUME NEW A, NEW B, NEW x \in A, IsFiniteSet(A), B = A \ {x}
    PROVE  IsFiniteSet(B) /\ Cardinality(B) = Cardinality(A) - 1 /\ Cardinality(A) # 0
  BY FS_RemoveElement, FS_EmptySet

\* Each of the ways keeps the size equal to what it counts.
LEMMA WaysKeepCount ==
    ASSUME PoolInv, Counts, CountsOneWay
    PROVE  Counts'
  <1> SUFFICES ASSUME ~closed'
               PROVE  /\ currentSize' + Missing' <= maxSize + minSize
                      /\ IsFiniteSet(Counted') /\ IsFiniteSet(Dialling')
                      /\ currentSize' = Cardinality(Counted') + Cardinality(Dialling')
    BY DEF Counts
  <1>0. ASSUME UNCHANGED closed
        PROVE  /\ currentSize + Missing <= maxSize + minSize
               /\ IsFiniteSet(Counted) /\ IsFiniteSet(Dialling)
               /\ Cardinality(Counted) \in Nat /\ Cardinality(Dialling) \in Nat
               /\ currentSize = Cardinality(Counted) + Cardinality(Dialling)
               /\ Missing \in 0 .. minSize /\ currentSize \in Nat /\ maxSize \in Nat
               /\ minSize \in Nat
    BY <1>0, CountedNow
  <1> USE <1>0
  <1>1. CASE NothingCounted
    BY SMT, <1>1 DEF NothingCounted, Keeps
  <1>2. CASE ClosedCounted
    <2>1. /\ IsFiniteSet(Counted') /\ Cardinality(Counted') = Cardinality(Counted) - 1
          /\ Cardinality(Counted) # 0
      BY <1>2, OneLess DEF ClosedCounted
    <2> QED
      BY SMTT(20), <1>2, <2>1 DEF ClosedCounted, decrementSize
  <1>3. CASE DialledCounted
    <2> USE <1>3
    <2>1. IsFiniteSet(Counted') /\ Cardinality(Counted') = Cardinality(Counted) + 1
      BY OneMore DEF DialledCounted, Keeps
    <2>2. IsFiniteSet(Dialling') /\ Cardinality(Dialling') = Cardinality(Dialling) - 1
      BY OneLess DEF DialledCounted, Keeps
    <2> QED
      BY SMTT(20), <2>1, <2>2 DEF DialledCounted, Keeps
  <1>4. CASE DialCounted
    <2>1. IsFiniteSet(Dialling') /\ Cardinality(Dialling') = Cardinality(Dialling) + 1
      BY <1>4, OneMore DEF DialCounted
    <2> QED
      BY SMT, <1>4, <2>1 DEF DialCounted
  <1>5. CASE DialTakenBack
    <2>1. /\ IsFiniteSet(Dialling') /\ Cardinality(Dialling') = Cardinality(Dialling) - 1
          /\ Cardinality(Dialling) # 0
      BY <1>5, OneLess DEF DialTakenBack
    <2> QED
      BY SMT, <1>5, <2>1 DEF DialTakenBack, decrementSize
  <1>6. CASE CreatedCounted
    <2>1. IsFiniteSet(Counted') /\ Cardinality(Counted') = Cardinality(Counted) + 1
      BY <1>6, OneMore DEF CreatedCounted
    <2> QED
      BY SMT, <1>6, <2>1 DEF CreatedCounted
  <1>7. CASE MissingFound
    BY SMT, <1>7 DEF MissingFound, Keeps
  <1> QED
    BY ZenonT(30), <1>1, <1>2, <1>3, <1>4, <1>5, <1>6, <1>7 DEF CountsOneWay

-----------------------------------------------------------------------------
(* The invariant *)

\* NewClientPool makes minSize clients and puts each into the channel once.
LEMMA PoolInit ==
    ASSUME Init
    PROVE  PoolInv
  <1>0. minSize \in Nat /\ maxSize \in Nat /\ None \notin Clients
    BY SMT, PoolAssumption
  <1> USE <1>0
  <1>1. channel \in Surjection(1 .. minSize, made)
    BY DEF Init, Surjection
  <1>2. IsFiniteSet(1 .. minSize) /\ Cardinality(1 .. minSize) = minSize
    BY SMT, FS_Interval
  <1>3. channel \in Injection(1 .. minSize, made) /\ IsFiniteSet(made)
    BY <1>1, <1>2, FS_Surjection DEF Init
  <1>4. channel \in Seq(Clients) /\ DOMAIN channel = 1 .. minSize /\ made \subseteq Clients
    BY SMT DEF Init
  <1> USE <1>4
  <1>5. Distinct(channel)
    BY <1>3 DEF Distinct, Injection, IsInjective
  <1>6. Elems(channel) = made
    BY DEF Elems, Init
  <1>7. Elems(<< >>) = {} /\ Distinct(<< >>) /\ << >> \in Seq(Clients)
    BY SMT DEF Elems, Distinct
  <1> USE <1>7
  <1>8. PoolTypeOK
    <2>1. ChannelTypes /\ ClientTypes
      BY DEF ChannelTypes, ClientTypes, Init
    <2>2. ConnTypes
      BY SMT DEF ConnTypes, Init
    <2>3. UserTypes
      BY DEF UserTypes, Init, Free
    <2>4. CleanerTypes
      BY SMT DEF CleanerTypes, Init
    <2> QED
      BY <2>1, <2>2, <2>3, <2>4 DEF PoolTypeOK, Init
  <1>9. /\ toRemove = << >> /\ toKeep = << >> /\ fresh = None
        /\ \A u \in Users : held[u] = None /\ pc[u] = "idle"
    BY DEF Init
  <1> USE <1>9
  <1>10. Hands \ {None} = made
    BY <1>6 DEF Hands, InPool
  <1>11. Apart
    BY <1>5, <1>6, <1>10 DEF Apart, Owned, InPool
  <1>12. Phases
    <2>1. UserPhases
      BY DEF UserPhases, Owning
    <2>2. CleanupPhases
      BY DEF Init, CleanupPhases
    <2>3. ClosePhases
      BY DEF Init, ClosePhases
    <2> QED
      BY <2>1, <2>2, <2>3 DEF Phases
  <1>13. open = Owned
    BY <1>10 DEF Init, Owned
  <1> QED
    BY <1>8, <1>11, <1>12, <1>13 DEF PoolInv

\* They are what it counts.
LEMMA CountInit ==
    ASSUME Init
    PROVE  Counts
  <1>0. minSize \in Nat /\ maxSize \in Nat
    BY SMT, PoolAssumption
  <1>1. IsFiniteSet(1 .. minSize)
    BY SMT, <1>0, FS_Interval
  <1>2. channel \in Surjection(1 .. minSize, made)
    BY DEF Init, Surjection
  <1>3. IsFiniteSet(made)
    BY <1>1, <1>2, FS_Surjection
  <1>4. open = Owned
    BY PoolInit DEF PoolInv
  <1>5. Counted = made /\ Dialling = {} /\ Missing = 0
    BY <1>4 DEF Init, Counted, Dialling, Missing
  <1> USE <1>5
  <1>6. IsFiniteSet(Dialling) /\ Cardinality(Dialling) = 0
    BY FS_EmptySet
  <1>7. currentSize = minSize /\ Cardinality(Counted) = minSize
    BY DEF Init
  <1>8. /\ currentSize + Missing <= maxSize + minSize
        /\ currentSize = Cardinality(Counted) + Cardinality(Dialling)
    BY SMT, <1>0, <1>6, <1>7
  <1> QED
    BY <1>3, <1>6, <1>8 DEF Counts

\* Types, places and phases hold throughout ...
LEMMA PoolInvariant == Spec => []PoolInv
  BY PoolInit, PoolStep, PTL DEF Spec

\* ... and so does the count.
LEMMA CountInvariant == Spec => []Counts
  BY CountInit, EveryStepCounts, WaysKeepCount, PoolInvariant, PTL DEF Spec

\* The count, read as the run's property.
LEMMA SizeIsCounted ==
    ASSUME PoolInv, Counts
    PROVE  SizeCountsClients
  <1>1. ASSUME ~closed
        PROVE  /\ currentSize <= maxSize + minSize
               /\ currentSize = Cardinality(Counted) + Cardinality(Dialling)
    BY SMT, <1>1, CountedNow
  <1> QED
    BY <1>1 DEF SizeCountsClients, Counted, Owned, Dialling

\* The pool of pool.go never has a client in two places and never gives one to two
\* goroutines, however Get, Put, cleanup and Close interleave.
THEOREM ClientsHaveOneOwner == Spec => []OneOwner
  BY PoolInvariant, PlacesHaveOneOwner, PTL

\* Until Close, currentSize is the number of clients that exist or are being
\* dialled, and exceeds maxSize by minSize at most: no path of Get, Put or cleanup
\* counts a client twice or forgets one.
THEOREM SizeIsTheClients == Spec => []SizeCountsClients
  BY PoolInvariant, CountInvariant, SizeIsCounted, PTL

\* An open connection is in somebody's hands, and none is open once Close, cleanup
\* and the users have ended.
THEOREM ConnectionsDoNotLeak == Spec => []NothingLeaks
  BY PoolInvariant, NothingIsLeft, PTL

\* Every answer belongs to the request made as many places earlier as receives
\* timed out on the connection: without timeouts every caller gets its own, through
\* any number of owners.
THEOREM AnswersStayInStep == Spec => []AnswersInStep
  <1>1. InStep => AnswersInStep
    BY DEF InStep
  <1> QED
    BY <1>1, AnswersInit, AnswersStep, PoolInvariant, PTL DEF Spec
===============================================================================
