------------------------- MODULE AirportRtlwmProofs --------------------------
(***************************************************************************)
(* Proofs about AirportRtlwm for any clients, networks, scan results and   *)
(* cache size.                                                             *)
(***************************************************************************)
EXTENDS AirportRtlwm, SequenceTheorems, TLAPS

(* The type invariant in parts; the cursor stays inside the cache.         *)
LifeOK ==
    /\ life \in {"new", "started", "failed", "stopping", "detached", "stopped"}
    /\ held \subseteq Acquired(4) \cup {"timer", "interrupt"}
    /\ timer \in {"off", "armed", "fired"} /\ power \in {0, 1}

BoolOK == inTimer \in BOOLEAN /\ associated \in BOOLEAN

ScanOK ==
    /\ cache \in Seq(Networks) /\ Len(cache) <= CacheSize /\ cursor \in 0..Len(cache)
    /\ scans \in 0..MaxScans /\ got \in [Clients -> Seq(Networks)]

ConnOK ==
    /\ conn \in Connections /\ link \in Connections
    /\ \A v \in view : v.part \in Parts

(* Before start nobody has been told and nobody has read anything.         *)
LinkInv ==
    /\ LinkAsAnnounced
    /\ life = "new" => link = conn /\ view = {}

(* The two halves of EachResultOnce; what is in the cache stands there     *)
(* once.                                                                   *)
HandedOnce ==
    \A k \in 1..cursor : \E c \in Clients : \E i \in 1..Len(got[c]) :
        /\ got[c][i] = cache[k]
        /\ \A d \in Clients : \A j \in 1..Len(got[d]) : got[d][j] = cache[k] => d = c /\ j = i

HandedInOrder ==
    \A c \in Clients : \A i \in 1..Len(got[c]) : \E k \in 1..cursor :
        /\ got[c][i] = cache[k]
        /\ \A j \in 1..i - 1 : \E l \in 1..k - 1 : got[c][j] = cache[l]

CachedOnce == \A i, j \in 1..Len(cache) : cache[i] = cache[j] => i = j

OnceInv == CachedOnce /\ HandedOnce /\ HandedInOrder

IInv == LifeOK /\ BoolOK /\ ScanOK /\ ConnOK /\ LinkInv /\ OnceInv /\ TimerAsLife

-----------------------------------------------------------------------------

LEMMA InvTypes == IInv => TypeOK
<1> SUFFICES ASSUME IInv PROVE TypeOK
  OBVIOUS
<1>1. cursor \in 0..CacheSize
  BY BoundAssumption DEF IInv, ScanOK
<1>2. QED
  BY <1>1, Zenon DEF IInv, LifeOK, BoolOK, ScanOK, ConnOK, TypeOK

(* What start acquires, without the indices of Order.                      *)
LEMMA AcquiredSets ==
    /\ Acquired(4) = {"provider", "bar0", "workloop", "netif"}
    /\ \A n \in 0..3 : Acquired(n) \subseteq {"provider", "bar0", "workloop"}
<1>1. /\ Order[1] = "provider" /\ Order[2] = "bar0"
      /\ Order[3] = "workloop" /\ Order[4] = "netif"
  BY DEF Order
<1>2. Acquired(4) = {"provider", "bar0", "workloop", "netif"}
  <2>1. \A i \in 1..4 : i = 1 \/ i = 2 \/ i = 3 \/ i = 4
    OBVIOUS
  <2>2. QED
    BY <1>1, <2>1 DEF Acquired
<1>3. ASSUME NEW n \in 0..3
      PROVE  Acquired(n) \subseteq {"provider", "bar0", "workloop"}
  <2>1. \A i \in 1..n : i = 1 \/ i = 2 \/ i = 3
    OBVIOUS
  <2>2. QED
    BY <1>1, <2>1 DEF Acquired
<1>4. QED
  BY <1>2, <1>3

(* The cache takes the first results, as many as it has room for.          *)
LEMMA CachedFits ==
    /\ Cached \in Seq(Networks) /\ Len(Cached) <= CacheSize
    /\ \A i, j \in 1..Len(Cached) : Cached[i] = Cached[j] => i = j
<1> DEFINE k == IF Len(Found) <= CacheSize THEN Len(Found) ELSE CacheSize
<1>1. k \in Nat /\ k <= Len(Found) /\ k <= CacheSize
  BY FoundAssumption, BoundAssumption
<1>2. Cached = SubSeq(Found, 1, k)
  BY DEF Cached
<1> HIDE DEF k
<1>3. \A i \in 1..k : Found[i] \in Networks
  BY <1>1, FoundAssumption
<1>4. QED
  BY <1>1, <1>2, <1>3, FoundAssumption, SubSeqProperties

LEMMA InitInv == Init => IInv
<1> SUFFICES ASSUME Init PROVE IInv
  OBVIOUS
<1>1. BoolOK
  BY Zenon DEF Init, BoolOK
<1>2. LifeOK
  BY DEF Init, LifeOK
<1>3. ScanOK /\ OnceInv
  <2>1. cache = <<>> /\ cursor = 0 /\ scans = 0 /\ got = [c \in Clients |-> <<>>]
    BY DEF Init
  <2>2. <<>> \in Seq(Networks) /\ Len(<<>>) = 0
    BY EmptySeq
  <2>3. QED
    BY <2>1, <2>2, BoundAssumption DEF ScanOK, OnceInv, CachedOnce, HandedOnce, HandedInOrder
<1>4. conn = [state |-> "init", net |-> None, rssi |-> 0, noise |-> 0] /\ link = conn /\ view = {}
  BY DEF Init, Unlinked
<1>5. ConnOK
  BY <1>4 DEF ConnOK, Connections
<1>6. LinkInv
  BY <1>4 DEF LinkInv, LinkAsAnnounced
<1>7. TimerAsLife
  BY DEF Init, TimerAsLife, QuietAfterStop, TicksOn
<1>8. QED
  BY <1>1, <1>2, <1>3, <1>5, <1>6, <1>7 DEF IInv

LEMMA StepKinds ==
  ASSUME [Next]_vars
  PROVE  \/ Start \/ StartFails \/ StopBegin \/ RemoveSources \/ StopRelease
         \/ TimerExpires \/ TimerEnter \/ TimerRearm
         \/ ScanReq \/ (\E c \in Clients : ScanResult(c))
         \/ (\E n \in Networks : Associate(n)) \/ Disassociate
         \/ (\E part \in Asked : Read(part)) \/ (\E p \in {0, 1} : SetPower(p))
         \/ UNCHANGED vars
BY Zenon DEF Next, Stop, Timer, Request

LEMMA LifeStep ==
  ASSUME LifeOK, [Next]_vars
  PROVE  LifeOK'
<1> USE DEF LifeOK, lifeVars, timerVars
<1>1. CASE Start \/ StartFails
  BY <1>1, AcquiredSets DEF Start, StartFails, Sources
<1>2. CASE StopBegin \/ RemoveSources \/ StopRelease
  BY <1>2 DEF StopBegin, RemoveSources, StopRelease
<1>3. CASE TimerExpires \/ TimerEnter \/ TimerRearm
  BY <1>3 DEF TimerExpires, TimerEnter, TimerRearm
<1>4. CASE ScanReq \/ (\E c \in Clients : ScanResult(c))
  BY <1>4 DEF ScanReq, ScanResult
<1>5. CASE (\E n \in Networks : Associate(n)) \/ Disassociate
  BY <1>5 DEF Associate, Disassociate
<1>6. CASE \/ (\E part \in Asked : Read(part)) \/ (\E p \in {0, 1} : SetPower(p))
           \/ UNCHANGED vars
  BY <1>6 DEF Read, SetPower, vars
<1>7. QED
  BY <1>1, <1>2, <1>3, <1>4, <1>5, <1>6, StepKinds

LEMMA BoolStep ==
  ASSUME BoolOK, [Next]_vars
  PROVE  BoolOK'
<1> USE DEF BoolOK, timerVars, connVars
<1>1. CASE Start \/ StartFails \/ StopBegin \/ RemoveSources \/ StopRelease
  BY <1>1, Zenon DEF Start, StartFails, StopBegin, RemoveSources, StopRelease
<1>2. CASE TimerExpires \/ TimerEnter \/ TimerRearm
  BY <1>2, Zenon DEF TimerExpires, TimerEnter, TimerRearm
<1>3. CASE ScanReq \/ (\E c \in Clients : ScanResult(c))
  BY <1>3, Zenon DEF ScanReq, ScanResult
<1>4. CASE (\E n \in Networks : Associate(n)) \/ Disassociate
  BY <1>4, Zenon DEF Associate, Disassociate
<1>5. CASE \/ (\E part \in Asked : Read(part)) \/ (\E p \in {0, 1} : SetPower(p))
           \/ UNCHANGED vars
  BY <1>5, Zenon DEF Read, SetPower, vars
<1>6. QED
  BY <1>1, <1>2, <1>3, <1>4, <1>5, StepKinds, Zenon

(* Only SCAN_REQ and SCAN_RESULT touch cache, cursor and what was handed   *)
(* out.                                                                    *)
LEMMA ScanFrame ==
  ASSUME [Next]_vars, ~ ScanReq, \A c \in Clients : ~ ScanResult(c)
  PROVE  UNCHANGED scanVars
BY StepKinds, Zenon DEF Start, StartFails, StopBegin, RemoveSources, StopRelease, TimerExpires,
   TimerEnter, TimerRearm, Associate, Disassociate, Read, SetPower, vars

(* A scan empties what was handed out; a result goes to one client and is  *)
(* the next of the cache.                                                  *)
LEMMA ScanStep ==
  ASSUME ScanOK, OnceInv, [Next]_vars
  PROVE  ScanOK' /\ OnceInv'
<1>1. CASE ScanReq
  <2>1. /\ cache' = Cached /\ cursor' = 0 /\ scans' = scans + 1 /\ scans < MaxScans
        /\ got' = [c \in Clients |-> <<>>]
    BY <1>1 DEF ScanReq
  <2>2. <<>> \in Seq(Networks) /\ Len(<<>>) = 0
    BY EmptySeq
  <2>3. QED
    BY <2>1, <2>2, CachedFits, BoundAssumption
       DEF ScanOK, OnceInv, CachedOnce, HandedOnce, HandedInOrder
<1>2. ASSUME NEW c \in Clients, ScanResult(c)
      PROVE  ScanOK' /\ OnceInv'
  <2> DEFINE n == cursor + 1
  <2>1. /\ cursor < Len(cache) /\ cursor' = n /\ cache' = cache /\ scans' = scans
        /\ got' = [got EXCEPT ![c] = Append(@, cache[n])]
    BY <1>2 DEF ScanResult
  <2>2. n \in 1..Len(cache) /\ cache[n] \in Networks
    BY <2>1 DEF ScanOK
  <2>3. /\ got'[c] \in Seq(Networks) /\ Len(got'[c]) = Len(got[c]) + 1
        /\ got'[c][Len(got[c]) + 1] = cache[n]
        /\ \A i \in 1..Len(got[c]) : got'[c][i] = got[c][i]
    BY <2>1, <2>2 DEF ScanOK
  <2>4. \A d \in Clients \ {c} : got'[d] = got[d]
    BY <2>1 DEF ScanOK
  <2>5. ScanOK'
    BY <2>1, <2>2, <2>3, <2>4 DEF ScanOK
  <2>6. OnceInv'
    <3> DEFINE L == Len(got[c])
    <3>1. cursor \in Nat /\ \A d \in Clients : got[d] \in Seq(Networks) /\ Len(got[d]) \in Nat
      BY DEF ScanOK
    <3>2. ASSUME NEW d \in Clients, NEW j \in 1..Len(got[d])
          PROVE  got[d][j] # cache[n]
      <4>1. PICK k \in 1..cursor : got[d][j] = cache[k]
        BY Zenon DEF OnceInv, HandedInOrder
      <4>2. k \in 1..Len(cache) /\ k # n
        BY <2>1, <3>1 DEF ScanOK
      <4>3. QED
        BY <4>1, <4>2, <2>2 DEF OnceInv, CachedOnce
    <3>3. ASSUME NEW k \in 1..n
          PROVE  \E d \in Clients : \E i \in 1..Len(got'[d]) :
                    /\ got'[d][i] = cache[k]
                    /\ \A e \in Clients : \A j \in 1..Len(got'[e]) :
                            got'[e][j] = cache[k] => e = d /\ j = i
      <4>1. CASE k = n
        <5>1. L + 1 \in 1..Len(got'[c]) /\ got'[c][L + 1] = cache[k]
          BY <4>1, <2>3, <3>1
        <5>2. ASSUME NEW e \in Clients, NEW j \in 1..Len(got'[e]), got'[e][j] = cache[k]
              PROVE  e = c /\ j = L + 1
          BY <5>2, <4>1, <2>3, <2>4, <3>1, <3>2
        <5>3. QED
          BY <5>1, <5>2
      <4>2. CASE k # n
        <5>1. k \in 1..cursor /\ k \in 1..Len(cache)
          BY <4>2, <2>1, <3>1 DEF ScanOK
        <5>2. PICK d \in Clients : \E i \in 1..Len(got[d]) :
                /\ got[d][i] = cache[k]
                /\ \A e \in Clients : \A j \in 1..Len(got[e]) :
                        got[e][j] = cache[k] => e = d /\ j = i
          BY <5>1, Zenon DEF OnceInv, HandedOnce
        <5>3. PICK i \in 1..Len(got[d]) :
                /\ got[d][i] = cache[k]
                /\ \A e \in Clients : \A j \in 1..Len(got[e]) :
                        got[e][j] = cache[k] => e = d /\ j = i
          BY <5>2
        <5>4. i \in 1..Len(got'[d]) /\ got'[d][i] = cache[k]
          BY <5>3, <2>3, <2>4, <3>1
        <5>5. cache[k] # cache[n]
          BY <5>1, <4>2, <2>2 DEF OnceInv, CachedOnce
        <5>6. ASSUME NEW e \in Clients, NEW j \in 1..Len(got'[e]), got'[e][j] = cache[k]
              PROVE  e = d /\ j = i
          <6>1. ~ (e = c /\ j = L + 1)
            BY <5>5, <5>6, <2>3
          <6>2. j \in 1..Len(got[e]) /\ got[e][j] = cache[k]
            BY <6>1, <5>6, <2>3, <2>4, <3>1
          <6>3. QED
            BY <6>2, <5>3
        <5>7. QED
          BY <5>4, <5>6
      <4>3. QED
        BY <4>1, <4>2
    <3>4. ASSUME NEW d \in Clients, NEW i \in 1..Len(got'[d])
          PROVE  \E k \in 1..n :
                    /\ got'[d][i] = cache[k]
                    /\ \A j \in 1..i - 1 : \E l \in 1..k - 1 : got'[d][j] = cache[l]
      <4>1. CASE d = c /\ i = L + 1
        <5>1. \A j \in 1..L : \E l \in 1..cursor : got[c][j] = cache[l]
          BY Zenon DEF OnceInv, HandedInOrder
        <5>2. \A j \in 1..i - 1 : \E l \in 1..n - 1 : got'[d][j] = cache[l]
          BY <4>1, <5>1, <2>3, <3>1
        <5>3. n \in 1..n /\ got'[d][i] = cache[n]
          BY <4>1, <2>3, <3>1
        <5>4. QED
          BY <5>2, <5>3
      <4>2. CASE ~ (d = c /\ i = L + 1)
        <5>1. i \in 1..Len(got[d]) /\ \A j \in 1..i : got'[d][j] = got[d][j]
          BY <4>2, <2>3, <2>4, <3>1
        <5>2. PICK k \in 1..cursor :
                /\ got[d][i] = cache[k]
                /\ \A j \in 1..i - 1 : \E l \in 1..k - 1 : got[d][j] = cache[l]
          BY <5>1, Zenon DEF OnceInv, HandedInOrder
        <5>3. k \in 1..n /\ got'[d][i] = cache[k]
          BY <5>1, <5>2, <3>1
        <5>4. ASSUME NEW j \in 1..i - 1
              PROVE  \E l \in 1..k - 1 : got'[d][j] = cache[l]
          <6>1. j \in 1..i
            BY <5>1, <3>1
          <6>2. got'[d][j] = got[d][j]
            BY <6>1, <5>1, Zenon
          <6>3. \E l \in 1..k - 1 : got[d][j] = cache[l]
            BY <5>2, Zenon
          <6>4. QED
            BY <6>2, <6>3, Zenon
        <5>5. QED
          BY <5>3, <5>4
      <4>3. QED
        BY <4>1, <4>2
    <3>5. CachedOnce'
      BY <2>1 DEF OnceInv, CachedOnce
    <3>6. cursor' = n /\ cache' = cache
      BY <2>1
    <3> HIDE DEF n
    <3>7. HandedOnce' /\ HandedInOrder'
      <4>1. HandedOnce'
        BY <3>3, <3>6, SMTT(30) DEF HandedOnce
      <4>2. HandedInOrder'
        BY <3>4, <3>6, Zenon DEF HandedInOrder
      <4>3. QED
        BY <4>1, <4>2
    <3>8. QED
      BY <3>5, <3>7 DEF OnceInv
  <2>7. QED
    BY <2>5, <2>6
<1>3. CASE UNCHANGED scanVars
  <2>1. cache' = cache /\ cursor' = cursor /\ scans' = scans /\ got' = got
    BY <1>3 DEF scanVars
  <2>2. ScanOK'
    BY <2>1 DEF ScanOK
  <2>3. OnceInv'
    BY <2>1 DEF OnceInv, CachedOnce, HandedOnce, HandedInOrder
  <2>4. QED
    BY <2>2, <2>3
<1>4. QED
  BY <1>1, <1>2, <1>3, ScanFrame

(* The two connections a request can make.                                 *)
LEMMA ConnectionTypes ==
    /\ Unlinked \in Connections
    /\ \A n \in Networks : Linked(n) \in Connections
BY DEF Unlinked, Linked, Connections

LEMMA ConnStep ==
  ASSUME ConnOK, [Next]_vars
  PROVE  ConnOK'
<1> USE DEF ConnOK, connVars
<1>1. CASE Start \/ StartFails \/ StopBegin \/ RemoveSources \/ StopRelease
  BY <1>1 DEF Start, StartFails, StopBegin, RemoveSources, StopRelease
<1>2. CASE TimerExpires \/ TimerEnter \/ TimerRearm
  BY <1>2 DEF TimerExpires, TimerEnter, TimerRearm
<1>3. CASE ScanReq \/ (\E c \in Clients : ScanResult(c)) \/ (\E p \in {0, 1} : SetPower(p))
  BY <1>3 DEF ScanReq, ScanResult, SetPower
<1>4. ASSUME NEW n \in Networks, Associate(n)
      PROVE  ConnOK'
  BY <1>4, ConnectionTypes DEF Associate, Announce
<1>5. CASE Disassociate
  BY <1>5, ConnectionTypes DEF Disassociate, Announce
<1>6. ASSUME NEW part \in Asked, Read(part)
      PROVE  ConnOK'
  BY <1>6, BoundAssumption DEF Read
<1>7. CASE UNCHANGED vars
  BY <1>7 DEF vars
<1>8. QED
  BY <1>1, <1>2, <1>3, <1>4, <1>5, <1>6, <1>7, StepKinds

(* start finds what Init has left, the interface goes away at once, and    *)
(* while it is there each change of the connection is announced.           *)
LEMMA LinkStep ==
  ASSUME LifeOK, LinkInv, [Next]_vars
  PROVE  LinkInv'
<1> USE DEF LinkInv, LinkAsAnnounced, Attached, connVars
<1>1. CASE Start
  BY <1>1 DEF Start
<1>2. CASE StartFails
  <2>1. PICK n \in 0..3 : held' \subseteq Acquired(n) \cup Sources(Acquired(n))
    BY <1>2 DEF StartFails
  <2>2. "netif" \notin held'
    BY <2>1, AcquiredSets DEF Sources
  <2>3. QED
    BY <1>2, <2>2 DEF StartFails
<1>3. CASE StopBegin \/ RemoveSources \/ StopRelease
  BY <1>3 DEF StopBegin, RemoveSources, StopRelease
<1>4. CASE TimerExpires \/ TimerEnter \/ TimerRearm
  BY <1>4 DEF TimerExpires, TimerEnter, TimerRearm, lifeVars
<1>5. CASE ScanReq \/ (\E c \in Clients : ScanResult(c)) \/ (\E p \in {0, 1} : SetPower(p))
  BY <1>5 DEF ScanReq, ScanResult, SetPower, lifeVars
<1>6. CASE (\E n \in Networks : Associate(n)) \/ Disassociate
  BY <1>6 DEF Associate, Disassociate, Announce, lifeVars
<1>7. ASSUME NEW part \in Asked, Read(part)
      PROVE  LinkInv'
  BY <1>7 DEF Read, lifeVars
<1>8. CASE UNCHANGED vars
  BY <1>8 DEF vars, lifeVars
<1>9. QED
  BY <1>1, <1>2, <1>3, <1>4, <1>5, <1>6, <1>7, <1>8, StepKinds

LEMMA TimerStep ==
  ASSUME TimerAsLife, [Next]_vars
  PROVE  TimerAsLife'
<1> USE DEF TimerAsLife, QuietAfterStop, TicksOn, lifeVars, timerVars
<1>1. CASE Start
  BY <1>1, AcquiredSets DEF Start
<1>2. CASE StartFails
  BY <1>2 DEF StartFails
<1>3. CASE StopBegin \/ RemoveSources \/ StopRelease
  BY <1>3 DEF StopBegin, RemoveSources, StopRelease
<1>4. CASE TimerExpires \/ TimerEnter \/ TimerRearm
  BY <1>4 DEF TimerExpires, TimerEnter, TimerRearm
<1>5. CASE \/ ScanReq \/ (\E c \in Clients : ScanResult(c)) \/ (\E p \in {0, 1} : SetPower(p))
           \/ (\E n \in Networks : Associate(n)) \/ Disassociate
           \/ (\E part \in Asked : Read(part)) \/ UNCHANGED vars
  BY <1>5 DEF ScanReq, ScanResult, SetPower, Associate, Disassociate, Read, vars
<1>6. QED
  BY <1>1, <1>2, <1>3, <1>4, <1>5, StepKinds

LEMMA StepInv == IInv /\ [Next]_vars => IInv'
<1> SUFFICES ASSUME IInv, [Next]_vars PROVE IInv'
  OBVIOUS
<1>1. LifeOK' /\ BoolOK' /\ ScanOK' /\ OnceInv'
  BY LifeStep, BoolStep, ScanStep DEF IInv
<1>2. ConnOK' /\ LinkInv' /\ TimerAsLife'
  BY ConnStep, LinkStep, TimerStep DEF IInv
<1>3. QED
  BY <1>1, <1>2 DEF IInv

LEMMA Inductive == Spec => []IInv
BY InitInv, StepInv, PTL DEF Spec

-----------------------------------------------------------------------------

(* The driver's variables keep their types.                                *)
THEOREM TypeCorrect == Spec => []TypeOK
BY InvTypes, Inductive, PTL

(* Each result the cursor has passed was handed to one client, once, and   *)
(* to each in the order of the cache, for any number of clients            *)
(* (AirportRtlwm.cpp:301-305).                                             *)
THEOREM ResultsOnce == Spec => []EachResultOnce
<1>1. IInv => EachResultOnce
  BY Zenon DEF IInv, OnceInv, HandedOnce, HandedInOrder, EachResultOnce
<1>2. QED
  BY <1>1, Inductive, PTL

(* What clients read of the connection is what the last link message       *)
(* announced (AirportRtlwm.cpp:167-230, 320-340, 389-394).                 *)
THEOREM LinkAnnounced == Spec => []LinkAsAnnounced
<1>1. IInv => LinkAsAnnounced
  BY DEF IInv, LinkInv
<1>2. QED
  BY <1>1, Inductive, PTL

(* Once stop has removed the timer it never comes back; until then it      *)
(* never rests, also when start has failed after arming it                 *)
(* (AirportRtlwm.cpp:113-114, 120-126, 423).                               *)
THEOREM TimerFollowsLife == Spec => []TimerAsLife
<1>1. IInv => TimerAsLife
  BY DEF IInv
<1>2. QED
  BY <1>1, Inductive, PTL
=============================================================================
