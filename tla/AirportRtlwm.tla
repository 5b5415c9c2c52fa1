---------------------------- MODULE AirportRtlwm -----------------------------
(***************************************************************************)
(* The AirportRtlwm kext (AirportRtlwm/AirportRtlwm.cpp): start and stop,  *)
(* the timer that arms itself again, the scan cache and the connection     *)
(* state behind apple80211Request.                                         *)
(*                                                                         *)
(* The IO80211 family (external) issues one request at a time, on behalf   *)
(* of several clients, so a request is one action; fScanInProgress is up   *)
(* only inside SCAN_REQ and never seen. The work loop runs the timer       *)
(* handler behind its gate. link is what the family could read of the      *)
(* connection when the last link message was posted. A client reads the    *)
(* connection in parts, one request each; view is what the clients have    *)
(* read since that message. Requests that return constants are left out.   *)
(***************************************************************************)
EXTENDS Integers, Sequences

CONSTANTS
    Clients,     (* who issues requests                                    *)
    Networks,    (* networks one can associate with                        *)
    Found,       (* what a scan finds, in order                            *)
    CacheSize,   (* RTW_SCAN_CACHE_SIZE                                    *)
    MaxScans,    (* bound: scans                                           *)
    Asked        (* bound: parts of the connection that clients read       *)

Parts == {"SSID", "BSSID", "STATE", "RSSI", "NOISE", "CHANNEL", "RATE", "MCS"}

ASSUME FoundAssumption ==
    /\ Found \in Seq(Networks)
    /\ \A i, j \in 1..Len(Found) : Found[i] = Found[j] => i = j
ASSUME BoundAssumption ==
    CacheSize \in Nat /\ MaxScans \in Nat /\ Asked \subseteq Parts

None == "none"
ASSUME NoneAssumption == None \notin Networks

VARIABLES
    life,       (* "new", "started", "failed", "stopping", "detached",     *)
                (* "stopped"                                               *)
    held,       (* objects start has acquired and stop has not released    *)
    timer,      (* "off", "armed", "fired" (waiting for the gate)          *)
    inTimer,    (* the timer handler is running and holds the gate         *)
    cache,      (* fScanCache, up to fScanCount                            *)
    cursor,     (* fScanResultCursor                                       *)
    scans,      (* scans so far                                            *)
    got,        (* history: what each client was handed since the scan     *)
    conn,       (* fConn: state, network (SSID and BSSID), RSSI and noise; *)
                (* nobody writes its channel, rate and MCS index           *)
    associated, (* fAssociated                                             *)
    link,       (* conn at the last link message                           *)
    view,       (* replies read since then                                 *)
    power       (* fPowerState                                             *)

lifeVars  == <<life, held>>
timerVars == <<timer, inTimer>>
scanVars  == <<cache, cursor, scans, got>>
connVars  == <<conn, associated, link, view>>
vars == <<lifeVars, timerVars, scanVars, connVars, power>>

(* Mutant: signal and noise are handed to connUpdateRSSI in the other order. *)
LinkedSwapped(n) == [state |-> "run", net |-> n, rssi |-> -95, noise |-> -50]

Linked(n) == [state |-> "run", net |-> n, rssi |-> -50, noise |-> -95]
Unlinked  == [state |-> "init", net |-> None, rssi |-> 0, noise |-> -95]

Init ==
    /\ life = "new" /\ held = {}
    /\ timer = "off" /\ inTimer = FALSE
    /\ cache = <<>> /\ cursor = 0 /\ scans = 0 /\ got = [c \in Clients |-> <<>>]
    /\ conn = [Unlinked EXCEPT !.noise = 0] /\ link = conn /\ view = {}
    /\ associated = FALSE
    /\ power = 1

(***************************************************************************)
(* start and stop.                                                         *)
(***************************************************************************)
Order == <<"provider", "bar0", "workloop", "netif">>

Acquired(n) == {Order[i] : i \in 1..n}

(* The sources are created once the work loop is there; failing to create  *)
(* one is no error.                                                        *)
Sources(objects) == IF "workloop" \in objects THEN {"timer", "interrupt"} ELSE {}

Start ==
    /\ life = "new" /\ life' = "started"
    /\ \E sources \in SUBSET {"timer", "interrupt"} :
        /\ held' = Acquired(4) \cup sources
        /\ timer' = IF "timer" \in sources THEN "armed" ELSE "off"
    /\ UNCHANGED <<inTimer, scanVars, connVars, power>>

(* start gives up at its n-th acquisition and releases nothing; when the   *)
(* interface cannot be attached the timer is running. The instance is      *)
(* taken to stay: whether and when IOKit releases it is not in the source. *)
StartFails ==
    /\ life = "new" /\ life' = "failed"
    /\ \E n \in 0..3 : \E sources \in SUBSET Sources(Acquired(n)) :
        /\ held' = Acquired(n) \cup sources
        /\ timer' = IF "timer" \in held' THEN "armed" ELSE "off"
    /\ UNCHANGED <<inTimer, scanVars, connVars, power>>

(* cancelTimeout. A handler that is running arms the timer again.          *)
StopBegin ==
    /\ life = "started" /\ life' = "stopping"
    /\ timer' = IF timer = "armed" THEN "off" ELSE timer
    /\ UNCHANGED <<held, inTimer, scanVars, connVars, power>>

(* Mutant: cancelling the timer is taken for enough.                       *)
NotRemoved ==
    /\ life = "stopping" /\ ~inTimer /\ life' = "detached"
    /\ UNCHANGED <<held, timerVars, scanVars, connVars, power>>

(* removeEventSource, once the gate is free.                               *)
RemoveSources ==
    /\ life = "stopping" /\ ~inTimer
    /\ life' = "detached" /\ timer' = "off"
    /\ UNCHANGED <<held, inTimer, scanVars, connVars, power>>

StopRelease ==
    /\ life = "detached" /\ life' = "stopped" /\ held' = {}
    /\ UNCHANGED <<timerVars, scanVars, connVars, power>>

(***************************************************************************)
(* The timer.                                                              *)
(***************************************************************************)
TimerExpires ==
    /\ timer = "armed" /\ timer' = "fired"
    /\ UNCHANGED <<lifeVars, inTimer, scanVars, connVars, power>>

TimerEnter ==
    /\ timer = "fired" /\ ~inTimer
    /\ inTimer' = TRUE /\ timer' = "off"
    /\ UNCHANGED <<lifeVars, scanVars, connVars, power>>

(* Mutant: the handler does not look at fTimerSrc and never lets go.       *)
TimerKeepsGate ==
    /\ inTimer /\ inTimer' = TRUE /\ timer' = "armed"
    /\ UNCHANGED <<lifeVars, scanVars, connVars, power>>

(* Mutant: the timer is a one-shot, as that of the RealtekWifi kext is.    *)
TimerOnce ==
    /\ inTimer /\ inTimer' = FALSE
    /\ UNCHANGED <<lifeVars, timer, scanVars, connVars, power>>

(* handleTimer. *)
TimerRearm ==
    /\ inTimer /\ inTimer' = FALSE
    /\ timer' = IF "timer" \in held THEN "armed" ELSE timer
    /\ UNCHANGED <<lifeVars, scanVars, connVars, power>>

(***************************************************************************)
(* Requests, also after stop: the interface is released, not detached.     *)
(***************************************************************************)
Attached == life \in {"started", "stopping", "detached", "stopped"}

(* scanAddResult for each network found: what the cache has no room for is *)
(* dropped.                                                                *)
Cached == SubSeq(Found, 1, IF Len(Found) <= CacheSize THEN Len(Found) ELSE CacheSize)

(* Mutant: the cursor of the last scan is kept.                            *)
ScanKeepsCursor ==
    /\ Attached /\ scans < MaxScans
    /\ cache' = Cached /\ UNCHANGED cursor
    /\ scans' = scans + 1 /\ got' = [c \in Clients |-> <<>>]
    /\ UNCHANGED <<lifeVars, timerVars, connVars, power>>

(* SCAN_REQ of any client: scanFlush, the results, scanDone.               *)
ScanReq ==
    /\ Attached /\ scans < MaxScans
    /\ cache' = Cached /\ cursor' = 0
    /\ scans' = scans + 1 /\ got' = [c \in Clients |-> <<>>]
    /\ UNCHANGED <<lifeVars, timerVars, connVars, power>>

(* SCAN_RESULT: one entry a request, from a cursor all clients share.      *)
ScanResult(c) ==
    /\ Attached /\ cursor < Len(cache)
    /\ cursor' = cursor + 1
    /\ got' = [got EXCEPT ![c] = Append(@, cache[cursor + 1])]
    /\ UNCHANGED <<lifeVars, timerVars, cache, scans, connVars, power>>

(* connUpdateState: the message goes out while there is an interface.      *)
Announce(connection) ==
    IF "netif" \in held
    THEN link' = connection /\ view' = {}
    ELSE UNCHANGED <<link, view>>

(* Mutant: the message goes out before the network is stored.              *)
AnnouncedEarly(n) ==
    /\ Attached
    /\ conn' = Linked(n)
    /\ Announce([conn EXCEPT !.state = "run"])
    /\ associated' = TRUE
    /\ UNCHANGED <<lifeVars, timerVars, scanVars, power>>

(* ASSOCIATE: BSSID and SSID, the state and its message, the flag.         *)
Associate(n) ==
    /\ Attached
    /\ conn' = Linked(n)
    /\ Announce(conn')
    /\ associated' = TRUE
    /\ UNCHANGED <<lifeVars, timerVars, scanVars, power>>

(* DISASSOCIATE: all of fConn but the noise is zeroed, then the state and  *)
(* its message.                                                            *)
Disassociate ==
    /\ Attached
    /\ conn' = Unlinked /\ Announce(conn')
    /\ associated' = FALSE
    /\ UNCHANGED <<lifeVars, timerVars, scanVars, power>>

(* The requests that read a part of the connection. An unset channel is    *)
(* answered with 1, an unset rate with 54.                                 *)
Reply(c, part) ==
    CASE part \in {"SSID", "BSSID"} -> c.net
      [] part = "STATE"   -> c.state
      [] part = "RSSI"    -> c.rssi
      [] part = "NOISE"   -> c.noise
      [] part = "CHANNEL" -> 1
      [] part = "RATE"    -> 54
      [] part = "MCS"     -> 0

Read(part) ==
    /\ Attached
    /\ view' = view \cup {[part |-> part, reply |-> Reply(conn, part)]}
    /\ UNCHANGED <<lifeVars, timerVars, scanVars, conn, associated, link, power>>

(* POWER, which is the only request to look at its type.                   *)
SetPower(p) ==
    /\ Attached /\ power' = p
    /\ UNCHANGED <<lifeVars, timerVars, scanVars, connVars>>

Request ==
    \/ ScanReq \/ (\E c \in Clients : ScanResult(c))
    \/ (\E n \in Networks : Associate(n)) \/ Disassociate
    \/ (\E part \in Asked : Read(part))
    \/ \E p \in {0, 1} : SetPower(p)

Timer == TimerEnter \/ TimerRearm
Stop  == RemoveSources \/ StopRelease

Next == Start \/ StartFails \/ StopBegin \/ Stop \/ TimerExpires \/ Timer \/ Request

Spec == Init /\ [][Next]_vars

(* The work loop thread and a stop that has begun run on.                  *)
FairSpec == Spec /\ WF_vars(Timer) /\ SF_vars(Stop)

(***************************************************************************)
(* Properties.                                                             *)
(***************************************************************************)
Connections ==
    [state : {"init", "run"}, net : Networks \cup {None}, rssi : {0, -50}, noise : {0, -95}]

TypeOK ==
    /\ life \in {"new", "started", "failed", "stopping", "detached", "stopped"}
    /\ held \subseteq Acquired(4) \cup {"timer", "interrupt"}
    /\ timer \in {"off", "armed", "fired"} /\ inTimer \in BOOLEAN
    /\ cache \in Seq(Networks) /\ Len(cache) <= CacheSize /\ cursor \in 0..CacheSize
    /\ scans \in 0..MaxScans /\ got \in [Clients -> Seq(Networks)]
    /\ conn \in Connections /\ link \in Connections
    /\ \A v \in view : v.part \in Parts
    /\ associated \in BOOLEAN /\ power \in {0, 1}

(* However clients interleave their requests, an entry the cursor has      *)
(* passed went to exactly one of them, once, and in the order of the cache *)
(* (AirportRtlwm.cpp:301-305).                                             *)
EachResultOnce ==
    /\ \A k \in 1..cursor : \E c \in Clients : \E i \in 1..Len(got[c]) :
        /\ got[c][i] = cache[k]
        /\ \A d \in Clients : \A j \in 1..Len(got[d]) : got[d][j] = cache[k] => d = c /\ j = i
    /\ \A c \in Clients : \A i \in 1..Len(got[c]) : \E k \in 1..cursor :
        /\ got[c][i] = cache[k]
        /\ \A j \in 1..i - 1 : \E l \in 1..k - 1 : got[c][j] = cache[l]

(* While there is an interface, the connection is as the family was last   *)
(* told, and so are all the parts of it that clients have read since then, *)
(* in any number of requests: nothing changes behind the message           *)
(* (AirportRtlwm.cpp:167-230, 320-340, 389-394).                           *)
LinkAsAnnounced ==
    "netif" \in held =>
        link = conn /\ \A v \in view : v.reply = Reply(link, v.part)

(* From the removal of the sources on, the timer that keeps arming itself  *)
(* is neither running nor armed, whichever of its steps stop fell into     *)
(* (AirportRtlwm.cpp:120-126, 423).                                        *)
QuietAfterStop == life \in {"detached", "stopped"} => timer = "off" /\ ~inTimer

(* Until then it never rests: a driver that has a timer, started or given  *)
(* up by a start that could not attach its interface, finds it armed,      *)
(* waiting for the gate, or in its handler, whatever requests come in       *)
(* meanwhile (AirportRtlwm.cpp:113-114, 423).                              *)
TicksOn ==
    "timer" \in held /\ life \in {"started", "failed"} => timer # "off" \/ inTimer

(* The timer lives as long as nobody has removed it, and no longer.        *)
TimerAsLife == QuietAfterStop /\ TicksOn

(* A stop that has begun comes to its end, although the timer can take the *)
(* gate again and again.                                                   *)
StopFinishes == life = "stopping" ~> life = "stopped"
=============================================================================
