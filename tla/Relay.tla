-------------------------------- MODULE Relay --------------------------------
(***************************************************************************)
(* The owner-device relay: the shim the browser points at, the hub inside  *)
(* the server, the event streams to the owner's device, and the device's   *)
(* client with its sockets.                                                *)
(*                                                                         *)
(* Shim and hub are coroutines of one event loop: each action is the code  *)
(* from one await to the next.  The device reads one stream at a time in   *)
(* one thread; for each socket a pump thread posts what it reads, and a    *)
(* worker thread posts the answers to opens.  A tunnel is named by the     *)
(* request it serves: hub ids are unique while the process lives.          *)
(*                                                                         *)
(* The downstream queue has room (it holds 4096 messages).                 *)
(***************************************************************************)
EXTENDS Naturals, Sequences

CONSTANTS
  Requests,   \* connections of the browser to the shim
  Chunks,     \* chunks the origin sends on one of them (a bound)
  MaxStreams, \* how often the device connects (a bound)
  Fallback    \* BROWSER_PROXY is set or RELAY_ALLOW_DIRECT

ASSUME BoundAssumption == /\ Chunks \in Nat /\ MaxStreams \in Nat
                          /\ Fallback \in BOOLEAN

VARIABLES
  \* the shim and the tunnels
  req,      \* where the handler of a request is
  path,     \* what carries its tunnel
  opened,   \* Tunnel.opened, with open_error
  closed,   \* Tunnel.closed
  inbound,  \* Tunnel.inbound: chunk numbers, and Eof for None
  up,       \* _shuttle's c2t; "sent" once it has passed a message on
  down,     \* _shuttle's t2c
  browser,  \* the browser's end is open
  got,      \* the chunks the browser was given
  \* the hub
  pending,  \* _pending_open
  conns,    \* _conns
  streams,  \* the streams so far: is the generator live
  attached, \* the stream of _device_queue; 0 for None
  fresh,    \* the device posted, or connected, in the last 45 s
  queue,    \* the downstream queue of each stream
  \* the device
  dev,      \* the stream it reads; 0 for none
  sock,     \* its socket for a request
  pump,     \* the pump of that socket (or the hub's own, on a fallback path)
  reply,    \* the answer to an open in upstream_buf
  asked,    \* the browser's bytes have reached the origin
  sent      \* chunks read from the origin

tunnel == <<req, path, opened, closed, inbound, up, down, browser, got>>
hub    == <<pending, conns, streams, attached, fresh, queue>>
device == <<dev, sock, pump, reply, asked, sent>>
vars   == <<req, path, opened, closed, inbound, up, down, browser, got,
            pending, conns, streams, attached, fresh, queue,
            dev, sock, pump, reply, asked, sent>>

Eof == Chunks + 1

Streams == 1..MaxStreams
Message == [op : {"open", "data", "close"}, conn : Requests]

TypeOK ==
  /\ req \in [Requests -> {"idle", "waiting", "dialling", "open", "refused", "ended"}]
  /\ path \in [Requests -> {"none", "device", "fallback"}]
  /\ opened \in [Requests -> {"no", "yes", "error"}]
  /\ closed \in [Requests -> BOOLEAN]
  /\ inbound \in [Requests -> Seq(1..Eof)]
  /\ up \in [Requests -> {"off", "read", "sent", "done"}]
  /\ down \in [Requests -> {"off", "read", "done"}]
  /\ browser \in [Requests -> BOOLEAN]
  /\ got \in [Requests -> Seq(1..Chunks)]
  /\ pending \subseteq Requests /\ conns \subseteq Requests
  /\ streams \in [Streams -> {"none", "live", "ended"}]
  /\ attached \in 0..MaxStreams
  /\ fresh \in BOOLEAN
  /\ queue \in [Streams -> Seq(Message)]
  /\ dev \in 0..MaxStreams
  /\ sock \in [Requests -> {"none", "open", "shut"}]
  /\ pump \in [Requests -> {"off", "recv", "data", "closing", "over"}]
  /\ reply \in [Requests -> {"none", "opened", "error"}]
  /\ asked \in [Requests -> BOOLEAN]
  /\ sent \in [Requests -> 0..Chunks]

Init ==
  /\ req = [r \in Requests |-> "idle"] /\ path = [r \in Requests |-> "none"]
  /\ opened = [r \in Requests |-> "no"] /\ closed = [r \in Requests |-> FALSE]
  /\ inbound = [r \in Requests |-> <<>>]
  /\ up = [r \in Requests |-> "off"] /\ down = [r \in Requests |-> "off"]
  /\ browser = [r \in Requests |-> TRUE] /\ got = [r \in Requests |-> <<>>]
  /\ pending = {} /\ conns = {}
  /\ streams = [k \in Streams |-> "none"] /\ attached = 0 /\ fresh = FALSE
  /\ queue = [k \in Streams |-> <<>>]
  /\ dev = 0
  /\ sock = [r \in Requests |-> "none"] /\ pump = [r \in Requests |-> "off"]
  /\ reply = [r \in Requests |-> "none"]
  /\ asked = [r \in Requests |-> FALSE] /\ sent = [r \in Requests |-> 0]

-----------------------------------------------------------------------------
(* Tunnels *)

DeviceConnected == attached # 0 /\ fresh

\* The hub puts a message on the queue of the attached device.
ToDevice(op, r) == queue' = [queue EXCEPT ![attached] = Append(@, [op |-> op, conn |-> r])]

Set(f, r, v) == f' = [f EXCEPT ![r] = v]

\* Mutant of DeviceClosed: the sentinel is forgotten.
ClosedSilently(S) ==
  /\ closed' = [r \in Requests |-> closed[r] \/ r \in S]
  /\ UNCHANGED inbound

\* device_closed on the tunnels of S: closed, with the sentinel, unless already.
DeviceClosed(S) ==
  /\ closed' = [r \in Requests |-> closed[r] \/ r \in S]
  /\ inbound' = [r \in Requests |->
                   IF r \in S /\ ~closed[r] THEN Append(inbound[r], Eof) ELSE inbound[r]]

\* Tunnel.close: the device is told, if it can be.
CloseTunnel(r) ==
  /\ DeviceClosed({r})
  /\ IF ~closed[r] /\ DeviceConnected THEN ToDevice("close", r) ELSE UNCHANGED queue

-----------------------------------------------------------------------------
(* open_tunnel *)

NoPath == IF Fallback THEN "dialling" ELSE "refused"

\* A tracker host: refused at the door.
Blocked(r) ==
  /\ req[r] = "idle"
  /\ Set(req, r, "refused")
  /\ UNCHANGED <<path, opened, closed, inbound, up, down, browser, got>>
  /\ UNCHANGED hub /\ UNCHANGED device

OpenTunnel(r) ==
  /\ req[r] = "idle"
  /\ IF DeviceConnected
     THEN /\ Set(req, r, "waiting") /\ Set(path, r, "device")
          /\ pending' = pending \cup {r}
          /\ ToDevice("open", r)
     ELSE /\ Set(req, r, NoPath)
          /\ UNCHANGED <<path, pending, queue>>
  /\ UNCHANGED <<opened, closed, inbound, up, down, browser, got>>
  /\ UNCHANGED <<conns, streams, attached, fresh>> /\ UNCHANGED device

\* The shim answers 200 and starts both pumps.
Shuttles(r) == Set(req, r, "open") /\ Set(up, r, "read") /\ Set(down, r, "read")

DeviceOpened(r) ==
  /\ req[r] = "waiting" /\ opened[r] = "yes"
  /\ Shuttles(r)
  /\ UNCHANGED <<path, opened, closed, inbound, browser, got>>
  /\ UNCHANGED hub /\ UNCHANGED device

\* The device could not dial: on to the fallback, with a new tunnel.
DeviceRefused(r) ==
  /\ req[r] = "waiting" /\ opened[r] = "error"
  /\ Set(req, r, NoPath) /\ Set(path, r, "none")
  /\ UNCHANGED <<opened, closed, inbound, up, down, browser, got>>
  /\ UNCHANGED hub /\ UNCHANGED device

\* Mutants of OpenTimesOut: the request stays pending; the fallback is dialled though
\* the device may still open its socket.
TimesOutPending(r) ==
  /\ req[r] = "waiting"
  /\ Set(req, r, "refused") /\ Set(closed, r, TRUE)
  /\ UNCHANGED <<path, opened, inbound, up, down, browser, got>>
  /\ UNCHANGED hub /\ UNCHANGED device

TimesOutToFallback(r) ==
  /\ req[r] = "waiting"
  /\ Set(req, r, NoPath) /\ Set(path, r, "none")
  /\ pending' = pending \ {r}
  /\ UNCHANGED <<opened, closed, inbound, up, down, browser, got>>
  /\ UNCHANGED <<conns, streams, attached, fresh, queue>> /\ UNCHANGED device

\* Mutant of OpenTimesOut: only a late answer is timed out, no answer never is.
TimesOutLate(r) ==
  /\ req[r] = "waiting" /\ opened[r] # "no"
  /\ Set(req, r, "refused") /\ Set(closed, r, TRUE)
  /\ UNCHANGED <<path, opened, inbound, up, down, browser, got>>
  /\ UNCHANGED hub /\ UNCHANGED device

\* 20 s: the answer may have come, but not yet reached the waiting task.
OpenTimesOut(r) ==
  /\ req[r] = "waiting"
  /\ Set(req, r, "refused") /\ Set(closed, r, TRUE)
  /\ pending' = pending \ {r}
  /\ UNCHANGED <<path, opened, inbound, up, down, browser, got>>
  /\ UNCHANGED <<conns, streams, attached, fresh, queue>> /\ UNCHANGED device

\* The external proxy, then direct: one of them connects, or none.
Dialled(r) ==
  /\ req[r] = "dialling"
  /\ Shuttles(r) /\ Set(path, r, "fallback")
  /\ conns' = conns \cup {r}
  /\ Set(pump, r, "recv")
  /\ UNCHANGED <<opened, closed, inbound, browser, got>>
  /\ UNCHANGED <<pending, streams, attached, fresh, queue>>
  /\ UNCHANGED <<dev, sock, reply, asked, sent>>

DialFails(r) ==
  /\ req[r] = "dialling"
  /\ Set(req, r, "refused")
  /\ UNCHANGED <<path, opened, closed, inbound, up, down, browser, got>>
  /\ UNCHANGED hub /\ UNCHANGED device

-----------------------------------------------------------------------------
(* _shuttle *)

\* c2t ends: at the browser's end of stream, or by an exception of write.
UpEnds(r) ==
  /\ Set(up, r, "done") /\ CloseTunnel(r)
  /\ UNCHANGED <<req, path, opened, down, browser, got>>
  /\ UNCHANGED <<pending, conns, streams, attached, fresh>> /\ UNCHANGED device

\* The browser's bytes (its request; one message of them) go up.
BrowserSends(r) ==
  /\ up[r] = "read" /\ browser[r]
  /\ IF path[r] = "device" /\ (closed[r] \/ ~DeviceConnected)
     THEN UpEnds(r)
     ELSE /\ Set(up, r, "sent")
          /\ IF path[r] = "device"
             THEN ToDevice("data", r) /\ UNCHANGED asked
             ELSE Set(asked, r, TRUE) /\ UNCHANGED queue
          /\ UNCHANGED <<req, path, opened, closed, inbound, down, browser, got>>
          /\ UNCHANGED <<pending, conns, streams, attached, fresh>>
          /\ UNCHANGED <<dev, sock, pump, reply, sent>>

BrowserLeaves(r) ==
  /\ req[r] = "open" /\ browser[r]
  /\ Set(browser, r, FALSE)
  /\ UNCHANGED <<req, path, opened, closed, inbound, up, down, got>>
  /\ UNCHANGED hub /\ UNCHANGED device

\* The browser left, or t2c closed the writer.
UpSeesEnd(r) == up[r] \in {"read", "sent"} /\ ~browser[r] /\ UpEnds(r)

\* Mutant of GivesBrowser: the sentinel is not told from a chunk.
GivesSentinel(r) ==
  /\ down[r] = "read" /\ inbound[r] # <<>>
  /\ inbound' = [inbound EXCEPT ![r] = Tail(@)]
  /\ Set(got, r, Append(got[r], Head(inbound[r])))
  /\ UNCHANGED <<req, path, opened, closed, up, down, browser>>
  /\ UNCHANGED hub /\ UNCHANGED device

\* t2c reads on: a chunk goes to the browser; at the sentinel, or when writing to a
\* browser that has left raises, it ends and closes the writer.
GivesBrowser(r) ==
  /\ down[r] = "read" /\ inbound[r] # <<>>
  /\ inbound' = [inbound EXCEPT ![r] = Tail(@)]
  /\ \/ /\ Head(inbound[r]) # Eof
        /\ IF browser[r] THEN Set(got, r, Append(got[r], Head(inbound[r])))
                         ELSE UNCHANGED got
        /\ UNCHANGED <<down, browser>>
     \/ /\ Head(inbound[r]) = Eof \/ ~browser[r]
        /\ Set(down, r, "done") /\ Set(browser, r, FALSE)
        /\ UNCHANGED got
  /\ UNCHANGED <<req, path, opened, closed, up>>
  /\ UNCHANGED hub /\ UNCHANGED device

ShuttleEnds(r) ==
  /\ req[r] = "open" /\ up[r] = "done" /\ down[r] = "done"
  /\ Set(req, r, "ended")
  /\ UNCHANGED <<path, opened, closed, inbound, up, down, browser, got>>
  /\ UNCHANGED hub /\ UNCHANGED device

-----------------------------------------------------------------------------
(* The hub's own pump on a fallback path *)

FallbackReads(r) ==
  /\ path[r] = "fallback" /\ pump[r] = "recv" /\ ~closed[r]
  /\ asked[r] /\ sent[r] < Chunks
  /\ Set(sent, r, sent[r] + 1)
  /\ inbound' = [inbound EXCEPT ![r] = Append(@, sent[r] + 1)]
  /\ UNCHANGED <<req, path, opened, closed, up, down, browser, got>>
  /\ UNCHANGED hub /\ UNCHANGED <<dev, sock, pump, reply, asked>>

\* The origin ends its side, or says more to a tunnel that was closed (what it says is
\* behind the sentinel, where nobody reads).
FallbackEnds(r) ==
  /\ path[r] = "fallback" /\ pump[r] = "recv"
  /\ Set(pump, r, "over")
  /\ DeviceClosed({r})
  /\ conns' = conns \ {r}
  /\ UNCHANGED <<req, path, opened, up, down, browser, got>>
  /\ UNCHANGED <<pending, streams, attached, fresh, queue>>
  /\ UNCHANGED <<dev, sock, reply, asked, sent>>

-----------------------------------------------------------------------------
(* RelayHub.upstream: one message of the device *)

\* Mutant of HubOpened: the tunnel is not listed.
HubOpenedUnlisted(r) ==
  /\ IF r \in pending
     THEN pending' = pending \ {r} /\ Set(opened, r, "yes")
     ELSE UNCHANGED <<pending, opened>>
  /\ UNCHANGED conns

HubOpened(r) ==
  /\ IF r \in pending
     THEN pending' = pending \ {r} /\ conns' = conns \cup {r} /\ Set(opened, r, "yes")
     ELSE UNCHANGED <<pending, conns, opened>>

HubOpenError(r) ==
  /\ IF r \in pending
     THEN pending' = pending \ {r} /\ Set(opened, r, "error")
     ELSE UNCHANGED <<pending, opened>>
  /\ UNCHANGED conns

HubData(r) ==
  IF r \in conns /\ ~closed[r]
  THEN inbound' = [inbound EXCEPT ![r] = Append(@, sent[r])]
  ELSE UNCHANGED inbound

HubClosed(r) ==
  /\ DeviceClosed({r} \cap conns)
  /\ conns' = conns \ {r}

-----------------------------------------------------------------------------
(* The device *)

\* run_downstream connects: the stream route attaches a new queue.
Attach(k) ==
  /\ dev = 0 /\ \A r \in Requests : sock[r] # "open"
  /\ streams[k] = "none" /\ \A j \in Streams : j < k => streams[j] # "none"
  /\ streams' = [streams EXCEPT ![k] = "live"]
  /\ attached' = k /\ fresh' = TRUE /\ dev' = k
  /\ UNCHANGED tunnel /\ UNCHANGED <<pending, conns, queue>>
  /\ UNCHANGED <<sock, pump, reply, asked, sent>>

\* The device's end of its stream breaks; it backs off ...
DeviceDrops ==
  /\ dev # 0 /\ dev' = 0
  /\ UNCHANGED tunnel /\ UNCHANGED hub /\ UNCHANGED <<sock, pump, reply, asked, sent>>

\* ... and closes every socket before it connects again.
DeviceCloses ==
  /\ dev = 0 /\ \E r \in Requests : sock[r] = "open"
  /\ sock' = [r \in Requests |-> IF sock[r] = "open" THEN "shut" ELSE sock[r]]
  /\ UNCHANGED tunnel /\ UNCHANGED hub /\ UNCHANGED <<dev, pump, reply, asked, sent>>

\* Mutant of StreamEnds: any stream's end detaches the device.
StreamEndsAnyway(k) ==
  /\ streams[k] = "live"
  /\ streams' = [streams EXCEPT ![k] = "ended"]
  /\ queue' = [queue EXCEPT ![k] = <<>>]
  /\ attached' = 0 /\ conns' = {} /\ DeviceClosed(conns)
  /\ UNCHANGED <<req, path, opened, up, down, browser, got>>
  /\ UNCHANGED <<pending, fresh>> /\ UNCHANGED device

\* The generator of a stream ends, and detaches the device if it is still this one.
\* What is left in its queue is lost.
StreamEnds(k) ==
  /\ streams[k] = "live"
  /\ streams' = [streams EXCEPT ![k] = "ended"]
  /\ queue' = [queue EXCEPT ![k] = <<>>]
  /\ IF attached = k
     THEN attached' = 0 /\ conns' = {} /\ DeviceClosed(conns)
     ELSE UNCHANGED <<attached, conns, closed, inbound>>
  /\ UNCHANGED <<req, path, opened, up, down, browser, got>>
  /\ UNCHANGED <<pending, fresh>> /\ UNCHANGED device

\* 45 s without a post.
GoesStale ==
  /\ fresh /\ fresh' = FALSE
  /\ UNCHANGED tunnel /\ UNCHANGED device
  /\ UNCHANGED <<pending, conns, streams, attached, queue>>

\* _handle_event.  It dials before it answers; a socket's pump then starts.
DeviceDoes(m) ==
  CASE m.op = "open" ->
         \/ /\ Set(sock, m.conn, "open") /\ Set(reply, m.conn, "opened")
            /\ Set(pump, m.conn, "recv") /\ UNCHANGED asked
         \/ Set(reply, m.conn, "error") /\ UNCHANGED <<sock, pump, asked>>
    [] m.op = "data" ->
         /\ IF sock[m.conn] = "open" THEN Set(asked, m.conn, TRUE) ELSE UNCHANGED asked
         /\ UNCHANGED <<sock, pump, reply>>
    [] m.op = "close" ->
         /\ IF sock[m.conn] = "open" THEN Set(sock, m.conn, "shut") ELSE UNCHANGED sock
         /\ UNCHANGED <<pump, reply, asked>>

\* The next message of a stream: to the device if it still reads it, or lost.
StreamSends(k) ==
  /\ streams[k] = "live" /\ queue[k] # <<>>
  /\ queue' = [queue EXCEPT ![k] = Tail(@)]
  /\ IF dev = k THEN DeviceDoes(Head(queue[k])) ELSE UNCHANGED <<sock, pump, reply, asked>>
  /\ UNCHANGED tunnel /\ UNCHANGED <<pending, conns, streams, attached, fresh>>
  /\ UNCHANGED <<dev, sent>>

\* upstream_worker: at least once.  A post whose answer is lost is made again.
WorkerPosts(r) ==
  /\ reply[r] # "none"
  /\ IF reply[r] = "opened" THEN HubOpened(r) ELSE HubOpenError(r)
  /\ fresh' = TRUE
  /\ \/ Set(reply, r, "none")
     \/ UNCHANGED reply
  /\ UNCHANGED <<req, path, closed, inbound, up, down, browser, got>>
  /\ UNCHANGED <<streams, attached, queue>> /\ UNCHANGED <<dev, sock, pump, asked, sent>>

\* recv returns a chunk; one that was waiting when the socket was closed still does.
PumpReads(r) ==
  /\ path[r] # "fallback" /\ pump[r] = "recv" /\ asked[r] /\ sent[r] < Chunks
  /\ Set(sent, r, sent[r] + 1) /\ Set(pump, r, "data")
  /\ UNCHANGED tunnel /\ UNCHANGED hub /\ UNCHANGED <<dev, sock, reply, asked>>

\* recv returns the end of the stream, or raises.
PumpSeesEnd(r) ==
  /\ path[r] # "fallback" /\ pump[r] = "recv"
  /\ Set(pump, r, "closing")
  /\ UNCHANGED tunnel /\ UNCHANGED hub /\ UNCHANGED <<dev, sock, reply, asked, sent>>

\* Mutant of PumpPostsData: a chunk is posted until the post is acknowledged.
PumpRetries(r) ==
  /\ pump[r] = "data"
  /\ HubData(r) /\ fresh' = TRUE
  /\ \E p \in {"data", "recv"} : Set(pump, r, p)
  /\ UNCHANGED <<req, path, opened, closed, up, down, browser, got>>
  /\ UNCHANGED <<pending, conns, streams, attached, queue>>
  /\ UNCHANGED <<dev, sock, reply, asked, sent>>

\* The post of a chunk: it arrives, or is lost without a retry.
PumpPostsData(r) ==
  /\ pump[r] = "data"
  /\ Set(pump, r, IF sock[r] = "open" THEN "recv" ELSE "over")
  /\ \/ HubData(r) /\ fresh' = TRUE
     \/ UNCHANGED <<inbound, fresh>>
  /\ UNCHANGED <<req, path, opened, closed, up, down, browser, got>>
  /\ UNCHANGED <<pending, conns, streams, attached, queue>>
  /\ UNCHANGED <<dev, sock, reply, asked, sent>>

PumpPostsClosed(r) ==
  /\ pump[r] = "closing"
  /\ Set(pump, r, "over") /\ Set(sock, r, "shut")
  /\ \/ HubClosed(r) /\ fresh' = TRUE
     \/ UNCHANGED <<conns, closed, inbound, fresh>>
  /\ UNCHANGED <<req, path, opened, up, down, browser, got>>
  /\ UNCHANGED <<pending, streams, attached, queue>>
  /\ UNCHANGED <<dev, reply, asked, sent>>

-----------------------------------------------------------------------------
ShimStep(r) ==
  \/ Blocked(r) \/ OpenTunnel(r) \/ DeviceOpened(r) \/ DeviceRefused(r)
  \/ OpenTimesOut(r) \/ Dialled(r) \/ DialFails(r)
  \/ BrowserSends(r) \/ BrowserLeaves(r) \/ UpSeesEnd(r) \/ GivesBrowser(r)
  \/ ShuttleEnds(r) \/ FallbackReads(r) \/ FallbackEnds(r)

DeviceStep(r) ==
  WorkerPosts(r) \/ PumpReads(r) \/ PumpSeesEnd(r) \/ PumpPostsData(r) \/ PumpPostsClosed(r)

StreamStep == GoesStale \/ DeviceDrops \/ DeviceCloses
              \/ \E k \in Streams : Attach(k) \/ StreamEnds(k) \/ StreamSends(k)

Next == StreamStep \/ \E r \in Requests : ShimStep(r) \/ DeviceStep(r)

Spec == Init /\ [][Next]_vars

\* The event loop runs what is ready, and the timer of an open fires.  The device, the
\* browser and the origin may be silent for ever.
FairSpec ==
  /\ Spec
  /\ \A r \in Requests :
       WF_vars(DeviceOpened(r) \/ DeviceRefused(r) \/ OpenTimesOut(r)
               \/ Dialled(r) \/ DialFails(r)
               \/ UpSeesEnd(r) \/ GivesBrowser(r) \/ ShuttleEnds(r))

-----------------------------------------------------------------------------
(* Properties *)

\* The shim serves the browser as TunnelService says, whatever is lost, repeated or
\* late between hub and device: the browser's view of open_tunnel and _shuttle.
Stage(r) ==
  CASE req[r] \in {"waiting", "dialling"} -> "connecting"
    [] req[r] = "open"  -> "streaming"
    [] req[r] = "ended" -> "over"
    [] OTHER -> req[r]

Exit(r) == IF req[r] \in {"open", "ended"} THEN path[r] ELSE "none"

Service == INSTANCE TunnelService WITH
  stage <- [r \in Requests |-> Stage(r)],
  exit  <- [r \in Requests |-> Exit(r)]

ServiceKept == Service!Spec

\* _pending_open holds the requests that wait for an answer and no others, although
\* answers are repeated and come after the timeout.
PendingIsAwaited == pending = {r \in Requests : req[r] = "waiting" /\ opened[r] = "no"}

\* A tunnel in use that is not closed is in _conns, where the device's messages and a
\* detach find it.
LiveIsListed ==
  \A r \in Requests :
    ~closed[r] /\ (req[r] = "open" \/ opened[r] = "yes") => r \in conns

\* A request served by the fallback has no socket on the device as well: open_tunnel
\* gives up at a timeout and falls back only on a refusal.
OneEgress == \A r \in Requests : path[r] = "fallback" => sock[r] = "none"

\* The late end of a stream the device has already replaced disturbs no tunnel.
OldStreamHarmless ==
  [][\A k \in Streams : streams[k] = "live" /\ streams'[k] = "ended" /\ k # attached
       => UNCHANGED <<closed, attached, conns>>]_vars

\* A request that waits for the device, or dials, is answered.
OpenIsAnswered ==
  \A r \in Requests :
    req[r] \in {"waiting", "dialling"} ~> req[r] \in {"open", "refused"}

\* Once the tunnel is closed, at whichever end, the browser's connection ends too.
CloseReachesBrowser ==
  \A r \in Requests : closed[r] /\ req[r] = "open" ~> req[r] = "ended"
=============================================================================
