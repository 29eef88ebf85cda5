----------------------------- MODULE Relay_proofs -----------------------------
(***************************************************************************)
(* Theorems about Relay, for every set of requests and every bound.  The   *)
(* inductive invariant IInv has three parts of its own: where a request is *)
(* (Stages), what the device has been asked and holds (DueOnce, NoSocket,  *)
(* PumpHasSocket), and the order of the chunks on their way to the browser *)
(* (InOrder).  The last theorem is that Relay implements TunnelService.    *)
(***************************************************************************)
EXTENDS Relay, SequenceTheorems, TLAPS

\* A chunk to be posted has been read.
ChunkInHand == \A r \in Requests : pump[r] = "data" => sent[r] # 0

\* How far a request has come, its tunnel and its pump belong together.
Stages ==
  \A r \in Requests :
    /\ req[r] = "idle" => path[r] = "none" /\ opened[r] = "no"
    /\ req[r] = "waiting" => path[r] = "device"
    /\ req[r] = "open" => path[r] \in {"device", "fallback"}
    /\ down[r] = "read" => req[r] = "open"

\* The opens for a request that are on their way to the device.
IsOpen(m, r)  == m.op = "open" /\ m.conn = r
Opens(s, r)   == \E i \in 1..Len(s) : IsOpen(s[i], r)
Once(s, r)    == \A i, j \in 1..Len(s) : IsOpen(s[i], r) /\ IsOpen(s[j], r) => i = j
Due(r)        == \E k \in Streams : Opens(queue[k], r)

\* The device is asked once for a request, and before it knows anything of it.
DueOnce ==
  \A r \in Requests :
    /\ \A k \in Streams : Once(queue[k], r)
    /\ \A k, l \in Streams : Opens(queue[k], r) /\ Opens(queue[l], r) => k = l
    /\ Due(r) => sock[r] = "none" /\ reply[r] = "none" /\ opened[r] = "no"

\* Where the device holds no socket for a request.
NoSocket ==
  \A r \in Requests :
    /\ req[r] = "idle" => sock[r] = "none" /\ reply[r] = "none" /\ ~Due(r)
    /\ req[r] = "dialling" \/ path[r] = "fallback" => sock[r] = "none" /\ ~Due(r)
    /\ reply[r] = "error" \/ opened[r] = "error" => sock[r] = "none"

\* A pump of the device reads a socket it has opened.
PumpHasSocket ==
  \A r \in Requests :
    /\ pump[r] \in {"data", "closing"} => sock[r] # "none"
    /\ pump[r] = "recv" /\ path[r] # "fallback" => sock[r] # "none"

\* The number of the next chunk that may be put on a tunnel.
NextChunk(r)  == IF pump[r] = "data" THEN sent[r] ELSE sent[r] + 1
Below(s, n)   == \A i \in 1..Len(s) : s[i] < n
Increasing(s) == \A i, j \in 1..Len(s) : i < j => s[i] < s[j]

\* What waits for the browser is in order, behind what it has and before what is to
\* come.
InOrder ==
  \A r \in Requests :
    /\ Increasing(inbound[r])
    /\ \A i \in 1..Len(inbound[r]) : Below(got[r], inbound[r][i])
    /\ ~closed[r] => Below(inbound[r], NextChunk(r)) /\ Below(got[r], NextChunk(r))

IInv ==
  /\ TypeOK
  /\ ChunkInHand
  /\ Stages
  /\ PendingIsAwaited
  /\ LiveIsListed
  /\ DueOnce
  /\ NoSocket
  /\ PumpHasSocket
  /\ InOrder

-----------------------------------------------------------------------------
(* Types *)

\* Putting a message on the device's queue keeps the queues' type.
LEMMA ToDeviceType ==
  ASSUME TypeOK, NEW r \in Requests, NEW op \in {"open", "data", "close"},
         attached # 0, ToDevice(op, r)
  PROVE  queue' \in [Streams -> Seq(Message)]
<1>1. [op |-> op, conn |-> r] \in Message
  BY DEF Message
<1>2. attached \in Streams
  BY BoundAssumption DEF TypeOK, Streams
<1>3. Append(queue[attached], [op |-> op, conn |-> r]) \in Seq(Message)
  BY <1>1, <1>2 DEF TypeOK
<1> QED
  BY <1>3 DEF ToDevice, TypeOK

\* Closing tunnels keeps the type of what it writes.
LEMMA DeviceClosedType ==
  ASSUME TypeOK, NEW S \in SUBSET Requests, DeviceClosed(S)
  PROVE  closed' \in [Requests -> BOOLEAN] /\ inbound' \in [Requests -> Seq(1..Eof)]
<1>1. Eof \in 1..Eof
  BY BoundAssumption DEF Eof
<1>2. \A r \in Requests : Append(inbound[r], Eof) \in Seq(1..Eof)
  BY <1>1 DEF TypeOK
<1> QED
  BY <1>2 DEF DeviceClosed, TypeOK

LEMMA CloseTunnelType ==
  ASSUME TypeOK, NEW r \in Requests, CloseTunnel(r)
  PROVE  /\ closed' \in [Requests -> BOOLEAN] /\ inbound' \in [Requests -> Seq(1..Eof)]
         /\ queue' \in [Streams -> Seq(Message)]
<1>1. closed' \in [Requests -> BOOLEAN] /\ inbound' \in [Requests -> Seq(1..Eof)]
  BY DeviceClosedType DEF CloseTunnel
<1>2. queue' \in [Streams -> Seq(Message)]
  <2>1. CASE ~closed[r] /\ DeviceConnected
    BY <2>1, ToDeviceType DEF CloseTunnel, DeviceConnected
  <2>2. CASE ~(~closed[r] /\ DeviceConnected)
    BY <2>2 DEF CloseTunnel, TypeOK
  <2> QED BY <2>1, <2>2
<1> QED BY <1>1, <1>2

\* The device's message m: an open that succeeds or fails, data, or a close.
LEMMA DeviceDoesCases ==
  ASSUME NEW m \in Message, DeviceDoes(m)
  PROVE  \/ /\ m.op = "open" /\ Set(sock, m.conn, "open") /\ Set(reply, m.conn, "opened")
            /\ Set(pump, m.conn, "recv") /\ UNCHANGED asked
         \/ m.op = "open" /\ Set(reply, m.conn, "error") /\ UNCHANGED <<sock, pump, asked>>
         \/ /\ m.op = "data" /\ UNCHANGED <<sock, pump, reply>>
            /\ Set(asked, m.conn, TRUE) \/ UNCHANGED asked
         \/ /\ m.op = "close" /\ UNCHANGED <<pump, reply, asked>>
            /\ (sock[m.conn] = "open" /\ Set(sock, m.conn, "shut")) \/ UNCHANGED sock
<1>1. CASE m.op = "open"
  BY <1>1 DEF DeviceDoes
<1>2. CASE m.op = "data"
  BY <1>2 DEF DeviceDoes
<1>3. CASE m.op = "close"
  BY <1>3 DEF DeviceDoes
<1> QED BY <1>1, <1>2, <1>3 DEF Message

LEMMA DeviceDoesType ==
  ASSUME TypeOK, NEW m \in Message, DeviceDoes(m)
  PROVE  /\ sock' \in [Requests -> {"none", "open", "shut"}]
         /\ pump' \in [Requests -> {"off", "recv", "data", "closing", "over"}]
         /\ reply' \in [Requests -> {"none", "opened", "error"}]
         /\ asked' \in [Requests -> BOOLEAN]
<1>1. CASE Set(sock, m.conn, "open") /\ Set(reply, m.conn, "opened")
           /\ Set(pump, m.conn, "recv") /\ UNCHANGED asked
  BY <1>1 DEF Set, TypeOK
<1>2. CASE Set(reply, m.conn, "error") /\ UNCHANGED <<sock, pump, asked>>
  BY <1>2 DEF Set, TypeOK
<1>3. CASE UNCHANGED <<sock, pump, reply>> /\ (Set(asked, m.conn, TRUE) \/ UNCHANGED asked)
  <2>1. asked' = [asked EXCEPT ![m.conn] = TRUE] \/ asked' = asked
    BY <1>3 DEF Set
  <2>2. asked \in [Requests -> BOOLEAN]
    BY DEF TypeOK
  <2>3. asked' \in [Requests -> BOOLEAN]
    BY <2>1, <2>2
  <2> QED BY <1>3, <2>3 DEF TypeOK
<1>4. CASE UNCHANGED <<pump, reply, asked>> /\ (Set(sock, m.conn, "shut") \/ UNCHANGED sock)
  BY <1>4 DEF Set, TypeOK
<1> QED BY DeviceDoesCases, <1>1, <1>2, <1>3, <1>4

LEMMA TypeStep == TypeOK /\ ChunkInHand /\ [Next]_vars => TypeOK'
<1> SUFFICES ASSUME TypeOK, ChunkInHand, [Next]_vars PROVE TypeOK'
  OBVIOUS
<1> USE BoundAssumption DEF Set, tunnel, hub, device
<1>1. CASE UNCHANGED vars
  BY <1>1 DEF TypeOK, vars
<1>2. CASE StreamStep
  <2>1. CASE GoesStale
    BY <2>1 DEF GoesStale, TypeOK
  <2>2. CASE DeviceDrops
    BY <2>2 DEF DeviceDrops, TypeOK
  <2>3. CASE DeviceCloses
    BY <2>3 DEF DeviceCloses, TypeOK
  <2>4. ASSUME NEW k \in Streams, Attach(k) PROVE TypeOK'
    BY <2>4 DEF Attach, TypeOK, Streams
  <2>5. ASSUME NEW k \in Streams, StreamEnds(k) PROVE TypeOK'
    <3>1. closed' \in [Requests -> BOOLEAN] /\ inbound' \in [Requests -> Seq(1..Eof)]
      BY <2>5, DeviceClosedType DEF StreamEnds, TypeOK
    <3>2. streams' \in [Streams -> {"none", "live", "ended"}]
      <4>1. streams' = [streams EXCEPT ![k] = "ended"]
        BY <2>5 DEF StreamEnds
      <4>2. streams \in [Streams -> {"none", "live", "ended"}]
        BY DEF TypeOK
      <4> QED BY <4>1, <4>2
    <3>3. queue' \in [Streams -> Seq(Message)]
      <4>1. queue' = [queue EXCEPT ![k] = <<>>]
        BY <2>5 DEF StreamEnds
      <4>2. queue \in [Streams -> Seq(Message)]
        BY DEF TypeOK
      <4> QED BY <4>1, <4>2
    <3>4. attached' \in 0..MaxStreams /\ conns' \subseteq Requests
      <4>1. attached' \in {0, attached} /\ conns' \in {{}, conns}
        BY <2>5 DEF StreamEnds
      <4>2. attached \in 0..MaxStreams /\ conns \subseteq Requests
        BY DEF TypeOK
      <4> QED BY <4>1, <4>2
    <3> QED BY <2>5, <3>1, <3>2, <3>3, <3>4 DEF StreamEnds, TypeOK
  <2>6. ASSUME NEW k \in Streams, StreamSends(k) PROVE TypeOK'
    <3>1. Head(queue[k]) \in Message /\ Tail(queue[k]) \in Seq(Message)
      BY <2>6 DEF StreamSends, TypeOK
    <3>2. UNCHANGED <<sock, pump, reply, asked>> \/ DeviceDoes(Head(queue[k]))
      BY <2>6 DEF StreamSends
    <3>3. /\ sock' \in [Requests -> {"none", "open", "shut"}]
          /\ pump' \in [Requests -> {"off", "recv", "data", "closing", "over"}]
          /\ reply' \in [Requests -> {"none", "opened", "error"}]
          /\ asked' \in [Requests -> BOOLEAN]
      BY <3>1, <3>2, DeviceDoesType DEF TypeOK
    <3> QED BY <2>6, <3>1, <3>3 DEF StreamSends, TypeOK
  <2> QED BY <1>2, <2>1, <2>2, <2>3, <2>4, <2>5, <2>6 DEF StreamStep
<1>3. ASSUME NEW r \in Requests, ShimStep(r) \/ DeviceStep(r) PROVE TypeOK'
  <2>1. CASE Blocked(r)
    BY <2>1 DEF Blocked, TypeOK
  <2>2. CASE OpenTimesOut(r)
    BY <2>2 DEF OpenTimesOut, TypeOK
  <2>3. CASE DeviceOpened(r)
    BY <2>3 DEF DeviceOpened, TypeOK, Shuttles
  <2>4. CASE DeviceRefused(r)
    BY <2>4 DEF DeviceRefused, TypeOK, NoPath
  <2>5. CASE Dialled(r)
    BY <2>5 DEF Dialled, TypeOK, Shuttles
  <2>6. CASE DialFails(r)
    BY <2>6 DEF DialFails, TypeOK
  <2>7. CASE BrowserLeaves(r)
    BY <2>7 DEF BrowserLeaves, TypeOK
  <2>8. CASE GivesBrowser(r)
    <3>1. Head(inbound[r]) \in 1..Eof /\ Tail(inbound[r]) \in Seq(1..Eof)
      <4>1. inbound[r] \in Seq(1..Eof) /\ inbound[r] # <<>>
        BY <2>8 DEF GivesBrowser, TypeOK
      <4> QED BY <4>1, HeadTailProperties
    <3>2. ASSUME Head(inbound[r]) # Eof PROVE Append(got[r], Head(inbound[r])) \in Seq(1..Chunks)
      BY <3>1, <3>2 DEF TypeOK, Eof
    <3>3. got' \in [Requests -> Seq(1..Chunks)]
      <4>1. \/ Head(inbound[r]) # Eof /\ got' = [got EXCEPT ![r] = Append(@, Head(inbound[r]))]
            \/ got' = got
        BY <2>8 DEF GivesBrowser
      <4>2. got \in [Requests -> Seq(1..Chunks)]
        BY DEF TypeOK
      <4> QED BY <3>2, <4>1, <4>2
    <3>4. inbound' \in [Requests -> Seq(1..Eof)]
      BY <2>8, <3>1 DEF GivesBrowser, TypeOK
    <3>5. down' \in [Requests -> {"off", "read", "done"}]
      <4>1. down' = [down EXCEPT ![r] = "done"] \/ down' = down
        BY <2>8 DEF GivesBrowser
      <4>2. down \in [Requests -> {"off", "read", "done"}]
        BY DEF TypeOK
      <4> QED BY <4>1, <4>2
    <3>6. browser' \in [Requests -> BOOLEAN]
      <4>1. browser' = [browser EXCEPT ![r] = FALSE] \/ browser' = browser
        BY <2>8 DEF GivesBrowser
      <4>2. browser \in [Requests -> BOOLEAN]
        BY DEF TypeOK
      <4> QED BY <4>1, <4>2
    <3> QED BY <2>8, <3>3, <3>4, <3>5, <3>6 DEF GivesBrowser, TypeOK
  <2>9. CASE ShuttleEnds(r)
    BY <2>9 DEF ShuttleEnds, TypeOK
  <2>10. CASE FallbackReads(r)
    <3>1. sent[r] + 1 \in 1..Chunks /\ sent[r] + 1 \in 1..Eof
      BY <2>10 DEF FallbackReads, TypeOK, Eof
    <3>2. Append(inbound[r], sent[r] + 1) \in Seq(1..Eof)
      BY <3>1 DEF TypeOK
    <3> QED BY <2>10, <3>1, <3>2 DEF FallbackReads, TypeOK
  <2>11. CASE WorkerPosts(r)
    <3>0. HubOpened(r) \/ HubOpenError(r)
      BY <2>11 DEF WorkerPosts
    <3>1. opened' \in [Requests -> {"no", "yes", "error"}]
      <4>1. \/ opened' = [opened EXCEPT ![r] = "yes"] \/ opened' = [opened EXCEPT ![r] = "error"]
            \/ opened' = opened
        BY <3>0 DEF HubOpened, HubOpenError
      <4>2. opened \in [Requests -> {"no", "yes", "error"}]
        BY DEF TypeOK
      <4> QED BY <4>1, <4>2
    <3>2. pending' \subseteq Requests
      BY <3>0 DEF HubOpened, HubOpenError, TypeOK
    <3>3. conns' \subseteq Requests
      BY <3>0 DEF HubOpened, HubOpenError, TypeOK
    <3>4. reply' \in [Requests -> {"none", "opened", "error"}]
      <4>1. reply' = [reply EXCEPT ![r] = "none"] \/ reply' = reply
        BY <2>11 DEF WorkerPosts
      <4>2. reply \in [Requests -> {"none", "opened", "error"}]
        BY DEF TypeOK
      <4> QED BY <4>1, <4>2
    <3> QED BY <2>11, <3>1, <3>2, <3>3, <3>4 DEF WorkerPosts, TypeOK
  <2>12. CASE PumpReads(r)
    BY <2>12 DEF PumpReads, TypeOK
  <2>13. CASE PumpSeesEnd(r)
    BY <2>13 DEF PumpSeesEnd, TypeOK
  <2>14. CASE PumpPostsData(r)
    <3>1. inbound' \in [Requests -> Seq(1..Eof)]
      <4>1. sent[r] \in 1..Eof
        BY <2>14 DEF PumpPostsData, ChunkInHand, TypeOK, Eof
      <4>2. Append(inbound[r], sent[r]) \in Seq(1..Eof)
        BY <4>1 DEF TypeOK
      <4>3. CASE HubData(r)
        <5>1. inbound' = [inbound EXCEPT ![r] = Append(@, sent[r])] \/ inbound' = inbound
          BY <4>3 DEF HubData
        <5>2. inbound \in [Requests -> Seq(1..Eof)]
          BY DEF TypeOK
        <5> QED BY <4>2, <5>1, <5>2
      <4> QED BY <2>14, <4>3 DEF PumpPostsData, TypeOK
    <3> QED BY <2>14, <3>1 DEF PumpPostsData, TypeOK
  <2>15. CASE OpenTunnel(r)
    <3>1. queue' \in [Streams -> Seq(Message)]
      BY <2>15, ToDeviceType DEF OpenTunnel, DeviceConnected, TypeOK
    <3>2. req' \in [Requests -> {"idle", "waiting", "dialling", "open", "refused", "ended"}]
      <4>1. \E v \in {"waiting", "dialling", "refused"} : req' = [req EXCEPT ![r] = v]
        BY <2>15 DEF OpenTunnel, NoPath
      <4>2. req \in [Requests -> {"idle", "waiting", "dialling", "open", "refused", "ended"}]
        BY DEF TypeOK
      <4> QED BY <4>1, <4>2
    <3>3. path' \in [Requests -> {"none", "device", "fallback"}]
      <4>1. path' = [path EXCEPT ![r] = "device"] \/ path' = path
        BY <2>15 DEF OpenTunnel
      <4>2. path \in [Requests -> {"none", "device", "fallback"}]
        BY DEF TypeOK
      <4> QED BY <4>1, <4>2
    <3>4. pending' \subseteq Requests
      <4>1. pending' = pending \cup {r} \/ pending' = pending
        BY <2>15 DEF OpenTunnel
      <4>2. pending \subseteq Requests
        BY DEF TypeOK
      <4> QED BY <4>1, <4>2
    <3> QED BY <2>15, <3>1, <3>2, <3>3, <3>4 DEF OpenTunnel, TypeOK
  <2>16. ASSUME UpEnds(r) PROVE TypeOK'
    BY <2>16, CloseTunnelType DEF UpEnds, TypeOK
  <2>17. CASE BrowserSends(r)
    <3>1. CASE path[r] = "device" /\ (closed[r] \/ ~DeviceConnected)
      BY <2>17, <3>1, <2>16 DEF BrowserSends
    <3>2. CASE ~(path[r] = "device" /\ (closed[r] \/ ~DeviceConnected))
      <4>1. queue' \in [Streams -> Seq(Message)]
        <5>1. CASE path[r] = "device"
          BY <2>17, <3>2, <5>1, ToDeviceType DEF BrowserSends, DeviceConnected
        <5>2. CASE path[r] # "device"
          BY <2>17, <3>2, <5>2 DEF BrowserSends, TypeOK
        <5> QED BY <5>1, <5>2
      <4>2. up' \in [Requests -> {"off", "read", "sent", "done"}]
        <5>1. up' = [up EXCEPT ![r] = "sent"]
          BY <2>17, <3>2 DEF BrowserSends
        <5>2. up \in [Requests -> {"off", "read", "sent", "done"}]
          BY DEF TypeOK
        <5> QED BY <5>1, <5>2
      <4>3. asked' \in [Requests -> BOOLEAN]
        <5>1. asked' = [asked EXCEPT ![r] = TRUE] \/ asked' = asked
          BY <2>17, <3>2 DEF BrowserSends
        <5>2. asked \in [Requests -> BOOLEAN]
          BY DEF TypeOK
        <5> QED BY <5>1, <5>2
      <4> QED BY <2>17, <3>2, <4>1, <4>2, <4>3 DEF BrowserSends, TypeOK
    <3> QED BY <3>1, <3>2
  <2>18. CASE UpSeesEnd(r)
    BY <2>18, <2>16 DEF UpSeesEnd
  <2>19. CASE FallbackEnds(r)
    <3>1. closed' \in [Requests -> BOOLEAN] /\ inbound' \in [Requests -> Seq(1..Eof)]
      BY <2>19, DeviceClosedType DEF FallbackEnds
    <3> QED BY <2>19, <3>1 DEF FallbackEnds, TypeOK
  <2>20. CASE PumpPostsClosed(r)
    <3>1. closed' \in [Requests -> BOOLEAN] /\ inbound' \in [Requests -> Seq(1..Eof)]
      BY <2>20, DeviceClosedType DEF PumpPostsClosed, HubClosed, TypeOK
    <3> QED BY <2>20, <3>1 DEF PumpPostsClosed, HubClosed, TypeOK
  <2> QED BY <1>3, <2>1, <2>2, <2>3, <2>4, <2>5, <2>6, <2>7, <2>8, <2>9, <2>10, <2>11, <2>12, <2>13, <2>14, <2>15, <2>17, <2>18, <2>19, <2>20 DEF ShimStep, DeviceStep
<1> QED BY <1>1, <1>2, <1>3 DEF Next

-----------------------------------------------------------------------------
(* Requests *)

LEMMA ChunkStep == TypeOK /\ ChunkInHand /\ [Next]_vars => ChunkInHand'
<1> SUFFICES ASSUME TypeOK, ChunkInHand, [Next]_vars PROVE ChunkInHand'
  OBVIOUS
<1> USE DEF Set, tunnel, hub, device
<1>t. /\ sent \in [Requests -> 0..Chunks]
      /\ pump \in [Requests -> {"off", "recv", "data", "closing", "over"}]
      /\ queue \in [Streams -> Seq(Message)]
  BY DEF TypeOK
<1>1. CASE UNCHANGED <<pump, sent>>
  BY <1>1 DEF ChunkInHand
<1>2. ASSUME NEW r \in Requests,
             Dialled(r) \/ FallbackEnds(r) \/ PumpSeesEnd(r) \/ PumpPostsData(r)
               \/ PumpPostsClosed(r)
      PROVE  ChunkInHand'
  <2>1. sent' = sent /\ \E v \in {"recv", "over", "closing"} : pump' = [pump EXCEPT ![r] = v]
    BY <1>2 DEF Dialled, FallbackEnds, PumpSeesEnd, PumpPostsData, PumpPostsClosed
  <2> QED BY <1>t, <2>1 DEF ChunkInHand
<1>3. ASSUME NEW r \in Requests, FallbackReads(r) \/ PumpReads(r) PROVE ChunkInHand'
  <2>1. /\ sent' = [sent EXCEPT ![r] = @ + 1]
        /\ pump' = pump \/ pump' = [pump EXCEPT ![r] = "data"]
    BY <1>3 DEF FallbackReads, PumpReads
  <2> QED BY <1>t, <2>1 DEF ChunkInHand
<1>4. ASSUME NEW k \in Streams, StreamSends(k) PROVE ChunkInHand'
  <2>1. CASE dev = k
    <3>1. Head(queue[k]) \in Message
      BY <1>4, <1>t, HeadTailProperties DEF StreamSends
    <3>2. \E r \in Requests : pump' = [pump EXCEPT ![r] = "recv"] \/ pump' = pump
      BY <1>4, <2>1, <3>1, DeviceDoesCases DEF StreamSends, Message
    <3> QED BY <1>4, <1>t, <3>2 DEF ChunkInHand, StreamSends
  <2>2. CASE dev # k
    BY <1>4, <2>2, <1>1 DEF StreamSends
  <2> QED BY <2>1, <2>2
<1>5. ASSUME NEW r \in Requests,
             Blocked(r) \/ OpenTunnel(r) \/ DeviceOpened(r) \/ DeviceRefused(r)
               \/ OpenTimesOut(r) \/ DialFails(r) \/ BrowserSends(r) \/ BrowserLeaves(r)
               \/ UpSeesEnd(r) \/ GivesBrowser(r) \/ ShuttleEnds(r) \/ WorkerPosts(r)
      PROVE  UNCHANGED <<pump, sent>>
  BY <1>5 DEF Blocked, OpenTunnel, DeviceOpened, DeviceRefused, OpenTimesOut, DialFails,
              BrowserSends, UpEnds, BrowserLeaves, UpSeesEnd, GivesBrowser, ShuttleEnds,
              WorkerPosts
<1>6. ASSUME \/ GoesStale \/ DeviceDrops \/ DeviceCloses \/ UNCHANGED vars
             \/ \E k \in Streams : Attach(k) \/ StreamEnds(k)
      PROVE  UNCHANGED <<pump, sent>>
  BY <1>6 DEF GoesStale, DeviceDrops, DeviceCloses, Attach, StreamEnds, vars
<1> QED
  BY <1>1, <1>2, <1>3, <1>4, <1>5, <1>6
  DEF Next, StreamStep, ShimStep, DeviceStep

LEMMA RequestStep ==
  TypeOK /\ Stages /\ PendingIsAwaited /\ [Next]_vars => Stages' /\ PendingIsAwaited'
<1> SUFFICES ASSUME TypeOK, Stages, PendingIsAwaited, [Next]_vars
             PROVE  Stages' /\ PendingIsAwaited'
  OBVIOUS
<1> USE DEF Set, tunnel, hub, device
<1>t. /\ req \in [Requests -> {"idle", "waiting", "dialling", "open", "refused", "ended"}]
      /\ path \in [Requests -> {"none", "device", "fallback"}]
      /\ opened \in [Requests -> {"no", "yes", "error"}]
      /\ down \in [Requests -> {"off", "read", "done"}]
  BY DEF TypeOK
<1>1. CASE UNCHANGED <<req, path, opened, down, pending>>
  BY <1>1 DEF Stages, PendingIsAwaited
<1>2. ASSUME NEW r \in Requests, Blocked(r) \/ DialFails(r) PROVE Stages' /\ PendingIsAwaited'
  <2>1. /\ req' = [req EXCEPT ![r] = "refused"] /\ req[r] \in {"idle", "dialling"}
        /\ UNCHANGED <<path, opened, down, pending>>
    BY <1>2 DEF Blocked, DialFails
  <2> QED BY <1>t, <2>1 DEF Stages, PendingIsAwaited
<1>3. ASSUME NEW r \in Requests, OpenTunnel(r) PROVE Stages' /\ PendingIsAwaited'
  <2>1. CASE DeviceConnected
    BY <1>3, <1>t, <2>1 DEF OpenTunnel, Stages, PendingIsAwaited
  <2>2. CASE ~DeviceConnected
    <3>1. /\ \E v \in {"dialling", "refused"} : req' = [req EXCEPT ![r] = v]
          /\ req[r] = "idle" /\ UNCHANGED <<path, opened, down, pending>>
      BY <1>3, <2>2 DEF OpenTunnel, NoPath
    <3> QED BY <1>t, <3>1 DEF Stages, PendingIsAwaited
  <2> QED BY <2>1, <2>2
<1>4. ASSUME NEW r \in Requests, DeviceOpened(r) PROVE Stages' /\ PendingIsAwaited'
  BY <1>4, <1>t DEF DeviceOpened, Shuttles, Stages, PendingIsAwaited
<1>5. ASSUME NEW r \in Requests, DeviceRefused(r) PROVE Stages' /\ PendingIsAwaited'
  <2>1. /\ \E v \in {"dialling", "refused"} : req' = [req EXCEPT ![r] = v]
        /\ req[r] = "waiting" /\ opened[r] = "error" /\ path' = [path EXCEPT ![r] = "none"]
        /\ UNCHANGED <<opened, down, pending>>
    BY <1>5 DEF DeviceRefused, NoPath
  <2> QED BY <1>t, <2>1 DEF Stages, PendingIsAwaited
<1>6. ASSUME NEW r \in Requests, OpenTimesOut(r) PROVE Stages' /\ PendingIsAwaited'
  BY <1>6, <1>t DEF OpenTimesOut, Stages, PendingIsAwaited
<1>7. ASSUME NEW r \in Requests, Dialled(r) PROVE Stages' /\ PendingIsAwaited'
  BY <1>7, <1>t DEF Dialled, Shuttles, Stages, PendingIsAwaited
<1>8. ASSUME NEW r \in Requests, GivesBrowser(r) PROVE Stages' /\ PendingIsAwaited'
  <2>1. /\ down' = down \/ down' = [down EXCEPT ![r] = "done"]
        /\ UNCHANGED <<req, path, opened, pending>>
    BY <1>8 DEF GivesBrowser
  <2> QED BY <1>t, <2>1 DEF Stages, PendingIsAwaited
<1>9. ASSUME NEW r \in Requests, ShuttleEnds(r) PROVE Stages' /\ PendingIsAwaited'
  BY <1>9, <1>t DEF ShuttleEnds, Stages, PendingIsAwaited
<1>10. ASSUME NEW r \in Requests, WorkerPosts(r) PROVE Stages' /\ PendingIsAwaited'
  <2>1. CASE r \in pending
    <3>1. /\ pending' = pending \ {r} /\ UNCHANGED <<req, path, down>>
          /\ \E v \in {"yes", "error"} : opened' = [opened EXCEPT ![r] = v]
      BY <1>10, <2>1 DEF WorkerPosts, HubOpened, HubOpenError
    <3>2. req[r] = "waiting"
      BY <2>1 DEF PendingIsAwaited
    <3> QED BY <1>t, <3>1, <3>2 DEF Stages, PendingIsAwaited
  <2>2. CASE r \notin pending
    BY <1>1, <1>10, <2>2 DEF WorkerPosts, HubOpened, HubOpenError
  <2> QED BY <2>1, <2>2
<1>11. ASSUME NEW r \in Requests,
              \/ BrowserSends(r) \/ BrowserLeaves(r) \/ UpSeesEnd(r) \/ FallbackReads(r)
              \/ FallbackEnds(r) \/ PumpReads(r) \/ PumpSeesEnd(r) \/ PumpPostsData(r)
              \/ PumpPostsClosed(r)
       PROVE  UNCHANGED <<req, path, opened, down, pending>>
  BY <1>11 DEF BrowserSends, UpEnds, BrowserLeaves, UpSeesEnd, FallbackReads, FallbackEnds,
               PumpReads, PumpSeesEnd, PumpPostsData, PumpPostsClosed
<1>12. ASSUME StreamStep \/ UNCHANGED vars
       PROVE  UNCHANGED <<req, path, opened, down, pending>>
  BY <1>12 DEF StreamStep, GoesStale, DeviceDrops, DeviceCloses, Attach, StreamEnds,
               StreamSends, vars
<1> QED
  BY <1>1, <1>2, <1>3, <1>4, <1>5, <1>6, <1>7, <1>8, <1>9, <1>10, <1>11, <1>12
  DEF Next, ShimStep, DeviceStep

LEMMA LiveStep == TypeOK /\ LiveIsListed /\ [Next]_vars => LiveIsListed'
<1> SUFFICES ASSUME TypeOK, LiveIsListed, [Next]_vars PROVE LiveIsListed'
  OBVIOUS
<1> USE DEF Set, tunnel, hub, device
<1>t. /\ req \in [Requests -> {"idle", "waiting", "dialling", "open", "refused", "ended"}]
      /\ opened \in [Requests -> {"no", "yes", "error"}]
      /\ closed \in [Requests -> BOOLEAN]
      /\ conns \subseteq Requests
  BY DEF TypeOK
<1>c. ASSUME NEW S \in SUBSET Requests, DeviceClosed(S)
      PROVE  \A q \in Requests : ~closed'[q] => ~closed[q] /\ q \notin S
  BY <1>c DEF DeviceClosed
<1>1. CASE UNCHANGED <<req, opened, closed, conns>>
  BY <1>1 DEF LiveIsListed
\* A step that opens no tunnel and takes none off the list may close any.
<1>2. ASSUME \A q \in Requests : /\ ~closed'[q] => ~closed[q]
                                 /\ req'[q] = "open" => req[q] = "open" \/ opened[q] = "yes",
             opened' = opened, conns' = conns
      PROVE  LiveIsListed'
  BY <1>2 DEF LiveIsListed
<1>3. ASSUME NEW r \in Requests,
             \/ Blocked(r) \/ OpenTunnel(r) \/ DeviceOpened(r) \/ DeviceRefused(r)
             \/ OpenTimesOut(r) \/ DialFails(r) \/ ShuttleEnds(r)
      PROVE  LiveIsListed'
  <2>1. /\ \E v \in {"waiting", "dialling", "open", "refused", "ended"} :
             req' = [req EXCEPT ![r] = v] /\ (v = "open" => opened[r] = "yes")
        /\ closed' = closed \/ closed' = [closed EXCEPT ![r] = TRUE]
        /\ UNCHANGED <<opened, conns>>
    BY <1>3 DEF Blocked, OpenTunnel, DeviceOpened, DeviceRefused, OpenTimesOut, DialFails,
                ShuttleEnds, Shuttles, NoPath
  <2> QED BY <1>t, <1>2, <2>1
<1>4. ASSUME NEW r \in Requests, BrowserSends(r) \/ UpSeesEnd(r) PROVE LiveIsListed'
  <2>1. CASE UpEnds(r)
    <3>1. DeviceClosed({r}) /\ UNCHANGED <<req, opened, conns>>
      BY <2>1 DEF UpEnds, CloseTunnel
    <3> QED BY <1>2, <1>c, <3>1
  <2>2. CASE UNCHANGED <<req, opened, closed, conns>>
    BY <1>1, <2>2
  <2> QED BY <1>4, <2>1, <2>2 DEF BrowserSends, UpSeesEnd
<1>5. ASSUME NEW r \in Requests, Dialled(r) PROVE LiveIsListed'
  BY <1>5, <1>t DEF Dialled, Shuttles, LiveIsListed
<1>6. ASSUME NEW r \in Requests, FallbackEnds(r) \/ PumpPostsClosed(r) PROVE LiveIsListed'
  <2>1. CASE /\ conns' = conns \ {r} /\ UNCHANGED <<req, opened>>
             /\ DeviceClosed({r}) \/ DeviceClosed({r} \cap conns)
    BY <1>c, <2>1 DEF LiveIsListed
  <2>2. CASE UNCHANGED <<req, opened, closed, conns>>
    BY <1>1, <2>2
  <2> QED BY <1>6, <2>1, <2>2 DEF FallbackEnds, PumpPostsClosed, HubClosed
<1>7. ASSUME NEW r \in Requests, WorkerPosts(r) PROVE LiveIsListed'
  <2>1. CASE r \in pending /\ HubOpened(r)
    BY <1>7, <1>t, <2>1 DEF WorkerPosts, HubOpened, LiveIsListed
  <2>2. CASE r \in pending /\ HubOpenError(r)
    BY <1>7, <1>t, <2>2 DEF WorkerPosts, HubOpenError, LiveIsListed
  <2>3. CASE r \notin pending
    BY <1>1, <1>7, <2>3 DEF WorkerPosts, HubOpened, HubOpenError
  <2> QED BY <1>7, <2>1, <2>2, <2>3 DEF WorkerPosts
<1>8. ASSUME NEW k \in Streams, StreamEnds(k) PROVE LiveIsListed'
  <2>1. CASE conns' = {} /\ DeviceClosed(conns) /\ UNCHANGED <<req, opened>>
    BY <1>c, <1>t, <2>1 DEF LiveIsListed
  <2> QED BY <1>1, <1>8, <2>1 DEF StreamEnds
<1>9. ASSUME NEW r \in Requests,
             \/ BrowserLeaves(r) \/ GivesBrowser(r) \/ FallbackReads(r) \/ PumpReads(r)
             \/ PumpSeesEnd(r) \/ PumpPostsData(r)
      PROVE  UNCHANGED <<req, opened, closed, conns>>
  BY <1>9 DEF BrowserLeaves, GivesBrowser, FallbackReads, PumpReads, PumpSeesEnd,
              PumpPostsData
<1>10. ASSUME \/ GoesStale \/ DeviceDrops \/ DeviceCloses \/ UNCHANGED vars
              \/ \E k \in Streams : Attach(k) \/ StreamSends(k)
       PROVE  UNCHANGED <<req, opened, closed, conns>>
  BY <1>10 DEF GoesStale, DeviceDrops, DeviceCloses, Attach, StreamSends, vars
<1> QED
  BY <1>1, <1>3, <1>4, <1>5, <1>6, <1>7, <1>8, <1>9, <1>10
  DEF Next, StreamStep, ShimStep, DeviceStep

-----------------------------------------------------------------------------
(* The device's sockets *)

LEMMA OpensAppend ==
  ASSUME NEW s \in Seq(Message), NEW m \in Message, NEW r \in Requests
  PROVE  /\ Opens(Append(s, m), r) <=> Opens(s, r) \/ IsOpen(m, r)
         /\ Once(s, r) /\ ~(Opens(s, r) /\ IsOpen(m, r)) => Once(Append(s, m), r)
<1>1. /\ Len(s) \in Nat /\ Len(Append(s, m)) = Len(s) + 1
      /\ \A i \in 1..Len(s) : Append(s, m)[i] = s[i]
      /\ Append(s, m)[Len(s) + 1] = m
  BY AppendProperties, LenProperties
<1>2. Opens(Append(s, m), r) <=> Opens(s, r) \/ IsOpen(m, r)
  BY <1>1 DEF Opens
<1>3. ASSUME Once(s, r), ~(Opens(s, r) /\ IsOpen(m, r)) PROVE Once(Append(s, m), r)
  BY <1>1, <1>3 DEF Once, Opens
<1> QED BY <1>2, <1>3

LEMMA OpensTail ==
  ASSUME NEW s \in Seq(Message), s # <<>>, NEW r \in Requests
  PROVE  /\ Opens(Tail(s), r) => Opens(s, r)
         /\ Once(s, r) => Once(Tail(s), r)
         /\ IsOpen(Head(s), r) => Opens(s, r)
         /\ IsOpen(Head(s), r) /\ Once(s, r) => ~Opens(Tail(s), r)
<1>1. /\ Len(s) \in Nat /\ Len(s) # 0 /\ Len(Tail(s)) = Len(s) - 1
      /\ \A i \in 1..Len(Tail(s)) : Tail(s)[i] = s[i + 1]
      /\ Head(s) = s[1]
  BY HeadTailProperties, EmptySeq, LenProperties
<1>2. Opens(Tail(s), r) => Opens(s, r)
  BY <1>1 DEF Opens
<1>3. Once(s, r) => Once(Tail(s), r)
  BY <1>1 DEF Once
<1>4. IsOpen(Head(s), r) => Opens(s, r)
  BY <1>1 DEF Opens
<1>5. IsOpen(Head(s), r) /\ Once(s, r) => ~Opens(Tail(s), r)
  BY <1>1 DEF Opens, Once
<1> QED BY <1>2, <1>3, <1>4, <1>5

LEMMA OpensEmpty == \A r : ~Opens(<<>>, r) /\ Once(<<>>, r)
  BY DEF Opens, Once

\* A message that is no open, a loss, or no message: nothing new is due.
LEMMA NoNewOpen ==
  ASSUME TypeOK, DueOnce, NEW k \in Streams, NEW s \in Seq(Message),
         queue' = [queue EXCEPT ![k] = s],
         \A q \in Requests : (Opens(s, q) => Opens(queue[k], q))
                             /\ (Once(queue[k], q) => Once(s, q))
  PROVE  \A q \in Requests :
           /\ \A l \in Streams : Once(queue'[l], q)
           /\ \A l, j \in Streams : Opens(queue'[l], q) /\ Opens(queue'[j], q) => l = j
           /\ Due(q)' => Due(q)
<1>1. queue \in [Streams -> Seq(Message)]
  BY DEF TypeOK
<1>2. \A l \in Streams : queue'[l] = IF l = k THEN s ELSE queue[l]
  BY <1>1
<1>3. \A q \in Requests, l \in Streams : Opens(queue'[l], q) => Opens(queue[l], q)
  BY <1>2
<1>4. \A q \in Requests, l \in Streams : Once(queue'[l], q)
  BY <1>2 DEF DueOnce
<1> QED BY <1>3, <1>4 DEF DueOnce, Due

\* data and close add no open.
LEMMA ToDeviceNoOpen ==
  ASSUME TypeOK, DueOnce, NEW r \in Requests, NEW op \in {"data", "close"},
         attached # 0, ToDevice(op, r)
  PROVE  \A q \in Requests :
           /\ \A l \in Streams : Once(queue'[l], q)
           /\ \A l, j \in Streams : Opens(queue'[l], q) /\ Opens(queue'[j], q) => l = j
           /\ Due(q)' => Due(q)
<1> DEFINE m == [op |-> op, conn |-> r]
<1>1. m \in Message /\ m.op # "open"
  BY DEF Message
<1>2. attached \in Streams /\ queue[attached] \in Seq(Message)
  BY BoundAssumption DEF TypeOK, Streams
<1>3. Append(queue[attached], m) \in Seq(Message)
  BY <1>1, <1>2
<1>4. \A q \in Requests : ~IsOpen(m, q)
  BY <1>1 DEF IsOpen
<1>5. \A q \in Requests :
        /\ Opens(Append(queue[attached], m), q) => Opens(queue[attached], q)
        /\ Once(queue[attached], q) => Once(Append(queue[attached], m), q)
  BY <1>1, <1>2, <1>4, OpensAppend
<1>6. queue' = [queue EXCEPT ![attached] = Append(queue[attached], m)]
  BY DEF ToDevice
<1> HIDE DEF m
<1> QED BY <1>2, <1>3, <1>5, <1>6, NoNewOpen

LEMMA PumpStep ==
  TypeOK /\ Stages /\ NoSocket /\ PumpHasSocket /\ [Next]_vars => PumpHasSocket'
<1> SUFFICES ASSUME TypeOK, Stages, NoSocket, PumpHasSocket, [Next]_vars
             PROVE  PumpHasSocket'
  OBVIOUS
<1> USE DEF Set, tunnel, hub, device
<1>t. /\ path \in [Requests -> {"none", "device", "fallback"}]
      /\ sock \in [Requests -> {"none", "open", "shut"}]
      /\ pump \in [Requests -> {"off", "recv", "data", "closing", "over"}]
      /\ queue \in [Streams -> Seq(Message)]
  BY DEF TypeOK
<1>1. CASE UNCHANGED <<path, sock, pump>>
  BY <1>1 DEF PumpHasSocket
<1>2. ASSUME NEW r \in Requests, OpenTunnel(r) \/ DeviceRefused(r) PROVE PumpHasSocket'
  <2>1. /\ path' = path \/ \E v \in {"none", "device"} : path' = [path EXCEPT ![r] = v]
        /\ path[r] # "fallback" /\ UNCHANGED <<sock, pump>>
    BY <1>2 DEF OpenTunnel, DeviceRefused, Stages
  <2> QED BY <1>t, <2>1 DEF PumpHasSocket
<1>3. ASSUME NEW r \in Requests, Dialled(r) PROVE PumpHasSocket'
  BY <1>3, <1>t DEF Dialled, PumpHasSocket
<1>4. ASSUME NEW r \in Requests, FallbackEnds(r) PROVE PumpHasSocket'
  BY <1>4, <1>t DEF FallbackEnds, PumpHasSocket
<1>5. ASSUME NEW r \in Requests, PumpReads(r) \/ PumpSeesEnd(r) PROVE PumpHasSocket'
  <2>1. /\ \E v \in {"data", "closing"} : pump' = [pump EXCEPT ![r] = v]
        /\ path[r] # "fallback" /\ pump[r] = "recv" /\ UNCHANGED <<path, sock>>
    BY <1>5 DEF PumpReads, PumpSeesEnd
  <2> QED BY <1>t, <2>1 DEF PumpHasSocket
<1>6. ASSUME NEW r \in Requests, PumpPostsData(r) PROVE PumpHasSocket'
  BY <1>6, <1>t DEF PumpPostsData, PumpHasSocket
<1>7. ASSUME NEW r \in Requests, PumpPostsClosed(r) PROVE PumpHasSocket'
  BY <1>7, <1>t DEF PumpPostsClosed, PumpHasSocket
<1>8. CASE DeviceCloses
  BY <1>8, <1>t DEF DeviceCloses, PumpHasSocket
<1>9. ASSUME NEW k \in Streams, StreamSends(k) PROVE PumpHasSocket'
  <2>1. CASE dev = k
    <3>1. Head(queue[k]) \in Message /\ path' = path
      BY <1>9, <1>t, HeadTailProperties DEF StreamSends
    <3>2. PICK r \in Requests :
            \/ sock' = [sock EXCEPT ![r] = "open"] /\ pump' = [pump EXCEPT ![r] = "recv"]
            \/ sock[r] = "open" /\ sock' = [sock EXCEPT ![r] = "shut"] /\ pump' = pump
            \/ sock' = sock /\ pump' = pump
      BY <1>9, <2>1, <3>1, DeviceDoesCases DEF StreamSends, Message
    <3> QED BY <1>t, <3>1, <3>2 DEF PumpHasSocket
  <2>2. CASE dev # k
    BY <1>1, <1>9, <2>2 DEF StreamSends
  <2> QED BY <2>1, <2>2
<1>10. ASSUME NEW r \in Requests,
              \/ Blocked(r) \/ DeviceOpened(r) \/ OpenTimesOut(r) \/ DialFails(r)
              \/ BrowserSends(r) \/ BrowserLeaves(r) \/ UpSeesEnd(r) \/ GivesBrowser(r)
              \/ ShuttleEnds(r) \/ FallbackReads(r) \/ WorkerPosts(r)
       PROVE  UNCHANGED <<path, sock, pump>>
  BY <1>10 DEF Blocked, DeviceOpened, OpenTimesOut, DialFails, BrowserSends, UpEnds,
               BrowserLeaves, UpSeesEnd, GivesBrowser, ShuttleEnds, FallbackReads, WorkerPosts
<1>11. ASSUME \/ GoesStale \/ DeviceDrops \/ UNCHANGED vars
              \/ \E k \in Streams : Attach(k) \/ StreamEnds(k)
       PROVE  UNCHANGED <<path, sock, pump>>
  BY <1>11 DEF GoesStale, DeviceDrops, Attach, StreamEnds, vars
<1> QED
  BY <1>1, <1>2, <1>3, <1>4, <1>5, <1>6, <1>7, <1>8, <1>9, <1>10, <1>11
  DEF Next, StreamStep, ShimStep, DeviceStep

LEMMA SocketStep ==
  TypeOK /\ Stages /\ DueOnce /\ NoSocket /\ PumpHasSocket /\ PendingIsAwaited /\ [Next]_vars
    => DueOnce' /\ NoSocket'
<1> SUFFICES ASSUME TypeOK, Stages, DueOnce, NoSocket, PumpHasSocket, PendingIsAwaited,
                    [Next]_vars
             PROVE  DueOnce' /\ NoSocket'
  OBVIOUS
<1> USE DEF Set, tunnel, hub, device
<1> DEFINE NothingDue ==
             \A q \in Requests :
               /\ \A l \in Streams : Once(queue'[l], q)
               /\ \A l, j \in Streams : Opens(queue'[l], q) /\ Opens(queue'[j], q) => l = j
               /\ Due(q)' => Due(q)
<1>t. /\ req \in [Requests -> {"idle", "waiting", "dialling", "open", "refused", "ended"}]
      /\ path \in [Requests -> {"none", "device", "fallback"}]
      /\ opened \in [Requests -> {"no", "yes", "error"}]
      /\ sock \in [Requests -> {"none", "open", "shut"}]
      /\ reply \in [Requests -> {"none", "opened", "error"}]
      /\ queue \in [Streams -> Seq(Message)]
  BY DEF TypeOK
<1>q. ASSUME queue' = queue PROVE NothingDue
  BY <1>q DEF DueOnce, Due
\* Steps that neither ask the device nor let it open a socket.
<1>c. ASSUME NothingDue, opened' = opened,
             \A q \in Requests :
               /\ sock[q] = "none" => sock'[q] = "none"
               /\ reply'[q] \in {"none", reply[q]}
               /\ req'[q] = "idle" => req[q] = "idle"
               /\ req'[q] = "dialling" \/ path'[q] = "fallback"
                    => req[q] = "dialling" \/ path[q] = "fallback"
      PROVE  DueOnce' /\ NoSocket'
  <2>1. DueOnce'
    BY <1>c DEF DueOnce
  <2>2. NoSocket'
    BY <1>c DEF NoSocket
  <2> QED BY <2>1, <2>2
<1>1. ASSUME NEW r \in Requests,
             \/ Blocked(r) \/ DeviceOpened(r) \/ OpenTimesOut(r) \/ DialFails(r)
             \/ ShuttleEnds(r)
      PROVE  DueOnce' /\ NoSocket'
  <2>1. /\ \E v \in {"refused", "open", "ended"} : req' = [req EXCEPT ![r] = v]
        /\ UNCHANGED <<path, opened, sock, reply, queue>>
    BY <1>1 DEF Blocked, DeviceOpened, Shuttles, OpenTimesOut, DialFails, ShuttleEnds
  <2> QED BY <1>t, <1>q, <1>c, <2>1
<1>2. ASSUME NEW r \in Requests, BrowserSends(r) \/ UpSeesEnd(r)
      PROVE  DueOnce' /\ NoSocket'
  <2>1. /\ UNCHANGED <<req, path, opened, sock, reply>>
        /\ \/ queue' = queue
           \/ DeviceConnected /\ \E op \in {"data", "close"} : ToDevice(op, r)
    BY <1>2 DEF BrowserSends, UpSeesEnd, UpEnds, CloseTunnel
  <2>2. NothingDue
    BY <1>q, <2>1, ToDeviceNoOpen DEF DeviceConnected
  <2> QED BY <1>c, <2>1, <2>2
<1>3. ASSUME NEW r \in Requests,
             \/ BrowserLeaves(r) \/ GivesBrowser(r) \/ FallbackReads(r) \/ FallbackEnds(r)
             \/ PumpReads(r) \/ PumpSeesEnd(r) \/ PumpPostsData(r)
      PROVE  DueOnce' /\ NoSocket'
  <2>1. UNCHANGED <<req, path, opened, sock, reply, queue>>
    BY <1>3 DEF BrowserLeaves, GivesBrowser, FallbackReads, FallbackEnds, PumpReads,
                PumpSeesEnd, PumpPostsData
  <2> QED BY <1>q, <1>c, <2>1
<1>4. ASSUME \/ GoesStale \/ DeviceDrops \/ UNCHANGED vars \/ \E k \in Streams : Attach(k)
      PROVE  DueOnce' /\ NoSocket'
  <2>1. UNCHANGED <<req, path, opened, sock, reply, queue>>
    BY <1>4 DEF GoesStale, DeviceDrops, Attach, vars
  <2> QED BY <1>q, <1>c, <2>1
<1>5. ASSUME NEW r \in Requests, OpenTunnel(r) PROVE DueOnce' /\ NoSocket'
  <2>0. /\ req[r] = "idle" /\ path[r] = "none" /\ opened[r] = "no" /\ sock[r] = "none"
        /\ reply[r] = "none" /\ ~Due(r)
    BY <1>5 DEF OpenTunnel, Stages, NoSocket
  <2>1. CASE DeviceConnected
    <3> DEFINE m == [op |-> "open", conn |-> r]
    <3>1. m \in Message /\ \A q \in Requests : IsOpen(m, q) <=> q = r
      BY DEF Message, IsOpen
    <3>2. attached \in Streams /\ queue[attached] \in Seq(Message)
      BY <1>t, <2>1, BoundAssumption DEF TypeOK, DeviceConnected, Streams
    <3>3. \A l \in Streams :
            queue'[l] = IF l = attached THEN Append(queue[attached], m) ELSE queue[l]
      BY <1>5, <1>t, <2>1 DEF OpenTunnel, ToDevice
    <3> HIDE DEF m
    <3>4. \A q \in Requests :
            /\ Opens(Append(queue[attached], m), q) <=> Opens(queue[attached], q) \/ q = r
            /\ Once(queue[attached], q) /\ (q # r \/ ~Opens(queue[attached], r))
                 => Once(Append(queue[attached], m), q)
      BY <3>1, <3>2, OpensAppend
    <3>5. \A q \in Requests, l \in Streams :
            /\ Once(queue'[l], q)
            /\ Opens(queue'[l], q) <=> Opens(queue[l], q) \/ (q = r /\ l = attached)
      BY <2>0, <3>2, <3>3, <3>4 DEF DueOnce, Due
    <3>6. UNCHANGED <<opened, sock, reply>>
      BY <1>5 DEF OpenTunnel
    <3>7. DueOnce'
      BY <2>0, <3>2, <3>5, <3>6 DEF DueOnce, Due
    <3>8. req' = [req EXCEPT ![r] = "waiting"] /\ path' = [path EXCEPT ![r] = "device"]
      BY <1>5, <2>1 DEF OpenTunnel
    <3>9. \A q \in Requests \ {r} : Due(q)' => Due(q)
      BY <3>5 DEF Due
    <3>10. NoSocket'
      BY <1>t, <2>0, <3>6, <3>8, <3>9 DEF NoSocket
    <3> QED BY <3>7, <3>10
  <2>2. CASE ~DeviceConnected
    <3>1. /\ \E v \in {"dialling", "refused"} : req' = [req EXCEPT ![r] = v]
          /\ UNCHANGED <<path, opened, sock, reply, queue>>
      BY <1>5, <2>2 DEF OpenTunnel, NoPath
    <3>2. DueOnce' /\ \A q \in Requests : Due(q)' <=> Due(q)
      BY <3>1 DEF DueOnce, Due
    <3>3. NoSocket'
      BY <1>t, <2>0, <3>1, <3>2 DEF NoSocket
    <3> QED BY <3>2, <3>3
  <2> QED BY <2>1, <2>2
<1>6. ASSUME NEW r \in Requests, DeviceRefused(r) PROVE DueOnce' /\ NoSocket'
  <2>1. /\ \E v \in {"dialling", "refused"} : req' = [req EXCEPT ![r] = v]
        /\ path' = [path EXCEPT ![r] = "none"] /\ opened[r] = "error"
        /\ UNCHANGED <<opened, sock, reply, queue>>
    BY <1>6 DEF DeviceRefused, NoPath
  <2>2. sock[r] = "none" /\ ~Due(r)
    BY <2>1 DEF NoSocket, DueOnce
  <2>3. DueOnce' /\ \A q \in Requests : Due(q)' <=> Due(q)
    BY <2>1 DEF DueOnce, Due
  <2>4. NoSocket'
    BY <1>t, <2>1, <2>2, <2>3 DEF NoSocket
  <2> QED BY <2>3, <2>4
<1>7. ASSUME NEW r \in Requests, Dialled(r) PROVE DueOnce' /\ NoSocket'
  <2>1. /\ req' = [req EXCEPT ![r] = "open"] /\ path' = [path EXCEPT ![r] = "fallback"]
        /\ req[r] = "dialling" /\ UNCHANGED <<opened, sock, reply, queue>>
    BY <1>7 DEF Dialled, Shuttles
  <2> QED BY <1>t, <1>q, <1>c, <2>1
<1>8. CASE DeviceCloses
  <2>1. UNCHANGED <<req, path, opened, reply, queue>>
    BY <1>8 DEF DeviceCloses
  <2>2. \A q \in Requests : sock[q] = "none" => sock'[q] = "none"
    BY <1>8, <1>t DEF DeviceCloses
  <2> QED BY <1>q, <1>c, <2>1, <2>2
<1>9. ASSUME NEW r \in Requests, PumpPostsClosed(r) PROVE DueOnce' /\ NoSocket'
  <2>1. UNCHANGED <<req, path, opened, reply, queue>>
    BY <1>9 DEF PumpPostsClosed
  <2>2. \A q \in Requests : sock[q] = "none" => sock'[q] = "none"
    BY <1>9, <1>t DEF PumpPostsClosed, PumpHasSocket
  <2> QED BY <1>q, <1>c, <2>1, <2>2
<1>10. ASSUME NEW r \in Requests, WorkerPosts(r) PROVE DueOnce' /\ NoSocket'
  <2>1. /\ UNCHANGED <<req, path, sock, queue>>
        /\ reply' = reply \/ reply' = [reply EXCEPT ![r] = "none"]
        /\ reply[r] # "none"
        /\ \/ opened' = opened \/ opened' = [opened EXCEPT ![r] = "yes"]
           \/ opened' = [opened EXCEPT ![r] = "error"] /\ reply[r] = "error"
    BY <1>10, <1>t DEF WorkerPosts, HubOpened, HubOpenError
  <2>2. ~Due(r) /\ (reply[r] = "error" => sock[r] = "none")
    BY <2>1 DEF DueOnce, NoSocket
  <2>3. \A q \in Requests : Due(q)' <=> Due(q)
    BY <2>1 DEF Due
  <2>4. \A q \in Requests : /\ reply'[q] \in {"none", reply[q]}
                            /\ q # r => opened'[q] = opened[q]
                            /\ opened'[r] \in {"yes", opened[r]} \/ reply[r] = "error"
    BY <1>t, <2>1
  <2>5. DueOnce'
    BY <2>1, <2>2, <2>3, <2>4 DEF DueOnce
  <2>6. NoSocket'
    BY <2>1, <2>2, <2>3, <2>4 DEF NoSocket
  <2> QED BY <2>5, <2>6
<1>11. ASSUME NEW k \in Streams, StreamEnds(k) PROVE DueOnce' /\ NoSocket'
  <2>1. UNCHANGED <<req, path, opened, sock, reply>>
    BY <1>11 DEF StreamEnds
  <2>2. queue' = [queue EXCEPT ![k] = <<>>] /\ <<>> \in Seq(Message)
    BY <1>11 DEF StreamEnds
  <2>3. NothingDue
    BY <2>2, NoNewOpen, OpensEmpty
  <2> QED BY <1>c, <2>1, <2>3
<1>12. ASSUME NEW k \in Streams, StreamSends(k) PROVE DueOnce' /\ NoSocket'
  <2>1. /\ queue[k] \in Seq(Message) /\ queue[k] # <<>>
        /\ queue' = [queue EXCEPT ![k] = Tail(queue[k])]
        /\ UNCHANGED <<req, path, opened>>
    BY <1>12, <1>t DEF StreamSends
  <2>2. Head(queue[k]) \in Message /\ Tail(queue[k]) \in Seq(Message)
    BY <2>1, HeadTailProperties
  <2>3. NothingDue
    BY <2>1, <2>2, NoNewOpen, OpensTail
  <2>4. CASE UNCHANGED <<sock, reply>>
    BY <1>c, <2>1, <2>3, <2>4
  <2>5. CASE dev = k /\ Head(queue[k]).op = "open"
    <3>0. PICK r \in Requests : Head(queue[k]).conn = r
      BY <2>2 DEF Message
    <3>1. IsOpen(Head(queue[k]), r)
      BY <2>5, <3>0 DEF IsOpen
    <3>2. Due(r) /\ ~Opens(Tail(queue[k]), r)
      BY <2>1, <3>1, OpensTail DEF Due, DueOnce
    <3>3. \A l \in Streams : queue'[l] = IF l = k THEN Tail(queue[k]) ELSE queue[l]
      BY <1>t, <2>1
    <3>4. Opens(queue[k], r)
      BY <2>1, <3>1, OpensTail
    <3>5. ~Due(r)'
      <4>1. \A l \in Streams \ {k} : ~Opens(queue[l], r)
        BY <3>1, <3>4 DEF DueOnce
      <4>2. \A l \in Streams : ~Opens(queue'[l], r)
        BY <3>2, <3>3, <4>1
      <4> QED BY <4>2 DEF Due
    <3>6. \/ sock' = [sock EXCEPT ![r] = "open"] /\ reply' = [reply EXCEPT ![r] = "opened"]
          \/ sock' = sock /\ reply' = [reply EXCEPT ![r] = "error"]
      BY <1>12, <2>2, <2>5, <3>0, DeviceDoesCases DEF StreamSends
    <3>7. opened[r] = "no" /\ sock[r] = "none" /\ req[r] \notin {"idle", "dialling"}
          /\ path[r] # "fallback"
      BY <3>1, <3>2 DEF DueOnce, NoSocket
    <3>8. DueOnce'
      <4>1. \A q \in Requests \ {r} : sock'[q] = sock[q] /\ reply'[q] = reply[q]
        BY <1>t, <3>1, <3>6
      <4>2. \A q \in Requests : Due(q)' => Due(q) /\ q # r
        BY <2>3, <3>5
      <4> QED BY <2>1, <2>3, <4>1, <4>2 DEF DueOnce
    <3>9. NoSocket'
      BY <1>t, <2>1, <2>3, <3>1, <3>5, <3>6, <3>7 DEF NoSocket
    <3> QED BY <3>8, <3>9
  <2>6. CASE dev = k /\ Head(queue[k]).op # "open"
    <3>1. reply' = reply /\ \E r \in Requests :
            \/ sock[r] = "open" /\ sock' = [sock EXCEPT ![r] = "shut"]
            \/ sock' = sock
      BY <1>12, <2>2, <2>6, DeviceDoesCases DEF StreamSends, Message
    <3> QED BY <1>c, <1>t, <2>1, <2>3, <3>1
  <2> QED BY <1>12, <2>4, <2>5, <2>6 DEF StreamSends
<1> QED
  BY <1>1, <1>2, <1>3, <1>4, <1>5, <1>6, <1>7, <1>8, <1>9, <1>10, <1>11, <1>12
  DEF Next, StreamStep, ShimStep, DeviceStep

-----------------------------------------------------------------------------
(* The order of the chunks *)

LEMMA BelowAppend ==
  ASSUME NEW s \in Seq(Nat), NEW n \in Nat
  PROVE  /\ \A m \in Nat : Below(Append(s, n), m) <=> Below(s, m) /\ n < m
         /\ Increasing(s) /\ Below(s, n) => Increasing(Append(s, n))
<1>1. /\ Len(s) \in Nat /\ Len(Append(s, n)) = Len(s) + 1
      /\ \A i \in 1..Len(s) : Append(s, n)[i] = s[i]
      /\ Append(s, n)[Len(s) + 1] = n
  BY AppendProperties, LenProperties
<1>2. \A m \in Nat : Below(Append(s, n), m) <=> Below(s, m) /\ n < m
  BY <1>1 DEF Below
<1>3. Increasing(s) /\ Below(s, n) => Increasing(Append(s, n))
  BY <1>1 DEF Increasing, Below
<1> QED BY <1>2, <1>3

LEMMA TailInOrder ==
  ASSUME NEW s \in Seq(Nat), s # <<>>
  PROVE  /\ \A m \in Nat : Below(s, m) => Below(Tail(s), m) /\ Head(s) < m
         /\ Increasing(s) => /\ Increasing(Tail(s))
                            /\ \A i \in 1..Len(Tail(s)) : Head(s) < Tail(s)[i]
<1>1. /\ Len(s) \in Nat /\ Len(s) # 0 /\ Len(Tail(s)) = Len(s) - 1
      /\ \A i \in 1..Len(Tail(s)) : Tail(s)[i] = s[i + 1]
      /\ Head(s) = s[1]
  BY HeadTailProperties, EmptySeq, LenProperties
<1>2. \A m \in Nat : Below(s, m) => Below(Tail(s), m) /\ Head(s) < m
  BY <1>1 DEF Below
<1>3. Increasing(s) => /\ Increasing(Tail(s))
                      /\ \A i \in 1..Len(Tail(s)) : Head(s) < Tail(s)[i]
  BY <1>1 DEF Increasing
<1> QED BY <1>2, <1>3

LEMMA ChunksAreNumbers ==
  ASSUME TypeOK
  PROVE  /\ Eof \in Nat /\ Eof = Chunks + 1
         /\ \A r \in Requests : /\ inbound[r] \in Seq(Nat) /\ got[r] \in Seq(Nat)
                                /\ NextChunk(r) \in Nat /\ NextChunk(r) <= Eof
<1>1. Eof \in Nat /\ Eof = Chunks + 1 /\ 1..Eof \subseteq Nat /\ 1..Chunks \subseteq Nat
  BY BoundAssumption DEF Eof
<1>2. \A r \in Requests : inbound[r] \in Seq(1..Eof) /\ got[r] \in Seq(1..Chunks)
  BY DEF TypeOK
<1>3. \A r \in Requests : sent[r] \in 0..Chunks
  BY DEF TypeOK
<1>4. \A r \in Requests : inbound[r] \in Seq(Nat) /\ got[r] \in Seq(Nat)
  BY <1>1, <1>2, SeqMonotonic
<1>5. \A r \in Requests : NextChunk(r) \in Nat /\ NextChunk(r) <= Eof
  <2> SUFFICES ASSUME NEW r \in Requests PROVE NextChunk(r) \in Nat /\ NextChunk(r) <= Eof
    OBVIOUS
  <2>1. sent[r] \in Nat /\ sent[r] <= Chunks
    BY <1>3, BoundAssumption
  <2> QED BY <1>1, <2>1, BoundAssumption DEF NextChunk
<1> QED BY <1>1, <1>4, <1>5

\* A request on whose tunnel at most the next chunk, or the sentinel, is put.
Puts(q) ==
  /\ got'[q] = got[q] /\ (~closed'[q] => ~closed[q]) /\ NextChunk(q)' >= NextChunk(q)
  /\ \/ inbound'[q] = inbound[q]
     \/ /\ ~closed[q]
        /\ \E n \in Nat : /\ inbound'[q] = Append(inbound[q], n) /\ NextChunk(q) <= n
                          /\ closed'[q] \/ n < NextChunk(q)'

LEMMA PutsInOrder ==
  ASSUME TypeOK, TypeOK', InOrder, \A q \in Requests : Puts(q)
  PROVE  InOrder'
<1> SUFFICES ASSUME NEW q \in Requests
             PROVE  /\ Increasing(inbound'[q])
                    /\ \A i \in 1..Len(inbound'[q]) : Below(got'[q], inbound'[q][i])
                    /\ ~closed'[q] => /\ Below(inbound'[q], NextChunk(q)')
                                     /\ Below(got'[q], NextChunk(q)')
  BY DEF InOrder
<1>t. inbound[q] \in Seq(Nat) /\ got[q] \in Seq(Nat) /\ NextChunk(q) \in Nat
  BY ChunksAreNumbers
<1>u. NextChunk(q)' \in Nat
  <2>1. sent'[q] \in Nat
    BY BoundAssumption DEF TypeOK
  <2> QED BY <2>1 DEF NextChunk
<1>m. ASSUME NEW s \in Seq(Nat), NEW m \in Nat, NEW n \in Nat, Below(s, m), m <= n
      PROVE  Below(s, n)
  BY <1>m DEF Below
<1>g. ~closed'[q] => Below(got'[q], NextChunk(q)')
  BY <1>t, <1>u, <1>m DEF Puts, InOrder
<1>1. CASE inbound'[q] = inbound[q]
  BY <1>1, <1>t, <1>u, <1>m, <1>g DEF Puts, InOrder
<1>2. CASE inbound'[q] # inbound[q]
  <2>1. PICK n \in Nat : /\ inbound'[q] = Append(inbound[q], n) /\ NextChunk(q) <= n
                         /\ closed'[q] \/ n < NextChunk(q)'
    BY <1>2 DEF Puts
  <2>2. ~closed[q] /\ got'[q] = got[q] /\ NextChunk(q)' >= NextChunk(q)
    BY <1>2 DEF Puts
  <2>3. Below(inbound[q], n) /\ Below(got[q], n) /\ Increasing(inbound[q])
    BY <1>t, <1>m, <2>1, <2>2 DEF InOrder
  <2>4. Increasing(inbound'[q])
    BY <1>t, <2>1, <2>3, BelowAppend
  <2>5. \A i \in 1..Len(inbound'[q]) : Below(got'[q], inbound'[q][i])
    BY <1>t, <2>1, <2>2, <2>3, AppendProperties, LenProperties DEF InOrder
  <2>6. ~closed'[q] => Below(inbound'[q], NextChunk(q)')
    BY <1>t, <1>u, <1>m, <2>1, <2>2, <2>3, BelowAppend
  <2> QED BY <1>g, <2>4, <2>5, <2>6
<1> QED BY <1>1, <1>2

LEMMA OrderStep == TypeOK /\ TypeOK' /\ InOrder /\ [Next]_vars => InOrder'
<1> SUFFICES ASSUME TypeOK, TypeOK', InOrder, [Next]_vars PROVE InOrder'
  OBVIOUS
<1> USE DEF Set, tunnel, hub, device
<1>t. /\ inbound \in [Requests -> Seq(1..Eof)] /\ got \in [Requests -> Seq(1..Chunks)]
      /\ closed \in [Requests -> BOOLEAN]
      /\ pump \in [Requests -> {"off", "recv", "data", "closing", "over"}]
      /\ sent \in [Requests -> 0..Chunks] /\ Chunks \in Nat
      /\ queue \in [Streams -> Seq(Message)]
  BY BoundAssumption DEF TypeOK
<1>n. \A q \in Requests : NextChunk(q) \in Nat /\ NextChunk(q) <= Eof /\ Eof \in Nat
  BY ChunksAreNumbers
\* Steps that put nothing on a tunnel.
<1>c. ASSUME UNCHANGED <<inbound, got>>,
             \A q \in Requests : /\ ~closed'[q] => ~closed[q]
                                 /\ NextChunk(q)' >= NextChunk(q)
      PROVE  InOrder'
  BY <1>c, PutsInOrder DEF Puts
<1>e. ASSUME UNCHANGED <<pump, sent>>
      PROVE  \A q \in Requests : NextChunk(q)' = NextChunk(q)
  BY <1>e DEF NextChunk
\* Steps that close tunnels.
<1>d. ASSUME NEW S \in SUBSET Requests, DeviceClosed(S), got' = got,
             \A q \in Requests : NextChunk(q)' >= NextChunk(q)
      PROVE  InOrder'
  <2>1. \A q \in Requests :
          /\ closed'[q] = (closed[q] \/ q \in S)
          /\ inbound'[q] = IF q \in S /\ ~closed[q] THEN Append(inbound[q], Eof)
                                                   ELSE inbound[q]
    BY <1>d DEF DeviceClosed
  <2>2. \A q \in Requests : Puts(q)
    BY <1>d, <1>n, <2>1 DEF Puts
  <2> QED BY <2>2, PutsInOrder
<1>1. ASSUME \/ \E r \in Requests :
                  \/ Blocked(r) \/ OpenTunnel(r) \/ DeviceOpened(r) \/ DeviceRefused(r)
                  \/ DialFails(r) \/ BrowserLeaves(r) \/ ShuttleEnds(r) \/ WorkerPosts(r)
             \/ GoesStale \/ DeviceDrops \/ DeviceCloses \/ UNCHANGED vars
             \/ \E k \in Streams : Attach(k)
      PROVE  InOrder'
  <2>1. UNCHANGED <<inbound, got, closed, pump, sent>>
    BY <1>1 DEF Blocked, OpenTunnel, DeviceOpened, DeviceRefused, DialFails, BrowserLeaves,
                ShuttleEnds, WorkerPosts, GoesStale, DeviceDrops, DeviceCloses, Attach, vars
  <2> QED BY <1>c, <1>e, <1>n, <2>1
<1>2. ASSUME NEW r \in Requests, OpenTimesOut(r) PROVE InOrder'
  <2>1. UNCHANGED <<inbound, got, pump, sent>> /\ closed' = [closed EXCEPT ![r] = TRUE]
    BY <1>2 DEF OpenTimesOut
  <2>2. \A q \in Requests : ~closed'[q] => ~closed[q]
    BY <1>t, <2>1
  <2> QED BY <1>c, <1>e, <1>n, <2>1, <2>2
<1>3. ASSUME NEW r \in Requests, BrowserSends(r) \/ UpSeesEnd(r) PROVE InOrder'
  <2>1. CASE UpEnds(r)
    <3>1. DeviceClosed({r}) /\ UNCHANGED <<got, pump, sent>>
      BY <2>1 DEF UpEnds, CloseTunnel
    <3> QED BY <1>d, <1>e, <1>n, <3>1
  <2>2. CASE UNCHANGED <<inbound, got, closed, pump, sent>>
    BY <1>c, <1>e, <1>n, <2>2
  <2> QED BY <1>3, <2>1, <2>2 DEF BrowserSends, UpSeesEnd
<1>4. ASSUME NEW k \in Streams, StreamEnds(k) PROVE InOrder'
  <2>1. CASE DeviceClosed(conns) /\ UNCHANGED <<got, pump, sent>>
    <3>1. conns \subseteq Requests
      BY DEF TypeOK
    <3> QED BY <1>d, <1>e, <1>n, <2>1, <3>1
  <2>2. CASE UNCHANGED <<inbound, got, closed, pump, sent>>
    BY <1>c, <1>e, <1>n, <2>2
  <2> QED BY <1>4, <2>1, <2>2 DEF StreamEnds
\* Steps that move a pump on, with nothing put on a tunnel.
<1>5. ASSUME NEW r \in Requests,
             \/ Dialled(r) \/ PumpReads(r) \/ PumpSeesEnd(r) \/ FallbackEnds(r)
             \/ PumpPostsClosed(r) \/ PumpPostsData(r)
      PROVE  \A q \in Requests : NextChunk(q)' >= NextChunk(q)
  <2>1. \/ sent' = sent /\ \E v \in {"recv", "closing", "over"} : pump' = [pump EXCEPT ![r] = v]
        \/ /\ sent' = [sent EXCEPT ![r] = @ + 1] /\ pump' = [pump EXCEPT ![r] = "data"]
           /\ pump[r] = "recv"
    BY <1>5 DEF Dialled, PumpReads, PumpSeesEnd, FallbackEnds, PumpPostsClosed, PumpPostsData
  <2> SUFFICES ASSUME NEW q \in Requests PROVE NextChunk(q)' >= NextChunk(q)
    OBVIOUS
  <2>2. sent[q] \in Nat
    BY <1>t
  <2>3. \/ sent'[q] = sent[q] /\ (pump'[q] = pump[q] \/ pump'[q] # "data")
        \/ sent'[q] = sent[q] + 1 /\ pump[q] = "recv"
    BY <1>t, <2>1
  <2> QED BY <2>2, <2>3 DEF NextChunk
<1>6. ASSUME NEW r \in Requests, Dialled(r) \/ PumpReads(r) \/ PumpSeesEnd(r) PROVE InOrder'
  <2>1. UNCHANGED <<inbound, got, closed>>
    BY <1>6 DEF Dialled, PumpReads, PumpSeesEnd
  <2> QED BY <1>5, <1>6, <1>c, <2>1
<1>7. ASSUME NEW r \in Requests, FallbackEnds(r) \/ PumpPostsClosed(r) PROVE InOrder'
  <2>1. /\ got' = got
        /\ \/ DeviceClosed({r}) \/ DeviceClosed({r} \cap conns) \/ UNCHANGED <<inbound, closed>>
    BY <1>7 DEF FallbackEnds, PumpPostsClosed, HubClosed
  <2> QED BY <1>5, <1>7, <1>c, <1>d, <2>1
<1>8. ASSUME NEW r \in Requests, PumpPostsData(r) PROVE InOrder'
  <2>1. /\ pump[r] = "data" /\ UNCHANGED <<got, closed, sent>>
        /\ \E v \in {"recv", "over"} : pump' = [pump EXCEPT ![r] = v]
    BY <1>8 DEF PumpPostsData
  <2>2. CASE inbound' = inbound
    BY <1>5, <1>8, <1>c, <2>1, <2>2
  <2>3. CASE ~closed[r] /\ inbound' = [inbound EXCEPT ![r] = Append(@, sent[r])]
    <3>1. NextChunk(r) = sent[r] /\ NextChunk(r)' = sent[r] + 1 /\ sent[r] \in Nat
      BY <1>t, <2>1 DEF NextChunk
    <3>2. \A q \in Requests : NextChunk(q)' >= NextChunk(q)
      BY <1>5, <1>8
    <3>3. \A q \in Requests : inbound'[q] = IF q = r THEN Append(inbound[q], sent[r])
                                                    ELSE inbound[q]
      BY <1>t, <2>3
    <3>4. \A q \in Requests : Puts(q)
      <4>1. Puts(r)
        BY <2>1, <2>3, <3>1, <3>2, <3>3 DEF Puts
      <4>2. ASSUME NEW q \in Requests, q # r PROVE Puts(q)
        BY <2>1, <3>2, <3>3, <4>2 DEF Puts
      <4> QED BY <4>1, <4>2
    <3> QED BY <3>4, PutsInOrder
  <2> QED BY <1>8, <2>2, <2>3 DEF PumpPostsData, HubData
<1>9. ASSUME NEW r \in Requests, FallbackReads(r) PROVE InOrder'
  <2>1. /\ pump[r] = "recv" /\ ~closed[r] /\ UNCHANGED <<got, closed, pump>>
        /\ sent' = [sent EXCEPT ![r] = sent[r] + 1]
        /\ inbound' = [inbound EXCEPT ![r] = Append(@, sent[r] + 1)]
    BY <1>9 DEF FallbackReads
  <2>2. NextChunk(r) = sent[r] + 1 /\ NextChunk(r)' = sent[r] + 2 /\ sent[r] + 1 \in Nat
    BY <1>t, <2>1 DEF NextChunk
  <2>3. \A q \in Requests : NextChunk(q)' >= NextChunk(q)
    BY <1>t, <2>1 DEF NextChunk
  <2>4. \A q \in Requests : inbound'[q] = IF q = r THEN Append(inbound[q], sent[r] + 1)
                                                  ELSE inbound[q]
    BY <1>t, <2>1
  <2>5. \A q \in Requests : Puts(q)
    <3>1. Puts(r)
      <4>0. sent[r] \in Nat
        BY <1>t
      <4>1. inbound'[r] = Append(inbound[r], sent[r] + 1)
        BY <2>4
      <4>2. NextChunk(r) <= sent[r] + 1 /\ sent[r] + 1 < NextChunk(r)'
        BY <2>2, <4>0
      <4> QED BY <2>1, <2>2, <2>3, <4>1, <4>2 DEF Puts
    <3>2. ASSUME NEW q \in Requests, q # r PROVE Puts(q)
      BY <2>1, <2>3, <2>4, <3>2 DEF Puts
    <3> QED BY <3>1, <3>2
  <2> QED BY <2>5, PutsInOrder
<1>10. ASSUME NEW k \in Streams, StreamSends(k) PROVE InOrder'
  <2>1. UNCHANGED <<inbound, got, closed, sent>>
    BY <1>10 DEF StreamSends
  <2>2. CASE pump' = pump
    BY <1>c, <1>e, <1>n, <2>1, <2>2
  <2>3. CASE dev = k
    <3>1. Head(queue[k]) \in Message
      BY <1>10, <1>t, HeadTailProperties DEF StreamSends
    <3>2. \E r \in Requests : pump' = [pump EXCEPT ![r] = "recv"] \/ pump' = pump
      BY <1>10, <2>3, <3>1, DeviceDoesCases DEF StreamSends, Message
    <3>3. \A q \in Requests : NextChunk(q)' >= NextChunk(q)
      BY <1>t, <2>1, <3>2 DEF NextChunk
    <3> QED BY <1>c, <2>1, <3>3
  <2> QED BY <1>10, <2>2, <2>3 DEF StreamSends
\* The browser is given what comes first.
<1>11. ASSUME NEW r \in Requests, GivesBrowser(r) PROVE InOrder'
  <2>1. /\ inbound[r] # <<>> /\ inbound' = [inbound EXCEPT ![r] = Tail(@)]
        /\ got' = got \/ got' = [got EXCEPT ![r] = Append(got[r], Head(inbound[r]))]
        /\ UNCHANGED <<closed, pump, sent>>
    BY <1>11 DEF GivesBrowser
  <2>2. /\ inbound[r] \in Seq(Nat) /\ got[r] \in Seq(Nat) /\ NextChunk(r) \in Nat
        /\ Head(inbound[r]) \in Nat /\ Tail(inbound[r]) \in Seq(Nat)
    BY <2>1, ChunksAreNumbers, HeadTailProperties
  <2>3. \A q \in Requests : /\ closed'[q] = closed[q] /\ NextChunk(q)' = NextChunk(q)
                            /\ q # r => got'[q] = got[q] /\ inbound'[q] = inbound[q]
    BY <1>e, <1>t, <2>1
  <2>4. /\ inbound'[r] = Tail(inbound[r])
        /\ got'[r] = got[r] \/ got'[r] = Append(got[r], Head(inbound[r]))
    BY <1>t, <2>1
  <2>5. /\ Increasing(inbound[r])
        /\ \A i \in 1..Len(inbound[r]) : Below(got[r], inbound[r][i])
        /\ ~closed[r] => Below(inbound[r], NextChunk(r)) /\ Below(got[r], NextChunk(r))
    BY DEF InOrder
  <2>6. Increasing(inbound'[r])
    BY <2>1, <2>2, <2>4, <2>5, TailInOrder
  <2>7. \A i \in 1..Len(inbound'[r]) : Below(got'[r], inbound'[r][i])
    <3>1. \A i \in 1..Len(Tail(inbound[r])) :
            /\ Tail(inbound[r])[i] \in Nat /\ Head(inbound[r]) < Tail(inbound[r])[i]
            /\ Below(got[r], Tail(inbound[r])[i])
      <4>1. \A i \in 1..Len(Tail(inbound[r])) :
              i + 1 \in 1..Len(inbound[r]) /\ Tail(inbound[r])[i] = inbound[r][i + 1]
        BY <2>1, <2>2, HeadTailProperties, LenProperties
      <4>2. \A i \in 1..Len(Tail(inbound[r])) : Tail(inbound[r])[i] \in Nat
        BY <2>2, ElementOfSeq
      <4> QED BY <2>1, <2>2, <2>5, <4>1, <4>2, TailInOrder
    <3>2. ASSUME NEW m \in Nat, Head(inbound[r]) < m, Below(got[r], m)
          PROVE  Below(got'[r], m)
      BY <2>2, <2>4, <3>2, BelowAppend
    <3> QED BY <2>4, <3>1, <3>2
  <2>8. ~closed[r] => Below(inbound'[r], NextChunk(r)) /\ Below(got'[r], NextChunk(r))
    <3>1. ~closed[r] => Below(Tail(inbound[r]), NextChunk(r)) /\ Head(inbound[r]) < NextChunk(r)
      BY <2>1, <2>2, <2>5, TailInOrder
    <3>2. ~closed[r] => Below(Append(got[r], Head(inbound[r])), NextChunk(r))
      BY <2>2, <2>5, <3>1, BelowAppend
    <3> QED BY <2>4, <2>5, <3>1, <3>2
  <2> QED BY <2>3, <2>6, <2>7, <2>8 DEF InOrder
<1> QED
  BY <1>1, <1>2, <1>3, <1>4, <1>6, <1>7, <1>8, <1>9, <1>10, <1>11
  DEF Next, StreamStep, ShimStep, DeviceStep

-----------------------------------------------------------------------------
(* The invariant *)

LEMMA InitIInv == Init => IInv
<1> SUFFICES ASSUME Init PROVE IInv
  OBVIOUS
<1>1. TypeOK
  <2>1. \A S : <<>> \in Seq(S)
    OBVIOUS
  <2>2. 0 \in 0..Chunks /\ 0 \in 0..MaxStreams
    BY BoundAssumption
  <2> QED BY <2>1, <2>2 DEF Init, TypeOK
<1>2. ChunkInHand /\ Stages /\ PendingIsAwaited /\ LiveIsListed /\ PumpHasSocket
  BY DEF Init, ChunkInHand, Stages, PendingIsAwaited, LiveIsListed, PumpHasSocket
<1>3. \A k \in Streams, r \in Requests : ~Opens(queue[k], r) /\ Once(queue[k], r)
  BY OpensEmpty DEF Init
<1>4. DueOnce /\ NoSocket
  BY <1>3 DEF Init, DueOnce, NoSocket, Due
<1>5. InOrder
  <2>1. \A n : Below(<<>>, n) /\ Increasing(<<>>) /\ 1..Len(<<>>) = {}
    BY DEF Increasing, Below
  <2> QED BY <2>1 DEF Init, InOrder
<1> QED BY <1>1, <1>2, <1>4, <1>5 DEF IInv

LEMMA StepIInv == IInv /\ [Next]_vars => IInv'
<1> SUFFICES ASSUME IInv, [Next]_vars PROVE IInv'
  OBVIOUS
<1>1. TypeOK'
  BY TypeStep DEF IInv
<1> QED
  BY <1>1, ChunkStep, RequestStep, LiveStep, SocketStep, PumpStep, OrderStep DEF IInv

LEMMA Invariance == Spec => []IInv
  BY InitIInv, StepIInv, PTL DEF Spec

\* Every variable keeps its type.
THEOREM TypeCorrect == Spec => []TypeOK
<1>1. IInv => TypeOK
  BY DEF IInv
<1> QED BY <1>1, Invariance, PTL

\* RelayHub._pending_open holds exactly the opens that wait for the device's answer,
\* whatever is repeated or late.
THEOREM PendingIsAwaitedHolds == Spec => []PendingIsAwaited
<1>1. IInv => PendingIsAwaited
  BY DEF IInv
<1> QED BY <1>1, Invariance, PTL

\* A tunnel in use that is not closed is in RelayHub._conns.
THEOREM LiveIsListedHolds == Spec => []LiveIsListed
<1>1. IInv => LiveIsListed
  BY DEF IInv
<1> QED BY <1>1, Invariance, PTL

\* A request served by the fallback never has a socket on the device as well.
THEOREM OneEgressHolds == Spec => []OneEgress
<1>1. IInv => OneEgress
  BY DEF IInv, NoSocket, OneEgress
<1> QED BY <1>1, Invariance, PTL

\* detach_device with a queue that was replaced disturbs no tunnel.
THEOREM OldStreamHarmlessHolds == Spec => OldStreamHarmless
<1>1. ASSUME TypeOK, [Next]_vars, NEW k \in Streams,
             streams[k] = "live", streams'[k] = "ended", k # attached
      PROVE  UNCHANGED <<closed, attached, conns>>
  <2> USE DEF tunnel, hub, device
  <2>t. streams \in [Streams -> {"none", "live", "ended"}]
    BY <1>1 DEF TypeOK
  <2>1. ASSUME NEW j \in Streams, StreamEnds(j) PROVE UNCHANGED <<closed, attached, conns>>
    <3>1. j = k
      BY <1>1, <2>1, <2>t DEF StreamEnds
    <3> QED BY <1>1, <2>1, <3>1 DEF StreamEnds
  <2>2. ASSUME NEW j \in Streams, Attach(j) PROVE FALSE
    BY <1>1, <2>2, <2>t DEF Attach
  <2>3. ASSUME NEW j \in Streams, StreamSends(j) PROVE streams' = streams
    BY <2>3 DEF StreamSends
  <2>4. ASSUME GoesStale \/ DeviceDrops \/ DeviceCloses \/ UNCHANGED vars
        PROVE  streams' = streams
    BY <2>4 DEF GoesStale, DeviceDrops, DeviceCloses, vars
  <2>5. ASSUME NEW r \in Requests, ShimStep(r) PROVE streams' = streams
    BY <2>5 DEF ShimStep, Blocked, OpenTunnel, DeviceOpened, DeviceRefused, OpenTimesOut,
                Dialled, DialFails, BrowserSends, UpEnds, BrowserLeaves, UpSeesEnd,
                GivesBrowser, ShuttleEnds, FallbackReads, FallbackEnds
  <2>6. ASSUME NEW r \in Requests, DeviceStep(r) PROVE streams' = streams
    BY <2>6 DEF DeviceStep, WorkerPosts, PumpReads, PumpSeesEnd, PumpPostsData,
                PumpPostsClosed
  <2> QED BY <1>1, <2>1, <2>2, <2>3, <2>4, <2>5, <2>6 DEF Next, StreamStep
<1>2. TypeOK /\ [Next]_vars =>
        [\A k \in Streams : streams[k] = "live" /\ streams'[k] = "ended" /\ k # attached
           => UNCHANGED <<closed, attached, conns>>]_vars
  BY <1>1
<1> QED BY <1>2, TypeCorrect, PTL DEF Spec, OldStreamHarmless

-----------------------------------------------------------------------------
(* The service *)

StageNow == [r \in Requests |-> Stage(r)]
ExitNow  == [r \in Requests |-> Exit(r)]

\* What a step does to one request is what it does to the service's state.
LEMMA ServiceMoves ==
  ASSUME NEW r \in Requests, NEW v, NEW e,
         \A q \in Requests : /\ Stage(q)' = IF q = r THEN v ELSE Stage(q)
                             /\ Exit(q)' = IF q = r THEN e ELSE Exit(q)
  PROVE  /\ StageNow' = [StageNow EXCEPT ![r] = v]
         /\ ExitNow' = [ExitNow EXCEPT ![r] = e]
         /\ v = Stage(r) => StageNow' = StageNow
         /\ e = Exit(r) => ExitNow' = ExitNow
  BY DEF StageNow, ExitNow

LEMMA ServiceStep == IInv /\ [Next]_vars => [Service!Next]_(Service!vars)
<1> SUFFICES ASSUME IInv, [Next]_vars PROVE [Service!Next]_(Service!vars)
  OBVIOUS
<1> USE DEF Set, tunnel, hub, device
<1>t. /\ req \in [Requests -> {"idle", "waiting", "dialling", "open", "refused", "ended"}]
      /\ path \in [Requests -> {"none", "device", "fallback"}]
  BY DEF IInv, TypeOK
<1>s. ASSUME StageNow' = StageNow, ExitNow' = ExitNow, got' = got
      PROVE  UNCHANGED Service!vars
  BY <1>s DEF Service!vars, StageNow, ExitNow
<1>1. CASE UNCHANGED <<req, path, got>>
  <2>1. StageNow' = StageNow /\ ExitNow' = ExitNow
    BY <1>1 DEF StageNow, ExitNow, Stage, Exit
  <2> QED BY <1>1, <1>s, <2>1
<1>2. ASSUME NEW r \in Requests,
             Blocked(r) \/ OpenTunnel(r) \/ DeviceRefused(r) \/ OpenTimesOut(r) \/ DialFails(r)
      PROVE  [Service!Next]_(Service!vars)
  <2>1. /\ \E v \in {"waiting", "dialling", "refused"} : req' = [req EXCEPT ![r] = v]
        /\ req[r] \in {"idle", "waiting", "dialling"}
        /\ path' = path \/ \E v \in {"none", "device"} : path' = [path EXCEPT ![r] = v]
        /\ got' = got
    BY <1>2 DEF Blocked, OpenTunnel, DeviceRefused, OpenTimesOut, DialFails, NoPath
  <2>2. PICK v \in {"connecting", "refused"} :
          \A q \in Requests : /\ Stage(q)' = IF q = r THEN v ELSE Stage(q)
                              /\ Exit(q)' = IF q = r THEN Exit(r) ELSE Exit(q)
    BY <1>t, <2>1 DEF Stage, Exit
  <2>3. StageNow' = [StageNow EXCEPT ![r] = v] /\ ExitNow' = ExitNow
        /\ (v = Stage(r) => StageNow' = StageNow)
    BY <2>2, ServiceMoves
  <2>4. StageNow[r] = Stage(r) /\ Stage(r) \in {"idle", "connecting"}
    BY <2>1 DEF StageNow, Stage
  <2>5. CASE v = Stage(r)
    BY <1>s, <2>1, <2>3, <2>5
  <2>6. CASE Stage(r) = "idle"
    BY <2>1, <2>3, <2>4, <2>6 DEF Service!Next, Service!Asks, StageNow, ExitNow
  <2>7. CASE Stage(r) = "connecting" /\ v = "refused"
    BY <2>1, <2>3, <2>4, <2>7 DEF Service!Next, Service!Refuses, StageNow, ExitNow
  <2> QED BY <2>4, <2>5, <2>6, <2>7
<1>3. ASSUME NEW r \in Requests, DeviceOpened(r) \/ Dialled(r)
      PROVE  [Service!Next]_(Service!vars)
  <2>1. PICK e \in {"device", "fallback"} :
          /\ req' = [req EXCEPT ![r] = "open"] /\ got' = got
          /\ req[r] \in {"waiting", "dialling"}
          /\ \/ path' = path /\ path[r] = e
             \/ path' = [path EXCEPT ![r] = e]
    BY <1>3 DEF DeviceOpened, Dialled, Shuttles, IInv, Stages
  <2>2. \A q \in Requests : /\ Stage(q)' = IF q = r THEN "streaming" ELSE Stage(q)
                            /\ Exit(q)' = IF q = r THEN e ELSE Exit(q)
    BY <1>t, <2>1 DEF Stage, Exit
  <2>3. /\ StageNow' = [StageNow EXCEPT ![r] = "streaming"]
        /\ ExitNow' = [ExitNow EXCEPT ![r] = e] /\ StageNow[r] = "connecting"
    <3>1. StageNow[r] = "connecting"
      BY <2>1 DEF StageNow, Stage
    <3> QED BY <2>2, <3>1, ServiceMoves
  <2> QED
    BY <2>1, <2>3 DEF Service!Next, Service!Accepts, Service!Exits, StageNow, ExitNow
<1>4. ASSUME NEW r \in Requests, ShuttleEnds(r) PROVE [Service!Next]_(Service!vars)
  <2>1. req[r] = "open" /\ req' = [req EXCEPT ![r] = "ended"] /\ UNCHANGED <<path, got>>
    BY <1>4 DEF ShuttleEnds
  <2>2. \A q \in Requests : /\ Stage(q)' = IF q = r THEN "over" ELSE Stage(q)
                            /\ Exit(q)' = IF q = r THEN Exit(r) ELSE Exit(q)
    BY <1>t, <2>1 DEF Stage, Exit
  <2>3. /\ StageNow' = [StageNow EXCEPT ![r] = "over"]
        /\ ExitNow' = ExitNow /\ StageNow[r] = "streaming"
    <3>1. StageNow[r] = "streaming"
      BY <2>1 DEF StageNow, Stage
    <3> QED BY <2>2, <3>1, ServiceMoves
  <2> QED
    BY <2>1, <2>3 DEF Service!Next, Service!Finishes, StageNow, ExitNow
<1>5. ASSUME NEW r \in Requests, GivesBrowser(r) PROVE [Service!Next]_(Service!vars)
  <2>1. /\ UNCHANGED <<req, path>> /\ inbound[r] # <<>>
        /\ \/ got' = got
           \/ Head(inbound[r]) # Eof /\ got' = [got EXCEPT ![r] = Append(@, Head(inbound[r]))]
    BY <1>5 DEF GivesBrowser
  <2>2. CASE got' = got
    BY <1>1, <2>1, <2>2
  <2>3. CASE Head(inbound[r]) # Eof /\ got' = [got EXCEPT ![r] = Append(@, Head(inbound[r]))]
    <3>1. inbound[r] \in Seq(1..Eof)
      BY DEF IInv, TypeOK
    <3>2. Head(inbound[r]) \in 1..Chunks
      <4>1. Head(inbound[r]) \in 1..Eof
        BY <2>1, <3>1, HeadTailProperties
      <4> QED BY <2>3, <4>1, BoundAssumption DEF Eof
    <3>3. \A i \in 1..Len(got[r]) : got[r][i] < Head(inbound[r])
      <4>1. Head(inbound[r]) = inbound[r][1] /\ 1 \in 1..Len(inbound[r])
        BY <2>1, <3>1, EmptySeq
      <4> QED BY <4>1 DEF IInv, InOrder, Below
    <3>4. StageNow' = StageNow /\ ExitNow' = ExitNow /\ StageNow[r] = "streaming"
      <4>1. req[r] = "open"
        BY <1>5 DEF GivesBrowser, IInv, Stages
      <4> QED BY <2>1, <4>1 DEF StageNow, ExitNow, Stage, Exit
    <3> QED BY <2>3, <3>2, <3>3, <3>4 DEF Service!Next, Service!Gives, StageNow, ExitNow
  <2> QED BY <2>1, <2>2, <2>3
<1>6. ASSUME NEW r \in Requests,
             \/ BrowserSends(r) \/ BrowserLeaves(r) \/ UpSeesEnd(r) \/ FallbackReads(r)
             \/ FallbackEnds(r) \/ DeviceStep(r)
      PROVE  UNCHANGED <<req, path, got>>
  BY <1>6 DEF BrowserSends, UpEnds, BrowserLeaves, UpSeesEnd, FallbackReads, FallbackEnds,
              DeviceStep, WorkerPosts, PumpReads, PumpSeesEnd, PumpPostsData, PumpPostsClosed
<1>7. ASSUME StreamStep \/ UNCHANGED vars PROVE UNCHANGED <<req, path, got>>
  BY <1>7 DEF StreamStep, GoesStale, DeviceDrops, DeviceCloses, Attach, StreamEnds,
              StreamSends, vars
<1> QED
  BY <1>1, <1>2, <1>3, <1>4, <1>5, <1>6, <1>7 DEF Next, ShimStep

\* The shim, the hub and the device together keep what TunnelService promises the
\* browser: one exit for a connection's life, and chunks in order, none twice
\* (open_tunnel, _shuttle, upstream and the device's pump).
THEOREM RelayImplementsService == Spec => ServiceKept
<1>1. Init => Service!Init
  BY DEF Init, Service!Init, Stage, Exit
<1>2. IInv /\ [Next]_vars => [Service!Next]_(Service!vars)
  BY ServiceStep
<1> QED BY <1>1, <1>2, Invariance, PTL DEF Spec, ServiceKept, Service!Spec
=============================================================================
