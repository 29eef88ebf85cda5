--------------------------- MODULE Browser_proofs ---------------------------
(***************************************************************************)
(* Theorems about Browser, for every set of tasks and tabs and every bound *)
(* of the ladder.  The inductive invariant IInv has, beside the types, who *)
(* is in the lock's queue (LockInv), what the holder of the lock knows of  *)
(* the engine (EngineInv), where a verdict to go direct can come from      *)
(* (PolicyInv), whose tab is guarded (GuardInv) and how far the ladder     *)
(* counts (TriesInv).  A task's actions are taken in three groups: its     *)
(* calls, what it does inside the lock, and the ladder outside it.         *)
(***************************************************************************)
EXTENDS Browser, SequenceTheorems, TLAPS

\* The awaits inside "async with self._lock", and the wait for it.
Held   == {"close", "exit", "undo", "gate", "enter"}
InLock == Held \union {"lock"}

\* A task is in the queue exactly while it waits for the lock or holds it, once, and the one
\* that is inside is the head.
LockInv ==
  /\ \A t \in Tasks : pc[t] \in InLock <=> Waits(t)
  /\ \A i, j \in 1..Len(queue) : queue[i] = queue[j] => i = j
  /\ \A t \in Tasks : pc[t] \in Held => Holds(t)

\* What the holder of the lock may rely on: an engine has a handle to stop it by, and a launch
\* that is past the tear-down has neither a context nor an engine.
EngineInv ==
  /\ engine # "none" => handle
  /\ engine # "none" => ctx = "up" \/ \E t \in Tasks : pc[t] = "exit"
  /\ \A t \in Tasks : pc[t] \in {"gate", "enter", "undo"} => ctx = "none" /\ engine = "none"
  /\ \A t \in Tasks : pc[t] = "exit" => ctx = "none"
  /\ \A t \in Tasks : pc[t] = "enter" => handle

\* Going direct is decided where the policy allows it, and the verdict survives a launch.
PolicyInv ==
  /\ engine = "direct" \/ wired = "direct" \/ forced => allowDirect
  /\ \A t \in Tasks : pc[t] = "diagnose" => allowDirect

\* A guarded tab is the owner's: no research task holds it or navigates to it, and it is no popup.
GuardInv ==
  /\ \A t \in Research : page[t] \notin guarded /\ target[t] \notin guarded
  /\ popups \intersect guarded = {}
  /\ \A t \in Tasks : why[t] = "start" => t \in Owner /\ session # "open"
  /\ \A t \in Tasks : why[t] = "open" => t \in Research

\* The attempt that is counted last is not followed by another.
TriesInv ==
  \A t \in Tasks : tries[t] <= MaxAttempts /\ (pc[t] # "goto" => tries[t] < MaxAttempts)

IInv == TypeOK /\ LockInv /\ EngineInv /\ PolicyInv /\ GuardInv /\ TriesInv

\* What a step of a task does to the lock.
Shape(t) ==
  \/ pc' = pc /\ queue' = queue
  \/ \E p \in Points :
       /\ pc' = [pc EXCEPT ![t] = p]
       /\ \/ pc[t] \notin InLock /\ p \notin InLock /\ queue' = queue
          \/ pc[t] \notin InLock /\ p = "lock" /\ queue' = Append(queue, t)
          \/ pc[t] \in InLock /\ Holds(t) /\ p \in Held /\ queue' = queue
          \/ pc[t] \in InLock /\ Holds(t) /\ p \notin InLock /\ queue' = Tail(queue)
          \/ /\ pc[t] \in InLock /\ Holds(t) /\ p = "lock"
             /\ queue' = Append(Tail(queue), t)

-----------------------------------------------------------------------------
(* The lock *)

LEMMA ShapeOfCall ==
  ASSUME TypeOK, NEW t \in Tasks, Calls(t)
  PROVE  Shape(t)
<1> USE DEF InLock, Held, Points, Shape
<1>1. ASSUME NEW reason \in Reasons, Begin(t, reason) PROVE Shape(t)
  BY <1>1 DEF Begin, Ensure, Lock
<1>2. CASE OpenMarketplace(t)
  BY <1>1, <1>2 DEF OpenMarketplace, Reasons
<1>3. CASE StartSession(t)
  BY <1>1, <1>3 DEF StartSession, Reasons
<1>4. CASE ClosePage(t)
  BY <1>4 DEF ClosePage
<1>5. ASSUME NEW p \in Pages, Popup(t, p) PROVE Shape(t)
  BY <1>5 DEF Popup
<1>6. ASSUME NEW reason \in Reasons, Navigate(t, reason) PROVE Shape(t)
  BY <1>6 DEF Navigate
<1>7. ASSUME NEW reason \in Reasons, Stop(t, reason) PROVE Shape(t)
  BY <1>7 DEF Stop, Lock
<1>8. CASE Expire(t)
  BY <1>8 DEF Expire, callVars, localVars
<1>9. ASSUME NEW outcome \in {"completed", "cancelled"}, Complete(t, outcome) PROVE Shape(t)
  BY <1>9 DEF Complete
<1>10. CASE Restart(t)
  BY <1>10 DEF Restart, Lock
<1>11. CASE SwitchRelay(t)
  BY <1>11 DEF SwitchRelay, Lock
<1> QED BY <1>2, <1>3, <1>4, <1>5, <1>6, <1>7, <1>8, <1>9, <1>10, <1>11 DEF Calls

\* Inside the lock: the holder stays inside, or leaves and lets go of it.
LEMMA ShapeOfHolder ==
  ASSUME TypeOK, LockInv, NEW t \in Tasks,
         \/ Acquired(t) \/ ContextClosed(t) \/ EngineExited(t)
         \/ Launched(t) \/ LaunchFailed(t) \/ Undone(t)
         \/ \E ok \in BOOLEAN : Gated(t, ok)
  PROVE  Shape(t)
<1> USE DEF InLock, Held, Points, Shape
<1>0. pc[t] \in Held => Holds(t)
  BY DEF LockInv
<1>1. ASSUME Ends(t) PROVE pc' = [pc EXCEPT ![t] = "idle"]
  BY <1>1 DEF Ends
<1>2. ASSUME Proceed(t) PROVE \E p \in {"idle", "ensure", "room"} : pc' = [pc EXCEPT ![t] = p]
  BY <1>1, <1>2 DEF Proceed
<1>3. ASSUME Select(t) PROVE \E p \in {"enter", "gate"} : pc' = [pc EXCEPT ![t] = p]
  BY <1>3 DEF Select, Enter
<1>4. ASSUME LaunchRaises(t)
      PROVE  \/ /\ \E p \in {"idle", "spaced"} : pc' = [pc EXCEPT ![t] = p]
                /\ queue' = Tail(queue)
             \/ pc' = [pc EXCEPT ![t] = "lock"] /\ queue' = Append(Tail(queue), t)
  BY <1>1, <1>4 DEF LaunchRaises, Raises, Release
<1>5. CASE Acquired(t)
  <2>1. pc[t] = "lock" /\ Holds(t)
    BY <1>5 DEF Acquired
  <2>2. \/ queue' = queue /\ pc' = [pc EXCEPT ![t] = "close"]
        \/ queue' = queue /\ pc' = [pc EXCEPT ![t] = "exit"]
        \/ queue' = queue /\ Select(t)
        \/ Release /\ (Ends(t) \/ Proceed(t))
    BY <1>5 DEF Acquired, Finish
  <2> QED BY <2>1, <2>2, <1>1, <1>2, <1>3 DEF Release
<1>6. CASE ContextClosed(t)
  <2>1. pc[t] = "close" /\ queue' = queue
    BY <1>6 DEF ContextClosed
  <2>2. pc' = [pc EXCEPT ![t] = "exit"] \/ Select(t)
    BY <1>6 DEF ContextClosed
  <2> QED BY <2>1, <2>2, <1>0, <1>3
<1>7. CASE EngineExited(t)
  <2>1. \/ queue' = queue /\ (pc' = [pc EXCEPT ![t] = "gate"] \/ Select(t))
        \/ Release /\ Ends(t)
    BY <1>7 DEF EngineExited, Finish
  <2>2. pc[t] = "exit"
    BY <1>7 DEF EngineExited
  <2> QED BY <2>1, <2>2, <1>0, <1>1, <1>3 DEF Release
<1>8. CASE Launched(t)
  <2>1. pc[t] = "enter" /\ Proceed(t) /\ Release
    BY <1>8 DEF Launched
  <2> QED BY <2>1, <1>0, <1>2 DEF Release
<1>9. CASE LaunchFailed(t)
  BY <1>9, <1>0 DEF LaunchFailed
<1>10. CASE Undone(t)
  BY <1>10, <1>0, <1>4 DEF Undone
<1>11. ASSUME NEW ok \in BOOLEAN, Gated(t, ok) PROVE Shape(t)
  <2>1. pc[t] = "gate"
    BY <1>11 DEF Gated
  <2>2. LaunchRaises(t) \/ (queue' = queue /\ pc' = [pc EXCEPT ![t] = "enter"])
    BY <1>11 DEF Gated, Enter
  <2> QED BY <2>1, <2>2, <1>0, <1>4
<1> QED BY <1>5, <1>6, <1>7, <1>8, <1>9, <1>10, <1>11

\* Outside: a task stays outside, or asks for the lock.
LEMMA ShapeOfLadder ==
  ASSUME TypeOK, NEW t \in Tasks,
         \/ EnsureAgain(t) \/ MakeRoom(t) \/ PageRefused(t)
         \/ \E p \in Pages : PageOpened(t, p)
         \/ GotoLoads(t) \/ GotoFails(t) \/ GotoRefused(t)
         \/ \E ok \in BOOLEAN : Diagnosed(t, ok) \/ Spaced(t, ok)
  PROVE  Shape(t)
<1> USE DEF InLock, Held, Points, Shape
<1>1. ASSUME Raises(t) \/ Returns(t) PROVE pc' = [pc EXCEPT ![t] = "idle"]
  BY <1>1 DEF Raises, Returns, Ends
<1>2. ASSUME NEW forcing, Demote(t, forcing)
      PROVE  pc' = [pc EXCEPT ![t] = "lock"] /\ queue' = Append(queue, t)
  BY <1>2 DEF Demote, Lock
<1>3. ASSUME NEW n \in Nat, Escalate(t, n), pc[t] \notin InLock PROVE Shape(t)
  BY <1>1, <1>2, <1>3 DEF Escalate
<1>4. ASSUME NEW p \in {"diagnose", "spaced"}, Suspend(t, p)
      PROVE pc' = [pc EXCEPT ![t] = p] /\ queue' = queue
  BY <1>4 DEF Suspend
<1>5. streak \in Nat /\ Noted \subseteq Nat
  BY BoundsAssumption DEF TypeOK, Noted
<1>6. CASE EnsureAgain(t)
  BY <1>6 DEF EnsureAgain, Ensure, Lock
<1>7. CASE MakeRoom(t)
  BY <1>7 DEF MakeRoom
<1>8. CASE PageRefused(t)
  BY <1>8, <1>1 DEF PageRefused
<1>9. ASSUME NEW p \in Pages, PageOpened(t, p) PROVE Shape(t)
  BY <1>9 DEF PageOpened
<1>10. CASE GotoLoads(t)
  BY <1>10, <1>1 DEF GotoLoads
<1>11. CASE GotoFails(t)
  BY <1>11, <1>1 DEF GotoFails
<1>12. CASE GotoRefused(t)
  <2>1. pc[t] = "goto"
    BY <1>12 DEF GotoRefused
  <2>2. \/ Raises(t) /\ queue' = queue
        \/ \E p \in {"diagnose", "spaced"} : Suspend(t, p)
        \/ \E n \in Noted : Escalate(t, n)
    BY <1>12 DEF GotoRefused
  <2> QED BY <2>1, <2>2, <1>1, <1>3, <1>4, <1>5
<1>13. ASSUME NEW ok \in BOOLEAN, Diagnosed(t, ok) PROVE Shape(t)
  <2>1. pc[t] = "diagnose"
    BY <1>13 DEF Diagnosed
  <2>2. Demote(t, "dead") \/ Suspend(t, "spaced") \/ Escalate(t, streak)
    BY <1>13 DEF Diagnosed
  <2> QED BY <2>1, <2>2, <1>2, <1>3, <1>4, <1>5
<1>14. ASSUME NEW ok \in BOOLEAN, Spaced(t, ok) PROVE Shape(t)
  <2>1. pc[t] = "spaced"
    BY <1>14 DEF Spaced
  <2>2. (pc' = [pc EXCEPT ![t] = "goto"] /\ queue' = queue) \/ Escalate(t, streak)
    BY <1>14 DEF Spaced
  <2> QED BY <2>1, <2>2, <1>3, <1>5
<1> QED BY <1>6, <1>7, <1>8, <1>9, <1>10, <1>11, <1>12, <1>13, <1>14

\* The queue and the places in it, after what a step does to the lock.
LEMMA LockShape ==
  ASSUME TypeOK, LockInv, NEW t \in Tasks, Shape(t)
  PROVE  LockInv' /\ pc' \in [Tasks -> Points] /\ queue' \in Seq(Tasks)
<1> USE DEF InLock, Held, Waits, Holds
<1>0. pc \in [Tasks -> Points] /\ queue \in Seq(Tasks)
  BY DEF TypeOK
<1>1. CASE pc' = pc /\ queue' = queue
  BY <1>0, <1>1 DEF LockInv
<1>2. ASSUME NEW p \in Points, pc' = [pc EXCEPT ![t] = p],
             pc[t] \notin InLock, p \notin InLock, queue' = queue
      PROVE  LockInv' /\ pc' \in [Tasks -> Points] /\ queue' \in Seq(Tasks)
  BY <1>0, <1>2 DEF LockInv
<1>3. ASSUME pc' = [pc EXCEPT ![t] = "lock"], pc[t] \notin InLock, queue' = Append(queue, t)
      PROVE  LockInv' /\ pc' \in [Tasks -> Points] /\ queue' \in Seq(Tasks)
  <2>1. /\ queue' \in Seq(Tasks) /\ Len(queue') = Len(queue) + 1
        /\ \A i \in 1..Len(queue) : queue'[i] = queue[i]
        /\ queue'[Len(queue) + 1] = t /\ Len(queue) \in Nat
    BY <1>0, <1>3, AppendProperties
  <2>2. ~Waits(t)
    BY <1>3 DEF LockInv
  <2>3. pc' \in [Tasks -> Points]
    BY <1>0, <1>3 DEF Points
  <2>4. \A u \in Tasks : pc'[u] \in InLock <=> \E i \in 1..Len(queue') : queue'[i] = u
    <3>1. TAKE u \in Tasks
    <3>2. CASE u = t
      <4>1. Len(queue) + 1 \in 1..Len(queue')
        BY <2>1
      <4> QED BY <3>2, <4>1, <2>1, <1>0, <1>3
    <3>3. CASE u # t
      <4>1. pc'[u] = pc[u]
        BY <1>0, <1>3, <3>3
      <4>2. (\E i \in 1..Len(queue') : queue'[i] = u) <=> \E i \in 1..Len(queue) : queue[i] = u
        BY <2>1, <3>3
      <4> QED BY <4>1, <4>2 DEF LockInv
    <3> QED BY <3>2, <3>3
  <2>5. \A i, j \in 1..Len(queue') : queue'[i] = queue'[j] => i = j
    BY <2>1, <2>2 DEF LockInv
  <2>6. \A u \in Tasks : pc'[u] \in Held => queue' # <<>> /\ Head(queue') = u
    <3>1. SUFFICES ASSUME NEW u \in Tasks, pc'[u] \in Held PROVE queue' # <<>> /\ Head(queue') = u
      OBVIOUS
    <3>2. pc[u] \in Held
      BY <1>0, <1>3, <3>1
    <3>3. queue # <<>> /\ Head(queue) = u
      BY <3>2 DEF LockInv
    <3>4. Len(queue) >= 1 /\ queue[1] = u
      BY <3>3, <1>0, EmptySeq, HeadTailProperties
    <3>5. queue'[1] = u /\ Len(queue') # 0
      BY <2>1, <3>4
    <3> QED BY <2>1, <3>5, EmptySeq, HeadTailProperties
  <2> QED BY <2>1, <2>3, <2>4, <2>5, <2>6 DEF LockInv
<1>4. ASSUME NEW p \in Held, pc' = [pc EXCEPT ![t] = p], pc[t] \in InLock, Holds(t),
             queue' = queue
      PROVE  LockInv' /\ pc' \in [Tasks -> Points] /\ queue' \in Seq(Tasks)
  BY <1>0, <1>4 DEF LockInv, Points
<1>5. ASSUME NEW p \in Points, pc' = [pc EXCEPT ![t] = p], pc[t] \in InLock, Holds(t),
             p \notin InLock, queue' = Tail(queue)
      PROVE  LockInv' /\ pc' \in [Tasks -> Points] /\ queue' \in Seq(Tasks)
  <2>1. queue # <<>> /\ Head(queue) = t
    BY <1>5
  <2>2. /\ queue' \in Seq(Tasks) /\ Len(queue') = Len(queue) - 1 /\ Len(queue) \in Nat \ {0}
        /\ \A i \in 1..Len(queue') : queue'[i] = queue[i + 1]
        /\ queue[1] = t
    BY <1>0, <1>5, <2>1, HeadTailProperties, EmptySeq
  <2>3. pc' \in [Tasks -> Points]
    BY <1>0, <1>5
  <2>4. \A u \in Tasks : pc'[u] \in InLock <=> \E i \in 1..Len(queue') : queue'[i] = u
    <3>1. TAKE u \in Tasks
    <3>2. CASE u = t
      <4>1. \A i \in 1..Len(queue') : queue'[i] # t
        <5>1. TAKE i \in 1..Len(queue')
        <5>2. i + 1 \in 1..Len(queue) /\ 1 \in 1..Len(queue) /\ i + 1 # 1
          BY <2>2
        <5> QED BY <5>2, <2>2 DEF LockInv
      <4> QED BY <3>2, <4>1, <1>0, <1>5
    <3>3. CASE u # t
      <4>1. pc'[u] = pc[u]
        BY <1>0, <1>5, <3>3
      <4>2. ASSUME NEW i \in 1..Len(queue), queue[i] = u
            PROVE  \E j \in 1..Len(queue') : queue'[j] = u
        <5>1. i # 1 /\ i - 1 \in 1..Len(queue')
          BY <4>2, <3>3, <2>2
        <5>2. queue'[i - 1] = queue[(i - 1) + 1]
          BY <5>1, <2>2
        <5> QED BY <5>1, <5>2, <4>2
      <4>3. ASSUME NEW j \in 1..Len(queue'), queue'[j] = u
            PROVE  \E i \in 1..Len(queue) : queue[i] = u
        BY <4>3, <2>2
      <4> QED BY <4>1, <4>2, <4>3 DEF LockInv
    <3> QED BY <3>2, <3>3
  <2>5. \A i, j \in 1..Len(queue') : queue'[i] = queue'[j] => i = j
    <3>1. TAKE i, j \in 1..Len(queue')
    <3>2. i + 1 \in 1..Len(queue) /\ j + 1 \in 1..Len(queue)
      BY <2>2
    <3>3. queue'[i] = queue'[j] => i + 1 = j + 1
      BY <3>2, <2>2 DEF LockInv
    <3> QED BY <3>2, <3>3
  <2>6. \A u \in Tasks : pc'[u] \notin Held
    <3>1. TAKE u \in Tasks
    <3>2. u # t => pc'[u] = pc[u] /\ pc[u] \notin Held
      BY <1>0, <1>5, <2>1 DEF LockInv
    <3> QED BY <3>2, <1>0, <1>5
  <2> QED BY <2>2, <2>3, <2>4, <2>5, <2>6 DEF LockInv
<1>6. ASSUME pc' = [pc EXCEPT ![t] = "lock"], pc[t] \in InLock, Holds(t),
             queue' = Append(Tail(queue), t)
      PROVE  LockInv' /\ pc' \in [Tasks -> Points] /\ queue' \in Seq(Tasks)
  <2>1. queue # <<>> /\ Head(queue) = t
    BY <1>6
  <2>20. /\ Tail(queue) \in Seq(Tasks) /\ Len(Tail(queue)) = Len(queue) - 1
         /\ Len(queue) \in Nat \ {0} /\ queue[1] = t
         /\ \A i \in 1..Len(Tail(queue)) : Tail(queue)[i] = queue[i + 1]
    BY <1>0, <2>1, HeadTailProperties, EmptySeq
  <2>2. PICK rest \in Seq(Tasks) :
          /\ rest = Tail(queue) /\ Len(rest) = Len(queue) - 1 /\ Len(queue) \in Nat \ {0}
          /\ \A i \in 1..Len(rest) : rest[i] = queue[i + 1]
          /\ queue[1] = t
    BY <2>20
  <2>3. /\ queue' \in Seq(Tasks) /\ Len(queue') = Len(rest) + 1
        /\ \A i \in 1..Len(rest) : queue'[i] = rest[i]
        /\ queue'[Len(rest) + 1] = t
    BY <1>6, <2>2, AppendProperties
  <2>4. /\ Len(queue') = Len(queue) /\ queue'[Len(queue)] = t
        /\ \A i \in 1..Len(queue) - 1 : queue'[i] = queue[i + 1]
    BY <2>2, <2>3
  <2>9. ASSUME NEW k \in 1..Len(queue'), k # Len(queue)
        PROVE  /\ k \in 1..Len(queue) - 1 /\ k + 1 \in 1..Len(queue) /\ k + 1 # 1
               /\ queue'[k] = queue[k + 1]
    <3>1. Len(queue) \in Nat /\ k \in 1..Len(queue)
      BY <2>2, <2>4
    <3>2. k \in 1..Len(queue) - 1 /\ k + 1 \in 1..Len(queue) /\ k + 1 # 1
      BY <3>1, <2>9
    <3> QED BY <3>2, <2>4
  <2>5. pc' \in [Tasks -> Points]
    BY <1>0, <1>6 DEF Points
  <2>6. \A u \in Tasks : pc'[u] \in InLock <=> \E i \in 1..Len(queue') : queue'[i] = u
    <3>1. TAKE u \in Tasks
    <3>2. CASE u = t
      <4>1. Len(queue) \in 1..Len(queue')
        BY <2>2, <2>4
      <4> QED BY <3>2, <4>1, <2>4, <1>0, <1>6
    <3>3. CASE u # t
      <4>1. pc'[u] = pc[u]
        BY <1>0, <1>6, <3>3
      <4>2. ASSUME NEW i \in 1..Len(queue), queue[i] = u
            PROVE  \E j \in 1..Len(queue') : queue'[j] = u
        <5>1. i # 1 /\ i - 1 \in 1..Len(queue) - 1 /\ i - 1 \in 1..Len(queue')
          BY <4>2, <3>3, <2>2, <2>4
        <5>2. queue'[i - 1] = queue[(i - 1) + 1]
          BY <5>1, <2>4
        <5> QED BY <5>1, <5>2, <4>2
      <4>3. ASSUME NEW j \in 1..Len(queue'), queue'[j] = u
            PROVE  \E i \in 1..Len(queue) : queue[i] = u
        <5>1. j # Len(queue)
          BY <4>3, <3>3, <2>4
        <5> QED BY <5>1, <4>3, <2>9
      <4> QED BY <4>1, <4>2, <4>3 DEF LockInv
    <3> QED BY <3>2, <3>3
  <2>7. \A i, j \in 1..Len(queue') : queue'[i] = queue'[j] => i = j
    <3>1. SUFFICES ASSUME NEW i \in 1..Len(queue'), NEW j \in 1..Len(queue'), queue'[i] = queue'[j]
                   PROVE  i = j
      OBVIOUS
    <3>2. \A k \in 1..Len(queue') :
            k # Len(queue) => queue'[k] = queue[k + 1] /\ k + 1 \in 1..Len(queue) /\ k + 1 # 1
      BY <2>9
    <3>3. 1 \in 1..Len(queue)
      BY <2>2
    <3>4. ASSUME NEW k \in 1..Len(queue'), k # Len(queue) PROVE queue'[k] # t
      <4>1. queue'[k] = queue[k + 1] /\ k + 1 \in 1..Len(queue) /\ k + 1 # 1
        BY <3>2, <3>4
      <4>2. queue[k + 1] # queue[1]
        BY <4>1, <3>3 DEF LockInv
      <4> QED BY <4>1, <4>2, <2>2
    <3>5. CASE i = Len(queue) \/ j = Len(queue)
      BY <3>1, <3>4, <3>5, <2>4
    <3>6. CASE i # Len(queue) /\ j # Len(queue)
      <4>1. i + 1 = j + 1
        BY <3>1, <3>2, <3>6 DEF LockInv
      <4> QED BY <4>1, <2>2, <2>4
    <3> QED BY <3>5, <3>6
  <2>8. \A u \in Tasks : pc'[u] \notin Held
    <3>1. TAKE u \in Tasks
    <3>2. u # t => pc'[u] = pc[u] /\ pc[u] \notin Held
      BY <1>0, <1>6, <2>1 DEF LockInv
    <3> QED BY <3>2, <1>0, <1>6
  <2> QED BY <2>3, <2>5, <2>6, <2>7, <2>8 DEF LockInv
<1> QED BY <1>1, <1>2, <1>3, <1>4, <1>5, <1>6 DEF Shape

-----------------------------------------------------------------------------
(* The groups of actions *)

Holder(t) ==
  \/ Acquired(t) \/ ContextClosed(t) \/ EngineExited(t)
  \/ Launched(t) \/ LaunchFailed(t) \/ Undone(t)
  \/ \E ok \in BOOLEAN : Gated(t, ok)

Ladder(t) ==
  \/ EnsureAgain(t) \/ MakeRoom(t) \/ PageRefused(t)
  \/ \E p \in Pages : PageOpened(t, p)
  \/ GotoLoads(t) \/ GotoFails(t) \/ GotoRefused(t)
  \/ \E ok \in BOOLEAN : Diagnosed(t, ok) \/ Spaced(t, ok)

LEMMA Groups ==
  ASSUME NEW t \in Tasks, Steps(t)
  PROVE  Holder(t) \/ Ladder(t)
<1>1. ASSUME NEW ok \in BOOLEAN, Gated(t, ok) \/ Diagnosed(t, ok) \/ Spaced(t, ok)
      PROVE  Holder(t) \/ Ladder(t)
  BY <1>1 DEF Holder, Ladder
<1> QED BY <1>1 DEF Steps, Holder, Ladder

LEMMA ShapeOfStep ==
  ASSUME TypeOK, LockInv, NEW t \in Tasks, Calls(t) \/ Holder(t) \/ Ladder(t)
  PROVE  Shape(t)
BY ShapeOfCall, ShapeOfHolder, ShapeOfLadder DEF Holder, Ladder

\* A caller touches neither the engine nor the egress.
LEMMA CallLeaves ==
  ASSUME TypeOK, NEW t \in Tasks, Calls(t)
  PROVE  /\ UNCHANGED <<allowDirect, egressVars, engineVars>>
         /\ pc' = pc \/ \E p \in {"lock", "room", "goto"} : pc[t] = "idle" /\ pc' = [pc EXCEPT ![t] = p]
<1> USE DEF egressVars, engineVars
<1>1. ASSUME NEW reason, Begin(t, reason)
      PROVE  /\ UNCHANGED <<allowDirect, egressVars, engineVars>>
             /\ \E p \in {"lock", "room"} : pc[t] = "idle" /\ pc' = [pc EXCEPT ![t] = p]
  BY <1>1 DEF Begin, Ensure, Lock
<1>2. CASE OpenMarketplace(t)
  BY <1>1, <1>2 DEF OpenMarketplace
<1>3. CASE StartSession(t)
  BY <1>1, <1>3 DEF StartSession
<1>4. CASE ClosePage(t)
  BY <1>4 DEF ClosePage
<1>5. ASSUME NEW p \in Pages, Popup(t, p) PROVE UNCHANGED <<allowDirect, egressVars, engineVars, pc>>
  BY <1>5 DEF Popup
<1>6. CASE \E reason \in Reasons : Navigate(t, reason)
  BY <1>6 DEF Navigate
<1>7. CASE \E reason \in Reasons : Stop(t, reason)
  BY <1>7 DEF Stop, Lock
<1>8. CASE Expire(t)
  BY <1>8 DEF Expire
<1>9. ASSUME NEW outcome \in {"completed", "cancelled"}, Complete(t, outcome)
      PROVE  UNCHANGED <<allowDirect, egressVars, engineVars, pc>>
  BY <1>9 DEF Complete
<1>10. CASE Restart(t)
  BY <1>10 DEF Restart, Lock
<1>11. CASE SwitchRelay(t)
  BY <1>11 DEF SwitchRelay, Lock
<1> QED BY <1>2, <1>3, <1>4, <1>5, <1>6, <1>7, <1>8, <1>9, <1>10, <1>11 DEF Calls

\* The ladder of a goto touches no engine, and reaches a verdict only where the policy allows it.
LEMMA LadderLeaves ==
  ASSUME TypeOK, PolicyInv, NEW t \in Tasks, Ladder(t)
  PROVE  /\ UNCHANGED <<allowDirect, engineVars>> /\ pc[t] \notin InLock
         /\ forced' => allowDirect
         /\ \E p \in Points \ Held : /\ pc' = [pc EXCEPT ![t] = p]
                                     /\ p = "diagnose" => allowDirect
<1> USE DEF egressVars, engineVars, InLock, Held, Points, PolicyInv
<1>1. ASSUME Raises(t) \/ Returns(t) PROVE pc' = [pc EXCEPT ![t] = "idle"]
  BY <1>1 DEF Raises, Returns, Ends
<1>2. ASSUME NEW forcing, Demote(t, forcing) PROVE pc' = [pc EXCEPT ![t] = "lock"]
  BY <1>2 DEF Demote, Lock
<1>3. ASSUME NEW n, Escalate(t, n)
      PROVE  /\ forced' => allowDirect
             /\ \E p \in {"lock", "idle"} : pc' = [pc EXCEPT ![t] = p]
  BY <1>1, <1>2, <1>3 DEF Escalate, MayDemote
<1>4. ASSUME NEW p, Suspend(t, p) PROVE pc' = [pc EXCEPT ![t] = p] /\ forced' = forced
  BY <1>4 DEF Suspend
<1>5. CASE EnsureAgain(t)
  BY <1>5 DEF EnsureAgain, Ensure, Lock
<1>6. CASE MakeRoom(t)
  BY <1>6 DEF MakeRoom
<1>7. CASE PageRefused(t)
  BY <1>7, <1>1 DEF PageRefused
<1>8. ASSUME NEW q \in Pages, PageOpened(t, q)
      PROVE  /\ UNCHANGED <<allowDirect, engineVars, forced>> /\ pc[t] = "tab"
             /\ pc' = [pc EXCEPT ![t] = "goto"]
  BY <1>8 DEF PageOpened
<1>9. CASE GotoLoads(t)
  BY <1>9, <1>1 DEF GotoLoads
<1>10. CASE GotoFails(t)
  BY <1>10, <1>1 DEF GotoFails
<1>11. CASE GotoRefused(t)
  <2>1. pc[t] = "goto" /\ UNCHANGED <<allowDirect, engineVars>>
    BY <1>11 DEF GotoRefused
  <2>2. \/ Raises(t) /\ forced' = forced
        \/ allowDirect /\ Suspend(t, "diagnose")
        \/ Suspend(t, "spaced")
        \/ \E n \in Noted : Escalate(t, n)
    BY <1>11 DEF GotoRefused
  <2> QED BY <2>1, <2>2, <1>1, <1>3, <1>4
<1>12. ASSUME NEW ok \in BOOLEAN, Diagnosed(t, ok)
       PROVE  /\ UNCHANGED <<allowDirect, engineVars>> /\ pc[t] = "diagnose"
              /\ forced' => allowDirect
              /\ \E p \in {"lock", "idle", "spaced"} : pc' = [pc EXCEPT ![t] = p]
  <2>1. pc[t] = "diagnose" /\ UNCHANGED <<allowDirect, engineVars>>
    BY <1>12 DEF Diagnosed
  <2>2. Demote(t, "dead") \/ Suspend(t, "spaced") \/ Escalate(t, streak)
    BY <1>12 DEF Diagnosed
  <2> QED BY <2>1, <2>2, <1>2, <1>3, <1>4
<1>13. ASSUME NEW ok \in BOOLEAN, Spaced(t, ok)
       PROVE  /\ UNCHANGED <<allowDirect, engineVars>> /\ pc[t] = "spaced"
              /\ forced' => allowDirect
              /\ \E p \in {"lock", "idle", "goto"} : pc' = [pc EXCEPT ![t] = p]
  <2>1. pc[t] = "spaced" /\ UNCHANGED <<allowDirect, engineVars>>
    BY <1>13 DEF Spaced
  <2>2. (pc' = [pc EXCEPT ![t] = "goto"] /\ forced' = forced) \/ Escalate(t, streak)
    BY <1>13 DEF Spaced
  <2> QED BY <2>1, <2>2, <1>3
<1> QED BY <1>5, <1>6, <1>7, <1>8, <1>9, <1>10, <1>11, <1>12, <1>13 DEF Ladder

-----------------------------------------------------------------------------
(* The engine and the policy *)

LEMMA EngineOutside ==
  ASSUME TypeOK, EngineInv, UNCHANGED engineVars, NEW t \in Tasks,
         \/ pc' = pc
         \/ \E p \in Points \ Held : pc[t] \notin Held /\ pc' = [pc EXCEPT ![t] = p]
  PROVE  EngineInv'
BY DEF TypeOK, EngineInv, engineVars, Held

\* One engine, one launch: while t holds the lock nobody else is past its tear-down.
LEMMA EngineInside ==
  ASSUME TypeOK, LockInv, EngineInv, PolicyInv, NEW t \in Tasks, Holder(t)
  PROVE  EngineInv' /\ PolicyInv'
<1> USE DEF Held
<1>0. /\ pc \in [Tasks -> Points]
      /\ pc[t] \in Held => \A u \in Tasks \ {t} : pc[u] \notin Held
      /\ Holds(t) => \A u \in Tasks \ {t} : pc[u] \notin Held
  BY DEF TypeOK, LockInv, Holds
<1>1. ASSUME Ends(t) PROVE pc' = [pc EXCEPT ![t] = "idle"]
  BY <1>1 DEF Ends
<1>2. ASSUME Proceed(t) PROVE \E p \in {"idle", "ensure", "room"} : pc' = [pc EXCEPT ![t] = p]
  BY <1>1, <1>2 DEF Proceed
<1>3. ASSUME Select(t)
      PROVE  /\ \E p \in {"enter", "gate"} : pc' = [pc EXCEPT ![t] = p] /\ (p = "enter" => handle')
             /\ wired' = "direct" => wired = "direct" \/ forced
             /\ forced' => forced
  BY <1>3 DEF Select, Enter
<1>4. ASSUME LaunchRaises(t)
      PROVE  /\ \E p \in {"idle", "spaced", "lock"} : pc' = [pc EXCEPT ![t] = p]
             /\ forced' => forced \/ allowDirect
  BY <1>1, <1>4 DEF LaunchRaises, Raises, MayDemote
\* Anyone's other than t's place in the engine's invariant is untouched.
<1>5. ASSUME NEW p \in Points, pc' = [pc EXCEPT ![t] = p],
             \A u \in Tasks \ {t} : pc[u] \notin Held,
             engine' # "none" => handle' /\ (ctx' = "up" \/ p = "exit"),
             p \in {"gate", "enter", "undo"} => ctx' = "none" /\ engine' = "none",
             p = "exit" => ctx' = "none", p = "enter" => handle'
      PROVE  EngineInv'
  BY <1>0, <1>5 DEF EngineInv
<1>6. ASSUME NEW p \in Points \ {"diagnose"}, pc' = [pc EXCEPT ![t] = p], allowDirect' = allowDirect,
             engine' = "direct" \/ wired' = "direct" \/ forced' => allowDirect
      PROVE  PolicyInv'
  BY <1>0, <1>6 DEF PolicyInv
<1> USE DEF Points
<1>7. CASE Acquired(t)
  <2>1. Holds(t) /\ pc[t] = "lock" /\ UNCHANGED <<allowDirect, ctx, engine>>
    BY <1>7 DEF Acquired
  <2>2. engine # "none" => handle /\ ctx = "up"
    BY <2>1, <1>0 DEF EngineInv
  <2>3. CASE /\ pc' \in {[pc EXCEPT ![t] = "close"], [pc EXCEPT ![t] = "exit"]}
             /\ UNCHANGED <<forced, wired, handle>>
    <3>1. pc' = [pc EXCEPT ![t] = "exit"] => ctx = "none"
      BY <1>0, <1>7, <2>1, <2>3 DEF Acquired, TearsDown, Finish, Proceed, Ends, Select, Enter
    <3> QED BY <3>1, <2>1, <2>2, <2>3, <1>0, <1>5, <1>6 DEF PolicyInv
  <2>4. CASE (Ends(t) \/ Proceed(t)) /\ UNCHANGED <<forced, wired, handle>>
    <3>1. PICK p \in {"idle", "ensure", "room"} : pc' = [pc EXCEPT ![t] = p]
      BY <2>4, <1>1, <1>2
    <3> QED BY <3>1, <2>1, <2>2, <2>4, <1>0, <1>5, <1>6 DEF PolicyInv
  <2>5. CASE Select(t) /\ ~TearsDown(t) /\ ~Stopping(t) /\ ~Running
    <3>1. PICK p \in {"enter", "gate"} : pc' = [pc EXCEPT ![t] = p] /\ (p = "enter" => handle')
      BY <2>5, <1>3
    <3>2. ctx = "none"
      BY <2>5 DEF TearsDown, Stopping
    <3>3. engine = "none"
      BY <2>2, <3>2
    <3>4. engine' = "direct" \/ wired' = "direct" \/ forced' => allowDirect
      BY <2>1, <2>5, <1>3 DEF PolicyInv
    <3> QED BY <3>1, <3>2, <3>3, <3>4, <2>1, <1>0, <1>5, <1>6
  <2>6. \/ /\ pc' \in {[pc EXCEPT ![t] = "close"], [pc EXCEPT ![t] = "exit"]}
           /\ UNCHANGED <<forced, wired, handle>>
        \/ (Ends(t) \/ Proceed(t)) /\ UNCHANGED <<forced, wired, handle>>
        \/ Select(t) /\ ~TearsDown(t) /\ ~Stopping(t) /\ ~Running
    BY <1>7 DEF Acquired, Finish
  <2> QED BY <2>3, <2>4, <2>5, <2>6
<1>8. CASE ContextClosed(t)
  <2>1. pc[t] = "close" /\ UNCHANGED <<allowDirect, engine>> /\ ctx' = "none"
    BY <1>8 DEF ContextClosed
  <2>2. engine # "none" => handle
    BY DEF EngineInv
  <2>3. CASE handle /\ pc' = [pc EXCEPT ![t] = "exit"] /\ UNCHANGED <<forced, wired, handle>>
    BY <2>1, <2>2, <2>3, <1>0, <1>5, <1>6 DEF PolicyInv
  <2>4. CASE ~handle /\ Select(t)
    <3>1. PICK p \in {"enter", "gate"} : pc' = [pc EXCEPT ![t] = p] /\ (p = "enter" => handle')
      BY <2>4, <1>3
    <3>2. engine' = "direct" \/ wired' = "direct" \/ forced' => allowDirect
      BY <2>1, <2>4, <1>3 DEF PolicyInv
    <3> QED BY <3>1, <3>2, <2>1, <2>2, <2>4, <1>0, <1>5, <1>6
  <2> QED BY <2>3, <2>4, <1>8 DEF ContextClosed
<1>9. CASE EngineExited(t)
  <2>1. pc[t] = "exit" /\ UNCHANGED <<allowDirect, ctx>> /\ engine' = "none" /\ ctx = "none"
    BY <1>9 DEF EngineExited, EngineInv
  <2>2. CASE Select(t)
    <3>1. PICK p \in {"enter", "gate"} : pc' = [pc EXCEPT ![t] = p] /\ (p = "enter" => handle')
      BY <2>2, <1>3
    <3>2. engine' = "direct" \/ wired' = "direct" \/ forced' => allowDirect
      BY <2>1, <2>2, <1>3 DEF PolicyInv
    <3> QED BY <3>1, <3>2, <2>1, <1>0, <1>5, <1>6
  <2>3. CASE (Ends(t) \/ pc' = [pc EXCEPT ![t] = "gate"]) /\ UNCHANGED <<forced, wired>>
    <3>1. PICK p \in {"idle", "gate"} : pc' = [pc EXCEPT ![t] = p]
      BY <2>3, <1>1
    <3> QED BY <3>1, <2>1, <2>3, <1>0, <1>5, <1>6 DEF PolicyInv
  <2> QED BY <2>2, <2>3, <1>9 DEF EngineExited, Finish
<1>10. CASE Launched(t)
  <2>1. /\ pc[t] = "enter" /\ UNCHANGED <<allowDirect, handle, forced>> /\ ctx' = "up"
        /\ engine' = wired /\ wired' = "none" /\ Proceed(t)
    BY <1>10 DEF Launched
  <2>2. PICK p \in {"idle", "ensure", "room"} : pc' = [pc EXCEPT ![t] = p]
    BY <2>1, <1>2
  <2>3. wired # "none" => handle
    BY <2>1 DEF EngineInv
  <2> QED BY <2>1, <2>2, <2>3, <1>0, <1>5, <1>6 DEF PolicyInv
<1>11. CASE LaunchFailed(t)
  <2>1. /\ pc[t] = "enter" /\ pc' = [pc EXCEPT ![t] = "undo"] /\ wired' = "none"
        /\ UNCHANGED <<allowDirect, ctx, handle, engine, forced>>
    BY <1>11 DEF LaunchFailed, egressVars
  <2>2. ctx = "none" /\ engine = "none"
    BY <2>1 DEF EngineInv
  <2> QED BY <2>1, <2>2, <1>0, <1>5, <1>6 DEF PolicyInv
<1>12. CASE Undone(t)
  <2>1. /\ pc[t] = "undo" /\ LaunchRaises(t) /\ UNCHANGED <<allowDirect, ctx, engine, wired>>
    BY <1>12 DEF Undone
  <2>2. ctx = "none" /\ engine = "none"
    BY <2>1 DEF EngineInv
  <2> QED BY <2>1, <2>2, <1>0, <1>4, <1>5, <1>6 DEF PolicyInv
<1>13. ASSUME NEW ok \in BOOLEAN, Gated(t, ok) PROVE EngineInv' /\ PolicyInv'
  <2>1. pc[t] = "gate" /\ UNCHANGED <<allowDirect, ctx, engine>>
    BY <1>13 DEF Gated
  <2>2. ctx = "none" /\ engine = "none"
    BY <2>1 DEF EngineInv
  <2>3. CASE LaunchRaises(t) /\ wired' = wired
    BY <2>1, <2>2, <2>3, <1>0, <1>4, <1>5, <1>6 DEF PolicyInv
  <2>4. CASE /\ ok \/ allowDirect
             /\ Enter(t, IF ok THEN "proxy" ELSE "direct") /\ forced' = forced
    <3>1. pc' = [pc EXCEPT ![t] = "enter"] /\ handle' /\ (wired' = "direct" => allowDirect)
      BY <2>4 DEF Enter
    <3> QED BY <3>1, <2>1, <2>2, <2>4, <1>0, <1>5, <1>6 DEF PolicyInv
  <2> QED BY <2>3, <2>4, <1>13 DEF Gated
<1> QED BY <1>7, <1>8, <1>9, <1>10, <1>11, <1>12, <1>13 DEF Holder

LEMMA PolicyOutside ==
  ASSUME TypeOK, PolicyInv, NEW t \in Tasks, Calls(t) \/ Ladder(t)
  PROVE  PolicyInv'
<1> USE DEF PolicyInv, TypeOK, engineVars, egressVars
<1>1. CASE Calls(t)
  BY <1>1, CallLeaves
<1>2. CASE Ladder(t)
  BY <1>2, LadderLeaves
<1> QED BY <1>1, <1>2

-----------------------------------------------------------------------------
(* The owner's tab *)

\* Whose guarded tab a step may take.
Kept ==
  \A p \in guarded \ guarded' :
     \/ tabs' = {}
     \/ \E t \in Owner : page[t] = p /\ page'[t] # p /\ session' # "open"

\* Nothing new is guarded, held, navigated to or popped up.
LEMMA NothingNew ==
  ASSUME TypeOK, GuardInv, guarded' \subseteq guarded, popups' \subseteq popups,
         \A u \in Research : /\ page'[u] \in {page[u], target[u], NoPage}
                             /\ target'[u] \in {page[u], target[u], NoPage},
         \A u \in Tasks : why'[u] = "start" => u \in Owner /\ session' # "open",
         \A u \in Tasks : why'[u] = "open" => u \in Research
  PROVE  GuardInv'
<1>1. NoPage \notin guarded
  BY PagesAssumption DEF TypeOK
<1>2. \A u \in Research : page[u] \notin guarded /\ target[u] \notin guarded
  BY DEF GuardInv
<1>3. \A u \in Research : page'[u] \notin guarded' /\ target'[u] \notin guarded'
  <2>1. TAKE u \in Research
  <2>2. page'[u] \in {page[u], target[u], NoPage} /\ target'[u] \in {page[u], target[u], NoPage}
    OBVIOUS
  <2>3. page[u] \notin guarded /\ target[u] \notin guarded
    BY <1>2
  <2> QED BY <2>2, <2>3, <1>1
<1>4. popups' \intersect guarded' = {}
  BY DEF GuardInv
<1> QED BY <1>3, <1>4 DEF GuardInv

LEMMA EndsNothingNew ==
  ASSUME TypeOK, GuardInv, NEW t \in Tasks, Ends(t)
  PROVE  /\ \A u \in Research : target'[u] \in {target[u], NoPage}
         /\ \A u \in Tasks : why'[u] = "start" => u # t /\ why[u] = "start"
         /\ \A u \in Tasks : why'[u] = "open" => u \in Research
BY DEF Ends, TypeOK, GuardInv, Tasks

LEMMA GuardAfterRaise ==
  ASSUME TypeOK, GuardInv, NEW t \in Tasks, Raises(t), UNCHANGED <<session, popups>>
  PROVE  GuardInv' /\ Kept
<1>1. \A u \in Research : page'[u] \in {page[u], NoPage}
  BY DEF Raises, TypeOK, Tasks
<1>2. guarded' \subseteq guarded
  BY DEF Raises
<1>3. Kept
  <2>1. SUFFICES ASSUME NEW p \in guarded, p \notin guarded'
                 PROVE  \E u \in Owner : page[u] = p /\ page'[u] # p /\ session' # "open"
    BY DEF Kept
  <2>2. Opens(t) /\ page[t] = p /\ page'[t] = NoPage
    BY <2>1 DEF Raises, TypeOK
  <2>3. t \notin Research
    BY <2>2, <2>1 DEF GuardInv
  <2>4. t \in Owner /\ session' # "open"
    BY <2>2, <2>3 DEF Opens, GuardInv
  <2> QED BY <2>2, <2>4, <2>1, PagesAssumption DEF TypeOK
<1>4. Ends(t)
  BY DEF Raises
<1> QED BY <1>1, <1>2, <1>3, <1>4, EndsNothingNew, NothingNew DEF GuardInv

\* A step that leaves the tabs that are guarded, held, navigated to and popped up.
LEMMA GuardAside ==
  ASSUME TypeOK, GuardInv, UNCHANGED <<guarded, page, session, popups>>,
         \A u \in Research : target'[u] \in {target[u], page[u], NoPage},
         \A u \in Tasks : why'[u] \in {why[u], "none", "go", "act", "restart", "stop", "idle"}
  PROVE  GuardInv' /\ Kept
BY NothingNew DEF GuardInv, Kept

LEMMA GuardCalls ==
  ASSUME TypeOK, GuardInv, NEW t \in Tasks, Calls(t)
  PROVE  GuardInv' /\ Kept
<1>0. /\ page \in [Tasks -> Pages \union {NoPage}] /\ target \in [Tasks -> Pages \union {NoPage}]
      /\ why \in [Tasks -> Reasons] /\ guarded \subseteq Pages /\ guarded \subseteq tabs
      /\ Research \subseteq Tasks /\ Owner \subseteq Tasks
  BY DEF TypeOK, Tasks
<1>1. CASE OpenMarketplace(t)
  BY <1>0, <1>1, NothingNew DEF OpenMarketplace, Begin, tabVars, GuardInv, Kept
<1>2. CASE StartSession(t)
  <2>1. /\ t \in Owner /\ t \notin Research /\ session # "open" /\ why' = [why EXCEPT ![t] = "start"]
        /\ page' = [page EXCEPT ![t] = NoPage] /\ popups' = {}
        /\ UNCHANGED <<guarded, session, target>>
    BY <1>2, TasksAssumption DEF StartSession, Begin, tabVars
  <2> QED BY <1>0, <2>1, NothingNew DEF GuardInv, Kept
<1>3. CASE ClosePage(t)
  BY <1>0, <1>3, NothingNew DEF ClosePage, ownerVars, GuardInv, Kept
<1>4. ASSUME NEW p \in Pages, Popup(t, p) PROVE GuardInv' /\ Kept
  BY <1>0, <1>4 DEF Popup, FreshPages, callVars, localVars, GuardInv, Kept
<1>5. ASSUME NEW reason \in Reasons, Navigate(t, reason) PROVE GuardInv' /\ Kept
  <2>1. /\ reason \in {"go", "act"} /\ why' = [why EXCEPT ![t] = reason]
        /\ target' = [target EXCEPT ![t] = page[t]]
        /\ UNCHANGED <<guarded, page, session, popups>>
    BY <1>5 DEF Navigate, tabVars, ownerVars
  <2> QED BY <1>0, <2>1, GuardAside
<1>6. ASSUME NEW reason \in Reasons, Stop(t, reason) PROVE GuardInv' /\ Kept
  <2>1. /\ reason \in {"stop", "idle"} /\ why' = [why EXCEPT ![t] = reason]
        /\ UNCHANGED <<guarded, page, target, session, popups>>
    BY <1>6 DEF Stop, tabVars, ownerVars
  <2> QED BY <1>0, <2>1, GuardAside
<1>7. CASE Expire(t)
  <2>1. session' = "expired" /\ UNCHANGED <<guarded, page, target, popups, why>>
    BY <1>7 DEF Expire, tabVars, callVars, localVars
  <2> QED BY <1>0, <2>1, NothingNew DEF GuardInv, Kept
<1>8. ASSUME NEW outcome \in {"completed", "cancelled"}, Complete(t, outcome) PROVE GuardInv' /\ Kept
  <2>1. /\ t \in Owner /\ session' # "open" /\ popups' = {}
        /\ guarded' = guarded \ SessionTabs(t)
        /\ page' = [page EXCEPT ![t] = NoPage] /\ UNCHANGED <<target, why>>
    BY <1>8 DEF Complete
  <2>2. GuardInv'
    BY <1>0, <2>1, NothingNew DEF GuardInv
  <2>3. ASSUME NEW p \in guarded \ guarded' PROVE page[t] = p /\ page'[t] # p
    BY <1>0, <2>1, <2>3, PagesAssumption DEF SessionTabs, GuardInv
  <2> QED BY <2>1, <2>2, <2>3 DEF Kept
<1>9. CASE Restart(t)
  BY <1>0, <1>9, GuardAside DEF Restart, tabVars, ownerVars
<1>10. CASE SwitchRelay(t)
  BY <1>0, <1>10, GuardAside DEF SwitchRelay, tabVars, ownerVars
<1> QED BY <1>1, <1>2, <1>3, <1>4, <1>5, <1>6, <1>7, <1>8, <1>9, <1>10 DEF Calls

LEMMA GuardHolder ==
  ASSUME TypeOK, GuardInv, NEW t \in Tasks, Holder(t)
  PROVE  GuardInv' /\ Kept
<1>0. Research \subseteq Tasks
  BY DEF Tasks
<1>1. ASSUME Ends(t) \/ UNCHANGED <<why, target>>, UNCHANGED <<guarded, page, session, popups>>
      PROVE  GuardInv' /\ Kept
  BY <1>1, EndsNothingNew, NothingNew DEF GuardInv, Kept
<1>2. ASSUME LaunchRaises(t), UNCHANGED <<session, popups>> PROVE GuardInv' /\ Kept
  BY <1>1, <1>2, GuardAfterRaise DEF LaunchRaises, tabVars, localVars
<1>3. ASSUME Proceed(t) PROVE Ends(t) \/ UNCHANGED <<why, target>>
  BY <1>3 DEF Proceed
<1>5. CASE Acquired(t)
  <2>1. UNCHANGED <<guarded, page, session, popups>> /\ (Ends(t) \/ UNCHANGED <<why, target>>)
    BY <1>5, <1>3 DEF Acquired, Finish, tabVars, ownerVars, localVars
  <2> QED BY <2>1, <1>1
<1>6. CASE ContextClosed(t)
  <2>1. tabs' = {} /\ guarded' = {} /\ UNCHANGED <<why, target, page, session, popups>>
    BY <1>6 DEF ContextClosed, LoseTabs, ownerVars
  <2> QED BY <2>1, <1>0, NothingNew DEF Kept, GuardInv
<1>7. CASE EngineExited(t)
  <2>1. UNCHANGED <<guarded, page, session, popups>> /\ (Ends(t) \/ UNCHANGED <<why, target>>)
    BY <1>7 DEF EngineExited, Finish, tabVars, ownerVars, localVars
  <2> QED BY <2>1, <1>1
<1>8. CASE Launched(t)
  <2>1. UNCHANGED <<guarded, page, session, popups>> /\ (Ends(t) \/ UNCHANGED <<why, target>>)
    BY <1>8, <1>3 DEF Launched, tabVars, ownerVars
  <2> QED BY <2>1, <1>1
<1>9. CASE LaunchFailed(t)
  BY <1>9, <1>1 DEF LaunchFailed, tabVars, ownerVars, callVars, localVars
<1>10. CASE Undone(t)
  BY <1>10, <1>2 DEF Undone, ownerVars
<1>11. ASSUME NEW ok \in BOOLEAN, Gated(t, ok) PROVE GuardInv' /\ Kept
  <2>1. UNCHANGED <<session, popups>>
    BY <1>11 DEF Gated, ownerVars
  <2>2. LaunchRaises(t) \/ UNCHANGED <<why, target, guarded, page>>
    BY <1>11 DEF Gated, tabVars, localVars
  <2> QED BY <2>1, <2>2, <1>1, <1>2
<1> QED BY <1>5, <1>6, <1>7, <1>8, <1>9, <1>10, <1>11 DEF Holder

LEMMA GuardLadder ==
  ASSUME TypeOK, GuardInv, NEW t \in Tasks, Ladder(t)
  PROVE  GuardInv' /\ Kept
<1>0. /\ page \in [Tasks -> Pages \union {NoPage}] /\ target \in [Tasks -> Pages \union {NoPage}]
      /\ why \in [Tasks -> Reasons] /\ guarded \subseteq tabs /\ Research \subseteq Tasks
      /\ loaded \subseteq tabs
  BY DEF TypeOK, Tasks
<1>1. ASSUME UNCHANGED <<guarded, page, target, why, session, popups>> PROVE GuardInv' /\ Kept
  BY <1>1 DEF GuardInv, Kept
<1>2. ASSUME NEW forcing, Demote(t, forcing) PROVE UNCHANGED <<guarded, page, target, why>>
  BY <1>2 DEF Demote, tabVars
<1>3. ASSUME NEW n, Escalate(t, n), UNCHANGED <<session, popups>> PROVE GuardInv' /\ Kept
  BY <1>1, <1>2, <1>3, GuardAfterRaise DEF Escalate
<1>4. ASSUME NEW p, Suspend(t, p) PROVE UNCHANGED <<guarded, page, target, why>>
  BY <1>4 DEF Suspend, tabVars, localVars
<1>5. CASE EnsureAgain(t)
  BY <1>5, <1>1 DEF EnsureAgain, tabVars, ownerVars
<1>6. CASE MakeRoom(t)
  <2>1. UNCHANGED <<page, target, why, session, popups>> /\ guarded' = guarded
    BY <1>6, <1>0 DEF MakeRoom, ownerVars, callVars, localVars, tabVars, Evictable, Unprotected
  <2> QED BY <2>1, <1>1
<1>7. CASE PageRefused(t)
  BY <1>7, GuardAfterRaise DEF PageRefused, ownerVars
<1>8. ASSUME NEW p \in Pages, PageOpened(t, p) PROVE GuardInv' /\ Kept
  <2>1. /\ p \notin tabs /\ p \notin popups /\ \A u \in Tasks : page[u] # p /\ target[u] # p
        /\ target' = [target EXCEPT ![t] = p] /\ UNCHANGED <<why, session, popups>>
        /\ page' = IF page[t] = NoPage THEN [page EXCEPT ![t] = p] ELSE page
    BY <1>8 DEF PageOpened, FreshPages, ownerVars
  <2>2. CASE guarded' = guarded \union {p} /\ why[t] = "start"
    <3>1. t \notin Research
      BY <2>2, TasksAssumption DEF GuardInv
    <3> QED BY <1>0, <2>1, <2>2, <3>1 DEF GuardInv, Kept
  <2>3. CASE guarded' = guarded
    BY <1>0, <2>1, <2>3 DEF GuardInv, Kept
  <2> QED BY <1>8, <2>2, <2>3 DEF PageOpened
<1>9. CASE GotoLoads(t)
  <2>1. Ends(t) /\ UNCHANGED <<guarded, popups>>
    BY <1>9 DEF GotoLoads, Returns
  <2>2. /\ page' = IF why[t] = "go" THEN [page EXCEPT ![t] = target[t]] ELSE page
        /\ session' = IF why[t] = "start" THEN "open" ELSE session
    BY <1>9 DEF GotoLoads, Returns
  <2>3. \A u \in Research : page'[u] \in {page[u], target[u]}
    BY <1>0, <2>2
  <2>4. \A u \in Tasks : why'[u] = "start" => u \in Owner /\ session' # "open"
    <3>1. SUFFICES ASSUME NEW u \in Tasks, why'[u] = "start" PROVE u \in Owner /\ session' # "open"
      OBVIOUS
    <3>2. u # t /\ why[u] = "start"
      BY <2>1, <3>1, EndsNothingNew
    <3>3. why[t] # "start"
      BY <3>2, TasksAssumption DEF GuardInv
    <3> QED BY <3>2, <3>3, <2>2 DEF GuardInv
  <2>5. GuardInv'
    BY <2>1, <2>3, <2>4, EndsNothingNew, NothingNew
  <2> QED BY <2>1, <2>5 DEF Kept
<1>10. CASE GotoFails(t)
  BY <1>10, GuardAfterRaise DEF GotoFails, ownerVars
<1>11. CASE GotoRefused(t)
  <2>1. UNCHANGED <<session, popups>>
    BY <1>11 DEF GotoRefused, ownerVars
  <2>2. \/ Raises(t)
        \/ Suspend(t, "diagnose")
        \/ Suspend(t, "spaced")
        \/ \E n \in Noted : Escalate(t, n)
    BY <1>11 DEF GotoRefused
  <2> QED BY <2>1, <2>2, <1>1, <1>3, <1>4, GuardAfterRaise
<1>12. ASSUME NEW ok \in BOOLEAN, Diagnosed(t, ok) PROVE GuardInv' /\ Kept
  <2>1. UNCHANGED <<session, popups>>
    BY <1>12 DEF Diagnosed, ownerVars
  <2>2. Demote(t, "dead") \/ Suspend(t, "spaced") \/ Escalate(t, streak)
    BY <1>12 DEF Diagnosed
  <2> QED BY <2>1, <2>2, <1>1, <1>2, <1>3, <1>4
<1>13. ASSUME NEW ok \in BOOLEAN, Spaced(t, ok) PROVE GuardInv' /\ Kept
  <2>1. UNCHANGED <<session, popups>>
    BY <1>13 DEF Spaced, ownerVars
  <2>2. UNCHANGED <<guarded, page, target, why>> \/ Escalate(t, streak)
    BY <1>13 DEF Spaced, tabVars
  <2> QED BY <2>1, <2>2, <1>1, <1>3
<1> QED BY <1>5, <1>6, <1>7, <1>8, <1>9, <1>10, <1>11, <1>12, <1>13 DEF Ladder

-----------------------------------------------------------------------------
(* The attempts *)

\* One task at a time: it gives its count up, keeps it, or counts one more on its way to a goto.
LEMMA TriesOfOne ==
  ASSUME TypeOK, TriesInv, NEW t \in Tasks, NEW p \in Points, pc' = [pc EXCEPT ![t] = p],
         \/ tries' = [tries EXCEPT ![t] = 0]
         \/ tries' = [tries EXCEPT ![t] = 1] /\ p = "goto"
         \/ tries' = [tries EXCEPT ![t] = tries[t] + 1] /\ p = "goto" /\ pc[t] # "goto"
         \/ tries' = tries /\ (pc[t] # "goto" \/ p = "goto" \/ tries[t] < MaxAttempts)
  PROVE  TriesInv' /\ tries' \in [Tasks -> 0..MaxAttempts]
<1>1. pc \in [Tasks -> Points] /\ tries \in [Tasks -> 0..MaxAttempts + 1]
  BY DEF TypeOK
<1> QED BY <1>1, BoundsAssumption DEF TriesInv

LEMMA TriesKept ==
  ASSUME TypeOK, TriesInv, UNCHANGED <<pc, tries>>
  PROVE  TriesInv' /\ tries' \in [Tasks -> 0..MaxAttempts]
BY BoundsAssumption DEF TypeOK, TriesInv

LEMMA TriesStep ==
  ASSUME TypeOK, LockInv, TriesInv, NEW t \in Tasks, Calls(t) \/ Holder(t) \/ Ladder(t)
  PROVE  TriesInv' /\ tries' \in [Tasks -> 0..MaxAttempts]
<1> DEFINE Goal == TriesInv' /\ tries' \in [Tasks -> 0..MaxAttempts]
<1> USE DEF Points
<1>1. ASSUME Ends(t) PROVE Goal
  BY <1>1, TriesOfOne DEF Ends
<1>2. ASSUME Raises(t) \/ Returns(t) PROVE Goal
  BY <1>1, <1>2 DEF Raises, Returns
<1>13. ASSUME LaunchRaises(t), pc[t] # "goto" PROVE Goal
  <2>1. \/ \E p \in {"spaced", "lock"} : pc' = [pc EXCEPT ![t] = p] /\ tries' = tries
        \/ Ends(t) \/ Raises(t)
    BY <1>13 DEF LaunchRaises, localVars
  <2> QED BY <2>1, <1>1, <1>2, <1>13, TriesOfOne
<1>3. ASSUME NEW forcing, Lock(t, forcing), UNCHANGED tries,
             pc[t] # "goto" \/ tries[t] < MaxAttempts
      PROVE  Goal
  BY <1>3, TriesOfOne DEF Lock
<1>4. ASSUME Ensure(t), UNCHANGED tries, pc[t] # "goto" PROVE Goal
  BY <1>3, <1>4, TriesOfOne DEF Ensure
<1>5. ASSUME NEW forcing, Demote(t, forcing), pc[t] # "goto" \/ tries[t] < MaxAttempts PROVE Goal
  BY <1>3, <1>5 DEF Demote
<1>6. ASSUME NEW n, Escalate(t, n), pc[t] # "goto" \/ tries[t] < MaxAttempts PROVE Goal
  BY <1>2, <1>5, <1>6 DEF Escalate
<1>7. ASSUME NEW p \in Points, Suspend(t, p), pc[t] # "goto" \/ tries[t] < MaxAttempts PROVE Goal
  BY <1>7, TriesOfOne DEF Suspend, localVars
<1>8. ASSUME Select(t), UNCHANGED tries, pc[t] # "goto" PROVE Goal
  BY <1>8, TriesOfOne DEF Select, Enter
<1>9. ASSUME Proceed(t), pc[t] # "goto" PROVE Goal
  BY <1>9, <1>1, TriesOfOne DEF Proceed
<1>10. CASE Calls(t)
  <2>1. ASSUME NEW reason, Begin(t, reason) PROVE Goal
    BY <2>1, <1>4 DEF Begin
  <2>2. CASE OpenMarketplace(t) \/ StartSession(t)
    BY <2>1, <2>2 DEF OpenMarketplace, StartSession
  <2>3. CASE ClosePage(t)
    BY <2>3, TriesKept DEF ClosePage
  <2>4. ASSUME NEW p \in Pages, Popup(t, p) PROVE Goal
    BY <2>4, TriesKept DEF Popup, callVars, localVars
  <2>5. ASSUME NEW reason \in Reasons, Navigate(t, reason) PROVE Goal
    BY <2>5, TriesOfOne DEF Navigate
  <2>6. ASSUME NEW reason \in Reasons, Stop(t, reason) PROVE Goal
    BY <2>6, <1>3 DEF Stop
  <2>7. CASE Expire(t)
    BY <2>7, TriesKept DEF Expire, callVars, localVars
  <2>8. ASSUME NEW outcome \in {"completed", "cancelled"}, Complete(t, outcome) PROVE Goal
    BY <2>8, TriesKept DEF Complete
  <2>9. CASE Restart(t)
    BY <2>9, <1>3 DEF Restart
  <2>10. CASE SwitchRelay(t)
    BY <2>10, <1>3, TriesKept DEF SwitchRelay
  <2> QED BY <1>10, <2>2, <2>3, <2>4, <2>5, <2>6, <2>7, <2>8, <2>9, <2>10 DEF Calls
<1>11. CASE Holder(t)
  <2>1. CASE Acquired(t)
    <3>1. pc[t] = "lock"
      BY <2>1 DEF Acquired
    <3>2. \/ \E p \in Points : pc' = [pc EXCEPT ![t] = p] /\ tries' = tries
          \/ Ends(t) \/ Proceed(t)
          \/ Select(t) /\ tries' = tries
      BY <2>1 DEF Acquired, Finish, localVars
    <3> QED BY <3>1, <3>2, <1>1, <1>8, <1>9, TriesOfOne
  <2>2. CASE ContextClosed(t)
    BY <2>2, <1>8, TriesOfOne DEF ContextClosed
  <2>3. CASE EngineExited(t)
    <3>1. pc[t] = "exit"
      BY <2>3 DEF EngineExited
    <3>2. \/ pc' = [pc EXCEPT ![t] = "gate"] /\ tries' = tries
          \/ Ends(t)
          \/ Select(t) /\ tries' = tries
      BY <2>3 DEF EngineExited, Finish, localVars
    <3> QED BY <3>1, <3>2, <1>1, <1>8, TriesOfOne
  <2>4. CASE Launched(t)
    BY <2>4, <1>9 DEF Launched
  <2>5. CASE LaunchFailed(t)
    BY <2>5, TriesOfOne DEF LaunchFailed, callVars, localVars
  <2>6. CASE Undone(t)
    BY <2>6, <1>13 DEF Undone
  <2>7. ASSUME NEW ok \in BOOLEAN, Gated(t, ok) PROVE Goal
    <3>1. /\ pc[t] = "gate"
          /\ LaunchRaises(t) \/ (pc' = [pc EXCEPT ![t] = "enter"] /\ tries' = tries)
      BY <2>7 DEF Gated, Enter, localVars
    <3> QED BY <3>1, <1>13, TriesOfOne
  <2> QED BY <1>11, <2>1, <2>2, <2>3, <2>4, <2>5, <2>6, <2>7 DEF Holder
<1>12. CASE Ladder(t)
  <2>1. CASE EnsureAgain(t)
    BY <2>1, <1>4 DEF EnsureAgain
  <2>2. CASE MakeRoom(t)
    BY <2>2, TriesOfOne DEF MakeRoom, callVars, localVars
  <2>3. CASE PageRefused(t) \/ GotoLoads(t) \/ GotoFails(t)
    BY <2>3, <1>2 DEF PageRefused, GotoLoads, GotoFails
  <2>4. ASSUME NEW p \in Pages, PageOpened(t, p) PROVE Goal
    BY <2>4, TriesOfOne DEF PageOpened
  <2>5. CASE GotoRefused(t)
    <3>1. CASE LastAttempt(t)
      BY <2>5, <3>1, <1>2 DEF GotoRefused
    <3>2. CASE ~LastAttempt(t)
      <4>1. tries[t] < MaxAttempts
        BY <3>2, BoundsAssumption DEF LastAttempt, TypeOK
      <4>2. Suspend(t, "diagnose") \/ Suspend(t, "spaced") \/ \E n \in Noted : Escalate(t, n)
        BY <2>5, <3>2 DEF GotoRefused
      <4> QED BY <4>1, <4>2, <1>6, <1>7
    <3> QED BY <3>1, <3>2
  <2>6. ASSUME NEW ok \in BOOLEAN, Diagnosed(t, ok) PROVE Goal
    <3>1. pc[t] = "diagnose" /\ (Demote(t, "dead") \/ Suspend(t, "spaced") \/ Escalate(t, streak))
      BY <2>6 DEF Diagnosed
    <3> QED BY <3>1, <1>5, <1>6, <1>7
  <2>7. ASSUME NEW ok \in BOOLEAN, Spaced(t, ok) PROVE Goal
    <3>1. /\ pc[t] = "spaced"
          /\ \/ Escalate(t, streak)
             \/ pc' = [pc EXCEPT ![t] = "goto"] /\ tries' = [tries EXCEPT ![t] = tries[t] + 1]
      BY <2>7 DEF Spaced
    <3> QED BY <3>1, <1>6, TriesOfOne
  <2> QED BY <1>12, <2>1, <2>2, <2>3, <2>4, <2>5, <2>6, <2>7 DEF Ladder
<1> QED BY <1>10, <1>11, <1>12

-----------------------------------------------------------------------------
(* The types *)

EngineTypes ==
  /\ allowDirect \in BOOLEAN /\ relayOn \in BOOLEAN /\ fresh \in BOOLEAN
  /\ ctx \in {"none", "up", "lost"} /\ handle \in BOOLEAN
  /\ engine \in Routes \union {"none"} /\ wired \in Routes \union {"none"}
  /\ mode \in Routes \union {"none"} /\ forced \in BOOLEAN /\ streak \in 0..EscalateAfter

TabTypes ==
  /\ tabs \subseteq Pages /\ guarded \subseteq tabs /\ loaded \subseteq tabs
  /\ session \in {"none", "open", "completed", "cancelled", "expired"} /\ popups \subseteq Pages
  /\ page \in [Tasks -> Pages \union {NoPage}] /\ target \in [Tasks -> Pages \union {NoPage}]

CallTypes ==
  /\ why \in [Tasks -> Reasons] /\ force \in [Tasks -> Forcings]
  /\ spaced \in [Tasks -> BOOLEAN] /\ stale \in [Tasks -> BOOLEAN]

LEMMA EngineTyped ==
  ASSUME TypeOK, NEW t \in Tasks, Calls(t) \/ Holder(t) \/ Ladder(t)
  PROVE  EngineTypes'
<1> USE DEF EngineTypes, TypeOK, Routes, egressVars, engineVars
<1>0. 0 \in 0..EscalateAfter /\ Noted \subseteq 0..EscalateAfter
  BY BoundsAssumption DEF Noted
<1>1. ASSUME Select(t) PROVE /\ mode' \in Routes \union {"none"} /\ wired' \in Routes \union {"none"}
                             /\ handle' \in BOOLEAN /\ forced' \in BOOLEAN
  BY <1>1 DEF Select, Enter
<1>2. ASSUME NEW n, Escalate(t, n) PROVE mode' \in Routes \union {"none"} /\ forced' \in BOOLEAN
  BY <1>2 DEF Escalate, Demote
<1>3. CASE Calls(t)
  <2>1. UNCHANGED <<allowDirect, egressVars, engineVars>>
    BY <1>3, CallLeaves
  <2>2. relayOn' \in BOOLEAN /\ fresh' \in BOOLEAN
    BY <1>3 DEF Calls, OpenMarketplace, StartSession, Begin, ClosePage, Popup, Navigate, Stop, Expire,
                Complete, Restart, SwitchRelay
  <2> QED BY <2>1, <2>2
<1>4. CASE Acquired(t)
  BY <1>4, <1>1 DEF Acquired
<1>5. CASE ContextClosed(t)
  BY <1>5, <1>1 DEF ContextClosed
<1>6. CASE EngineExited(t)
  BY <1>6, <1>1 DEF EngineExited
<1>7. CASE Launched(t)
  BY <1>7, <1>0 DEF Launched
<1>8. CASE LaunchFailed(t)
  BY <1>8 DEF LaunchFailed
<1>9. CASE Undone(t)
  BY <1>9 DEF Undone, LaunchRaises
<1>10. ASSUME NEW ok \in BOOLEAN, Gated(t, ok) PROVE EngineTypes'
  <2>1. UNCHANGED <<allowDirect, relayOn, fresh, ctx, engine, streak>>
    BY <1>10 DEF Gated
  <2>2. \/ Enter(t, IF ok THEN "proxy" ELSE "direct") /\ forced' = forced
        \/ LaunchRaises(t) /\ UNCHANGED <<wired, handle>>
    BY <1>10 DEF Gated
  <2>3. /\ mode' \in Routes \union {"none"} /\ wired' \in Routes \union {"none"}
        /\ handle' \in BOOLEAN /\ forced' \in BOOLEAN
    BY <2>2 DEF Enter, LaunchRaises
  <2> QED BY <2>1, <2>3
<1>11. CASE EnsureAgain(t) \/ MakeRoom(t) \/ PageRefused(t)
  BY <1>11 DEF EnsureAgain, MakeRoom, PageRefused
<1>12. ASSUME NEW p \in Pages, PageOpened(t, p) PROVE EngineTypes'
  BY <1>12 DEF PageOpened
<1>13. CASE GotoLoads(t)
  BY <1>13, <1>0 DEF GotoLoads
<1>17. CASE GotoFails(t)
  BY <1>17, <1>0 DEF GotoFails
<1>14. CASE GotoRefused(t)
  <2>1. UNCHANGED <<allowDirect, relayOn, fresh, engineVars>> /\ streak' \in 0..EscalateAfter
    BY <1>14, <1>0 DEF GotoRefused
  <2>2. mode' \in Routes \union {"none"} /\ forced' \in BOOLEAN
    BY <1>14, <1>2 DEF GotoRefused, Suspend
  <2> QED BY <2>1, <2>2
<1>15. ASSUME NEW ok \in BOOLEAN, Diagnosed(t, ok) PROVE EngineTypes'
  <2>1. UNCHANGED <<allowDirect, relayOn, fresh, streak, engineVars>>
    BY <1>15 DEF Diagnosed
  <2>2. Demote(t, "dead") \/ Suspend(t, "spaced") \/ Escalate(t, streak)
    BY <1>15 DEF Diagnosed
  <2>3. mode' \in Routes \union {"none"} /\ forced' \in BOOLEAN
    BY <2>2, <1>2 DEF Suspend, Demote
  <2> QED BY <2>1, <2>3
<1>16. ASSUME NEW ok \in BOOLEAN, Spaced(t, ok) PROVE EngineTypes'
  <2>1. UNCHANGED <<allowDirect, relayOn, fresh, streak, engineVars>>
    BY <1>16 DEF Spaced
  <2>2. mode' \in Routes \union {"none"} /\ forced' \in BOOLEAN
    BY <1>16, <1>2 DEF Spaced
  <2> QED BY <2>1, <2>2
<1> QED BY <1>3, <1>4, <1>5, <1>6, <1>7, <1>8, <1>9, <1>10, <1>11, <1>12, <1>13, <1>14, <1>15, <1>16,
           <1>17 DEF Holder, Ladder

LEMMA TabsTyped ==
  ASSUME TypeOK, GuardInv, NEW t \in Tasks, Calls(t) \/ Holder(t) \/ Ladder(t)
  PROVE  TabTypes'
<1> USE DEF TabTypes, tabVars, ownerVars
<1>0. TabTypes
  BY DEF TypeOK
<1>1. ASSUME Ends(t) PROVE target' \in [Tasks -> Pages \union {NoPage}]
  BY <1>0, <1>1 DEF Ends
<1>2. ASSUME Raises(t), UNCHANGED <<session, popups>> PROVE TabTypes'
  <2>1. page' \in [Tasks -> Pages \union {NoPage}]
    BY <1>0, <1>2 DEF Raises
  <2>2. tabs' \subseteq Pages /\ guarded' \subseteq tabs' /\ loaded' \subseteq tabs'
    BY <1>0, <1>2 DEF Raises
  <2> QED BY <1>0, <1>1, <1>2, <2>1, <2>2 DEF Raises
<1>4. ASSUME Ends(t) \/ target' = target, UNCHANGED <<tabVars, ownerVars, page>> PROVE TabTypes'
  BY <1>0, <1>1, <1>4
<1>3. ASSUME LaunchRaises(t), UNCHANGED <<session, popups>> PROVE TabTypes'
  <2>1. \/ Raises(t)
        \/ Ends(t) /\ UNCHANGED <<tabVars, page>>
        \/ target' = target /\ UNCHANGED <<tabVars, page>>
    BY <1>3 DEF LaunchRaises, localVars
  <2> QED BY <2>1, <1>2, <1>3, <1>4
<1>5. ASSUME NEW n, Escalate(t, n), UNCHANGED <<session, popups>> PROVE TabTypes'
  BY <1>2, <1>4, <1>5 DEF Escalate, Demote
<1>6. CASE Calls(t)
  <2>1. CASE OpenMarketplace(t)
    BY <2>1, <1>4 DEF OpenMarketplace, Begin
  <2>2. CASE StartSession(t)
    BY <2>2, <1>0 DEF StartSession, Begin
  <2>3. CASE ClosePage(t)
    <3>1. page[t] \notin guarded
      BY <2>3 DEF ClosePage, GuardInv
    <3>2. page' \in [Tasks -> Pages \union {NoPage}]
      BY <2>3, <1>0 DEF ClosePage
    <3> QED BY <2>3, <3>1, <3>2, <1>0 DEF ClosePage
  <2>4. ASSUME NEW p \in Pages, Popup(t, p) PROVE TabTypes'
    BY <2>4, <1>0 DEF Popup, callVars, localVars
  <2>5. ASSUME NEW reason \in Reasons, Navigate(t, reason) PROVE TabTypes'
    <3>1. target' \in [Tasks -> Pages \union {NoPage}]
      BY <2>5, <1>0 DEF Navigate
    <3> QED BY <2>5, <3>1, <1>0 DEF Navigate
  <2>6. ASSUME NEW reason \in Reasons, Stop(t, reason) PROVE TabTypes'
    BY <2>6, <1>4 DEF Stop
  <2>7. CASE Expire(t)
    BY <2>7, <1>0 DEF Expire, callVars, localVars
  <2>8. ASSUME NEW outcome \in {"completed", "cancelled"}, Complete(t, outcome) PROVE TabTypes'
    <3>1. page' \in [Tasks -> Pages \union {NoPage}]
      BY <2>8, <1>0 DEF Complete
    <3> QED BY <2>8, <3>1, <1>0 DEF Complete
  <2>9. CASE Restart(t)
    BY <2>9, <1>4 DEF Restart
  <2>10. CASE SwitchRelay(t)
    BY <2>10, <1>4 DEF SwitchRelay
  <2> QED BY <1>6, <2>1, <2>2, <2>3, <2>4, <2>5, <2>6, <2>7, <2>8, <2>9, <2>10 DEF Calls
<1>7. CASE Holder(t)
  <2>1. ASSUME Proceed(t) PROVE Ends(t) \/ target' = target
    BY <2>1 DEF Proceed
  <2>2. CASE Acquired(t)
    <3>1. Ends(t) \/ target' = target
      BY <2>2, <2>1 DEF Acquired, Finish, localVars
    <3> QED BY <2>2, <3>1, <1>4 DEF Acquired
  <2>3. CASE ContextClosed(t)
    BY <2>3, <1>0 DEF ContextClosed, LoseTabs
  <2>4. CASE EngineExited(t)
    <3>1. Ends(t) \/ target' = target
      BY <2>4 DEF EngineExited, Finish, localVars
    <3> QED BY <2>4, <3>1, <1>4 DEF EngineExited
  <2>5. CASE Launched(t)
    BY <2>5, <2>1, <1>4 DEF Launched
  <2>6. CASE LaunchFailed(t)
    BY <2>6, <1>4 DEF LaunchFailed, callVars, localVars
  <2>7. CASE Undone(t)
    BY <2>7, <1>3 DEF Undone
  <2>8. ASSUME NEW ok \in BOOLEAN, Gated(t, ok) PROVE TabTypes'
    BY <2>8, <1>3, <1>4 DEF Gated, localVars
  <2> QED BY <1>7, <2>2, <2>3, <2>4, <2>5, <2>6, <2>7, <2>8 DEF Holder
<1>8. CASE Ladder(t)
  <2>1. ASSUME NEW p, Suspend(t, p), UNCHANGED ownerVars PROVE TabTypes'
    BY <2>1, <1>4 DEF Suspend, localVars
  <2>2. CASE EnsureAgain(t)
    BY <2>2, <1>4 DEF EnsureAgain
  <2>3. CASE MakeRoom(t)
    <3>1. UNCHANGED <<page, target, session, popups>>
      BY <2>3 DEF MakeRoom, callVars, localVars
    <3>2. \/ UNCHANGED tabVars
          \/ \E v \in Evictable : /\ tabs' = tabs \ {v} /\ loaded' = loaded \ {v}
                                  /\ guarded' = guarded \ {v}
      BY <2>3 DEF MakeRoom
    <3> QED BY <3>1, <3>2, <1>0
  <2>4. CASE PageRefused(t)
    BY <2>4, <1>2 DEF PageRefused
  <2>5. ASSUME NEW p \in Pages, PageOpened(t, p) PROVE TabTypes'
    <3>1. page' \in [Tasks -> Pages \union {NoPage}] /\ target' \in [Tasks -> Pages \union {NoPage}]
      BY <2>5, <1>0 DEF PageOpened
    <3> QED BY <2>5, <3>1, <1>0 DEF PageOpened
  <2>6. CASE GotoLoads(t)
    <3>1. page' \in [Tasks -> Pages \union {NoPage}] /\ Ends(t)
      BY <2>6, <1>0 DEF GotoLoads, Returns
    <3>2. loaded' \subseteq tabs' /\ UNCHANGED <<tabs, guarded, popups>> /\ session' \in {"open", session}
      BY <2>6, <1>0 DEF GotoLoads, Returns
    <3> QED BY <3>1, <3>2, <1>0, <1>1
  <2>7. CASE GotoFails(t)
    BY <2>7, <1>2 DEF GotoFails
  <2>8. CASE GotoRefused(t)
    <3>1. UNCHANGED ownerVars
      BY <2>8 DEF GotoRefused
    <3>2. Raises(t) \/ Suspend(t, "diagnose") \/ Suspend(t, "spaced") \/ \E n \in Noted : Escalate(t, n)
      BY <2>8 DEF GotoRefused
    <3> QED BY <3>1, <3>2, <1>2, <1>5, <2>1
  <2>9. ASSUME NEW ok \in BOOLEAN, Diagnosed(t, ok) PROVE TabTypes'
    <3>1. UNCHANGED ownerVars /\ (Demote(t, "dead") \/ Suspend(t, "spaced") \/ Escalate(t, streak))
      BY <2>9 DEF Diagnosed
    <3> QED BY <3>1, <1>4, <1>5, <2>1 DEF Demote
  <2>10. ASSUME NEW ok \in BOOLEAN, Spaced(t, ok) PROVE TabTypes'
    <3>1. /\ UNCHANGED ownerVars
          /\ UNCHANGED <<page, target, tabVars>> \/ Escalate(t, streak)
      BY <2>10 DEF Spaced
    <3> QED BY <3>1, <1>4, <1>5
  <2> QED BY <1>8, <2>2, <2>3, <2>4, <2>5, <2>6, <2>7, <2>8, <2>9, <2>10 DEF Ladder
<1> QED BY <1>6, <1>7, <1>8

LEMMA CallsTyped ==
  ASSUME TypeOK, NEW t \in Tasks, Calls(t) \/ Holder(t) \/ Ladder(t)
  PROVE  CallTypes'
<1> USE DEF CallTypes, localVars
<1>0. CallTypes /\ "no" \in Forcings /\ "yes" \in Forcings /\ "dead" \in Forcings
  BY DEF TypeOK, Forcings
<1>1. ASSUME Ends(t) PROVE CallTypes'
  BY <1>0, <1>1 DEF Ends, Reasons
<1>9. ASSUME Raises(t) \/ Returns(t) PROVE CallTypes'
  BY <1>1, <1>9 DEF Raises, Returns
<1>2. ASSUME Raises(t) \/ Returns(t) \/ LaunchRaises(t) PROVE CallTypes'
  <2>1. CASE LaunchRaises(t)
    <3>1. \/ Ends(t) \/ Raises(t) \/ UNCHANGED <<why, force, spaced, stale>>
          \/ force' = [force EXCEPT ![t] = "yes"] /\ UNCHANGED <<why, spaced, stale>>
      BY <2>1 DEF LaunchRaises
    <3> QED BY <3>1, <1>0, <1>1, <1>9 DEF Forcings
  <2> QED BY <1>2, <1>9, <2>1
<1>3. ASSUME NEW forcing \in Forcings, Lock(t, forcing), UNCHANGED <<why, spaced, stale>>
      PROVE  CallTypes'
  BY <1>0, <1>3 DEF Lock
<1>4. ASSUME UNCHANGED <<why, force, spaced, stale>> PROVE CallTypes'
  BY <1>0, <1>4
<1>5. ASSUME NEW n, Escalate(t, n) PROVE CallTypes'
  BY <1>0, <1>2, <1>3, <1>5 DEF Escalate, Demote
<1>6. CASE Calls(t)
  <2>1. ASSUME NEW reason \in Reasons, why' = [why EXCEPT ![t] = reason],
               \/ UNCHANGED force \/ \E forcing \in Forcings : force' = [force EXCEPT ![t] = forcing],
               UNCHANGED <<spaced, stale>>
        PROVE  CallTypes'
    BY <1>0, <2>1
  <2>2. ASSUME NEW reason \in Reasons, Begin(t, reason) PROVE CallTypes'
    BY <1>0, <2>1, <2>2 DEF Begin, Ensure, Lock
  <2>3. CASE OpenMarketplace(t) \/ StartSession(t)
    BY <2>2, <2>3 DEF OpenMarketplace, StartSession, Reasons
  <2>4. CASE ClosePage(t)
    BY <2>4, <1>4 DEF ClosePage
  <2>5. ASSUME NEW p \in Pages, Popup(t, p) PROVE CallTypes'
    BY <2>5, <1>4 DEF Popup, callVars
  <2>6. ASSUME NEW reason \in Reasons, Navigate(t, reason) PROVE CallTypes'
    BY <2>6, <2>1 DEF Navigate
  <2>7. ASSUME NEW reason \in Reasons, Stop(t, reason) PROVE CallTypes'
    BY <1>0, <2>7, <2>1 DEF Stop, Lock
  <2>8. CASE Expire(t)
    BY <2>8, <1>4 DEF Expire, callVars
  <2>9. ASSUME NEW outcome \in {"completed", "cancelled"}, Complete(t, outcome) PROVE CallTypes'
    BY <2>9, <1>4 DEF Complete
  <2>10. CASE Restart(t)
    BY <1>0, <2>10, <2>1 DEF Restart, Lock, Reasons
  <2>11. CASE SwitchRelay(t)
    BY <1>0, <2>11, <2>1, <1>4 DEF SwitchRelay, Lock, Reasons
  <2> QED BY <1>6, <2>3, <2>4, <2>5, <2>6, <2>7, <2>8, <2>9, <2>10, <2>11 DEF Calls
<1>7. CASE Holder(t)
  <2>1. ASSUME Proceed(t) PROVE Ends(t) \/ UNCHANGED <<why, force, spaced, stale>>
    BY <2>1 DEF Proceed
  <2>2. CASE Acquired(t)
    BY <2>2, <2>1, <1>1, <1>4 DEF Acquired, Finish
  <2>3. CASE ContextClosed(t)
    BY <2>3, <1>0 DEF ContextClosed, Stalled
  <2>4. CASE EngineExited(t)
    BY <2>4, <1>1, <1>4 DEF EngineExited, Finish
  <2>5. CASE Launched(t)
    BY <2>5, <2>1, <1>1, <1>4 DEF Launched
  <2>6. CASE LaunchFailed(t)
    BY <2>6, <1>4 DEF LaunchFailed, callVars
  <2>7. CASE Undone(t)
    BY <2>7, <1>2 DEF Undone
  <2>8. ASSUME NEW ok \in BOOLEAN, Gated(t, ok) PROVE CallTypes'
    BY <2>8, <1>2, <1>4 DEF Gated
  <2> QED BY <1>7, <2>2, <2>3, <2>4, <2>5, <2>6, <2>7, <2>8 DEF Holder
<1>8. CASE Ladder(t)
  <2>1. ASSUME NEW p, Suspend(t, p) PROVE CallTypes'
    BY <2>1, <1>4 DEF Suspend
  <2>2. CASE EnsureAgain(t)
    BY <1>0, <2>2, <1>3, <1>4 DEF EnsureAgain, Ensure
  <2>3. CASE MakeRoom(t)
    BY <2>3, <1>4 DEF MakeRoom, callVars
  <2>4. CASE PageRefused(t) \/ GotoLoads(t) \/ GotoFails(t)
    BY <2>4, <1>2 DEF PageRefused, GotoLoads, GotoFails
  <2>5. ASSUME NEW p \in Pages, PageOpened(t, p) PROVE CallTypes'
    BY <2>5, <1>4 DEF PageOpened
  <2>6. CASE GotoRefused(t)
    BY <2>6, <2>1, <1>2, <1>5 DEF GotoRefused
  <2>7. ASSUME NEW ok \in BOOLEAN, Diagnosed(t, ok) PROVE CallTypes'
    BY <1>0, <2>7, <2>1, <1>3, <1>5 DEF Diagnosed, Demote
  <2>8. ASSUME NEW ok \in BOOLEAN, Spaced(t, ok) PROVE CallTypes'
    <3>1. CASE spaced' = [spaced EXCEPT ![t] = TRUE] /\ UNCHANGED <<why, force, stale>>
      BY <1>0, <3>1
    <3> QED BY <2>8, <3>1, <1>5 DEF Spaced
  <2> QED BY <1>8, <2>2, <2>3, <2>4, <2>5, <2>6, <2>7, <2>8 DEF Ladder
<1> QED BY <1>6, <1>7, <1>8

-----------------------------------------------------------------------------
(* The theorems *)

LEMMA Initially == Init => IInv
<1> SUFFICES ASSUME Init PROVE IInv
  OBVIOUS
<1>1. 0 \in 0..MaxAttempts + 1 /\ 0 < MaxAttempts /\ 0 \in 0..EscalateAfter
  BY BoundsAssumption
<1>2. TypeOK
  <2>1. queue \in Seq(Tasks) /\ tries \in [Tasks -> 0..MaxAttempts + 1]
    BY <1>1 DEF Init
  <2>2. /\ pc \in [Tasks -> Points] /\ why \in [Tasks -> Reasons]
        /\ force \in [Tasks -> Forcings] /\ spaced \in [Tasks -> BOOLEAN]
        /\ stale \in [Tasks -> BOOLEAN]
        /\ page \in [Tasks -> Pages \union {NoPage}] /\ target \in [Tasks -> Pages \union {NoPage}]
    BY DEF Init, Points, Reasons, Forcings
  <2> QED BY <1>1, <2>1, <2>2 DEF Init, TypeOK
<1>3. LockInv
  BY DEF Init, LockInv, InLock, Held, Waits
<1>4. EngineInv /\ PolicyInv
  BY DEF Init, EngineInv, PolicyInv
<1>5. GuardInv
  BY DEF Init, GuardInv
<1>6. TriesInv
  BY <1>1, BoundsAssumption DEF Init, TriesInv
<1> QED BY <1>2, <1>3, <1>4, <1>5, <1>6 DEF IInv

LEMMA TaskStep ==
  ASSUME IInv, NEW t \in Tasks, Calls(t) \/ Steps(t)
  PROVE  IInv' /\ Kept
<1> USE DEF IInv
<1>1. Calls(t) \/ Holder(t) \/ Ladder(t)
  BY Groups
<1>2. LockInv' /\ pc' \in [Tasks -> Points] /\ queue' \in Seq(Tasks)
  BY <1>1, ShapeOfStep, LockShape
<1>3. EngineInv'
  <2>1. CASE Calls(t)
    <3>1. /\ UNCHANGED engineVars
          /\ pc' = pc \/ \E p \in Points \ Held : pc[t] \notin Held /\ pc' = [pc EXCEPT ![t] = p]
      BY <2>1, CallLeaves DEF Points, Held
    <3> QED BY <3>1, EngineOutside
  <2>2. CASE Ladder(t)
    <3>1. /\ UNCHANGED engineVars
          /\ \E p \in Points \ Held : pc[t] \notin Held /\ pc' = [pc EXCEPT ![t] = p]
      BY <2>2, LadderLeaves DEF InLock
    <3> QED BY <3>1, EngineOutside
  <2> QED BY <1>1, <2>1, <2>2, EngineInside
<1>4. PolicyInv'
  BY <1>1, EngineInside, PolicyOutside
<1>5. GuardInv' /\ Kept
  BY <1>1, GuardCalls, GuardHolder, GuardLadder
<1>6. TriesInv' /\ tries' \in [Tasks -> 0..MaxAttempts]
  BY <1>1, TriesStep
<1>7. tries' \in [Tasks -> 0..MaxAttempts + 1]
  BY <1>6, BoundsAssumption
<1>8. EngineTypes' /\ TabTypes' /\ CallTypes'
  BY <1>1, EngineTyped, TabsTyped, CallsTyped
<1>9. TypeOK'
  BY <1>2, <1>7, <1>8 DEF TypeOK, EngineTypes, TabTypes, CallTypes
<1> QED BY <1>2, <1>3, <1>4, <1>5, <1>6, <1>9

LEMMA CrashStep ==
  ASSUME IInv, EngineDies
  PROVE  IInv' /\ Kept
<1> USE DEF IInv, EngineDies, LoseTabs
<1>1. UNCHANGED <<pc, queue, why, page, target, tries, popups, session, wired, forced, allowDirect>>
  BY DEF egressVars, ownerVars
<1>2. TypeOK'
  BY DEF TypeOK, egressVars, ownerVars, Stalled, Routes
<1>3. LockInv' /\ TriesInv' /\ PolicyInv'
  BY <1>1 DEF LockInv, Waits, Holds, TriesInv, PolicyInv
<1>4. EngineInv'
  BY <1>1 DEF EngineInv
<1>5. GuardInv' /\ Kept
  BY <1>1 DEF GuardInv, Kept
<1> QED BY <1>2, <1>3, <1>4, <1>5

LEMMA NextStep == IInv /\ [Next]_vars => IInv' /\ Kept
<1> SUFFICES ASSUME IInv, [Next]_vars PROVE IInv' /\ Kept
  OBVIOUS
<1>1. ASSUME NEW t \in Tasks, Calls(t) \/ Steps(t) PROVE IInv' /\ Kept
  BY <1>1, TaskStep
<1>2. CASE EngineDies
  BY <1>2, CrashStep
<1>3. CASE TimePasses \/ UNCHANGED vars
  <2>1. UNCHANGED <<egressVars, engineVars, tabVars, ownerVars, queue, pc, callVars, allowDirect, relayOn>>
    BY <1>3 DEF TimePasses, vars
  <2>2. fresh' \in BOOLEAN
    BY <1>3 DEF TimePasses, vars, IInv, TypeOK
  <2>3. TypeOK'
    BY <2>1, <2>2 DEF IInv, TypeOK, egressVars, engineVars, tabVars, ownerVars, callVars, localVars
  <2>4. LockInv' /\ TriesInv' /\ PolicyInv' /\ EngineInv' /\ GuardInv'
    BY <2>1 DEF IInv, LockInv, Waits, Holds, TriesInv, PolicyInv, EngineInv, GuardInv,
                egressVars, engineVars, tabVars, ownerVars, callVars, localVars
  <2> QED BY <2>1, <2>3, <2>4 DEF IInv, Kept, tabVars
<1> QED BY <1>1, <1>2, <1>3 DEF Next

LEMMA Always == Spec => []IInv
<1>1. Init => IInv
  BY Initially
<1>2. IInv /\ [Next]_vars => IInv'
  BY NextStep
<1> QED BY <1>1, <1>2, PTL DEF Spec

\* The state of browser_manager.py keeps its types, the tabs that are guarded or loaded are open
\* ones, and no ladder counts past _MAX_NAV_ATTEMPTS.
THEOREM TypeCorrect == Spec => []TypeOK
<1>1. IInv => TypeOK
  BY DEF IInv
<1> QED BY <1>1, Always, PTL

\* asyncio.Lock at work: however many callers launch, restart, stop and shut down at once, at
\* most one is between a tear-down and the end of a launch.
OneLaunches ==
  \A t, u \in Tasks : pc[t] \in Held /\ pc[u] \in Held => t = u

THEOREM LaunchIsExclusive == Spec => []OneLaunches
<1>1. IInv => OneLaunches
  BY DEF IInv, LockInv, OneLaunches, Holds
<1> QED BY <1>1, Always, PTL

\* Two engines never run on the one profile (launch, shutdown and _teardown_context).
THEOREM ProfileIsAlwaysFree == Spec => []ProfileIsFree
<1>1. IInv => ProfileIsFree
  BY DEF IInv, EngineInv, ProfileIsFree
<1> QED BY <1>1, Always, PTL

\* Without RELAY_ALLOW_DIRECT the server's own address is never used, whatever verdicts the
\* ladder of _goto_resilient leaves for later launches.
THEOREM PolicyIsKept == Spec => []NeverDirectAgainstPolicy
<1>1. IInv => NeverDirectAgainstPolicy
  BY DEF IInv, PolicyInv, NeverDirectAgainstPolicy
<1> QED BY <1>1, Always, PTL

\* The tab of the owner's session outlives whatever research does (_close_protected and the
\* eviction of new_page): it goes with its session or with the whole browser.
THEOREM OwnerTabIsKept == Spec => OwnerTabStays
<1>1. IInv /\ [Next]_vars => [Kept]_vars
  BY NextStep
<1>2. Spec => [][Kept]_vars
  BY <1>1, Always, PTL DEF Spec
<1> QED BY <1>2 DEF OwnerTabStays, Kept
=============================================================================
