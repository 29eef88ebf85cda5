------------------------------ MODULE Browser ------------------------------
(***************************************************************************)
(* The one browser of the server: app/browser_manager.py, with the callers *)
(* that share it -- research pages, the owner's interactive session        *)
(* (app/interactive.py), and the routes that restart or stop it.           *)
(*                                                                         *)
(* A task is one coroutine.  pc names the await it is suspended at, so     *)
(* every action is the code between two awaits.  asyncio.Lock serves its   *)
(* waiters in order: "queue" is the lock, its head the holder.             *)
(*                                                                         *)
(* Abstractions.  A proxy is down, or refuses, whenever it likes: a probe  *)
(* and a goto have any outcome their egress allows.  The 300 seconds of    *)
(* the idle guard pass only while no call is in flight, each call being    *)
(* far shorter.  Which unprotected tab is evicted is left open.            *)
(***************************************************************************)
EXTENDS Naturals, Sequences, FiniteSets

CONSTANTS
    Research,       \* research tasks, each working on one page at a time
    Owner,          \* the owner's interactive session: a set of at most one task
    Janitor,        \* idle guard, add-on and relay routes, explicit shutdown
    Pages,          \* identities of tabs
    MaxOpen,        \* browser_max_open_pages
    MaxAttempts,    \* _MAX_NAV_ATTEMPTS
    EscalateAfter   \* _PROXY_REFUSAL_ESCALATE_AFTER

Tasks == Research \union Owner \union Janitor
NoPage == "no page"
Routes == {"relay", "proxy", "direct"}

ASSUME TasksAssumption ==
    /\ Research \intersect Owner = {}
    /\ Research \intersect Janitor = {}
    /\ Owner \intersect Janitor = {}
    /\ \A t, u \in Owner : t = u
ASSUME PagesAssumption == NoPage \notin Pages
ASSUME BoundsAssumption ==
    /\ MaxOpen \in Nat
    /\ MaxAttempts \in Nat \ {0}
    /\ EscalateAfter \in Nat \ {0}

VARIABLES
    allowDirect,    \* config.relay_allow_direct
    relayOn,        \* the relay hub is enabled and its shim listens
    ctx,            \* _context: none, up, or lost (set, but its browser is gone)
    handle,         \* _camoufox is set
    engine,         \* egress of the running engine process, or "none"
    wired,          \* egress the launch in progress was given
    mode,           \* _egress_mode
    forced,         \* _egress_force_direct_reason is set
    streak,         \* _proxy_refusal_streak, counted up to EscalateAfter
    fresh,          \* _last_activity is younger than the idle limit
    tabs,           \* tabs of the running engine
    guarded,        \* those with _resurreccion_protected
    loaded,         \* those with real content
    session,        \* status of the interactive session
    popups,         \* tabs the site opened from the session's page
    queue,          \* the waiters of _lock, the holder first
    pc, why, force, page, target, tries, spaced, stale

egressVars == <<mode, forced, streak>>
engineVars == <<ctx, handle, engine, wired>>
tabVars == <<tabs, guarded, loaded>>
ownerVars == <<session, popups>>
localVars == <<why, force, target, tries, spaced, stale>>
callVars == <<page, localVars>>
vars == <<allowDirect, relayOn, fresh, egressVars, engineVars, tabVars, ownerVars,
          queue, pc, callVars>>

Points == {"idle", "lock", "close", "exit", "undo", "gate", "enter",
           "ensure", "room", "tab", "goto", "diagnose", "spaced"}
Reasons == {"none", "open", "go", "start", "act", "restart", "stop", "idle"}

(* launch(force=True), and whether _recover_dead_proxy, the first rung of the ladder, asks. *)
Forcings == {"no", "yes", "dead"}

(* is_running: a context whose browser is connected. *)
Running == ctx = "up"

(* is_research_busy: an unprotected tab with real content is open. *)
Busy == loaded \ guarded # {}

Unprotected == tabs \ guarded

(* Page ids are reused once nobody holds them. *)
FreshPages ==
    Pages \ (tabs \union popups \union {page[t] : t \in Tasks} \union {target[t] : t \in Tasks})

Init ==
    /\ allowDirect \in BOOLEAN /\ relayOn \in BOOLEAN
    /\ ctx = "none" /\ handle = FALSE /\ engine = "none" /\ wired = "none"
    /\ mode = "none" /\ forced = FALSE /\ streak = 0 /\ fresh = FALSE
    /\ tabs = {} /\ guarded = {} /\ loaded = {}
    /\ session = "none" /\ popups = {} /\ queue = <<>>
    /\ pc = [t \in Tasks |-> "idle"] /\ why = [t \in Tasks |-> "none"]
    /\ force = [t \in Tasks |-> "no"]
    /\ page = [t \in Tasks |-> NoPage] /\ target = [t \in Tasks |-> NoPage]
    /\ tries = [t \in Tasks |-> 0] /\ spaced = [t \in Tasks |-> FALSE]
    /\ stale = [t \in Tasks |-> FALSE]

-----------------------------------------------------------------------------
(* How a call ends.  open_marketplace and _open_page hand back the page they
   opened, whichever page the ladder ended on; navigate hands back the page it
   used, which act ignores.  A failed open closes the page it opened. *)
Opens(t) == why[t] \in {"open", "start"}

(* The coroutine is over, and its locals are gone. *)
Ends(t) ==
    /\ pc' = [pc EXCEPT ![t] = "idle"]
    /\ why' = [why EXCEPT ![t] = "none"]
    /\ force' = [force EXCEPT ![t] = "no"]
    /\ target' = [target EXCEPT ![t] = NoPage]
    /\ tries' = [tries EXCEPT ![t] = 0]
    /\ spaced' = [spaced EXCEPT ![t] = FALSE]
    /\ stale' = [stale EXCEPT ![t] = FALSE]

Returns(t) ==
    /\ Ends(t)
    /\ page' = IF why[t] = "go" THEN [page EXCEPT ![t] = target[t]] ELSE page
    /\ session' = IF why[t] = "start" THEN "open" ELSE session

Raises(t) ==
    /\ Ends(t)
    /\ page' = IF Opens(t) THEN [page EXCEPT ![t] = NoPage] ELSE page
    /\ LET closed == IF Opens(t) THEN {page[t]} ELSE {} IN
        /\ tabs' = tabs \ closed
        /\ guarded' = guarded \ closed
        /\ loaded' = loaded \ closed

(* async with self._lock *)
Lock(t, forcing) ==
    /\ pc' = [pc EXCEPT ![t] = "lock"]
    /\ force' = [force EXCEPT ![t] = forcing]
    /\ queue' = Append(queue, t)

Release == queue' = Tail(queue)

Waits(t) == \E i \in 1..Len(queue) : queue[i] = t
Holds(t) == queue # <<>> /\ Head(queue) = t

(* _ensure_context *)
Ensure(t) ==
    IF Running
      THEN /\ pc' = [pc EXCEPT ![t] = "room"]
           /\ UNCHANGED <<force, queue>>
      ELSE Lock(t, "no")

EnsureAgain(t) ==
    /\ pc[t] = "ensure"
    /\ Ensure(t)
    /\ UNCHANGED <<allowDirect, relayOn, fresh, egressVars, engineVars, tabVars, ownerVars,
                   why, page, target, tries, spaced, stale>>

-----------------------------------------------------------------------------
(* The callers. *)

(* A call that opens a page: open_marketplace, or InteractiveSessionManager.start,
   which forgets the session before it, tabs included. *)
Begin(t, reason) ==
    /\ pc[t] = "idle"
    /\ why' = [why EXCEPT ![t] = reason]
    /\ Ensure(t)
    /\ UNCHANGED <<allowDirect, relayOn, fresh, egressVars, engineVars, tabVars, session,
                   target, tries, spaced, stale>>

OpenMarketplace(t) ==
    /\ t \in Research /\ page[t] = NoPage
    /\ Begin(t, "open")
    /\ UNCHANGED <<page, popups>>

StartSession(t) ==
    /\ t \in Owner /\ session # "open"
    /\ page' = [page EXCEPT ![t] = NoPage] /\ popups' = {}
    /\ Begin(t, "start")

(* navigate, on the page the caller holds *)
Navigate(t, reason) ==
    /\ pc[t] = "idle" /\ page[t] # NoPage
    /\ \/ t \in Research /\ reason = "go"
       \/ t \in Owner /\ reason = "act" /\ session = "open" /\ page[t] \in tabs
    /\ why' = [why EXCEPT ![t] = reason]
    /\ target' = [target EXCEPT ![t] = page[t]]
    /\ tries' = [tries EXCEPT ![t] = 1]
    /\ pc' = [pc EXCEPT ![t] = "goto"]
    /\ UNCHANGED <<allowDirect, relayOn, fresh, egressVars, engineVars, tabVars, ownerVars,
                   queue, force, page, spaced, stale>>

(* close_page *)
ClosePage(t) ==
    /\ t \in Research /\ pc[t] = "idle" /\ page[t] # NoPage
    /\ tabs' = tabs \ {page[t]} /\ loaded' = loaded \ {page[t]}
    /\ page' = [page EXCEPT ![t] = NoPage]
    /\ fresh' = TRUE
    /\ UNCHANGED <<allowDirect, relayOn, egressVars, engineVars, guarded, ownerVars, queue, pc,
                   why, force, target, tries, spaced, stale>>

(* The site opens a tab from the session's page: it joins the session. *)
Popup(t, p) ==
    /\ t \in Owner /\ session = "open" /\ page[t] \in tabs
    /\ popups = {} /\ p \in FreshPages
    /\ tabs' = tabs \union {p} /\ loaded' = loaded \union {p} /\ popups' = {p}
    /\ UNCHANGED <<allowDirect, relayOn, fresh, egressVars, engineVars, guarded, session, queue,
                   pc, callVars>>

(* current() retires a session whose time is over or whose page is gone; its
   tabs are left to the sweep, which nothing calls. *)
Expire(t) ==
    /\ t \in Owner /\ session = "open"
    /\ session' = "expired"
    /\ UNCHANGED <<allowDirect, relayOn, fresh, egressVars, engineVars, tabVars, popups, queue, pc,
                   callVars>>

(* complete() closes the session's tabs, those of an expired session too. *)
SessionTabs(t) == {page[t]} \union popups

Complete(t, outcome) ==
    /\ t \in Owner /\ pc[t] = "idle" /\ session # "none"
    /\ page[t] \notin tabs => session # "open"
    /\ session' = IF session = "open" THEN outcome ELSE session
    /\ tabs' = tabs \ SessionTabs(t)
    /\ guarded' = guarded \ SessionTabs(t)
    /\ loaded' = loaded \ SessionTabs(t)
    /\ page' = [page EXCEPT ![t] = NoPage]
    /\ popups' = {}
    /\ UNCHANGED <<allowDirect, relayOn, fresh, egressVars, engineVars, queue, pc,
                   why, force, target, tries, spaced, stale>>

(* _maybe_restart_browser: a forced launch, only when no research page is open. *)
Restart(t) ==
    /\ t \in Janitor /\ pc[t] = "idle" /\ ~Busy
    /\ why' = [why EXCEPT ![t] = "restart"]
    /\ Lock(t, "yes")
    /\ UNCHANGED <<allowDirect, relayOn, fresh, egressVars, engineVars, tabVars, ownerVars,
                   page, target, tries, spaced, stale>>

(* The routes relay/enable and relay/disable switch the hub, then restart. *)
SwitchRelay(t) ==
    /\ t \in Janitor /\ pc[t] = "idle"
    /\ relayOn' = ~relayOn
    /\ IF Busy
         THEN UNCHANGED <<why, pc, force, queue>>
         ELSE why' = [why EXCEPT ![t] = "restart"] /\ Lock(t, "yes")
    /\ UNCHANGED <<allowDirect, fresh, egressVars, engineVars, tabVars, ownerVars,
                   page, target, tries, spaced, stale>>

(* shutdown(), or one round of the idle loop that found the browser idle *)
Stop(t, reason) ==
    /\ t \in Janitor /\ pc[t] = "idle"
    /\ \/ reason = "stop"
       \/ reason = "idle" /\ Running /\ ~fresh
    /\ why' = [why EXCEPT ![t] = reason]
    /\ Lock(t, "no")
    /\ UNCHANGED <<allowDirect, relayOn, fresh, egressVars, engineVars, tabVars, ownerVars,
                   page, target, tries, spaced, stale>>

TimePasses ==
    /\ fresh /\ \A t \in Tasks : pc[t] = "idle"
    /\ fresh' = FALSE
    /\ UNCHANGED <<allowDirect, relayOn, egressVars, engineVars, tabVars, ownerVars, queue, pc,
                   callVars>>

-----------------------------------------------------------------------------
(* launch, shutdown and _teardown_context, under the lock *)

Stopping(t) == why[t] \in {"stop", "idle"}

(* From the choice of the egress to the next await: the probe of the
   configured proxy, or the engine's start. *)
Enter(t, route) ==
    /\ pc' = [pc EXCEPT ![t] = "enter"]
    /\ mode' = route /\ wired' = route
    /\ handle' = TRUE

Select(t) ==
    \/ /\ relayOn
       /\ Enter(t, "relay") /\ forced' = FALSE
    \/ /\ ~relayOn /\ forced
       /\ Enter(t, "direct") /\ forced' = FALSE
    \/ /\ ~relayOn /\ ~forced
       /\ pc' = [pc EXCEPT ![t] = "gate"]
       /\ UNCHANGED <<mode, forced, wired, handle>>

(* What follows a launch that has a browser to offer. *)
Proceed(t) ==
    IF why[t] = "restart"
      THEN Ends(t)
      ELSE /\ pc' = [pc EXCEPT ![t] = IF force[t] # "no" THEN "ensure" ELSE "room"]
           /\ UNCHANGED <<why, force, target, tries, spaced, stale>>

Finish(t) == Release /\ Ends(t)

(* The tear-down runs, unless nothing is to be torn down, or the launch finds
   a running browser, or the idle guard finds it in use after all. *)
TearsDown(t) ==
    /\ ctx # "none"
    /\ ~Stopping(t) => ~Running \/ force[t] # "no"
    /\ why[t] = "idle" => ~fresh

Acquired(t) ==
    /\ pc[t] = "lock" /\ Holds(t)
    /\ \/ /\ TearsDown(t)
          /\ pc' = [pc EXCEPT ![t] = "close"]
          /\ UNCHANGED <<queue, mode, forced, wired, handle, localVars>>
       \/ /\ ~TearsDown(t) /\ Stopping(t) /\ handle /\ (why[t] = "idle" => ~fresh)
          /\ pc' = [pc EXCEPT ![t] = "exit"]
          /\ UNCHANGED <<queue, mode, forced, wired, handle, localVars>>
       \/ /\ ~TearsDown(t) /\ Stopping(t) /\ (~handle \/ (why[t] = "idle" /\ fresh))
          /\ Finish(t)
          /\ UNCHANGED <<mode, forced, wired, handle>>
       \/ /\ ~TearsDown(t) /\ ~Stopping(t) /\ Running
          /\ Proceed(t) /\ Release
          /\ UNCHANGED <<mode, forced, wired, handle>>
       \/ /\ ~TearsDown(t) /\ ~Stopping(t) /\ ~Running
          /\ Select(t)
          /\ UNCHANGED <<queue, localVars>>
    /\ UNCHANGED <<allowDirect, relayOn, fresh, ctx, engine, streak, tabVars, ownerVars, page>>

(* Every coroutine that looked at the old context now holds a dead one. *)
LoseTabs ==
    /\ tabs' = {} /\ guarded' = {} /\ loaded' = {}

Stalled == [t \in Tasks |-> stale[t] \/ pc[t] \in {"room", "tab"}]

(* self._context.close() *)
ContextClosed(t) ==
    /\ pc[t] = "close"
    /\ LoseTabs /\ ctx' = "none" /\ stale' = Stalled
    /\ \/ /\ handle
          /\ pc' = [pc EXCEPT ![t] = "exit"]
          /\ UNCHANGED <<mode, forced, wired, handle>>
       \/ /\ ~handle
          /\ Select(t)
    /\ UNCHANGED <<allowDirect, relayOn, fresh, engine, streak, ownerVars, queue,
                   why, force, page, target, tries, spaced>>

(* self._camoufox.__aexit__() *)
EngineExited(t) ==
    /\ pc[t] = "exit"
    /\ engine' = "none"
    /\ \/ /\ Stopping(t)
          /\ handle' = FALSE
          /\ Finish(t)
          /\ UNCHANGED <<mode, forced, wired>>
       \/ /\ ~Stopping(t) /\ ~relayOn /\ ~forced
          /\ handle' = FALSE /\ pc' = [pc EXCEPT ![t] = "gate"]
          /\ UNCHANGED <<queue, mode, forced, wired, localVars>>
       \/ /\ ~Stopping(t) /\ (relayOn \/ forced)
          /\ Select(t)
          /\ UNCHANGED <<queue, localVars>>
    /\ UNCHANGED <<allowDirect, relayOn, fresh, ctx, streak, tabVars, ownerVars, page>>

(* _escalate_persistent_refusal asks, given the streak. *)
MayDemoteAnyhow(n) == n >= EscalateAfter /\ mode = "proxy"
MayDemote(n) == n >= EscalateAfter /\ mode = "proxy" /\ allowDirect

(* The first rung's launch failed, and another's launch went back to the proxy
   meanwhile: the rungs above it are still there. *)
Climbs(t) == force[t] = "dead" /\ mode = "proxy"

(* A launch that raises inside a recovery drops the verdict, and the navigation
   fails unless a rung is left: the spaced retry, or the demotion, which asks for
   the lock it has just given back.  A restart swallows the error. *)
LaunchRaises(t) ==
    \/ /\ Climbs(t) /\ ~spaced[t]
       /\ Release /\ forced' = FALSE
       /\ pc' = [pc EXCEPT ![t] = "spaced"]
       /\ UNCHANGED <<mode, page, tabVars, localVars>>
    \/ /\ Climbs(t) /\ spaced[t] /\ MayDemote(streak)
       /\ forced' = TRUE /\ mode' = "direct"
       /\ pc' = [pc EXCEPT ![t] = "lock"] /\ force' = [force EXCEPT ![t] = "yes"]
       /\ queue' = Append(Tail(queue), t)
       /\ UNCHANGED <<page, tabVars, why, target, tries, spaced, stale>>
    \/ /\ ~Climbs(t) \/ (spaced[t] /\ ~MayDemote(streak))
       /\ Release /\ mode' = mode
       /\ forced' = IF force[t] # "no" /\ why[t] # "restart" THEN FALSE ELSE forced
       /\ IF why[t] = "restart"
            THEN Ends(t) /\ UNCHANGED <<page, tabVars>>
            ELSE Raises(t)

(* probe_proxy, as the launch's health gate *)
Gated(t, ok) ==
    /\ pc[t] = "gate"
    /\ \/ /\ ok \/ allowDirect
          /\ Enter(t, IF ok THEN "proxy" ELSE "direct")
          /\ UNCHANGED <<queue, forced, page, tabVars, localVars>>
       \/ /\ ~ok /\ ~allowDirect
          /\ LaunchRaises(t)
          /\ UNCHANGED <<wired, handle>>
    /\ UNCHANGED <<allowDirect, relayOn, fresh, ctx, engine, streak, ownerVars>>

(* self._camoufox.__aenter__() *)
Launched(t) ==
    /\ pc[t] = "enter"
    /\ engine' = wired /\ wired' = "none" /\ ctx' = "up"
    /\ streak' = 0 /\ fresh' = TRUE
    /\ Proceed(t) /\ Release
    /\ UNCHANGED <<allowDirect, relayOn, handle, mode, forced, tabVars, ownerVars, page>>

LaunchFailed(t) ==
    /\ pc[t] = "enter"
    /\ pc' = [pc EXCEPT ![t] = "undo"] /\ wired' = "none"
    /\ UNCHANGED <<allowDirect, relayOn, fresh, egressVars, ctx, handle, engine, tabVars, ownerVars,
                   queue, callVars>>

Undone(t) ==
    /\ pc[t] = "undo"
    /\ handle' = FALSE
    /\ LaunchRaises(t)
    /\ UNCHANGED <<allowDirect, relayOn, fresh, streak, ctx, engine, wired, ownerVars>>

(* The browser process dies.  Either the crash callback clears the context,
   and leaves the engine's handle, or the next look finds it disconnected. *)
EngineDies ==
    /\ engine # "none" /\ ctx = "up"
    /\ engine' = "none"
    /\ ctx' \in {"none", "lost"}
    /\ LoseTabs /\ stale' = Stalled
    /\ UNCHANGED <<allowDirect, relayOn, fresh, egressVars, handle, wired, ownerVars, queue, pc,
                   why, force, page, target, tries, spaced>>

-----------------------------------------------------------------------------
(* new_page *)

EvictableAny == tabs
Evictable == Unprotected

(* At most one tab is evicted for the new one. *)
MakeRoom(t) ==
    /\ pc[t] = "room"
    /\ pc' = [pc EXCEPT ![t] = "tab"]
    /\ IF ~stale[t] /\ Cardinality(Unprotected) >= MaxOpen /\ Evictable # {}
         THEN \E victim \in Evictable :
                /\ tabs' = tabs \ {victim} /\ loaded' = loaded \ {victim}
                /\ guarded' = guarded \ {victim}
         ELSE UNCHANGED tabVars
    /\ UNCHANGED <<allowDirect, relayOn, fresh, egressVars, engineVars, ownerVars, queue, callVars>>

(* ctx.new_page(): the first page of a call is the one its caller will hold. *)
PageOpened(t, p) ==
    /\ pc[t] = "tab" /\ ~stale[t] /\ engine # "none" /\ p \in FreshPages
    /\ tabs' = tabs \union {p}
    /\ page' = IF page[t] = NoPage THEN [page EXCEPT ![t] = p] ELSE page
    /\ guarded' = IF page[t] = NoPage /\ why[t] = "start" THEN guarded \union {p} ELSE guarded
    /\ target' = [target EXCEPT ![t] = p]
    /\ tries' = [tries EXCEPT ![t] = @ + 1]
    /\ pc' = [pc EXCEPT ![t] = "goto"]
    /\ fresh' = TRUE
    /\ UNCHANGED <<allowDirect, relayOn, egressVars, engineVars, loaded, ownerVars, queue,
                   why, force, spaced, stale>>

PageRefused(t) ==
    /\ pc[t] = "tab" /\ (stale[t] \/ engine = "none")
    /\ Raises(t)
    /\ UNCHANGED <<allowDirect, relayOn, fresh, egressVars, engineVars, ownerVars, queue>>

-----------------------------------------------------------------------------
(* _goto_resilient: one goto, and the ladder its refusal climbs *)

GotoLoads(t) ==
    /\ pc[t] = "goto" /\ target[t] \in tabs
    /\ engine = "relay" => relayOn
    /\ loaded' = loaded \union {target[t]}
    /\ streak' = 0 /\ fresh' = TRUE
    /\ Returns(t)
    /\ UNCHANGED <<allowDirect, relayOn, mode, forced, engineVars, tabs, guarded, popups, queue>>

(* A timeout, an error of the site, or a page that is gone. *)
GotoFails(t) ==
    /\ pc[t] = "goto"
    /\ streak' \in {0, streak}
    /\ Raises(t)
    /\ UNCHANGED <<allowDirect, relayOn, fresh, mode, forced, engineVars, ownerVars, queue>>

(* The refusal is remembered as the next launch's verdict before the lock is asked for. *)
Demote(t, forcing) ==
    /\ forced' = TRUE /\ mode' = "direct"
    /\ Lock(t, forcing)
    /\ UNCHANGED <<why, page, target, tries, spaced, stale, tabVars>>

(* _escalate_persistent_refusal *)
Escalate(t, n) ==
    IF MayDemote(n)
      THEN Demote(t, "yes")
      ELSE Raises(t) /\ UNCHANGED <<forced, mode, queue>>

Suspend(t, point) ==
    /\ pc' = [pc EXCEPT ![t] = point]
    /\ UNCHANGED <<forced, mode, queue, page, localVars, tabVars>>

(* _note_refusal: refusals far apart are not consecutive. *)
Noted == {1, IF streak < EscalateAfter THEN streak + 1 ELSE streak}

LastAttemptNever(t) == FALSE
LastAttempt(t) == tries[t] >= MaxAttempts

GotoRefused(t) ==
    /\ pc[t] = "goto" /\ target[t] \in tabs /\ engine \in {"proxy", "relay"}
    /\ IF LastAttempt(t)
         THEN Raises(t) /\ streak' = 0 /\ UNCHANGED <<forced, mode, queue>>
         ELSE \E n \in Noted :
                /\ streak' = n
                /\ \/ /\ mode = "proxy" /\ allowDirect
                      /\ Suspend(t, "diagnose")
                   \/ /\ mode = "proxy" /\ ~allowDirect /\ ~spaced[t]
                      /\ Suspend(t, "spaced")
                   \/ /\ mode = "proxy" => ~allowDirect /\ spaced[t]
                      /\ Escalate(t, n)
    /\ UNCHANGED <<allowDirect, relayOn, fresh, engineVars, ownerVars>>

(* _recover_dead_proxy after its probe *)
Diagnosed(t, ok) ==
    /\ pc[t] = "diagnose"
    /\ \/ /\ ~ok
          /\ Demote(t, "dead")
       \/ /\ ok /\ ~spaced[t] /\ mode = "proxy"
          /\ Suspend(t, "spaced")
       \/ /\ ok /\ (spaced[t] \/ mode # "proxy")
          /\ Escalate(t, streak)
    /\ UNCHANGED <<allowDirect, relayOn, fresh, streak, engineVars, ownerVars>>

(* _retry_transient_proxy_failure after its probe and its second of sleep *)
SpacedUncounted(t, ok) ==
    /\ pc[t] = "spaced" /\ ok
    /\ pc' = [pc EXCEPT ![t] = "goto"]
    /\ UNCHANGED <<allowDirect, relayOn, fresh, egressVars, engineVars, tabVars, ownerVars, queue,
                   callVars>>

Spaced(t, ok) ==
    /\ pc[t] = "spaced"
    /\ \/ /\ ok
          /\ pc' = [pc EXCEPT ![t] = "goto"]
          /\ spaced' = [spaced EXCEPT ![t] = TRUE]
          /\ tries' = [tries EXCEPT ![t] = @ + 1]
          /\ UNCHANGED <<mode, forced, queue, why, force, page, target, stale, tabVars>>
       \/ /\ ~ok
          /\ Escalate(t, streak)
    /\ UNCHANGED <<allowDirect, relayOn, fresh, streak, engineVars, ownerVars>>

-----------------------------------------------------------------------------
Calls(t) ==
    \/ OpenMarketplace(t) \/ ClosePage(t)
    \/ StartSession(t) \/ \E p \in Pages : Popup(t, p)
    \/ \E reason \in Reasons : Navigate(t, reason) \/ Stop(t, reason)
    \/ Expire(t) \/ \E outcome \in {"completed", "cancelled"} : Complete(t, outcome)
    \/ Restart(t) \/ SwitchRelay(t)

Steps(t) ==
    \/ Acquired(t) \/ ContextClosed(t) \/ EngineExited(t)
    \/ Launched(t) \/ LaunchFailed(t) \/ Undone(t)
    \/ EnsureAgain(t) \/ MakeRoom(t) \/ PageRefused(t)
    \/ \E p \in Pages : PageOpened(t, p)
    \/ GotoLoads(t) \/ GotoFails(t) \/ GotoRefused(t)
    \/ \E ok \in BOOLEAN : Gated(t, ok) \/ Diagnosed(t, ok) \/ Spaced(t, ok)

Next ==
    \/ \E t \in Tasks : Calls(t) \/ Steps(t)
    \/ EngineDies
    \/ TimePasses

Spec == Init /\ [][Next]_vars

(* Every await of a call in flight comes back: a goto has a timeout, a probe
   too, a close and a launch end or raise. *)
FairSpec == Spec /\ \A t \in Tasks : WF_vars(Steps(t))

-----------------------------------------------------------------------------
TypeOK ==
    /\ allowDirect \in BOOLEAN /\ relayOn \in BOOLEAN /\ fresh \in BOOLEAN
    /\ ctx \in {"none", "up", "lost"} /\ handle \in BOOLEAN
    /\ engine \in Routes \union {"none"} /\ wired \in Routes \union {"none"}
    /\ mode \in Routes \union {"none"} /\ forced \in BOOLEAN /\ streak \in 0..EscalateAfter
    /\ tabs \subseteq Pages /\ guarded \subseteq tabs /\ loaded \subseteq tabs
    /\ session \in {"none", "open", "completed", "cancelled", "expired"} /\ popups \subseteq Pages
    /\ queue \in Seq(Tasks)
    /\ pc \in [Tasks -> Points] /\ why \in [Tasks -> Reasons] /\ force \in [Tasks -> Forcings]
    /\ page \in [Tasks -> Pages \union {NoPage}] /\ target \in [Tasks -> Pages \union {NoPage}]
    /\ tries \in [Tasks -> 0..MaxAttempts + 1]
    /\ spaced \in [Tasks -> BOOLEAN] /\ stale \in [Tasks -> BOOLEAN]

(* Two engines never run on the one profile: whoever starts one finds none
   running, whatever other launches, stops, restarts and crashes went on. *)
ProfileIsFree == \A t \in Tasks : pc[t] = "enter" => engine = "none"

(* Without RELAY_ALLOW_DIRECT no engine that was given the configured proxy is
   replaced by one that goes out on the server's own address. *)
NeverDirectAgainstPolicy == engine = "direct" => allowDirect

(* A tab the owner was given stays until its session is completed or the whole
   browser is relaunched, stopped or dies: research never evicts it. *)
OwnerTabStays ==
    [][\A p \in guarded \ guarded' :
         \/ tabs' = {}
         \/ \E t \in Owner : page[t] = p /\ page'[t] # p /\ session' # "open"]_vars

(* Every navigation, opening, restart and stop comes to its end, however often
   the proxy refuses and whoever relaunches the browser meanwhile. *)
CallEnds == \A t \in Tasks : (pc[t] # "idle") ~> (pc[t] = "idle")

-----------------------------------------------------------------------------
(* What the documentation says and the code does not keep. *)

(* open_marketplace hands back a page that is open when the browser was not
   relaunched or evicted it since: the step that returns leaves it open. *)
OpenedPageIsOpen ==
    [][\A t \in Research \union Owner :
         pc[t] = "goto" /\ pc'[t] = "idle" /\ Opens(t) /\ page'[t] # NoPage
            => page'[t] \in tabs']_vars

(* "never yank the browser out from under a running session" *)
NeverYanked ==
    [][\A j \in Janitor : pc[j] = "lock" /\ pc'[j] = "close" /\ why[j] = "restart"
         => \A t \in Research : pc[t] = "idle"]_vars

(* "never evict a page the owner is actively using": a tab of the open session *)
SessionTabStays ==
    [][\A t \in Research : pc[t] = "room" /\ pc'[t] = "tab" /\ session = "open"
         => popups \intersect tabs \subseteq tabs']_vars

(* "the session closes itself when the idle TTL elapses" *)
GuardedIsInUse ==
    guarded # {} => session = "open" \/ \E t \in Owner : pc[t] # "idle"

(* "keep at most browser_max_open_pages live" *)
PoolIsBounded == Cardinality(Unprotected \ popups) <= MaxOpen

(* A recovery's relaunch honours its verdict. *)
VerdictHonoured ==
    [][\A t \in Research : pc[t] = "enter" /\ pc'[t] = "ensure" /\ ~relayOn
         => engine' = "direct"]_vars

(* "same page: the context never died" *)
SamePageAfterPause ==
    [][\A t \in Research : pc[t] = "spaced" /\ pc'[t] = "goto" => target[t] \in tabs]_vars

(* Whatever engine a crash left behind is stopped before the next is started. *)
HandleIsStopped ==
    [][\A t \in Tasks : pc'[t] = "enter" /\ pc[t] # "enter" => ~handle \/ pc[t] = "exit"]_vars

=============================================================================
