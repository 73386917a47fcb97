-------------------------------- MODULE Spawn --------------------------------
(***************************************************************************)
(* The daemon's registry of owners for one command (muxcore/daemon):       *)
(* concurrent spawn calls that create, share or replace owners, the cache  *)
(* of templates they are created from, and the removal of owners.          *)
(*                                                                         *)
(* A step is what a goroutine does between two acquisitions of d.mu, or    *)
(* the answer of one wait.  What an owner does is reduced to what the      *)
(* registry sees of it: its verdict, whether it admits, its sessions.  The *)
(* maintenance fence of the command's context is a switch here.            *)
(***************************************************************************)
EXTENDS Naturals, Sequences, FiniteSets, Functions

CONSTANTS
  Caller,       \* spawn calls
  Asked,        \* what they ask for: functions from calls to requests
  GitRoot,      \* findGitRoot: the root of the repository that a directory is in
  DaemonEnv,    \* the daemon's own environment
  Cached,       \* scopes of templates that earlier owners published
  NoValue,      \* a variable that an environment lacks; no partition
  NoOwner,      \* the entry of a call that holds none
  MaxRetries,   \* maxSpawnRetries
  MaxMismatches,\* maxTemplateRevisionMismatches
  CrashThreshold,
  MaxEntries,   \* bound: entries ever created
  MaxCommits,   \* bound: verdicts that owners commit
  MaxEvents     \* bound: crashes, dead listeners, failures, fences, shutdown

ASSUME SpawnAssumption ==
  /\ MaxRetries \in Nat \ {0} /\ MaxMismatches \in Nat \ {0}
  /\ CrashThreshold \in Nat \ {0} /\ MaxEntries \in Nat /\ MaxCommits \in Nat
  /\ MaxEvents \in Nat
ASSUME OwnerAssumption == NoOwner \notin Nat
ASSUME ModeAssumption ==
  \A ask \in Asked, c \in Caller : ask[c].mode \in {"global", "cwd", "git", "isolated"}

VARIABLES
  req,      \* the request of each call
  p,        \* the calls
  entry,    \* every OwnerEntry, in order of creation
  owners,   \* Daemon.owners: server ID to index in entry
  counter,  \* forcedIsolatedRetryCounters, by working directory
  template, \* the template family of the command
  crashes,  \* crashes within crashWindow
  fence,    \* a maintenance lease covers the command's context
  stopping, \* shuttingDown
  verdicts, \* ghost: isolated verdicts published since the last invalidation
  events

vars == <<req, p, entry, owners, counter, template, crashes, fence, stopping,
          verdicts, events>>

Cwd == {ask[c].cwd : ask \in Asked, c \in Caller}
-----------------------------------------------------------------------------
(* Environments: a credential and an optional setting stand for the keys    *)
(* that IsCredentialKey and IsIdentityKey select.                          *)

mergeEnv(env) ==
  [k \in DOMAIN env |-> IF env[k] = NoValue THEN DaemonEnv[k] ELSE env[k]]

Compatible(a, b) ==
  /\ a.credential = b.credential
  /\ NoValue \in {a.setting, b.setting} \/ a.setting = b.setting

ASSUME ContextAssumption ==
  \A ask \in Asked, c \in Caller :
    [cwd |-> ask[c].cwd, env |-> mergeEnv(ask[c].env), part |-> ask[c].part] # NoValue

Env(c) == mergeEnv(req[c].env)
Legacy(c) == req[c].era = "legacy"
Shared(c) == ~Legacy(c) /\ req[c].part # NoValue

\* normalizeModernSpawn: the exact context that modern calls share an owner for.
compatibility(c) ==
  IF Shared(c) THEN [cwd |-> req[c].cwd, env |-> Env(c), part |-> req[c].part]
  ELSE NoValue
-----------------------------------------------------------------------------
(* Server identities *)

Sid(kind, cwd, env, n) == [kind |-> kind, cwd |-> cwd, env |-> env, n |-> n]

\* The mode is not hashed: a git root and a working directory may be one identity.
Scope(mode) == IF mode = "git" THEN "cwd" ELSE mode
GenerateContextKey(mode, cwd) ==
  Sid(Scope(mode),
      CASE mode = "global" -> NoValue [] mode = "git" -> GitRoot[cwd] [] OTHER -> cwd, NoValue, 0)

Registered(sid) == sid \in DOMAIN owners
At(sid) == entry[owners[sid]]

\* A call that finds an owner of another environment goes to a bucket of its own.
deriveEnvBucketedSid(base, env) ==
  LET bucket == [base EXCEPT !.env = env]
      known == Registered(base) /\ At(base).state # "creating"
  IN  IF ~known THEN IF Registered(bucket) THEN bucket ELSE base
      ELSE IF Compatible(At(base).env, env) THEN base ELSE bucket

deriveSid(c) ==
  LET mode == p[c].mode
      base == GenerateContextKey(mode, req[c].cwd)
      n == IF p[c].isolated > 0 THEN p[c].isolated ELSE counter[req[c].cwd]
  IN  IF ~Legacy(c) THEN Sid("native", req[c].cwd, c, p[c].retries)
      ELSE CASE mode = "isolated" -> [base EXCEPT !.n = n]
             [] mode = "global" -> deriveEnvBucketedSid(base, Env(c))
             [] OTHER -> base

\* deleteOwnerEntryLocked: the retry counter goes with the last isolated owner.
Delete(e) ==
  LET rest == Restrict(owners, DOMAIN owners \ {entry[e].sid})
      more == \E s \in DOMAIN rest : s.kind = "isolated" /\ s.cwd = entry[e].sid.cwd
  IN  /\ owners' = rest
      /\ counter' = IF entry[e].sid.kind = "isolated" /\ ~more
                    THEN [counter EXCEPT ![entry[e].sid.cwd] = 0] ELSE counter
-----------------------------------------------------------------------------
(* The template cache *)

templateScope(class, env, cwd) ==
  [class |-> class, env |-> env, cwd |-> IF class = "isolated" THEN cwd ELSE NoValue]

\* An isolated verdict replaces the relaxed ones of its environment; isolation
\* of a directory survives a later shared verdict.
updateTemplateLocked(class, env, cwd) ==
  [rev |-> template.rev + 1,
   scopes |-> {t \in template.scopes :
                 t.env # env \/ t.class = class \/ t.class = "isolated"}
                \cup {templateScope(class, env, cwd)}]

NoTemplate == [class |-> "none", rev |-> 0]
getCompatibleTemplate(env, cwd) ==
  LET has(class) == templateScope(class, env, cwd) \in template.scopes
  IN  IF has("isolated") THEN [class |-> "isolated", rev |-> template.rev]
      ELSE IF has("shared") THEN [class |-> "shared", rev |-> template.rev]
      ELSE NoTemplate

templateMatchCurrentLocked(m, env, cwd) ==
  /\ m.rev = template.rev
  /\ templateScope(m.class, env, cwd) \in template.scopes
-----------------------------------------------------------------------------
(* The steps of a call.  At(sid) above is by identity; E(c) is the entry the *)
(* call holds on to.                                                        *)

E(c) == entry[p[c].e]
Go(c, pc) == p' = [p EXCEPT ![c].pc = pc]
Fresh(mode) ==
  [pc |-> "idle", mode |-> mode, e |-> NoOwner, sid |-> NoOwner, isolated |-> 0, retries |-> 0,
   waited |-> FALSE, mismatches |-> 0, match |-> NoTemplate, after |-> "retry"]
Return(c, result) == p' = [p EXCEPT ![c] = [Fresh(p[c].mode) EXCEPT !.pc = result]]
GoWith(c, pc, e) == p' = [p EXCEPT ![c].pc = pc, ![c].e = e]
Current(c) == Registered(E(c).sid) /\ owners[E(c).sid] = p[c].e
Fail(c) == Return(c, "failed")

\* errSpawnRetry, with the mode and the retry number of the next attempt.
Retry(c, mode, isolated) ==
  IF p[c].retries + 1 >= MaxRetries THEN Fail(c)
  ELSE p' = [p EXCEPT ![c] = [Fresh(mode) EXCEPT !.pc = "derive", !.isolated = isolated,
                              !.retries = p[c].retries + 1, !.mismatches = p[c].mismatches]]
Again(c) == Retry(c, p[c].mode, p[c].isolated)

promoteIsolatedRetry(c, e) ==
  IF Legacy(c) /\ e.era = "legacy"
  THEN /\ counter' = [counter EXCEPT ![e.cwd] = @ + 1]
       /\ Retry(c, "isolated", counter[e.cwd] + 1)
  ELSE Again(c) /\ UNCHANGED counter

\* The call was refused by an owner; an isolated one makes it ask for its own.
Refused(c) ==
  IF E(c).class = "isolated" THEN promoteIsolatedRetry(c, E(c))
  ELSE Again(c) /\ UNCHANGED counter

Keep == UNCHANGED <<req, template, crashes, fence, stopping, verdicts, events>>
Registry == UNCHANGED <<entry, owners, counter>>

HandleSpawn(c) ==
  /\ p[c].pc = "idle"
  /\ Go(c, IF stopping THEN "failed" ELSE "derive")
  /\ Registry /\ Keep

isCrashLooping == crashes >= CrashThreshold

Derive(c) ==
  /\ p[c].pc = "derive"
  /\ IF fence \/ isCrashLooping THEN Fail(c)
     ELSE p' = [p EXCEPT ![c].pc = "lookup", ![c].sid = deriveSid(c)]
  /\ Registry /\ Keep

\* A modern call looks for the owner of its exact context, a retiring one too.
Exact(c) == {s \in DOMAIN owners : Shared(c) /\ At(s).compat = compatibility(c)}

\* The numbers the counter comes to; one of them is free.
Candidates(c) ==
  LET k == counter[req[c].cwd]
  IN  {n \in k + 1 .. k + 1 + Cardinality(DOMAIN owners) : ~Registered([p[c].sid EXCEPT !.n = n])}
Least(S) == CHOOSE n \in S : \A m \in S : n <= m

\* The identity under which the call reads the registry.
Target(c) ==
  IF Exact(c) # {} THEN CHOOSE s \in Exact(c) : TRUE
  ELSE IF Legacy(c) /\ p[c].mode = "isolated" /\ Registered(p[c].sid)
  THEN [p[c].sid EXCEPT !.n = Least(Candidates(c))]
  ELSE p[c].sid

NewEntry(c, sid) ==
  [sid |-> sid, era |-> req[c].era, cwd |-> req[c].cwd, env |-> Env(c),
   compat |-> compatibility(c), creator |-> c, state |-> "creating", closed |-> FALSE,
   class |-> "none", frozen |-> FALSE, admits |-> TRUE, reachable |-> TRUE,
   sessions |-> {}, removal |-> "no", exited |-> FALSE]

\* The placeholder reserves the identity; past the bound no generation is left.
CreatePlaceholder(c, sid) ==
  IF Len(entry) = MaxEntries THEN Fail(c) /\ Registry
  ELSE /\ entry' = Append(entry, NewEntry(c, sid))
       /\ owners' = [s \in DOMAIN owners \cup {sid} |->
                      IF s = sid THEN Len(entry) + 1 ELSE owners[s]]
       /\ GoWith(c, "create", Len(entry) + 1)
       /\ counter' = IF sid.kind = "isolated" /\ sid # p[c].sid
                     THEN [counter EXCEPT ![sid.cwd] = sid.n] ELSE counter

\* findSharedOwnerLocked, for the mode that shares by working directory: an
\* owner to share, or one creation, verdict or commit to wait for.
Sharable(c, e) ==
  /\ e.era = "legacy" /\ e.state = "live" /\ Compatible(e.env, Env(c))
  /\ ~e.frozen /\ e.admits
  /\ e.cwd = req[c].cwd \/ e.class = "shared"

Committing(c, e) ==
  e.era = "legacy" /\ e.state = "live" /\ Compatible(e.env, Env(c)) /\ e.frozen

Unsettled(c, e) ==
  /\ e.era = "legacy"
  /\ \/ e.state = "creating"
     \/ /\ Compatible(e.env, Env(c)) /\ ~e.frozen /\ e.admits
        /\ e.cwd # req[c].cwd /\ e.class = "none"

Awaits(e) == IF e.state = "creating" THEN "created" ELSE IF e.frozen THEN "thawed" ELSE "classified"

findSharedOwnerLocked(c, sid) ==
  LET here == {owners[s] : s \in DOMAIN owners}
      shared == {e \in here : Sharable(c, entry[e])}
      frozen == {e \in here : Committing(c, entry[e])}
      await == IF frozen # {} THEN frozen ELSE {e \in here : Unsettled(c, entry[e])}
  IN  IF shared # {} THEN (\E e \in shared : GoWith(c, "admit", e)) /\ Registry
      ELSE IF await = {} \/ p[c].waited
      THEN IF fence THEN Fail(c) /\ Registry ELSE CreatePlaceholder(c, sid)
      ELSE (\E e \in await : GoWith(c, Awaits(entry[e]), e)) /\ Registry

\* The entry found under the identity decides; a reservation that is not yet a
\* session does not keep a closed owner.
Found(c, e) ==
  LET o == entry[e]
  IN  \/ o.state = "creating" /\ GoWith(c, "wait", e) /\ Registry
      \/ o.state = "live" /\ o.frozen /\ GoWith(c, "thaw", e) /\ Registry
      \/ o.state = "live" /\ ~o.frozen /\ o.admits /\ GoWith(c, "probe", e) /\ Registry
      \/ /\ o.state = "live" /\ ~o.frozen /\ ~o.admits
         /\ \/ o.sessions # {} /\ promoteIsolatedRetry(c, o) /\ UNCHANGED <<entry, owners>>
            \/ GoWith(c, "remove", e) /\ Registry

Lookup(c) ==
  /\ p[c].pc = "lookup"
  /\ LET sid == Target(c)
     IN  IF fence THEN Fail(c) /\ Registry
         ELSE IF Registered(sid) THEN Found(c, owners[sid])
         ELSE IF Legacy(c) /\ p[c].mode = "cwd" THEN findSharedOwnerLocked(c, sid)
         ELSE CreatePlaceholder(c, sid)
  /\ Keep

\* What findSharedOwnerLocked waits for has happened: one fresh scan.  A commit
\* that outlasts the wait is not scanned for again.
Scan(c) ==
  /\ \/ p[c].pc = "created" /\ E(c).closed
     \/ p[c].pc = "classified" /\ E(c).class # "none"
     \/ p[c].pc = "thawed" /\ (~E(c).frozen \/ E(c).state = "removed")
  /\ p' = [p EXCEPT ![c].pc = "rescan", ![c].waited = TRUE]
  /\ Registry /\ Keep

ScanTimeout(c) ==
  /\ p[c].pc \in {"created", "classified", "thawed"}
  /\ IF fence THEN Fail(c) /\ Registry ELSE CreatePlaceholder(c, p[c].sid)
  /\ Keep

Rescan(c) ==
  /\ p[c].pc = "rescan"
  /\ findSharedOwnerLocked(c, p[c].sid)
  /\ Keep

\* Where a call that may share entry e goes next: fresh global calls to the gate.
Gated(c) == Legacy(c) /\ p[c].mode = "global"
\* Variant: the environment was checked when the identity was derived.
ShareBlind(c, e) == GoWith(c, IF Gated(c) THEN "gate" ELSE "admit", e)

Share(c, e) ==
  IF Gated(c) /\ ~Compatible(entry[e].env, Env(c)) THEN Again(c)
  ELSE GoWith(c, IF Gated(c) THEN "gate" ELSE "admit", e)

\* The creation has ended; what the identity stands for now is looked up again.
Wait(c) ==
  /\ p[c].pc = "wait" /\ E(c).closed
  /\ LET sid == E(c).sid
         here == IF Registered(sid) THEN owners[sid] ELSE NoOwner
     IN  IF fence THEN Fail(c) /\ Registry
         ELSE IF here = NoOwner \/ (here # NoOwner /\ entry[here].state # "live")
         THEN Again(c) /\ Registry
         ELSE IF entry[here].frozen THEN GoWith(c, "thaw", here) /\ Registry
         ELSE IF entry[here].admits THEN Share(c, here) /\ Registry
         ELSE IF entry[here].class = "isolated"
         THEN promoteIsolatedRetry(c, entry[here]) /\ UNCHANGED <<entry, owners>>
         ELSE Again(c) /\ Registry
  /\ Keep

\* concurrentCreateWaitTimeout
WaitTimeout(c) == p[c].pc = "wait" /\ Fail(c) /\ Registry /\ Keep

waitForOwnerAdmissionThaw(c) ==
  /\ p[c].pc = "thaw"
  /\ \/ (~E(c).frozen \/ E(c).state = "removed") /\ Again(c)
     \/ Fail(c)
  /\ Registry /\ Keep

\* The listener is dialled without the lock; the entry must still be the one.
Probe(c) ==
  /\ p[c].pc = "probe"
  /\ IF fence THEN Fail(c)
     ELSE IF ~Current(c) THEN Again(c)
     ELSE IF E(c).reachable /\ E(c).admits THEN Share(c, p[c].e)
     ELSE Go(c, "remove")
  /\ Registry /\ Keep

\* Variant: an owner without a verdict may be shared.
classifyOptimistic(c) ==
  /\ p[c].pc = "gate"
  /\ IF E(c).class = "isolated" THEN Retry(c, "isolated", p[c].isolated) ELSE Go(c, "admit")
  /\ Registry /\ Keep

waitForCrossCwdClassify(c) ==
  /\ p[c].pc = "gate"
  /\ \/ E(c).class = "shared" /\ Go(c, "admit")
     \/ E(c).class # "shared" /\ Retry(c, "isolated", p[c].isolated)
  /\ Registry /\ Keep

admitOwner(c) ==
  /\ p[c].pc = "admit"
  /\ IF fence THEN Fail(c) /\ Registry
     ELSE IF Current(c) /\ ~E(c).frozen /\ E(c).admits /\ E(c).class # "isolated"
     THEN /\ entry' = [entry EXCEPT ![p[c].e].sessions = @ \cup {c}]
          /\ Return(c, "done") /\ UNCHANGED <<owners, counter>>
     ELSE Refused(c) /\ UNCHANGED <<entry, owners>>
  /\ Keep
-----------------------------------------------------------------------------
(* Creation *)

\* Creation failed or is fenced (variant: without releasing the waiters).
DropSilently(c) ==
  /\ entry' = [entry EXCEPT ![p[c].e].state = "abandoned"]
  /\ IF Current(c) THEN Delete(p[c].e) ELSE UNCHANGED <<owners, counter>>

Drop(c) ==
  /\ entry' = [entry EXCEPT ![p[c].e].state = "abandoned", ![p[c].e].closed = TRUE]
  /\ IF Current(c) THEN Delete(p[c].e) ELSE UNCHANGED <<owners, counter>>

\* The placeholder is given up; its waiters are released if it still stands.
Abandon(c) ==
  /\ entry' = [entry EXCEPT ![p[c].e].state = "abandoned",
                            ![p[c].e].closed = @ \/ Current(c)]
  /\ IF Current(c) THEN Delete(p[c].e) ELSE UNCHANGED <<owners, counter>>

Event == events < MaxEvents /\ events' = events + 1
KeepAll == UNCHANGED <<req, template, crashes, fence, stopping, verdicts>>

Select(c) ==
  IF Legacy(c) /\ p[c].mismatches < MaxMismatches
  THEN getCompatibleTemplate(Env(c), req[c].cwd) ELSE NoTemplate

NewOwner(c) ==
  /\ p[c].pc = "create"
  /\ p' = [p EXCEPT ![c].pc = "promote", ![c].match = Select(c)]
  /\ Registry /\ Keep

NewOwnerFails(c) ==
  /\ p[c].pc = "create"
  /\ Drop(c) /\ Fail(c) /\ Event /\ KeepAll

PromotableBlind(c, stale) == ~stale
Promotable(c, stale) == Current(c) /\ ~stale

Promote(c) ==
  LET m == p[c].match
      stale == m # NoTemplate /\ ~templateMatchCurrentLocked(m, Env(c), req[c].cwd)
  IN  /\ p[c].pc = "promote"
      /\ IF fence
         THEN Drop(c) /\ Fail(c)
         ELSE IF ~Promotable(c, stale)
         THEN /\ Abandon(c)
              /\ IF stale THEN p' = [p EXCEPT ![c].pc = "derive", ![c].e = NoOwner,
                                              ![c].mismatches = @ + 1]
                 ELSE Again(c)
         ELSE /\ entry' = [entry EXCEPT ![p[c].e].state = "live", ![p[c].e].closed = TRUE,
                                        ![p[c].e].class = m.class]
              /\ Go(c, "first") /\ UNCHANGED <<owners, counter>>
      /\ Keep

\* PreRegisterInitial waits for a commit; a template needs no process yet.
AdmitFirst(c) ==
  /\ p[c].pc = "first"
  /\ IF fence THEN Fail(c) /\ Registry
     ELSE IF ~Current(c) \/ ~E(c).admits
     THEN Refused(c) /\ UNCHANGED <<entry, owners>>
     ELSE /\ ~E(c).frozen
          /\ entry' = [entry EXCEPT ![p[c].e].sessions = @ \cup {c}]
          /\ IF p[c].match = NoTemplate THEN Go(c, "start") ELSE Return(c, "done")
          /\ UNCHANGED <<owners, counter>>
  /\ Keep

StartInitialMaterialization(c) ==
  /\ p[c].pc = "start"
  /\ \/ Return(c, "done") /\ UNCHANGED events
     \/ p' = [p EXCEPT ![c].pc = "remove", ![c].after = "fail"] /\ Event
  /\ Registry /\ KeepAll
-----------------------------------------------------------------------------
(* Removal: finalizeAndRemoveOwner for a call, and for everyone else *)

Claim(e) == entry' = [entry EXCEPT ![e].removal = "claimed"]
Claimable(e) ==
  /\ entry[e].state = "live" /\ Registered(entry[e].sid) /\ owners[entry[e].sid] = e
  /\ entry[e].removal # "claimed"
After(c) == IF p[c].after = "fail" THEN Fail(c) ELSE Again(c)

Remove(c) ==
  /\ p[c].pc = "remove"
  /\ \/ Current(c) /\ Claimable(p[c].e) /\ Claim(p[c].e) /\ Go(c, "removing")
     \/ ~Current(c) /\ After(c) /\ UNCHANGED entry
  /\ UNCHANGED <<owners, counter>> /\ Keep

Removing(c) ==
  /\ p[c].pc = "removing" /\ E(c).removal # "claimed"
  /\ After(c) /\ Registry /\ Keep

\* The reaper and the zero-session timer, the end of the upstream, the retry of
\* an unproven removal, the shutdown.  The delays of the first two outlast what
\* is left of the creating call.
Idle(e) == entry[e].sessions = {} /\ p[entry[e].creator].pc \notin {"first", "start"}
ClaimRemoval(e) ==
  /\ Claimable(e)
  /\ Idle(e) \/ entry[e].exited \/ stopping \/ entry[e].removal = "retry"
  /\ Claim(e)
  /\ UNCHANGED <<p, owners, counter>> /\ Keep

OperatorRemoves(e) ==
  /\ Claimable(e) /\ ~fence /\ Claim(e)
  /\ Event /\ UNCHANGED <<p, owners, counter>> /\ KeepAll

CloseOwner(e) ==
  /\ entry[e].removal = "claimed" /\ entry[e].admits
  /\ entry' = [entry EXCEPT ![e].admits = FALSE, ![e].sessions = {}]
  /\ UNCHANGED <<p, owners, counter>> /\ Keep

FinalizeUnproven(e) ==
  /\ entry[e].removal = "claimed" /\ ~entry[e].admits
  /\ entry' = [entry EXCEPT ![e].removal = "retry"]
  /\ Event /\ UNCHANGED <<p, owners, counter>> /\ KeepAll

prepareOwnerRemovalLocked(e) ==
  /\ entry[e].removal = "claimed" /\ ~entry[e].admits
  /\ LET current == Registered(entry[e].sid) /\ owners[entry[e].sid] = e
     IN  /\ entry' = [entry EXCEPT ![e].removal = "no",
                                   ![e].state = IF current THEN "removed" ELSE @]
         /\ IF current THEN Delete(e) ELSE UNCHANGED <<owners, counter>>
  /\ UNCHANGED p /\ Keep
-----------------------------------------------------------------------------
(* What owners and operators do meanwhile *)

Live(e) == entry[e].state = "live" /\ entry[e].admits
Held(e) == Registered(entry[e].sid) /\ owners[entry[e].sid] = e
Quiet == UNCHANGED <<req, p, owners, counter, crashes, fence, stopping>>

\* Only the cache of a legacy owner that has been started is committed.
Commits(e) ==
  /\ Live(e) /\ entry[e].era = "legacy" /\ template.rev <= MaxCommits
  /\ p[entry[e].creator].pc \notin {"first", "start"}

Freeze(e) ==
  /\ Commits(e) /\ ~entry[e].frozen
  /\ entry' = [entry EXCEPT ![e].frozen = TRUE]
  /\ Quiet /\ UNCHANGED <<template, verdicts, events>>

\* publishOwnerCache: only the registered generation publishes.
Publish(e, class) ==
  /\ template' = updateTemplateLocked(class, entry[e].env, entry[e].cwd)
  /\ verdicts' = IF class = "isolated"
                 THEN verdicts \cup {<<entry[e].env, entry[e].cwd>>} ELSE verdicts

\* An owner known to be isolated stays so, whatever it publishes.
Verdict(e, class) == IF entry[e].class = "isolated" THEN "isolated" ELSE class

Commit(e, class) ==
  /\ entry[e].state = "live" /\ entry[e].frozen
  /\ IF Held(e)
     THEN /\ Publish(e, class)
          /\ entry' = [entry EXCEPT ![e].frozen = FALSE, ![e].class = Verdict(e, class)]
     ELSE /\ entry' = [entry EXCEPT ![e].frozen = FALSE]
          /\ UNCHANGED <<template, verdicts>>
  /\ Quiet /\ UNCHANGED events

ClassifyLive(e, class) ==
  /\ Commits(e) /\ ~entry[e].frozen /\ entry[e].class = "none" /\ Held(e)
  /\ Publish(e, class)
  /\ entry' = [entry EXCEPT ![e].class = class]
  /\ Quiet /\ UNCHANGED events

invalidateOwnerTemplate(e) ==
  /\ Live(e) /\ entry[e].era = "legacy" /\ Held(e) /\ template.scopes # {}
  /\ template' = [rev |-> template.rev + 1, scopes |-> {}]
  /\ verdicts' = {}
  /\ Event /\ Quiet /\ UNCHANGED entry

SessionEnds(e, c) ==
  /\ c \in entry[e].sessions
  /\ entry' = [entry EXCEPT ![e].sessions = @ \ {c}]
  /\ Quiet /\ UNCHANGED <<template, verdicts, events>>

ListenerDies(e) ==
  /\ Live(e) /\ entry[e].reachable
  /\ \E closed \in BOOLEAN : entry' = [entry EXCEPT ![e].reachable = FALSE, ![e].admits = ~closed]
  /\ Event /\ Quiet /\ UNCHANGED <<template, verdicts>>

onUpstreamExit(e) ==
  /\ Live(e) /\ Held(e) /\ ~entry[e].exited
  /\ entry' = [entry EXCEPT ![e].exited = TRUE]
  /\ crashes' = crashes + 1
  /\ Event
  /\ UNCHANGED <<req, p, owners, counter, template, fence, stopping, verdicts>>

CrashWindowPasses ==
  /\ crashes > 0 /\ crashes' = 0
  /\ UNCHANGED <<req, p, entry, owners, counter, template, fence, stopping, verdicts, events>>

Fence ==
  /\ ~fence /\ ~stopping /\ fence' = TRUE /\ Event
  /\ UNCHANGED <<req, p, entry, owners, counter, template, crashes, stopping, verdicts>>

Unfence ==
  /\ fence /\ fence' = FALSE
  /\ UNCHANGED <<req, p, entry, owners, counter, template, crashes, stopping, verdicts, events>>

Shutdown ==
  /\ ~fence /\ ~stopping /\ stopping' = TRUE /\ Event
  /\ UNCHANGED <<req, p, entry, owners, counter, template, crashes, fence, verdicts>>

\* A placeholder is dropped without releasing its waiters.
ShutdownDrops(e) ==
  /\ stopping /\ entry[e].state = "creating" /\ Held(e)
  /\ Delete(e)
  /\ UNCHANGED <<p, entry>> /\ Keep

\* The time that a binding of a shared modern call is valid for has passed.
BindingExpires(c) ==
  /\ p[c].pc = "derive" /\ Shared(c) /\ p[c].retries > 0
  /\ Fail(c) /\ Event /\ Registry /\ KeepAll
-----------------------------------------------------------------------------
Init ==
  /\ req \in Asked
  /\ p = [c \in Caller |-> Fresh(req[c].mode)]
  /\ entry = <<>> /\ owners = <<>>
  /\ counter = [d \in Cwd |-> 0]
  /\ template = [rev |-> 1, scopes |-> Cached]
  /\ crashes = 0 /\ fence = FALSE /\ stopping = FALSE
  /\ verdicts = {} /\ events = 0

Call(c) ==
  \/ HandleSpawn(c) \/ Derive(c) \/ Lookup(c) \/ Scan(c) \/ ScanTimeout(c) \/ Rescan(c) \/ Wait(c)
  \/ waitForOwnerAdmissionThaw(c) \/ Probe(c) \/ waitForCrossCwdClassify(c)
  \/ admitOwner(c) \/ NewOwner(c) \/ Promote(c) \/ AdmitFirst(c)
  \/ StartInitialMaterialization(c) \/ Remove(c) \/ Removing(c)

Trouble(c) == WaitTimeout(c) \/ NewOwnerFails(c) \/ BindingExpires(c)

RemovalStep(e) == CloseOwner(e) \/ FinalizeUnproven(e) \/ prepareOwnerRemovalLocked(e)

Verdicts == {"shared", "isolated"}
CommitStep(e) == \E class \in Verdicts : Commit(e, class)

OwnerStep(e) ==
  \/ ClaimRemoval(e) \/ OperatorRemoves(e)
  \/ Freeze(e) \/ \E class \in Verdicts : ClassifyLive(e, class)
  \/ invalidateOwnerTemplate(e)
  \/ \E c \in Caller : SessionEnds(e, c)
  \/ ListenerDies(e) \/ onUpstreamExit(e) \/ ShutdownDrops(e)

Next ==
  \/ \E c \in Caller : Call(c) \/ Trouble(c)
  \/ \E e \in DOMAIN entry : RemovalStep(e) \/ CommitStep(e) \/ OwnerStep(e)
  \/ CrashWindowPasses \/ Fence \/ Unfence \/ Shutdown

Spec == Init /\ [][Next]_vars

\* A call runs on, the timers of a commit and of the gate included; removals and
\* commits under way end.  Of the two waits for another's creation, the scan's
\* 30 s are relied on (ScanTimeout), those of the entry found by its identity are
\* not (WaitTimeout).
FairSpec ==
  /\ Spec
  /\ \A c \in Caller : WF_vars(Call(c))
  /\ \A e \in 1 .. MaxEntries :
       /\ WF_vars(e \in DOMAIN entry /\ RemovalStep(e))
       /\ WF_vars(e \in DOMAIN entry /\ CommitStep(e))
-----------------------------------------------------------------------------
Returned(c) == p[c].pc \in {"done", "failed"}

SpawnTypeOK ==
  /\ \A c \in Caller :
       /\ p[c].retries <= MaxRetries /\ p[c].mismatches <= MaxMismatches
       /\ p[c].pc \notin {"idle", "derive", "lookup", "failed", "done"} => p[c].e \in DOMAIN entry
  /\ Len(entry) <= MaxEntries
  /\ \A s \in DOMAIN owners : owners[s] \in DOMAIN entry /\ At(s).sid = s
  /\ \A e \in DOMAIN entry :
       entry[e].state \in {"creating", "live", "abandoned", "removed"}

\* An owner that lives is found in the registry: no placeholder, shutdown or
\* removal of another generation takes its entry (daemon.go:1685).
LiveIsRegistered == \A e \in DOMAIN entry : entry[e].state = "live" => Held(e)

\* A call is never given an owner whose credentials or settings conflict with
\* its own environment.  The deprecated modes, cwd and git, match by directory or
\* repository alone: the environments are compared in the global mode only.
\* Calls that agree on a shared modern context never have two owners, one that
\* is still being created or already being removed included.
RightOwner ==
  /\ SpawnTypeOK
  /\ \A c \in Caller, e \in DOMAIN entry :
       c \in entry[e].sessions /\ p[c].mode \notin {"cwd", "git"} => Compatible(entry[e].env, Env(c))
  /\ \A s, t \in DOMAIN owners :
       At(s).compat # NoValue /\ At(s).compat = At(t).compat => s = t

\* A verdict about sharing is kept although it is read outside the lock under
\* which it is used: a global call gets an owner that another call created only
\* once that owner is known to be shareable, and once a directory was found to
\* need isolation no owner for it starts as a shared one, until the templates
\* are invalidated.
VerdictsKept ==
  [][/\ \A c \in Caller :
          Gated(c) /\ p[c].pc = "admit" /\ p'[c].pc = "done"
            => entry[p[c].e].class = "shared"
     /\ \A e \in DOMAIN entry :
          /\ entry[e].state = "creating" /\ entry'[e].state = "live"
          /\ <<entry[e].env, entry[e].cwd>> \in verdicts
          => entry'[e].class # "shared"]_vars

\* A directory-mode call has put its placeholder over another one, whose creator
\* then gives up without releasing those who wait for it (daemon.go:1706, 1866).
Overwritten ==
  \E e, f \in DOMAIN entry :
    e < f /\ entry[e].sid = entry[f].sid /\ entry[e].state = "abandoned" /\ ~entry[e].closed

\* Every call returns, and a call that waits for another's creation under its own
\* identity does not need the 30 s timer for that, unless the daemon is shutting
\* down or a placeholder was overwritten.  The scan of the directory mode waits
\* for its timer where an owner is never classified.
SpawnReturns ==
  \A c \in Caller : p[c].pc = "derive" ~> (Returned(c) \/ stopping \/ Overwritten)
=============================================================================
