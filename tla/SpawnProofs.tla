----------------------------- MODULE SpawnProofs -----------------------------
(***************************************************************************)
(* Proofs about the daemon's registry, for any number of calls, entries,   *)
(* retries and events: an owner that lives is registered, unless the       *)
(* deprecated directory mode took its place; a call gets an owner of its   *)
(* own environment, and a shared modern context has one owner; and what is *)
(* known about sharing when a lock is dropped still binds when it is used. *)
(***************************************************************************)
EXTENDS Spawn, FiniteSetTheorems, SequenceTheorems, WellFoundedInduction, TLAPS

Envs   == {mergeEnv(ask[c].env) : ask \in Asked, c \in Caller}
Parts  == {ask[c].part : ask \in Asked, c \in Caller}
Eras   == {ask[c].era : ask \in Asked, c \in Caller}
Roots  == {GitRoot[d] : d \in Cwd}
Sids   == [kind : {"global", "cwd", "isolated", "native"}, cwd : Cwd \cup Roots \cup {NoValue},
           env : Envs \cup {NoValue} \cup Caller, n : Nat]
Classes == {"none", "shared", "isolated"}
Matches == [class : Classes, rev : Nat]

EntryType ==
  [sid : Sids, era : Eras, cwd : Cwd, env : Envs,
   compat : {NoValue} \cup [cwd : Cwd, env : Envs, part : Parts],
   creator : Caller, state : {"creating", "live", "abandoned", "removed"}, closed : BOOLEAN,
   class : Classes, frozen : BOOLEAN, admits : BOOLEAN, reachable : BOOLEAN,
   sessions : SUBSET Caller, removal : {"no", "claimed", "retry"}, exited : BOOLEAN]

\* Where a call stands: it holds no entry, one it looks at, or one it made.
Away    == {"idle", "derive", "lookup", "failed", "done"}
Looking == {"created", "classified", "thawed", "rescan", "wait", "thaw", "probe", "gate", "admit"}
Making  == {"create", "promote", "first", "start"}
Places  == Away \cup Looking \cup Making \cup {"remove", "removing"}

Modes    == {"global", "cwd", "git", "isolated"}
CallType ==
  [pc : Places, mode : Modes, e : Nat \cup {NoOwner},
   sid : Sids \cup {NoOwner}, isolated : Nat, retries : Nat, waited : BOOLEAN, mismatches : Nat,
   match : Matches, after : {"retry", "fail"}]

SpawnTypes ==
  /\ req \in Asked /\ p \in [Caller -> CallType]
  /\ entry \in Seq(EntryType) /\ Len(entry) <= MaxEntries
  /\ owners \in [DOMAIN owners -> Nat] /\ DOMAIN owners \subseteq Sids /\ IsFiniteSet(DOMAIN owners)
  /\ counter \in [Cwd -> Nat] /\ template.rev \in Nat

\* Only a call of the mode that shares by directory replaces an entry, and only one
\* of the identities that it may ask for.
ByDirectory == \E ask \in Asked, c \in Caller : ask[c].era = "legacy" /\ ask[c].mode = "cwd"
Movable(sid) == sid.kind = "cwd" /\ ByDirectory

\* The registry files an entry under its identity, and an owner that lives stays
\* there, outside the mode that shares by directory.
Filed ==
  /\ \A s \in DOMAIN owners : owners[s] \in DOMAIN entry /\ entry[owners[s]].sid = s
  /\ \A e \in DOMAIN entry : entry[e].state = "live" /\ ~Movable(entry[e].sid) => Held(e)

\* An entry is what its creator asked for, and an isolated identity is a directory's.
MadeFor(e) ==
  LET c == e.creator
  IN  /\ e.era = req[c].era /\ e.cwd = req[c].cwd /\ e.env = Env(c) /\ e.compat = compatibility(c)
      /\ IF Legacy(c) THEN e.sid.kind \in {Scope(req[c].mode), "isolated"}
         ELSE e.sid.kind = "native" /\ e.sid.env = c
      /\ e.sid.kind = "isolated" => e.sid.cwd \in Cwd
      /\ e.state = "creating" => e.class = "none" /\ e.removal = "no"
Made == \A e \in DOMAIN entry : MadeFor(entry[e])

\* The identity under which call c asks.
AsksFor(c, q) ==
  /\ q.sid \in Sids
  /\ IF Legacy(c) THEN q.sid.kind = Scope(q.mode) ELSE q.sid.kind = "native" /\ q.sid.env = c
  /\ q.sid.kind = "isolated" => q.sid.cwd \in Cwd

\* What the entry x that call c holds on to has to do with it.
Suits(c, q, x) ==
  /\ q.pc \in Making => x.creator = c
  /\ q.pc \in {"create", "promote"} => x.state = "creating"
  /\ q.pc \in {"wait", "probe", "gate", "admit"} =>
       IF Legacy(c) THEN q.mode # "isolated" ELSE x.sid.kind = "native" /\ x.env = Env(c)
  /\ q.pc \in {"gate", "admit"} /\ Legacy(c) /\ q.mode = "global" => Compatible(x.env, Env(c))
  /\ q.pc = "admit" /\ Legacy(c) /\ q.mode = "global" => x.class # "none"

\* A template was selected at its revision, and the isolated one before the shared.
Selected(c, q) ==
  q.pc = "promote" =>
    /\ q.match # NoTemplate => q.mismatches < MaxMismatches
    /\ q.match = NoTemplate \/ q.match.class \in {"shared", "isolated"}
    /\ q.match # NoTemplate => q.match.rev <= template.rev
    /\ q.match.class = "shared" /\ q.match.rev = template.rev =>
         templateScope("isolated", Env(c), req[c].cwd) \notin template.scopes

\* A call is where its history put it.
Asks(c, q) ==
  /\ q.retries <= MaxRetries /\ q.mismatches <= MaxMismatches
  /\ q.mode \in {req[c].mode, "isolated"}
  /\ q.pc \notin Away => q.e \in DOMAIN entry /\ Suits(c, q, entry[q.e])
  /\ q.pc \notin {"idle", "derive", "failed", "done"} => AsksFor(c, q)
  /\ q.pc \in {"created", "classified", "thawed", "rescan"} => Legacy(c) /\ q.mode = "cwd"
  /\ q.pc = "gate" => Legacy(c) /\ q.mode = "global"
  /\ Selected(c, q)
Asking == \A c \in Caller : Asks(c, p[c])

Deprecated(mode) == mode \in {"cwd", "git"}

\* A session is with an owner of its environment, or was made by directory alone.
Joined ==
  \A e \in DOMAIN entry : \A c \in entry[e].sessions :
    Compatible(entry[e].env, Env(c)) \/ (Deprecated(p[c].mode) /\ p[c].pc = "done")

\* A shared modern context has one owner.
Elected ==
  \A s, t \in DOMAIN owners :
    entry[owners[s]].compat # NoValue /\ entry[owners[s]].compat = entry[owners[t]].compat => s = t

\* An isolated verdict is in the cache until the templates are invalidated.
Published == \A v \in verdicts : templateScope("isolated", v[1], v[2]) \in template.scopes

SpawnInv ==
  /\ SpawnTypes
  /\ Filed
  /\ Made
  /\ Asking
  /\ Joined
  /\ Elected
  /\ Published
-----------------------------------------------------------------------------
(* The operators of the model *)

\* What a call asks for has the types of the requests.
LEMMA Requests ==
  ASSUME req \in Asked, NEW c \in Caller
  PROVE  /\ Env(c) \in Envs /\ req[c].cwd \in Cwd /\ req[c].era \in Eras
         /\ req[c].mode \in Modes
         /\ compatibility(c) \in {NoValue} \cup [cwd : Cwd, env : Envs, part : Parts]
         /\ Shared(c) => compatibility(c) # NoValue /\ compatibility(c).env = Env(c)
<1>1. Env(c) \in Envs /\ req[c].cwd \in Cwd /\ req[c].era \in Eras /\ req[c].part \in Parts
  BY DEF Envs, Cwd, Eras, Parts, Env
<1>2. req[c].mode \in Modes
  BY ModeAssumption DEF Modes
<1>3. [cwd |-> req[c].cwd, env |-> Env(c), part |-> req[c].part] # NoValue
  BY ContextAssumption DEF Env
<1>. QED  BY <1>1, <1>2, <1>3 DEF compatibility

\* A non-empty set of numbers has a least one.
LEMMA LeastIsIn ==
  ASSUME NEW S \in SUBSET Nat, S # {}
  PROVE  Least(S) \in S
<1>. DEFINE R == {ss \in Nat \X Nat : ss[1] < ss[2]}
<1>1. IsWellFoundedOn(R, Nat)
  BY NatLessThanWellFounded, Zenon DEF OpToRel
<1>. HIDE DEF R
<1>2. PICK n \in S : \A m \in S : ~(<<m, n>> \in R)
  BY <1>1, WFMin
<1>3. \A m \in S : n <= m
  <2>. TAKE m \in S
  <2>1. m \in Nat /\ n \in Nat
    OBVIOUS
  <2>2. ~(m < n)
    <3>1. SUFFICES ASSUME m < n PROVE <<m, n>> \in R
      BY <1>2
    <3>2. <<m, n>> \in Nat \X Nat /\ <<m, n>>[1] = m /\ <<m, n>>[2] = n
      BY <2>1
    <3>. QED  BY <3>1, <3>2, Zenon DEF R
  <2>. QED  BY <2>1, <2>2
<1>. QED  BY <1>3 DEF Least

\* The registry is finite, so one of the numbers tried for a new isolated
\* identity is free.
LEMMA NumberIsFree ==
  ASSUME SpawnTypes, NEW c \in Caller, p[c].sid \in Sids
  PROVE  /\ Candidates(c) \in SUBSET Nat /\ Least(Candidates(c)) \in Candidates(c)
<1>. DEFINE k == counter[req[c].cwd]
            D == DOMAIN owners
            S == k + 1 .. k + 1 + Cardinality(D)
            f == [n \in S |-> [p[c].sid EXCEPT !.n = n]]
<1>1. k \in Nat /\ IsFiniteSet(D) /\ Cardinality(D) \in Nat
  BY Requests, FS_CardinalityType DEF SpawnTypes
<1>2. Cardinality(S) = Cardinality(D) + 1
  <2>1. k + 1 \in Int /\ k + 1 + Cardinality(D) \in Int /\ ~(k + 1 > k + 1 + Cardinality(D))
    BY <1>1
  <2>. DEFINE a == k + 1
              b == k + 1 + Cardinality(D)
  <2>. HIDE DEF a, b
  <2>2. Cardinality(a .. b) = b - a + 1
    BY <2>1, FS_Interval DEF a, b
  <2>. QED  BY <2>2, <1>1 DEF a, b
<1>3. Candidates(c) = {n \in S : [p[c].sid EXCEPT !.n = n] \notin D}
  BY DEF Candidates, Registered
<1>4. Candidates(c) # {}
  <2>. SUFFICES ASSUME \A n \in S : [p[c].sid EXCEPT !.n = n] \in D PROVE FALSE
    BY <1>3
  <2>1. f \in [S -> D]
    OBVIOUS
  <2>2. \A n \in S : f[n].n = n
    BY DEF Sids
  <2>3. f \in Injection(S, D)
    BY <2>1, <2>2 DEF Injection, IsInjective
  <2>4. Cardinality(S) <= Cardinality(D)
    BY <2>3, <1>1, FS_Injection
  <2>. QED  BY <2>4, <1>1, <1>2
<1>5. Candidates(c) \in SUBSET Nat
  BY <1>1, <1>3
<1>. QED  BY <1>4, <1>5, LeastIsIn

\* What depends on the request of a call alone does not change.
LEMMA SameRequests ==
  ASSUME req' = req, NEW c
  PROVE  /\ Env(c)' = Env(c) /\ compatibility(c)' = compatibility(c)
         /\ Legacy(c)' <=> Legacy(c)
         /\ Shared(c)' <=> Shared(c)
BY DEF Env, compatibility, Legacy, Shared

\* Every environment is compatible with itself.
LEMMA OwnEnvironment ==
  ASSUME NEW env PROVE Compatible(env, env)
BY DEF Compatible

\* A call stands where it stood when neither the entries nor the templates move.
LEMMA AsksStay ==
  ASSUME UNCHANGED <<req, entry, template>>, NEW c \in Caller, NEW q, q = p'[c], Asks(c, q)
  PROVE  Asks(c, p[c])'
BY SameRequests DEF Asks, Suits, AsksFor, Selected

\* A call that holds nothing has no obligations.
LEMMA AwayAsks ==
  ASSUME NEW c \in Caller, NEW q, q.pc \in {"idle", "derive", "failed", "done"},
         q.retries <= MaxRetries, q.mismatches <= MaxMismatches,
         q.mode \in {req[c].mode, "isolated"}
  PROVE  Asks(c, q)
BY DEF Asks, Selected, Away

\* A step of one call that leaves the registry's entries alone.
LEMMA CallMoves ==
  ASSUME SpawnInv, NEW c \in Caller, NEW q \in CallType, p' = [p EXCEPT ![c] = q],
         UNCHANGED <<req, entry, owners, template, verdicts>>, counter' \in [Cwd -> Nat],
         p[c].pc # "done", Asks(c, q)
  PROVE  SpawnInv'
<1>1. SpawnTypes'
  BY DEF SpawnInv, SpawnTypes
<1>2. Filed' /\ Elected'
  BY DEF SpawnInv, Filed, Elected, Held, Registered
<1>3. Made'
  BY SameRequests DEF SpawnInv, Made, MadeFor
<1>4. Published'
  BY DEF SpawnInv, Published, templateScope
<1>5. Asking'
  <2>. SUFFICES ASSUME NEW d \in Caller PROVE Asks(d, p[d])'
    BY DEF Asking
  <2>1. Asks(d, p'[d])
    BY DEF SpawnInv, SpawnTypes, Asking
  <2>. QED  BY <2>1, AsksStay
<1>6. Joined'
  <2>. SUFFICES ASSUME NEW e \in DOMAIN entry, NEW d \in entry[e].sessions
               PROVE  Compatible(entry[e].env, Env(d)) \/ (Deprecated(p'[d].mode) /\ p'[d].pc = "done")
    BY SameRequests DEF Joined
  <2>1. Compatible(entry[e].env, Env(d)) \/ (Deprecated(p[d].mode) /\ p[d].pc = "done")
    BY DEF SpawnInv, Joined
  <2>. QED  BY <2>1 DEF SpawnInv, SpawnTypes
<1>. QED  BY <1>1, <1>2, <1>3, <1>4, <1>5, <1>6 DEF SpawnInv

\* Nothing that the invariant is about has moved.
LEMMA NothingMoves ==
  ASSUME SpawnInv, UNCHANGED <<req, p, entry, owners, counter, template, verdicts>>
  PROVE  SpawnInv'
<1>1. SpawnTypes' /\ Filed' /\ Elected'
  BY DEF SpawnInv, SpawnTypes, Filed, Elected, Held, Registered
<1>2. Made' /\ Joined'
  BY SameRequests DEF SpawnInv, Made, MadeFor, Joined
<1>3. Published'
  BY DEF SpawnInv, Published, templateScope
<1>4. Asking'
  BY AsksStay DEF SpawnInv, Asking
<1>. QED  BY <1>1, <1>2, <1>3, <1>4 DEF SpawnInv

-----------------------------------------------------------------------------
(* Steps that change one entry *)

\* What an entry keeps for good, and the verdict it does not lose.
Follows(o, r) ==
  /\ r.sid = o.sid /\ r.era = o.era /\ r.cwd = o.cwd /\ r.env = o.env
  /\ r.compat = o.compat /\ r.creator = o.creator
  /\ o.class # "none" => r.class # "none"

\* The templates stay, or move to a revision nobody has selected from.
TemplateMoves ==
  \/ UNCHANGED <<template, verdicts>>
  \/ template'.rev = template.rev + 1 /\ Published'

\* A call stands where it stood when an entry that follows replaces one.
LEMMA AsksKept ==
  ASSUME SpawnTypes, TemplateMoves, req' = req, NEW x \in DOMAIN entry, NEW r,
         entry' = [entry EXCEPT ![x] = r], Follows(entry[x], r),
         NEW c \in Caller, NEW q \in CallType, q = p'[c], Asks(c, q),
         /\ q.pc \in {"create", "promote"} /\ entry[x].creator = c /\ entry[x].state = "creating"
         => r.state = "creating"
  PROVE  Asks(c, p[c])'
<1>1. DOMAIN entry' = DOMAIN entry /\ \A e \in DOMAIN entry : entry'[e] = IF e = x THEN r ELSE entry[e]
  BY DEF SpawnTypes
<1>2. q.pc \notin Away => q.e \in DOMAIN entry' /\ Suits(c, q, entry'[q.e])
  <2>. SUFFICES ASSUME q.pc \notin Away
               PROVE  q.e \in DOMAIN entry' /\ Suits(c, q, entry'[q.e])
    OBVIOUS
  <2>1. q.e \in DOMAIN entry /\ Suits(c, q, entry[q.e])
    BY DEF Asks
  <2>2. CASE q.e # x
    BY <2>1, <2>2, <1>1
  <2>3. CASE q.e = x
    BY <2>1, <2>3, <1>1 DEF Follows, Suits, Making
  <2>. QED  BY <2>2, <2>3
<1>3. Selected(c, q)'
  <2>1. Selected(c, q)
    BY DEF Asks
  <2>2. CASE UNCHANGED <<template, verdicts>>
    BY <2>1, <2>2, SameRequests DEF Selected, templateScope
  <2>3. CASE template'.rev = template.rev + 1
    <3>1. q.match.rev \in Nat /\ template.rev \in Nat
      BY DEF CallType, Matches, SpawnTypes
    <3>2. q.match.rev <= template.rev => q.match.rev <= template'.rev /\ q.match.rev # template'.rev
      BY <2>3, <3>1
    <3>3. NoTemplate' = NoTemplate /\ NoTemplate.class = "none"
      BY DEF NoTemplate
    <3>. QED  BY <2>1, <3>2, <3>3 DEF Selected
  <2>. QED  BY <2>2, <2>3 DEF TemplateMoves
<1>4. Suits(c, q, entry[q.e])' <=> Suits(c, q, entry'[q.e])
  BY SameRequests DEF Suits
<1>. QED  BY <1>1, <1>2, <1>3, <1>4, SameRequests DEF Asks, AsksFor

\* A step that changes one entry and at most one call, and removes no other
\* entry than that one from the registry.
LEMMA EntryMoves ==
  ASSUME SpawnInv, TemplateMoves, req' = req, NEW x \in DOMAIN entry, NEW r \in EntryType,
         entry' = [entry EXCEPT ![x] = r], Follows(entry[x], r),
         r.state = "creating" => r.class = "none" /\ r.removal = "no",
         NEW c \in Caller, NEW q \in CallType, p' = [p EXCEPT ![c] = q], Asks(c, q),
         q = p[c] \/ p[c].pc # "done",
         entry[x].state = "creating" /\ r.state # "creating" =>
           entry[x].creator = c /\ q.pc \notin {"create", "promote"},
         \A d \in r.sessions : \/ d \in entry[x].sessions
                               \/ Compatible(r.env, Env(d))
                               \/ d = c /\ Deprecated(q.mode) /\ q.pc = "done",
         r.state = "live" /\ ~Movable(r.sid) => Held(x),
         \/ owners' = owners
         \/ /\ Held(x) /\ r.state # "live"
            /\ owners' = Restrict(owners, DOMAIN owners \ {entry[x].sid}),
         counter' \in [Cwd -> Nat]
  PROVE  SpawnInv'
<1>. USE DEF SpawnInv
<1>1. /\ DOMAIN entry' = DOMAIN entry
      /\ \A e \in DOMAIN entry : entry'[e] = IF e = x THEN r ELSE entry[e]
  BY DEF SpawnTypes
<1>2. /\ DOMAIN owners' \subseteq DOMAIN owners
      /\ \A s \in DOMAIN owners' : owners'[s] = owners[s]
  BY DEF Restrict
<1>3. \A e \in DOMAIN entry : /\ entry'[e].sid = entry[e].sid /\ entry'[e].compat = entry[e].compat
                              /\ entry'[e].env = entry[e].env
  BY <1>1 DEF Follows
<1>4. SpawnTypes'
  <2>1. entry \in Seq(EntryType) /\ x \in 1 .. Len(entry)
    BY DEF SpawnTypes
  <2>2. entry' \in Seq(EntryType) /\ Len(entry') = Len(entry)
    BY <2>1, ExceptSeq
  <2>3. p' \in [Caller -> CallType]
    BY DEF SpawnTypes
  <2>4. IsFiniteSet(DOMAIN owners')
    BY <1>2, FS_Subset DEF SpawnTypes
  <2>5. owners' \in [DOMAIN owners' -> Nat] /\ DOMAIN owners' \subseteq Sids
    BY <1>2 DEF SpawnTypes, Restrict
  <2>6. template'.rev \in Nat
    BY DEF SpawnTypes, TemplateMoves
  <2>. QED  BY <2>2, <2>3, <2>4, <2>5, <2>6 DEF SpawnTypes
<1>5. Filed'
  <2>1. \A s \in DOMAIN owners' : owners'[s] \in DOMAIN entry' /\ entry'[owners'[s]].sid = s
    BY <1>1, <1>2, <1>3 DEF Filed
  <2>2. ASSUME NEW e \in DOMAIN entry', entry'[e].state = "live", ~Movable(entry'[e].sid)
        PROVE  Held(e)'
    <3>1. Held(e)
      BY <2>2, <1>1 DEF Filed
    <3>2. CASE owners' = owners
      BY <3>1, <3>2, <1>1, <1>3 DEF Held, Registered
    <3>3. CASE Held(x) /\ r.state # "live" /\ owners' = Restrict(owners, DOMAIN owners \ {entry[x].sid})
      <4>1. e # x
        BY <2>2, <3>3, <1>1
      <4>2. entry[e].sid # entry[x].sid
        BY <4>1, <3>1, <3>3 DEF Held
      <4>. QED  BY <4>2, <3>1, <3>3, <1>1, <1>3 DEF Held, Registered, Restrict
    <3>. QED  BY <3>2, <3>3
  <2>. QED  BY <2>1, <2>2 DEF Filed
<1>6. Made'
  <2>. SUFFICES ASSUME NEW e \in DOMAIN entry PROVE MadeFor(entry[e])'
    BY <1>1 DEF Made
  <2>1. MadeFor(entry[e])
    BY DEF Made
  <2>. QED  BY <2>1, <1>1, SameRequests DEF MadeFor, Follows
<1>7. Asking'
  <2>. SUFFICES ASSUME NEW d \in Caller PROVE Asks(d, p[d])'
    BY DEF Asking
  <2>1. p'[d] \in CallType /\ Asks(d, p'[d])
    BY DEF SpawnTypes, Asking
  <2>2. /\ p'[d].pc \in {"create", "promote"} /\ entry[x].creator = d /\ entry[x].state = "creating"
        => r.state = "creating"
    BY DEF SpawnTypes
  <2>. QED  BY <2>1, <2>2, AsksKept
<1>8. Joined'
  <2>. SUFFICES ASSUME NEW e \in DOMAIN entry, NEW d \in entry'[e].sessions
               PROVE  Compatible(entry[e].env, Env(d)) \/ (Deprecated(p'[d].mode) /\ p'[d].pc = "done")
    BY <1>1, <1>3, SameRequests DEF Joined
  <2>1. d \in entry[e].sessions =>
          Compatible(entry[e].env, Env(d)) \/ (Deprecated(p[d].mode) /\ p[d].pc = "done")
    BY DEF Joined
  <2>2. d \in Caller => p'[d] = IF d = c THEN q ELSE p[d]
    BY DEF SpawnTypes
  <2>3. d \in Caller
    <3>1. entry[e] \in EntryType
      BY DEF SpawnTypes
    <3>2. entry[e].sessions \subseteq Caller /\ r.sessions \subseteq Caller
      BY <3>1 DEF EntryType
    <3>. QED  BY <3>2, <1>1
  <2>. QED  BY <2>1, <2>2, <2>3, <1>1, <1>3
<1>9. Elected'
  BY <1>1, <1>2, <1>3 DEF Elected, Filed
<1>10. Published'
  BY DEF Published, TemplateMoves, templateScope
<1>. QED  BY <1>4, <1>5, <1>6, <1>7, <1>8, <1>9, <1>10

-----------------------------------------------------------------------------
(* How a call moves on *)

\* The call ends, or starts again with its next retry.
Leaves(c) ==
  \E q \in CallType : /\ p' = [p EXCEPT ![c] = q]
                      /\ q.pc \in {"derive", "failed"} /\ Asks(c, q)

\* A call that returns keeps its mode.
LEMMA ReturnShape ==
  ASSUME SpawnInv, NEW c \in Caller, NEW result \in {"failed", "done"}, Return(c, result)
  PROVE  \E q \in CallType : /\ p' = [p EXCEPT ![c] = q] /\ q.pc = result
                             /\ q.mode = p[c].mode /\ Asks(c, q)
<1>. DEFINE q == [Fresh(p[c].mode) EXCEPT !.pc = result]
<1>1. p[c] \in CallType /\ Asks(c, p[c])
  BY DEF SpawnInv, SpawnTypes, Asking
<1>2. NoTemplate \in Matches
  BY DEF NoTemplate, Matches, Classes
<1>3. p[c].mode \in Modes /\ p[c].mode \in {req[c].mode, "isolated"}
  BY <1>1 DEF CallType, Asks
<1>4. q \in CallType
  BY <1>2, <1>3 DEF Fresh, CallType, Places, Away
<1>5. q.pc = result /\ q.mode = p[c].mode /\ q.retries = 0 /\ q.mismatches = 0
  BY DEF Fresh
<1>. HIDE DEF q
<1>6. 0 <= MaxRetries /\ 0 <= MaxMismatches
  BY SpawnAssumption
<1>7. Asks(c, q)
  BY <1>3, <1>5, <1>6, AwayAsks
<1>. QED  BY <1>4, <1>5, <1>7 DEF Return, q

\* So does one that fails.
LEMMA FailShape ==
  ASSUME SpawnInv, NEW c \in Caller, Fail(c)
  PROVE  Leaves(c)
BY ReturnShape DEF Fail, Leaves

\* A retry is bounded, and only changes the mode to the isolated one.
LEMMA RetryShape ==
  ASSUME SpawnInv, NEW c \in Caller, NEW mode \in {p[c].mode, "isolated"}, NEW isolated \in Nat,
         Retry(c, mode, isolated)
  PROVE  Leaves(c)
<1>1. p[c] \in CallType /\ Asks(c, p[c])
  BY DEF SpawnInv, SpawnTypes, Asking
<1>2. NoTemplate \in Matches
  BY DEF NoTemplate, Matches, Classes
<1>3. /\ p[c].mode \in Modes /\ p[c].mode \in {req[c].mode, "isolated"}
      /\ p[c].retries \in Nat /\ p[c].mismatches \in Nat /\ p[c].mismatches <= MaxMismatches
  BY <1>1 DEF CallType, Asks
<1>4. CASE p[c].retries + 1 >= MaxRetries
  BY <1>4, FailShape DEF Retry
<1>5. CASE ~(p[c].retries + 1 >= MaxRetries)
  <2>. DEFINE n == p[c].retries + 1
              k == p[c].mismatches
              q == [Fresh(mode) EXCEPT !.pc = "derive", !.isolated = isolated,
                                       !.retries = n, !.mismatches = k]
  <2>1. q \in CallType
    <3>1. n \in Nat /\ k \in Nat /\ mode \in Modes
      BY <1>3 DEF Modes
    <3>. HIDE DEF n, k
    <3>. QED  BY <3>1, <1>2 DEF Fresh, CallType, Places, Away
  <2>2. /\ q.pc = "derive" /\ q.mode = mode /\ q.retries = p[c].retries + 1
        /\ q.mismatches = p[c].mismatches
    BY DEF Fresh
  <2>3. p' = [p EXCEPT ![c] = q]
    BY <1>5 DEF Retry
  <2>. HIDE DEF q
  <2>4. p[c].retries + 1 <= MaxRetries
    BY <1>3, <1>5, SpawnAssumption
  <2>5. Asks(c, q)
    BY <1>3, <2>2, <2>4, AwayAsks
  <2>. QED  BY <2>1, <2>2, <2>3, <2>5 DEF Leaves
<1>. QED  BY <1>4, <1>5

\* A call that tries again as it is.
LEMMA AgainShape ==
  ASSUME SpawnInv, NEW c \in Caller, Again(c)
  PROVE  Leaves(c)
<1>1. p[c] \in CallType
  BY DEF SpawnInv, SpawnTypes
<1>2. p[c].isolated \in Nat
  BY <1>1 DEF CallType
<1>. QED  BY <1>2, RetryShape DEF Again

\* A promotion to an isolated owner counts up for the directory of entry x.
LEMMA PromoteShape ==
  ASSUME SpawnInv, NEW c \in Caller, NEW x \in DOMAIN entry, promoteIsolatedRetry(c, entry[x])
  PROVE  Leaves(c) /\ counter' \in [Cwd -> Nat]
<1>1. entry[x] \in EntryType /\ counter \in [Cwd -> Nat]
  BY DEF SpawnInv, SpawnTypes
<1>2. entry[x].cwd \in Cwd
  BY <1>1 DEF EntryType
<1>3. counter[entry[x].cwd] + 1 \in Nat
  BY <1>1, <1>2
<1>4. CASE Legacy(c) /\ entry[x].era = "legacy"
  <2>1. counter' = [counter EXCEPT ![entry[x].cwd] = counter[entry[x].cwd] + 1]
    BY <1>4 DEF promoteIsolatedRetry
  <2>2. Retry(c, "isolated", counter[entry[x].cwd] + 1)
    BY <1>4 DEF promoteIsolatedRetry
  <2>. QED  BY <2>1, <2>2, <1>1, <1>2, <1>3, RetryShape
<1>5. CASE ~(Legacy(c) /\ entry[x].era = "legacy")
  BY <1>5, <1>1, AgainShape DEF promoteIsolatedRetry
<1>. QED  BY <1>4, <1>5

\* A call that its entry refused.
LEMMA RefusedShape ==
  ASSUME SpawnInv, NEW c \in Caller, p[c].e \in DOMAIN entry, Refused(c)
  PROVE  Leaves(c) /\ counter' \in [Cwd -> Nat]
<1>1. counter \in [Cwd -> Nat]
  BY DEF SpawnInv, SpawnTypes
<1>. QED  BY <1>1, PromoteShape, AgainShape DEF Refused, E

\* What follows a removal.
LEMMA AfterShape ==
  ASSUME SpawnInv, NEW c \in Caller, After(c)
  PROVE  Leaves(c)
BY FailShape, AgainShape DEF After

\* A call that leaves keeps the invariant.
LEMMA Leaving ==
  ASSUME SpawnInv, NEW c \in Caller, Leaves(c), p[c].pc # "done",
         UNCHANGED <<req, entry, owners, template, verdicts>>, counter' \in [Cwd -> Nat]
  PROVE  SpawnInv'
BY CallMoves DEF Leaves

\* The call goes to pc with entry e, and is otherwise as it was.
Goes(c, q, pc, e) ==
  /\ q \in CallType /\ p' = [p EXCEPT ![c] = q]
  /\ q.pc = pc /\ q.e = e
  /\ q.mode = p[c].mode /\ q.sid = p[c].sid /\ q.retries = p[c].retries
  /\ q.mismatches = p[c].mismatches /\ q.match = p[c].match

\* GoWith is such a step.
LEMMA GoWithShape ==
  ASSUME SpawnInv, NEW c \in Caller, NEW pc \in Places, NEW e \in Nat \cup {NoOwner}, GoWith(c, pc, e)
  PROVE  \E q : Goes(c, q, pc, e)
<1>. DEFINE q == [p[c] EXCEPT !.pc = pc, !.e = e]
<1>1. p[c] \in CallType /\ p \in [Caller -> CallType]
  BY DEF SpawnInv, SpawnTypes
<1>2. q \in CallType
  BY <1>1 DEF CallType
<1>3. /\ q.pc = pc /\ q.e = e
      /\ q.mode = p[c].mode /\ q.sid = p[c].sid /\ q.retries = p[c].retries
      /\ q.mismatches = p[c].mismatches /\ q.match = p[c].match
  BY <1>1 DEF CallType
<1>4. p' = [p EXCEPT ![c] = q]
  BY <1>1 DEF GoWith
<1>. QED  BY <1>2, <1>3, <1>4 DEF Goes

\* So is Go, with the entry that the call holds.
LEMMA GoShape ==
  ASSUME SpawnInv, NEW c \in Caller, NEW pc \in Places, Go(c, pc)
  PROVE  \E q : Goes(c, q, pc, p[c].e)
<1>. DEFINE q == [p[c] EXCEPT !.pc = pc]
<1>1. p[c] \in CallType /\ p \in [Caller -> CallType]
  BY DEF SpawnInv, SpawnTypes
<1>2. q \in CallType
  BY <1>1 DEF CallType
<1>3. /\ q.pc = pc /\ q.e = p[c].e
      /\ q.mode = p[c].mode /\ q.sid = p[c].sid /\ q.retries = p[c].retries
      /\ q.mismatches = p[c].mismatches /\ q.match = p[c].match
  BY <1>1 DEF CallType
<1>4. p' = [p EXCEPT ![c] = q]
  BY <1>1 DEF Go
<1>. QED  BY <1>2, <1>3, <1>4 DEF Goes

\* The entry x has what place pc needs of it.
MayGo(c, pc, x) ==
  /\ pc \in {"wait", "probe", "gate", "admit"} =>
       IF Legacy(c) THEN p[c].mode # "isolated" ELSE x.sid.kind = "native" /\ x.env = Env(c)
  /\ pc \in {"gate", "admit"} /\ Gated(c) => Compatible(x.env, Env(c))
  /\ pc = "admit" /\ Gated(c) => x.class # "none"
  /\ pc \in {"created", "classified", "thawed", "rescan"} => Legacy(c) /\ p[c].mode = "cwd"
  /\ pc = "gate" => Gated(c)

\* A call that has derived an identity may go to an entry that suits it.
LEMMA GoingAsks ==
  ASSUME SpawnInv, NEW c \in Caller, NEW pc, NEW e \in DOMAIN entry, NEW q,
         Goes(c, q, pc, e), pc \in Looking \cup {"remove"}, MayGo(c, pc, entry[e]),
         p[c].pc \notin {"idle", "derive", "failed", "done"}
  PROVE  Asks(c, q)
<1>1. Asks(c, p[c])
  BY DEF SpawnInv, Asking
<1>2. AsksFor(c, q)
  BY <1>1 DEF Asks, AsksFor, Goes
<1>3. pc \notin Making /\ pc # "promote"
  BY DEF Looking, Making
<1>4. Suits(c, q, entry[e])
  BY <1>3 DEF Suits, Goes, MayGo, Gated, Making
<1>. QED  BY <1>1, <1>2, <1>3, <1>4 DEF Asks, Goes, MayGo, Gated, Selected

\* Such a step keeps the invariant.
LEMMA Going ==
  ASSUME SpawnInv, NEW c \in Caller, NEW pc, NEW e \in DOMAIN entry,
         pc \in Looking \cup {"remove"}, GoWith(c, pc, e), MayGo(c, pc, entry[e]),
         p[c].pc \notin {"idle", "derive", "failed", "done"},
         UNCHANGED <<req, entry, owners, counter, template, verdicts>>
  PROVE  SpawnInv'
<1>1. e \in Nat /\ pc \in Places /\ counter' \in [Cwd -> Nat]
  BY DEF SpawnInv, SpawnTypes, Places
<1>2. PICK q : Goes(c, q, pc, e)
  BY <1>1, GoWithShape
<1>3. Asks(c, q)
  BY <1>2, GoingAsks
<1>. QED  BY <1>1, <1>2, <1>3, CallMoves DEF Goes

-----------------------------------------------------------------------------
(* Creation *)

\* A placeholder has the type of an entry and is what its creator asked for.
LEMMA NewEntryShape ==
  ASSUME SpawnInv, NEW c \in Caller, NEW sid \in Sids
  PROVE  /\ NewEntry(c, sid) \in EntryType
         /\ NewEntry(c, sid).sid = sid /\ NewEntry(c, sid).creator = c
         /\ NewEntry(c, sid).era = req[c].era /\ NewEntry(c, sid).cwd = req[c].cwd
         /\ NewEntry(c, sid).env = Env(c) /\ NewEntry(c, sid).compat = compatibility(c)
         /\ NewEntry(c, sid).state = "creating" /\ NewEntry(c, sid).class = "none"
         /\ NewEntry(c, sid).removal = "no" /\ NewEntry(c, sid).sessions = {}
<1>1. /\ Env(c) \in Envs /\ req[c].cwd \in Cwd /\ req[c].era \in Eras
      /\ compatibility(c) \in {NoValue} \cup [cwd : Cwd, env : Envs, part : Parts]
  BY Requests DEF SpawnInv, SpawnTypes
<1>. QED  BY <1>1 DEF NewEntry, EntryType, Classes

\* A call that asked under an identity like sid makes a placeholder for sid: a
\* new one, or one of the directory mode that takes the place of another.
LEMMA Placeholder ==
  ASSUME SpawnInv, NEW c \in Caller, NEW sid \in Sids, CreatePlaceholder(c, sid),
         p[c].pc \notin {"idle", "derive", "failed", "done"},
         sid.kind = p[c].sid.kind, sid.cwd = p[c].sid.cwd, sid.env = p[c].sid.env,
         ~Registered(sid) \/ Movable(sid),
         Exact(c) = {}, UNCHANGED <<req, template, verdicts>>
  PROVE  SpawnInv'
<1>. USE DEF SpawnInv
<1>1. Asks(c, p[c]) /\ AsksFor(c, p[c])
  BY DEF Asking, Asks
<1>2. counter \in [Cwd -> Nat] /\ Len(entry) \in Nat
  BY DEF SpawnTypes
<1>3. CASE Len(entry) = MaxEntries
  BY <1>2, <1>3, FailShape, Leaving DEF CreatePlaceholder, Registry
<1>4. CASE Len(entry) # MaxEntries
  <2>. DEFINE x == Len(entry) + 1
              r == NewEntry(c, sid)
  <2>1. /\ entry' = Append(entry, r)
        /\ owners' = [s \in DOMAIN owners \cup {sid} |-> IF s = sid THEN x ELSE owners[s]]
        /\ GoWith(c, "create", x)
        /\ counter' = IF sid.kind = "isolated" /\ sid # p[c].sid
                      THEN [counter EXCEPT ![sid.cwd] = sid.n] ELSE counter
    BY <1>4 DEF CreatePlaceholder
  <2>2. x \in Nat /\ x \notin DOMAIN entry
    BY <1>2 DEF SpawnTypes
  <2>3. PICK q : Goes(c, q, "create", x)
    BY <2>1, <2>2, GoWithShape DEF Places, Making
  <2>4. /\ r \in EntryType /\ r.sid = sid /\ r.creator = c /\ r.era = req[c].era /\ r.cwd = req[c].cwd
        /\ r.env = Env(c) /\ r.compat = compatibility(c) /\ r.state = "creating" /\ r.class = "none"
        /\ r.removal = "no" /\ r.sessions = {}
    BY NewEntryShape
  <2>. HIDE DEF r
  <2>5. /\ entry' \in Seq(EntryType) /\ Len(entry') = x
        /\ DOMAIN entry' = DOMAIN entry \cup {x} /\ entry'[x] = r
        /\ \A e \in DOMAIN entry : entry'[e] = entry[e]
    <3>1. entry \in Seq(EntryType)
      BY DEF SpawnTypes
    <3>2. /\ Append(entry, r) \in Seq(EntryType) /\ Len(Append(entry, r)) = Len(entry) + 1
          /\ \A i \in 1 .. Len(entry) : Append(entry, r)[i] = entry[i]
          /\ Append(entry, r)[Len(entry) + 1] = r
      BY <3>1, <2>4, AppendProperties
    <3>3. DOMAIN entry = 1 .. Len(entry) /\ DOMAIN entry' = 1 .. Len(entry) + 1
      BY <3>1, <3>2, <2>1
    <3>4. 1 .. Len(entry) + 1 = (1 .. Len(entry)) \cup {x}
      BY <1>2
    <3>. QED  BY <2>1, <3>2, <3>3, <3>4
  <2>. HIDE DEF x
  <2>6. /\ DOMAIN owners' = DOMAIN owners \cup {sid} /\ owners'[sid] = x
        /\ \A s \in DOMAIN owners : s # sid => owners'[s] = owners[s]
    BY <2>1
  <2>7. SpawnTypes'
    <3>1. x <= MaxEntries
      <4>1. Len(entry) <= MaxEntries /\ MaxEntries \in Nat
        BY SpawnAssumption DEF SpawnTypes
      <4>. QED  BY <4>1, <1>2, <1>4 DEF x
    <3>2. IsFiniteSet(DOMAIN owners')
      <4>. DEFINE D == DOMAIN owners
      <4>1. IsFiniteSet(D)
        BY DEF SpawnTypes
      <4>. HIDE DEF D
      <4>2. IsFiniteSet(D \cup {sid})
        BY <4>1, FS_AddElement
      <4>. QED  BY <4>2, <2>6 DEF D
    <3>3. owners' \in [DOMAIN owners' -> Nat] /\ DOMAIN owners' \subseteq Sids
      BY <2>1, <2>2, <2>6 DEF SpawnTypes
    <3>4. p' \in [Caller -> CallType]
      BY <2>3 DEF SpawnTypes, Goes
    <3>5. counter' \in [Cwd -> Nat]
      <4>1. sid.n \in Nat
        BY DEF Sids
      <4>2. sid.kind = "isolated" => sid.cwd \in Cwd
        BY <1>1 DEF AsksFor
      <4>. QED  BY <4>1, <4>2, <1>2, <2>1
    <3>. QED  BY <3>1, <3>2, <3>3, <3>4, <3>5, <2>5 DEF SpawnTypes
  <2>8. Filed'
    <3>1. \A s \in DOMAIN owners' : owners'[s] \in DOMAIN entry' /\ entry'[owners'[s]].sid = s
      BY <2>4, <2>5, <2>6 DEF Filed
    <3>2. ASSUME NEW e \in DOMAIN entry', entry'[e].state = "live", ~Movable(entry'[e].sid)
          PROVE  Held(e)'
      <4>1. e \in DOMAIN entry /\ entry'[e] = entry[e]
        BY <3>2, <2>4, <2>5
      <4>2. Held(e)
        BY <4>1, <3>2 DEF Filed
      <4>3. entry[e].sid # sid
        BY <4>1, <4>2, <3>2 DEF Held
      <4>. QED  BY <4>1, <4>2, <4>3, <2>6 DEF Held, Registered
    <3>. QED  BY <3>1, <3>2 DEF Filed
  <2>9. Made'
    <3>. SUFFICES ASSUME NEW e \in DOMAIN entry' PROVE MadeFor(entry[e])'
      BY DEF Made
    <3>1. CASE e = x
      <4>1. entry'[e] = r
        BY <3>1, <2>5
      <4>2. q.mode \in {req[c].mode, "isolated"}
        BY <2>3, <1>1 DEF Goes, Asks
      <4>. QED  BY <4>1, <4>2, <2>3, <2>4, <1>1, SameRequests
            DEF MadeFor, AsksFor, Goes, Scope
    <3>2. CASE e # x
      <4>1. e \in DOMAIN entry /\ entry'[e] = entry[e]
        BY <3>2, <2>5
      <4>2. MadeFor(entry[e])
        BY <4>1 DEF Made
      <4>. QED  BY <4>1, <4>2, SameRequests DEF MadeFor
    <3>. QED  BY <3>1, <3>2
  <2>10. Asking'
    <3>. SUFFICES ASSUME NEW d \in Caller PROVE Asks(d, p[d])'
      BY DEF Asking
    <3>1. CASE d = c
      <4>1. p'[d] = q
        BY <2>3, <3>1 DEF SpawnTypes, Goes
      <4>2. q.pc = "create" /\ q.e = x /\ AsksFor(c, q)
        BY <2>3, <1>1 DEF Goes, AsksFor
      <4>3. q.retries <= MaxRetries /\ q.mismatches <= MaxMismatches /\ q.mode \in {req[c].mode, "isolated"}
        BY <2>3, <1>1 DEF Goes, Asks
      <4>. QED  BY <3>1, <4>1, <4>2, <4>3, <2>4, <2>5, SameRequests
             DEF Asks, Suits, AsksFor, Selected, Away, Making
    <3>2. CASE d # c
      <4>1. p'[d] = p[d] /\ Asks(d, p[d])
        BY <2>3, <3>2 DEF SpawnTypes, Goes, Asking
      <4>2. p[d].e \in DOMAIN entry => p[d].e \in DOMAIN entry' /\ entry'[p[d].e] = entry[p[d].e]
        BY <2>5
      <4>. QED  BY <4>1, <4>2, SameRequests DEF Asks, Suits, AsksFor, Selected
    <3>. QED  BY <3>1, <3>2
  <2>11. Joined'
    <3>. SUFFICES ASSUME NEW e \in DOMAIN entry', NEW d \in entry'[e].sessions
                 PROVE  Compatible(entry'[e].env, Env(d)) \/ (Deprecated(p'[d].mode) /\ p'[d].pc = "done")
      BY SameRequests DEF Joined
    <3>1. e \in DOMAIN entry /\ entry'[e] = entry[e]
      BY <2>4, <2>5
    <3>2. Compatible(entry[e].env, Env(d)) \/ (Deprecated(p[d].mode) /\ p[d].pc = "done")
      BY <3>1 DEF Joined
    <3>. QED  BY <3>1, <3>2, <2>3 DEF Goes, SpawnTypes
  <2>12. Elected'
    <3>1. \A s \in DOMAIN owners : s # sid => /\ owners[s] \in DOMAIN entry
                                              /\ entry'[owners'[s]] = entry[owners[s]]
      BY <2>5, <2>6 DEF Filed
    <3>2. entry'[owners'[sid]].compat = compatibility(c)
      BY <2>4, <2>5, <2>6
    <3>3. compatibility(c) # NoValue => Shared(c)
      BY DEF compatibility
    <3>4. \A s \in DOMAIN owners : Shared(c) => entry[owners[s]].compat # compatibility(c)
      BY DEF Exact, At
    <3>. SUFFICES ASSUME NEW s \in DOMAIN owners', NEW t \in DOMAIN owners', s # t,
                         entry'[owners'[s]].compat # NoValue,
                         entry'[owners'[s]].compat = entry'[owners'[t]].compat
                 PROVE  FALSE
      BY DEF Elected
    <3>5. CASE s = sid
      BY <3>1, <3>2, <3>3, <3>4, <3>5, <2>6
    <3>6. CASE t = sid
      BY <3>1, <3>2, <3>3, <3>4, <3>6, <2>6
    <3>7. CASE s # sid /\ t # sid
      BY <3>1, <3>7, <2>6 DEF Elected
    <3>. QED  BY <3>5, <3>6, <3>7
  <2>13. Published'
    BY DEF Published, templateScope
  <2>. QED  BY <2>7, <2>8, <2>9, <2>10, <2>11, <2>12, <2>13
<1>. QED  BY <1>3, <1>4

-----------------------------------------------------------------------------
(* Identities *)

\* A call derives an identity of its mode, a modern one its own.
LEMMA DeriveShape ==
  ASSUME SpawnInv, NEW c \in Caller
  PROVE  /\ deriveSid(c) \in Sids
         /\ IF Legacy(c) THEN deriveSid(c).kind = Scope(p[c].mode)
            ELSE deriveSid(c).kind = "native" /\ deriveSid(c).env = c
         /\ deriveSid(c).kind = "isolated" => deriveSid(c).cwd \in Cwd
<1>1. p[c] \in CallType /\ req[c].cwd \in Cwd /\ Env(c) \in Envs /\ counter \in [Cwd -> Nat]
  BY Requests DEF SpawnInv, SpawnTypes
<1>2. /\ p[c].mode \in Modes /\ p[c].isolated \in Nat /\ p[c].retries \in Nat
  BY <1>1 DEF CallType
<1>. DEFINE mode == p[c].mode
            base == GenerateContextKey(mode, req[c].cwd)
            n == IF p[c].isolated > 0 THEN p[c].isolated ELSE counter[req[c].cwd]
<1>3. n \in Nat /\ 0 \in Nat
  BY <1>1, <1>2
<1>4. CASE ~Legacy(c)
  <2>1. deriveSid(c) = [kind |-> "native", cwd |-> req[c].cwd, env |-> c, n |-> p[c].retries]
    BY <1>4 DEF deriveSid, Sid
  <2>. QED  BY <2>1, <1>1, <1>2, <1>4 DEF Sids
<1>. DEFINE at == CASE mode = "global" -> NoValue [] mode = "git" -> GitRoot[req[c].cwd]
                       [] OTHER -> req[c].cwd
<1>5. base = [kind |-> Scope(mode), cwd |-> at, env |-> NoValue, n |-> 0]
  BY DEF GenerateContextKey, Sid
<1>10. /\ at \in Cwd \cup Roots \cup {NoValue} /\ (mode = "isolated" => at = req[c].cwd)
       /\ Scope(mode) \in {"global", "cwd", "isolated"}
       /\ mode \in {"global", "isolated"} => Scope(mode) = mode
       /\ mode \in {"cwd", "git"} => Scope(mode) = "cwd"
  BY <1>1, <1>2 DEF Roots, Scope, Modes
<1>6. base \in Sids /\ base.kind = Scope(mode) /\ (mode = "isolated" => base.cwd = req[c].cwd)
  <2>. HIDE DEF at
  <2>. QED  BY <1>5, <1>1, <1>10, <1>3 DEF Sids
<1>. HIDE DEF base, n
<1>7. CASE Legacy(c) /\ mode = "isolated"
  <2>1. deriveSid(c) = [base EXCEPT !.n = n]
    BY <1>7 DEF deriveSid, base, n
  <2>. QED  BY <2>1, <1>1, <1>3, <1>6, <1>7, <1>10 DEF Sids
<1>8. CASE Legacy(c) /\ mode \in {"cwd", "git"}
  <2>1. deriveSid(c) = base
    BY <1>8 DEF deriveSid, base
  <2>. QED  BY <2>1, <1>1, <1>6, <1>8, <1>10
<1>9. CASE Legacy(c) /\ mode = "global"
  <2>. DEFINE env == Env(c)
  <2>1. deriveSid(c) = deriveEnvBucketedSid(base, env)
    BY <1>9 DEF deriveSid, base
  <2>2. deriveSid(c) = base \/ deriveSid(c) = [base EXCEPT !.env = env]
    BY <2>1 DEF deriveEnvBucketedSid
  <2>. HIDE DEF env
  <2>3. env \in Envs
    BY <1>1 DEF env
  <2>. QED  BY <2>2, <2>3, <1>6, <1>9, <1>10 DEF Sids
<1>. QED  BY <1>2, <1>4, <1>7, <1>8, <1>9 DEF Modes

\* A native identity names the call that made the entry, and so its environment.
LEMMA NativeEntry ==
  ASSUME SpawnInv, NEW e \in DOMAIN entry, entry[e].sid.kind = "native"
  PROVE  entry[e].env = Env(entry[e].sid.env)
<1>1. MadeFor(entry[e]) /\ entry[e] \in EntryType
  BY DEF SpawnInv, SpawnTypes, Made
<1>2. entry[e].creator \in Caller
  BY <1>1 DEF EntryType
<1>3. req[entry[e].creator].mode \in Modes
  BY <1>2, Requests DEF SpawnInv, SpawnTypes
<1>. QED  BY <1>1, <1>3 DEF MadeFor, Scope, Modes

\* What the lookup of a call finds: an entry that it may share, or a free
\* identity like its own when no owner of its exact context is registered.
LEMMA TargetShape ==
  ASSUME SpawnInv, NEW c \in Caller, p[c].pc = "lookup"
  PROVE  /\ Registered(Target(c)) =>
              /\ owners[Target(c)] \in DOMAIN entry
              /\ IF Legacy(c) THEN p[c].mode # "isolated"
                 ELSE /\ entry[owners[Target(c)]].sid.kind = "native"
                      /\ entry[owners[Target(c)]].env = Env(c)
         /\ ~Registered(Target(c)) =>
              /\ Exact(c) = {} /\ Target(c) \in Sids /\ Target(c).kind = p[c].sid.kind
              /\ Target(c).cwd = p[c].sid.cwd /\ Target(c).env = p[c].sid.env
<1>1. AsksFor(c, p[c]) /\ p[c] \in CallType
  BY DEF SpawnInv, SpawnTypes, Asking, Asks
<1>2. p[c].sid \in Sids
  BY <1>1 DEF AsksFor
<1>3. \A s \in DOMAIN owners : owners[s] \in DOMAIN entry /\ entry[owners[s]].sid = s
  BY DEF SpawnInv, Filed
<1>4. CASE Exact(c) # {}
  <2>1. Target(c) \in Exact(c)
    BY <1>4 DEF Target
  <2>. DEFINE s == Target(c)
              e == owners[s]
              d == entry[e].creator
  <2>. HIDE DEF s
  <2>2. s \in DOMAIN owners /\ Shared(c) /\ entry[e].compat = compatibility(c)
    BY <2>1 DEF Exact, At, s
  <2>3. e \in DOMAIN entry
    BY <2>2, <1>3
  <2>. HIDE DEF e
  <2>4. MadeFor(entry[e]) /\ entry[e] \in EntryType
    BY <2>3 DEF SpawnInv, SpawnTypes, Made
  <2>5. d \in Caller /\ entry[e].compat = compatibility(d) /\ entry[e].env = Env(d)
    BY <2>4 DEF EntryType, MadeFor
  <2>6. compatibility(c) # NoValue /\ compatibility(c).env = Env(c)
    BY <2>2, Requests DEF SpawnInv, SpawnTypes
  <2>7. Shared(d)
    BY <2>2, <2>5, <2>6 DEF compatibility
  <2>8. compatibility(d).env = Env(d)
    BY <2>5, <2>7, Requests DEF SpawnInv, SpawnTypes
  <2>9. ~Legacy(c) /\ ~Legacy(d)
    BY <2>2, <2>7 DEF Shared
  <2>10. entry[e].sid.kind = "native"
    BY <2>4, <2>9 DEF MadeFor
  <2>. QED  BY <2>2, <2>3, <2>5, <2>6, <2>8, <2>9, <2>10 DEF s, e, Registered
<1>5. CASE Exact(c) = {} /\ Legacy(c) /\ p[c].mode = "isolated" /\ Registered(p[c].sid)
  <2>1. Target(c) = [p[c].sid EXCEPT !.n = Least(Candidates(c))]
    BY <1>5 DEF Target
  <2>2. Candidates(c) \in SUBSET Nat /\ Least(Candidates(c)) \in Candidates(c)
    BY <1>2, NumberIsFree DEF SpawnInv
  <2>3. ~Registered(Target(c))
    BY <2>1, <2>2 DEF Candidates
  <2>4. /\ Target(c) \in Sids /\ Target(c).kind = p[c].sid.kind
        /\ Target(c).cwd = p[c].sid.cwd /\ Target(c).env = p[c].sid.env
    <3>. DEFINE n == Least(Candidates(c))
    <3>1. n \in Nat
      BY <2>2
    <3>. HIDE DEF n
    <3>2. Target(c) = [p[c].sid EXCEPT !.n = n]
      BY <2>1 DEF n
    <3>. QED  BY <3>1, <3>2, <1>2 DEF Sids
  <2>. QED  BY <2>3, <2>4, <1>5
<1>6. CASE Exact(c) = {} /\ ~(Legacy(c) /\ p[c].mode = "isolated" /\ Registered(p[c].sid))
  <2>1. Target(c) = p[c].sid
    BY <1>6 DEF Target
  <2>2. CASE Registered(p[c].sid)
    <3>. DEFINE e == owners[p[c].sid]
    <3>1. e \in DOMAIN entry /\ entry[e].sid = p[c].sid
      BY <2>2, <1>3 DEF Registered
    <3>. HIDE DEF e
    <3>2. CASE Legacy(c)
      BY <3>1, <3>2, <2>1, <2>2, <1>6 DEF e
    <3>3. CASE ~Legacy(c)
      <4>1. entry[e].sid.kind = "native" /\ entry[e].sid.env = c
        BY <3>1, <3>3, <1>1 DEF AsksFor
      <4>2. entry[e].env = Env(c)
        BY <4>1, <3>1, NativeEntry
      <4>. QED  BY <3>1, <3>3, <4>1, <4>2, <2>1, <2>2 DEF e
    <3>. QED  BY <3>2, <3>3
  <2>3. CASE ~Registered(p[c].sid)
    BY <2>1, <2>3, <1>2, <1>6
  <2>. QED  BY <2>2, <2>3
<1>. QED  BY <1>4, <1>5, <1>6

-----------------------------------------------------------------------------
(* The steps of a call *)

\* A spawn call is taken or refused.
LEMMA HandleSpawnKeeps ==
  ASSUME SpawnInv, NEW c \in Caller, HandleSpawn(c)
  PROVE  SpawnInv'
<1>1. PICK pc \in {"failed", "derive"} : Go(c, pc)
  BY DEF HandleSpawn
<1>2. PICK q : Goes(c, q, pc, p[c].e)
  BY <1>1, GoShape DEF Places, Away
<1>3. Asks(c, p[c]) /\ counter \in [Cwd -> Nat]
  BY DEF SpawnInv, SpawnTypes, Asking
<1>4. Asks(c, q)
  BY <1>2, <1>3, AwayAsks DEF Goes, Asks
<1>. QED  BY <1>2, <1>3, <1>4, CallMoves DEF Goes, HandleSpawn, Registry, Keep

\* The identity is derived, unless the call is refused.
LEMMA DeriveKeeps ==
  ASSUME SpawnInv, NEW c \in Caller, Derive(c)
  PROVE  SpawnInv'
<1>1. /\ p[c].pc = "derive" /\ UNCHANGED <<req, entry, owners, counter, template, verdicts>>
      /\ IF fence \/ isCrashLooping THEN Fail(c)
         ELSE p' = [p EXCEPT ![c].pc = "lookup", ![c].sid = deriveSid(c)]
  BY DEF Derive, Registry, Keep
<1>2. /\ Asks(c, p[c]) /\ p[c] \in CallType /\ p \in [Caller -> CallType]
      /\ counter' \in [Cwd -> Nat]
  BY <1>1 DEF SpawnInv, SpawnTypes, Asking
<1>3. CASE fence \/ isCrashLooping
  BY <1>1, <1>2, <1>3, FailShape, Leaving
<1>4. CASE ~(fence \/ isCrashLooping)
  <2>. DEFINE s == deriveSid(c)
              q == [p[c] EXCEPT !.pc = "lookup", !.sid = s]
  <2>1. /\ s \in Sids
        /\ IF Legacy(c) THEN s.kind = Scope(p[c].mode) ELSE s.kind = "native" /\ s.env = c
        /\ s.kind = "isolated" => s.cwd \in Cwd
    BY DeriveShape
  <2>2. p' = [p EXCEPT ![c].pc = "lookup", ![c].sid = s]
    BY <1>1, <1>4
  <2>. HIDE DEF s
  <2>3. q \in CallType
    BY <1>2, <2>1 DEF CallType, Places, Away
  <2>4. /\ q.pc = "lookup" /\ q.sid = s /\ q.mode = p[c].mode /\ q.retries = p[c].retries
        /\ q.mismatches = p[c].mismatches
    BY <1>2 DEF CallType
  <2>5. p' = [p EXCEPT ![c] = q]
    BY <1>2, <2>2
  <2>. HIDE DEF q
  <2>6. AsksFor(c, q)
    BY <2>1, <2>4 DEF AsksFor
  <2>7. Asks(c, q)
    BY <1>2, <2>4, <2>6 DEF Asks, Selected, Away
  <2>. QED  BY <1>1, <1>2, <2>3, <2>5, <2>7, CallMoves
<1>. QED  BY <1>3, <1>4

\* An entry found under the identity that the call may share.
LEMMA FoundKeeps ==
  ASSUME SpawnInv, NEW c \in Caller, NEW e \in DOMAIN entry, Found(c, e), p[c].pc = "lookup",
         UNCHANGED <<req, template, verdicts>>,
         IF Legacy(c) THEN p[c].mode # "isolated"
         ELSE entry[e].sid.kind = "native" /\ entry[e].env = Env(c)
  PROVE  SpawnInv'
<1>1. CASE \E pc \in {"wait", "thaw", "probe", "remove"} : GoWith(c, pc, e) /\ Registry
  <2>1. PICK pc \in {"wait", "thaw", "probe", "remove"} : GoWith(c, pc, e) /\ Registry
    BY <1>1
  <2>2. MayGo(c, pc, entry[e])
    BY DEF MayGo
  <2>3. pc \in Looking \cup {"remove"}
    BY DEF Looking
  <2>. QED  BY <2>1, <2>2, <2>3, Going DEF Registry
<1>2. CASE promoteIsolatedRetry(c, entry[e]) /\ UNCHANGED <<entry, owners>>
  BY <1>2, PromoteShape, Leaving
<1>. QED  BY <1>1, <1>2 DEF Found

\* The identity of a call that shares by directory is one that may be replaced.
LEMMA DirectoryCall ==
  ASSUME SpawnInv, NEW c \in Caller, Legacy(c), p[c].mode = "cwd", AsksFor(c, p[c])
  PROVE  Movable(p[c].sid)
<1>1. p[c].mode \in {req[c].mode, "isolated"} /\ req \in Asked
  BY DEF SpawnInv, SpawnTypes, Asking, Asks
<1>2. req[c].mode = "cwd" /\ req[c].era = "legacy"
  BY <1>1 DEF Legacy
<1>3. p[c].sid.kind = "cwd"
  BY DEF AsksFor, Scope
<1>. QED  BY <1>1, <1>2, <1>3 DEF Movable, ByDirectory

\* The scan of the mode that shares by directory.
LEMMA SharedKeeps ==
  ASSUME SpawnInv, NEW c \in Caller, findSharedOwnerLocked(c, p[c].sid), Legacy(c),
         p[c].mode = "cwd", p[c].pc \in {"lookup", "rescan"}, UNCHANGED <<req, template, verdicts>>
  PROVE  SpawnInv'
<1>1. AsksFor(c, p[c]) /\ counter \in [Cwd -> Nat]
  BY DEF SpawnInv, SpawnTypes, Asking, Asks
<1>. DEFINE here == {owners[s] : s \in DOMAIN owners}
<1>2. \A e \in here : e \in DOMAIN entry
  BY DEF SpawnInv, Filed
<1>3. CASE Fail(c) /\ Registry
  BY <1>1, <1>3, FailShape, Leaving DEF Registry
<1>4. CASE CreatePlaceholder(c, p[c].sid)
  <2>1. p[c].sid \in Sids /\ Movable(p[c].sid)
    BY <1>1, DirectoryCall DEF AsksFor
  <2>2. Exact(c) = {}
    BY DEF Exact, Shared
  <2>. QED  BY <1>4, <2>1, <2>2, Placeholder
<1>5. CASE \E e \in here, pc \in {"admit", "created", "thawed", "classified"} :
             GoWith(c, pc, e) /\ Registry
  <2>1. PICK e \in here, pc \in {"admit", "created", "thawed", "classified"} :
               GoWith(c, pc, e) /\ Registry
    BY <1>5
  <2>2. MayGo(c, pc, entry[e])
    BY DEF MayGo, Gated
  <2>3. pc \in Looking \cup {"remove"}
    BY DEF Looking
  <2>. QED  BY <1>2, <2>1, <2>2, <2>3, Going DEF Registry
<1>. QED  BY <1>3, <1>4, <1>5 DEF findSharedOwnerLocked, Awaits

\* The lookup.
LEMMA LookupKeeps ==
  ASSUME SpawnInv, NEW c \in Caller, Lookup(c)
  PROVE  SpawnInv'
<1>. DEFINE sid == Target(c)
<1>1. /\ p[c].pc = "lookup" /\ UNCHANGED <<req, template, verdicts>>
      /\ IF fence THEN Fail(c) /\ Registry
         ELSE IF Registered(sid) THEN Found(c, owners[sid])
         ELSE IF Legacy(c) /\ p[c].mode = "cwd" THEN findSharedOwnerLocked(c, sid)
         ELSE CreatePlaceholder(c, sid)
  BY DEF Lookup, Keep
<1>2. CASE Fail(c) /\ Registry
  <2>1. counter \in [Cwd -> Nat]
    BY DEF SpawnInv, SpawnTypes
  <2>. QED  BY <1>1, <1>2, <2>1, FailShape, Leaving DEF Registry
<1>3. CASE Registered(sid) /\ Found(c, owners[sid])
  BY <1>1, <1>3, TargetShape, FoundKeeps
<1>4. CASE ~Registered(sid) /\ Legacy(c) /\ p[c].mode = "cwd" /\ findSharedOwnerLocked(c, sid)
  <2>1. Exact(c) = {}
    BY <1>4 DEF Exact, Shared
  <2>2. sid = p[c].sid
    BY <1>4, <2>1 DEF Target
  <2>. QED  BY <1>1, <1>4, <2>2, SharedKeeps
<1>5. CASE ~Registered(sid) /\ CreatePlaceholder(c, sid)
  BY <1>1, <1>5, TargetShape, Placeholder
<1>. QED  BY <1>1, <1>2, <1>3, <1>4, <1>5

\* What the call waited for has happened.
LEMMA ScanKeeps ==
  ASSUME SpawnInv, NEW c \in Caller, Scan(c)
  PROVE  SpawnInv'
<1>1. /\ p[c].pc \in {"created", "classified", "thawed"}
      /\ UNCHANGED <<req, entry, owners, counter, template, verdicts>>
      /\ p' = [p EXCEPT ![c].pc = "rescan", ![c].waited = TRUE]
  BY DEF Scan, Registry, Keep
<1>2. /\ Asks(c, p[c]) /\ p[c] \in CallType /\ p \in [Caller -> CallType]
      /\ counter' \in [Cwd -> Nat]
  BY <1>1 DEF SpawnInv, SpawnTypes, Asking
<1>. DEFINE q == [p[c] EXCEPT !.pc = "rescan", !.waited = TRUE]
<1>3. q \in CallType
  BY <1>2 DEF CallType, Places, Looking
<1>4. /\ q.pc = "rescan" /\ q.e = p[c].e /\ q.sid = p[c].sid /\ q.mode = p[c].mode
      /\ q.retries = p[c].retries /\ q.mismatches = p[c].mismatches
  BY <1>2 DEF CallType
<1>5. p' = [p EXCEPT ![c] = q]
  BY <1>1, <1>2
<1>. HIDE DEF q
<1>6. Asks(c, q)
  BY <1>1, <1>2, <1>4 DEF Asks, AsksFor, Suits, Selected, Away, Making
<1>. QED  BY <1>1, <1>2, <1>3, <1>5, <1>6, CallMoves

\* The wait of the scan ends without what it was for, or it scans once more.
LEMMA RescanKeeps ==
  ASSUME SpawnInv, NEW c \in Caller, ScanTimeout(c) \/ Rescan(c)
  PROVE  SpawnInv'
<1>1. /\ p[c].pc \in {"created", "classified", "thawed", "rescan"}
      /\ UNCHANGED <<req, template, verdicts>>
  BY DEF ScanTimeout, Rescan, Keep
<1>2. Asks(c, p[c]) /\ counter \in [Cwd -> Nat]
  BY DEF SpawnInv, SpawnTypes, Asking
<1>3. AsksFor(c, p[c]) /\ Legacy(c) /\ p[c].mode = "cwd"
  BY <1>1, <1>2 DEF Asks
<1>4. CASE Rescan(c)
  BY <1>1, <1>3, <1>4, SharedKeeps DEF Rescan
<1>5. CASE Fail(c) /\ Registry
  BY <1>1, <1>2, <1>5, FailShape, Leaving DEF Registry
<1>6. CASE CreatePlaceholder(c, p[c].sid)
  <2>1. p[c].sid \in Sids /\ Movable(p[c].sid)
    BY <1>3, DirectoryCall DEF AsksFor
  <2>2. Exact(c) = {}
    BY <1>3 DEF Exact, Shared
  <2>. QED  BY <1>1, <1>6, <2>1, <2>2, Placeholder
<1>. QED  BY <1>4, <1>5, <1>6 DEF ScanTimeout

\* The call may share entry e, if its environment agrees.
LEMMA ShareKeeps ==
  ASSUME SpawnInv, NEW c \in Caller, NEW e \in DOMAIN entry, Share(c, e),
         p[c].pc \in {"wait", "probe"},
         UNCHANGED <<req, entry, owners, counter, template, verdicts>>,
         IF Legacy(c) THEN p[c].mode # "isolated"
         ELSE entry[e].sid.kind = "native" /\ entry[e].env = Env(c)
  PROVE  SpawnInv'
<1>1. counter' \in [Cwd -> Nat]
  BY DEF SpawnInv, SpawnTypes
<1>2. CASE Gated(c) /\ ~Compatible(entry[e].env, Env(c))
  BY <1>1, <1>2, AgainShape, Leaving DEF Share
<1>3. CASE ~(Gated(c) /\ ~Compatible(entry[e].env, Env(c)))
  <2>1. PICK pc \in {"gate", "admit"} : GoWith(c, pc, e) /\ (pc = "gate" <=> Gated(c))
    BY <1>3 DEF Share
  <2>2. MayGo(c, pc, entry[e])
    BY <1>3, <2>1 DEF MayGo
  <2>3. pc \in Looking \cup {"remove"}
    BY DEF Looking
  <2>. QED  BY <2>1, <2>2, <2>3, Going
<1>. QED  BY <1>2, <1>3

\* The creation that the call waits for has ended.
LEMMA WaitKeeps ==
  ASSUME SpawnInv, NEW c \in Caller, Wait(c)
  PROVE  SpawnInv'
<1>. DEFINE sid == E(c).sid
            here == owners[sid]
<1>1. p[c].pc = "wait" /\ UNCHANGED <<req, template, verdicts>>
  BY DEF Wait, Keep
<1>2. /\ Asks(c, p[c]) /\ counter \in [Cwd -> Nat]
      /\ p[c].e \in DOMAIN entry /\ Suits(c, p[c], entry[p[c].e])
  BY <1>1 DEF SpawnInv, SpawnTypes, Asking, Asks, Away
<1>3. Registered(sid) => here \in DOMAIN entry /\ entry[here].sid = sid /\ here # NoOwner
  BY OwnerAssumption DEF SpawnInv, SpawnTypes, Filed, Registered
<1>4. \/ (Fail(c) \/ Again(c)) /\ Registry
      \/ Registered(sid) /\ GoWith(c, "thaw", here) /\ Registry
      \/ Registered(sid) /\ Share(c, here) /\ Registry
      \/ Registered(sid) /\ promoteIsolatedRetry(c, entry[here]) /\ UNCHANGED <<entry, owners>>
  BY <1>3 DEF Wait
<1>5. CASE (Fail(c) \/ Again(c)) /\ Registry
  BY <1>1, <1>2, <1>5, FailShape, AgainShape, Leaving DEF Registry
<1>6. CASE Registered(sid) /\ GoWith(c, "thaw", here) /\ Registry
  <2>1. MayGo(c, "thaw", entry[here]) /\ "thaw" \in Looking
    BY DEF MayGo, Looking
  <2>. QED  BY <1>1, <1>3, <1>6, <2>1, Going DEF Registry
<1>7. CASE Registered(sid) /\ Share(c, here) /\ Registry
  <2>1. IF Legacy(c) THEN p[c].mode # "isolated"
        ELSE entry[here].sid.kind = "native" /\ entry[here].env = Env(c)
    <3>1. CASE Legacy(c)
      BY <3>1, <1>1, <1>2 DEF Suits
    <3>2. CASE ~Legacy(c)
      <4>1. entry[p[c].e].sid.kind = "native" /\ entry[p[c].e].env = Env(c)
        BY <3>2, <1>1, <1>2 DEF Suits
      <4>2. entry[here].sid = entry[p[c].e].sid
        BY <1>3, <1>7 DEF E
      <4>3. entry[here].env = entry[p[c].e].env
        BY <4>1, <4>2, <1>2, <1>3, <1>7, NativeEntry
      <4>. QED  BY <3>2, <4>1, <4>2, <4>3
    <3>. QED  BY <3>1, <3>2
  <2>. QED  BY <1>1, <1>3, <1>7, <2>1, ShareKeeps DEF Registry
<1>8. CASE Registered(sid) /\ promoteIsolatedRetry(c, entry[here]) /\ UNCHANGED <<entry, owners>>
  BY <1>1, <1>3, <1>8, PromoteShape, Leaving
<1>. QED  BY <1>4, <1>5, <1>6, <1>7, <1>8

\* The listener of the entry has been tried.
LEMMA ProbeKeeps ==
  ASSUME SpawnInv, NEW c \in Caller, Probe(c)
  PROVE  SpawnInv'
<1>1. p[c].pc = "probe" /\ UNCHANGED <<req, entry, owners, counter, template, verdicts>>
  BY DEF Probe, Registry, Keep
<1>2. /\ Asks(c, p[c]) /\ counter' \in [Cwd -> Nat]
      /\ p[c].e \in DOMAIN entry /\ Suits(c, p[c], entry[p[c].e])
  BY <1>1 DEF SpawnInv, SpawnTypes, Asking, Asks, Away
<1>3. CASE Fail(c) \/ Again(c)
  BY <1>1, <1>2, <1>3, FailShape, AgainShape, Leaving
<1>4. CASE Share(c, p[c].e)
  <2>1. IF Legacy(c) THEN p[c].mode # "isolated"
        ELSE entry[p[c].e].sid.kind = "native" /\ entry[p[c].e].env = Env(c)
    BY <1>1, <1>2 DEF Suits
  <2>. QED  BY <1>1, <1>2, <1>4, <2>1, ShareKeeps
<1>5. CASE Go(c, "remove")
  <2>1. PICK q : Goes(c, q, "remove", p[c].e)
    BY <1>5, GoShape DEF Places
  <2>2. MayGo(c, "remove", entry[p[c].e])
    BY DEF MayGo
  <2>3. Asks(c, q)
    BY <2>1, <2>2, <1>1, <1>2, GoingAsks
  <2>. QED  BY <1>1, <1>2, <2>1, <2>3, CallMoves DEF Goes
<1>. QED  BY <1>3, <1>4, <1>5 DEF Probe

\* The gate of global calls lets one pass to an owner known to be shareable.
LEMMA GateKeeps ==
  ASSUME SpawnInv, NEW c \in Caller, waitForCrossCwdClassify(c)
  PROVE  SpawnInv'
<1>1. p[c].pc = "gate" /\ UNCHANGED <<req, entry, owners, counter, template, verdicts>>
  BY DEF waitForCrossCwdClassify, Registry, Keep
<1>2. /\ Asks(c, p[c]) /\ counter' \in [Cwd -> Nat] /\ p[c] \in CallType
      /\ p[c].e \in DOMAIN entry /\ Suits(c, p[c], entry[p[c].e])
  BY <1>1 DEF SpawnInv, SpawnTypes, Asking, Asks, Away
<1>3. CASE E(c).class = "shared" /\ Go(c, "admit")
  <2>1. PICK q : Goes(c, q, "admit", p[c].e)
    BY <1>3, GoShape DEF Places, Looking
  <2>2. MayGo(c, "admit", entry[p[c].e]) /\ "admit" \in Looking
    BY <1>1, <1>2, <1>3 DEF MayGo, Suits, Gated, E, Looking
  <2>3. Asks(c, q)
    BY <2>1, <2>2, <1>1, <1>2, GoingAsks
  <2>. QED  BY <1>1, <1>2, <2>1, <2>3, CallMoves DEF Goes
<1>4. CASE Retry(c, "isolated", p[c].isolated)
  <2>1. p[c].isolated \in Nat
    BY <1>2 DEF CallType
  <2>. QED  BY <1>1, <1>2, <1>4, <2>1, RetryShape, Leaving
<1>. QED  BY <1>3, <1>4 DEF waitForCrossCwdClassify

\* Steps that only end an attempt: a wait or a binding that runs out, a commit
\* that has ended, a removal that has.
LEMMA EndsKeep ==
  ASSUME SpawnInv, NEW c \in Caller,
         WaitTimeout(c) \/ waitForOwnerAdmissionThaw(c) \/ BindingExpires(c) \/ Removing(c)
  PROVE  SpawnInv'
<1>1. p[c].pc # "done" /\ UNCHANGED <<req, entry, owners, counter, template, verdicts>>
  BY DEF WaitTimeout, waitForOwnerAdmissionThaw, BindingExpires, Removing, Registry, Keep, KeepAll
<1>2. Leaves(c)
  BY FailShape, AgainShape, AfterShape
     DEF WaitTimeout, waitForOwnerAdmissionThaw, BindingExpires, Removing
<1>3. counter' \in [Cwd -> Nat]
  BY <1>1 DEF SpawnInv, SpawnTypes
<1>. QED  BY <1>1, <1>2, <1>3, Leaving

-----------------------------------------------------------------------------
(* Steps that create, share or remove an owner *)

\* What is known of an entry.
LEMMA EntryFacts ==
  ASSUME SpawnInv, NEW x \in DOMAIN entry
  PROVE  /\ entry[x] \in EntryType /\ MadeFor(entry[x])
         /\ entry[x].state = "creating" => entry[x].class = "none" /\ entry[x].removal = "no"
         /\ entry[x].state = "live" /\ ~Movable(entry[x].sid) => Held(x)
         /\ entry[x].creator \in Caller
<1>1. entry[x] \in EntryType /\ MadeFor(entry[x])
  BY DEF SpawnInv, SpawnTypes, Made
<1>2. entry[x].creator \in Caller
  BY <1>1 DEF EntryType
<1>. QED  BY <1>1, <1>2 DEF SpawnInv, Filed, MadeFor

\* The deletion of an entry that the registry holds.
LEMMA DeleteShape ==
  ASSUME SpawnInv, NEW x \in DOMAIN entry, Delete(x)
  PROVE  /\ owners' = Restrict(owners, DOMAIN owners \ {entry[x].sid})
         /\ counter' \in [Cwd -> Nat]
<1>1. counter \in [Cwd -> Nat] /\ MadeFor(entry[x])
  BY EntryFacts DEF SpawnInv, SpawnTypes
<1>2. entry[x].sid.kind = "isolated" => entry[x].sid.cwd \in Cwd
  BY <1>1 DEF MadeFor
<1>3. counter' = counter \/ (entry[x].sid.kind = "isolated" /\ counter' = [counter EXCEPT ![entry[x].sid.cwd] = 0])
  BY DEF Delete
<1>4. counter' \in [Cwd -> Nat]
  BY <1>1, <1>2, <1>3
<1>. QED  BY <1>4 DEF Delete

\* A step of an owner that moves no call.
LEMMA OwnerMoves ==
  ASSUME SpawnInv, TemplateMoves, UNCHANGED <<req, p>>, NEW x \in DOMAIN entry, NEW r \in EntryType,
         entry' = [entry EXCEPT ![x] = r], Follows(entry[x], r),
         r.sessions \subseteq entry[x].sessions,
         r.state = "creating" => r.class = "none" /\ r.removal = "no",
         entry[x].state = "creating" => r.state = "creating",
         r.state = "live" => entry[x].state = "live",
         \/ owners' = owners
         \/ /\ Held(x) /\ r.state # "live"
            /\ owners' = Restrict(owners, DOMAIN owners \ {entry[x].sid}),
         counter' \in [Cwd -> Nat]
  PROVE  SpawnInv'
<1>. DEFINE c == entry[x].creator
            q == p[c]
<1>1. c \in Caller
  BY EntryFacts
<1>2. q \in CallType /\ Asks(c, q) /\ p' = [p EXCEPT ![c] = q]
  BY <1>1 DEF SpawnInv, SpawnTypes, Asking
<1>3. r.state = "live" /\ ~Movable(r.sid) => Held(x)
  BY EntryFacts DEF Follows
<1>. HIDE DEF c, q
<1>4. q = p[c] /\ ~(entry[x].state = "creating" /\ r.state # "creating")
  BY DEF q
<1>. QED  BY <1>1, <1>2, <1>3, <1>4, EntryMoves

\* A placeholder is given up by the call that made it.
LEMMA GivenUp ==
  ASSUME SpawnInv, NEW c \in Caller, p[c].pc \in {"create", "promote"}, NEW b \in BOOLEAN,
         entry' = [entry EXCEPT ![p[c].e].state = "abandoned", ![p[c].e].closed = b],
         IF Current(c) THEN Delete(p[c].e) ELSE UNCHANGED <<owners, counter>>,
         Leaves(c), UNCHANGED <<req, template, verdicts>>
  PROVE  SpawnInv'
<1>. DEFINE x == p[c].e
            o == entry[x]
            r == [o EXCEPT !.state = "abandoned", !.closed = b]
<1>1. x \in DOMAIN entry /\ o.creator = c
  BY DEF SpawnInv, Asking, Asks, Suits, Away, Making
<1>2. o \in EntryType /\ entry \in Seq(EntryType)
  BY <1>1, EntryFacts DEF SpawnInv, SpawnTypes
<1>3. r \in EntryType
  BY <1>2 DEF EntryType
<1>4. /\ r.state = "abandoned" /\ Follows(o, r) /\ r.sessions = o.sessions
  BY <1>2 DEF EntryType, Follows
<1>5. entry' = [entry EXCEPT ![x] = r]
  BY <1>2
<1>6. /\ counter' \in [Cwd -> Nat]
      /\ \/ owners' = owners
         \/ Held(x) /\ owners' = Restrict(owners, DOMAIN owners \ {entry[x].sid})
  <2>1. CASE Current(c)
    BY <2>1, <1>1, DeleteShape DEF Current, Held, E
  <2>2. CASE ~Current(c)
    BY <2>2 DEF SpawnInv, SpawnTypes
  <2>. QED  BY <2>1, <2>2
<1>7. PICK q \in CallType : /\ p' = [p EXCEPT ![c] = q]
                            /\ q.pc \in {"derive", "failed"} /\ Asks(c, q)
  BY DEF Leaves
<1>8. TemplateMoves /\ p[c].pc # "done" /\ q.pc \notin {"create", "promote"}
  BY <1>7 DEF TemplateMoves
<1>. HIDE DEF r
<1>. QED  BY <1>1, <1>3, <1>4, <1>5, <1>6, <1>7, <1>8, EntryMoves

\* A call joins the owner that it made or that it may share.
LEMMA Joining ==
  ASSUME SpawnInv, NEW c \in Caller, p[c].pc # "done", p[c].e \in DOMAIN entry,
         entry' = [entry EXCEPT ![p[c].e].sessions = @ \cup {c}],
         NEW q \in CallType, p' = [p EXCEPT ![c] = q], Asks(c, q),
         Compatible(entry[p[c].e].env, Env(c)) \/ (Deprecated(q.mode) /\ q.pc = "done"),
         UNCHANGED <<req, owners, counter, template, verdicts>>
  PROVE  SpawnInv'
<1>. DEFINE x == p[c].e
            o == entry[x]
            r == [o EXCEPT !.sessions = o.sessions \cup {c}]
<1>1. /\ o \in EntryType /\ entry \in Seq(EntryType) /\ counter' \in [Cwd -> Nat]
      /\ o.state = "creating" => o.class = "none" /\ o.removal = "no"
      /\ o.state = "live" /\ ~Movable(o.sid) => Held(x)
  BY EntryFacts DEF SpawnInv, SpawnTypes
<1>2. r \in EntryType
  BY <1>1 DEF EntryType
<1>3. /\ r.state = o.state /\ r.class = o.class /\ r.removal = o.removal /\ Follows(o, r)
      /\ r.sessions = o.sessions \cup {c} /\ r.env = o.env /\ r.sid = o.sid
  BY <1>1 DEF EntryType, Follows
<1>4. entry' = [entry EXCEPT ![x] = r]
  BY <1>1
<1>. HIDE DEF r
<1>5. \A d \in r.sessions : \/ d \in entry[x].sessions
                            \/ Compatible(r.env, Env(d))
                            \/ d = c /\ Deprecated(q.mode) /\ q.pc = "done"
  BY <1>3
<1>6. TemplateMoves
  BY DEF TemplateMoves
<1>7. r.state = "creating" => r.class = "none" /\ r.removal = "no"
  BY <1>1, <1>3
<1>8. r.state = "live" /\ ~Movable(r.sid) => Held(x)
  BY <1>1, <1>3
<1>. QED  BY <1>1, <1>2, <1>3, <1>4, <1>5, <1>6, <1>7, <1>8, EntryMoves

\* A call is admitted by the owner it shares, or refused.
LEMMA AdmitKeeps ==
  ASSUME SpawnInv, NEW c \in Caller, admitOwner(c)
  PROVE  SpawnInv'
<1>1. p[c].pc = "admit" /\ UNCHANGED <<req, template, verdicts>>
  BY DEF admitOwner, Keep
<1>2. /\ Asks(c, p[c]) /\ counter \in [Cwd -> Nat] /\ p[c] \in CallType
      /\ p[c].e \in DOMAIN entry /\ Suits(c, p[c], entry[p[c].e])
  BY <1>1 DEF SpawnInv, SpawnTypes, Asking, Asks, Away
<1>3. CASE Fail(c) /\ Registry
  BY <1>1, <1>2, <1>3, FailShape, Leaving DEF Registry
<1>4. CASE Refused(c) /\ UNCHANGED <<entry, owners>>
  BY <1>1, <1>2, <1>4, RefusedShape, Leaving
<1>5. CASE /\ entry' = [entry EXCEPT ![p[c].e].sessions = @ \cup {c}]
           /\ Return(c, "done") /\ UNCHANGED <<owners, counter>>
  <2>1. PICK q \in CallType : /\ p' = [p EXCEPT ![c] = q] /\ q.pc = "done"
                              /\ q.mode = p[c].mode /\ Asks(c, q)
    BY <1>5, ReturnShape
  <2>2. p[c].mode \in Modes
    BY <1>2 DEF CallType
  <2>3. Compatible(entry[p[c].e].env, Env(c)) \/ Deprecated(p[c].mode)
    BY <1>1, <1>2, <2>2, OwnEnvironment DEF Suits, Deprecated, Modes
  <2>. QED  BY <1>1, <1>2, <1>5, <2>1, <2>3, Joining
<1>. QED  BY <1>3, <1>4, <1>5 DEF admitOwner

\* An owner is built for the placeholder, from the template selected now.
LEMMA NewOwnerKeeps ==
  ASSUME SpawnInv, NEW c \in Caller, NewOwner(c)
  PROVE  SpawnInv'
<1>1. /\ p[c].pc = "create" /\ UNCHANGED <<req, entry, owners, counter, template, verdicts>>
      /\ p' = [p EXCEPT ![c].pc = "promote", ![c].match = Select(c)]
  BY DEF NewOwner, Registry, Keep
<1>2. /\ Asks(c, p[c]) /\ counter' \in [Cwd -> Nat] /\ p[c] \in CallType /\ p \in [Caller -> CallType]
      /\ template.rev \in Nat
  BY <1>1 DEF SpawnInv, SpawnTypes, Asking
<1>. DEFINE m == Select(c)
            q == [p[c] EXCEPT !.pc = "promote", !.match = m]
<1>3. /\ m \in Matches
      /\ m # NoTemplate => p[c].mismatches < MaxMismatches
      /\ m = NoTemplate \/ m.class \in {"shared", "isolated"}
      /\ m # NoTemplate => m.rev <= template.rev
      /\ m.class = "shared" => templateScope("isolated", Env(c), req[c].cwd) \notin template.scopes
  <2>1. m = NoTemplate \/ (p[c].mismatches < MaxMismatches /\ m = getCompatibleTemplate(Env(c), req[c].cwd))
    BY DEF Select
  <2>2. \/ m = NoTemplate
        \/ m = [class |-> "isolated", rev |-> template.rev]
        \/ /\ m = [class |-> "shared", rev |-> template.rev]
           /\ templateScope("isolated", Env(c), req[c].cwd) \notin template.scopes
    BY <2>1 DEF getCompatibleTemplate
  <2>3. template.rev <= template.rev
    BY <1>2
  <2>. QED  BY <2>1, <2>2, <2>3, <1>2 DEF NoTemplate, Matches, Classes
<1>4. p' = [p EXCEPT ![c].pc = "promote", ![c].match = m]
  BY <1>1
<1>. HIDE DEF m
<1>5. q \in CallType
  BY <1>2, <1>3 DEF CallType, Places, Making
<1>6. /\ q.pc = "promote" /\ q.match = m /\ q.e = p[c].e /\ q.sid = p[c].sid /\ q.mode = p[c].mode
      /\ q.retries = p[c].retries /\ q.mismatches = p[c].mismatches
  BY <1>2 DEF CallType
<1>7. p' = [p EXCEPT ![c] = q]
  BY <1>2, <1>4
<1>. HIDE DEF q
<1>8. Selected(c, q)
  BY <1>3, <1>6 DEF Selected
<1>9. AsksFor(c, q)
  BY <1>1, <1>2, <1>6 DEF Asks, AsksFor
<1>10. q.e \in DOMAIN entry /\ Suits(c, q, entry[q.e])
  BY <1>1, <1>2, <1>6 DEF Asks, Suits, Away, Making
<1>11. Asks(c, q)
  BY <1>2, <1>6, <1>8, <1>9, <1>10 DEF Asks
<1>. QED  BY <1>1, <1>2, <1>5, <1>7, <1>11, CallMoves

\* An owner that cannot be built is dropped with its placeholder.
LEMMA NewOwnerFailsKeeps ==
  ASSUME SpawnInv, NEW c \in Caller, NewOwnerFails(c)
  PROVE  SpawnInv'
BY FailShape, GivenUp DEF NewOwnerFails, Drop, KeepAll

\* The placeholder becomes the owner, or the call gives it up.
LEMMA PromoteKeeps ==
  ASSUME SpawnInv, NEW c \in Caller, Promote(c)
  PROVE  SpawnInv'
<1>. DEFINE m == p[c].match
            stale == m # NoTemplate /\ ~templateMatchCurrentLocked(m, Env(c), req[c].cwd)
            x == p[c].e
            o == entry[x]
<1>1. p[c].pc = "promote" /\ UNCHANGED <<req, template, verdicts>>
  BY DEF Promote, Keep
<1>2. /\ Asks(c, p[c]) /\ counter \in [Cwd -> Nat] /\ p[c] \in CallType /\ p \in [Caller -> CallType]
      /\ x \in DOMAIN entry /\ Suits(c, p[c], o)
  BY <1>1 DEF SpawnInv, SpawnTypes, Asking, Asks, Away
<1>3. o \in EntryType /\ entry \in Seq(EntryType) /\ o.creator = c
  BY <1>1, <1>2, EntryFacts DEF SpawnInv, SpawnTypes, Suits, Making
<1>4. CASE fence
  BY <1>1, <1>4, FailShape, GivenUp DEF Promote, Drop
<1>5. CASE ~fence /\ ~Promotable(c, stale)
  <2>1. Abandon(c)
    BY <1>5 DEF Promote
  <2>2. Leaves(c)
    <3>1. CASE ~stale
      BY <1>5, <3>1, AgainShape DEF Promote
    <3>2. CASE stale
      <4>. DEFINE k == p[c].mismatches + 1
                  q == [p[c] EXCEPT !.pc = "derive", !.e = NoOwner, !.mismatches = k]
      <4>1. p' = [p EXCEPT ![c].pc = "derive", ![c].e = NoOwner, ![c].mismatches = @ + 1]
        BY <1>5, <3>2 DEF Promote
      <4>2. p[c].mismatches \in Nat /\ p[c].mismatches < MaxMismatches
        BY <1>1, <1>2, <3>2 DEF CallType, Asks, Selected
      <4>3. k \in Nat /\ k <= MaxMismatches
        BY <4>2, SpawnAssumption
      <4>4. p' = [p EXCEPT ![c] = q]
        BY <4>1, <1>2
      <4>. HIDE DEF k
      <4>5. q \in CallType
        BY <4>3, <1>2 DEF CallType, Places, Away
      <4>6. q.pc = "derive" /\ q.mode = p[c].mode /\ q.retries = p[c].retries /\ q.mismatches = k
        BY <1>2 DEF CallType
      <4>. HIDE DEF q
      <4>7. Asks(c, q)
        BY <4>3, <4>6, <1>2, AwayAsks DEF Asks
      <4>. QED  BY <4>4, <4>5, <4>6, <4>7 DEF Leaves
    <3>. QED  BY <3>1, <3>2
  <2>3. PICK b \in BOOLEAN : b = (o.closed \/ Current(c))
    OBVIOUS
  <2>4. entry' = [entry EXCEPT ![x].state = "abandoned", ![x].closed = b]
    <3>1. [entry EXCEPT ![x].state = "abandoned"][x].closed = o.closed
      BY <1>2, <1>3 DEF EntryType
    <3>. QED  BY <2>1, <2>3, <3>1 DEF Abandon
  <2>. QED  BY <1>1, <2>1, <2>2, <2>4, GivenUp DEF Abandon
<1>6. CASE ~fence /\ Promotable(c, stale)
  <2>. DEFINE r == [o EXCEPT !.state = "live", !.closed = TRUE, !.class = m.class]
  <2>1. /\ entry' = [entry EXCEPT ![x].state = "live", ![x].closed = TRUE, ![x].class = m.class]
        /\ Go(c, "first") /\ UNCHANGED <<owners, counter>>
    BY <1>6 DEF Promote
  <2>2. m.class \in Classes
    BY <1>2 DEF CallType, Matches
  <2>3. r \in EntryType
    BY <2>2, <1>3 DEF EntryType
  <2>4. r.state = "live" /\ r.sessions = o.sessions
    BY <1>3 DEF EntryType, Follows
  <2>5. o.class = "none"
    BY <1>1, <1>2, EntryFacts DEF Suits
  <2>6. Follows(o, r)
    BY <1>3, <2>5 DEF EntryType, Follows
  <2>7. entry' = [entry EXCEPT ![x] = r]
    BY <2>1, <1>3
  <2>. HIDE DEF r
  <2>8. Held(x)
    BY <1>6 DEF Promotable, Current, Held, E
  <2>9. PICK q : Goes(c, q, "first", x)
    BY <2>1, GoShape DEF Places, Making
  <2>10. Asks(c, q)
    BY <2>9, <1>1, <1>2, <1>3 DEF Goes, Asks, AsksFor, Suits, Selected, Away, Making
  <2>11. TemplateMoves
    BY <1>1 DEF TemplateMoves
  <2>12. q \in CallType /\ p' = [p EXCEPT ![c] = q] /\ q.pc = "first"
    BY <2>9 DEF Goes
  <2>. QED  BY <1>1, <1>2, <1>3, <2>1, <2>3, <2>4, <2>6, <2>7, <2>8, <2>10, <2>11, <2>12, EntryMoves
<1>. QED  BY <1>4, <1>5, <1>6

\* The call that made the owner is its first session.
LEMMA AdmitFirstKeeps ==
  ASSUME SpawnInv, NEW c \in Caller, AdmitFirst(c)
  PROVE  SpawnInv'
<1>1. p[c].pc = "first" /\ UNCHANGED <<req, template, verdicts>>
  BY DEF AdmitFirst, Keep
<1>2. /\ Asks(c, p[c]) /\ counter \in [Cwd -> Nat]
      /\ p[c].e \in DOMAIN entry /\ Suits(c, p[c], entry[p[c].e])
  BY <1>1 DEF SpawnInv, SpawnTypes, Asking, Asks, Away
<1>3. CASE Fail(c) /\ Registry
  BY <1>1, <1>2, <1>3, FailShape, Leaving DEF Registry
<1>4. CASE Refused(c) /\ UNCHANGED <<entry, owners>>
  BY <1>1, <1>2, <1>4, RefusedShape, Leaving
<1>5. CASE /\ entry' = [entry EXCEPT ![p[c].e].sessions = @ \cup {c}]
           /\ Go(c, "start") \/ Return(c, "done")
           /\ UNCHANGED <<owners, counter>>
  <2>1. entry[p[c].e].creator = c
    BY <1>1, <1>2 DEF Suits, Making
  <2>2. Compatible(entry[p[c].e].env, Env(c))
    BY <2>1, <1>2, EntryFacts, OwnEnvironment DEF MadeFor
  <2>3. PICK q \in CallType : p' = [p EXCEPT ![c] = q] /\ Asks(c, q)
    <3>1. CASE Return(c, "done")
      BY <3>1, ReturnShape
    <3>2. CASE Go(c, "start")
      <4>1. PICK q : Goes(c, q, "start", p[c].e)
        BY <3>2, GoShape DEF Places, Making
      <4>2. Asks(c, q)
        BY <4>1, <1>1, <1>2 DEF Goes, Asks, AsksFor, Suits, Selected, Away, Making
      <4>. QED  BY <4>1, <4>2 DEF Goes
    <3>. QED  BY <1>5, <3>1, <3>2
  <2>. QED  BY <1>1, <1>2, <1>5, <2>2, <2>3, Joining
<1>. QED  BY <1>3, <1>4, <1>5 DEF AdmitFirst

\* The owner's process is started, or the owner is to be removed again.
LEMMA StartKeeps ==
  ASSUME SpawnInv, NEW c \in Caller, StartInitialMaterialization(c)
  PROVE  SpawnInv'
<1>1. p[c].pc = "start" /\ UNCHANGED <<req, entry, owners, counter, template, verdicts>>
  BY DEF StartInitialMaterialization, Registry, KeepAll
<1>2. /\ Asks(c, p[c]) /\ counter' \in [Cwd -> Nat] /\ p[c] \in CallType /\ p \in [Caller -> CallType]
  BY <1>1 DEF SpawnInv, SpawnTypes, Asking
<1>3. CASE Return(c, "done")
  <2>1. PICK q \in CallType : p' = [p EXCEPT ![c] = q] /\ Asks(c, q)
    BY <1>3, ReturnShape
  <2>. QED  BY <1>1, <1>2, <2>1, CallMoves
<1>4. CASE p' = [p EXCEPT ![c].pc = "remove", ![c].after = "fail"]
  <2>. DEFINE q == [p[c] EXCEPT !.pc = "remove", !.after = "fail"]
  <2>1. q \in CallType
    BY <1>2 DEF CallType, Places
  <2>2. /\ q.pc = "remove" /\ q.e = p[c].e /\ q.sid = p[c].sid /\ q.mode = p[c].mode
        /\ q.retries = p[c].retries /\ q.mismatches = p[c].mismatches
    BY <1>2 DEF CallType
  <2>3. p' = [p EXCEPT ![c] = q]
    BY <1>2, <1>4
  <2>. HIDE DEF q
  <2>4. Asks(c, q)
    BY <1>1, <1>2, <2>2 DEF Asks, AsksFor, Suits, Selected, Away, Making
  <2>. QED  BY <1>1, <1>2, <2>1, <2>3, <2>4, CallMoves
<1>. QED  BY <1>3, <1>4 DEF StartInitialMaterialization

\* A call claims the removal of the entry it holds, or finds it gone.
LEMMA RemoveKeeps ==
  ASSUME SpawnInv, NEW c \in Caller, Remove(c)
  PROVE  SpawnInv'
<1>1. p[c].pc = "remove" /\ UNCHANGED <<req, owners, counter, template, verdicts>>
  BY DEF Remove, Keep
<1>2. /\ Asks(c, p[c]) /\ counter' \in [Cwd -> Nat] /\ p[c].e \in DOMAIN entry
  BY <1>1 DEF SpawnInv, SpawnTypes, Asking, Asks, Away
<1>3. CASE After(c) /\ UNCHANGED entry
  BY <1>1, <1>2, <1>3, AfterShape, Leaving
<1>4. CASE Claimable(p[c].e) /\ Claim(p[c].e) /\ Go(c, "removing")
  <2>. DEFINE x == p[c].e
              o == entry[x]
              r == [o EXCEPT !.removal = "claimed"]
  <2>1. /\ o \in EntryType /\ entry \in Seq(EntryType)
        /\ o.state = "live" /\ Held(x)
    BY <1>2, <1>4, EntryFacts DEF SpawnInv, SpawnTypes, Claimable, Held
  <2>2. r \in EntryType
    BY <2>1 DEF EntryType
  <2>3. r.state = "live" /\ Follows(o, r) /\ r.sessions = o.sessions
    BY <2>1 DEF EntryType, Follows
  <2>4. entry' = [entry EXCEPT ![x] = r]
    BY <1>4, <2>1 DEF Claim
  <2>. HIDE DEF r
  <2>5. PICK q : Goes(c, q, "removing", x)
    BY <1>4, GoShape DEF Places
  <2>6. Asks(c, q)
    BY <2>5, <1>1, <1>2 DEF Goes, Asks, AsksFor, Suits, Selected, Away, Making
  <2>7. TemplateMoves
    BY <1>1 DEF TemplateMoves
  <2>8. q \in CallType /\ p' = [p EXCEPT ![c] = q]
    BY <2>5 DEF Goes
  <2>. QED  BY <1>1, <1>2, <2>1, <2>2, <2>3, <2>4, <2>6, <2>7, <2>8, EntryMoves
<1>. QED  BY <1>3, <1>4 DEF Remove

-----------------------------------------------------------------------------
(* The steps of owners and operators *)

\* A step of an owner that neither makes, ends nor removes it.
LEMMA OwnerLivesOn ==
  ASSUME SpawnInv, TemplateMoves, UNCHANGED <<req, p, owners, counter>>,
         NEW x \in DOMAIN entry, NEW r \in EntryType, entry' = [entry EXCEPT ![x] = r],
         Follows(entry[x], r), r.sessions \subseteq entry[x].sessions, r.state = entry[x].state,
         entry[x].state # "creating" \/ (r.class = entry[x].class /\ r.removal = entry[x].removal)
  PROVE  SpawnInv'
<1>1. counter' \in [Cwd -> Nat]
  BY DEF SpawnInv, SpawnTypes
<1>2. r.state = "creating" => r.class = "none" /\ r.removal = "no"
  BY EntryFacts
<1>. QED  BY <1>1, <1>2, OwnerMoves

\* A removal is claimed, by whoever may.
LEMMA ClaimKeeps ==
  ASSUME SpawnInv, NEW x \in DOMAIN entry, ClaimRemoval(x) \/ OperatorRemoves(x)
  PROVE  SpawnInv'
<1>. DEFINE o == entry[x]
            r == [o EXCEPT !.removal = "claimed"]
<1>1. /\ Claimable(x) /\ Claim(x) /\ UNCHANGED <<req, p, owners, counter, template, verdicts>>
  BY DEF ClaimRemoval, OperatorRemoves, Keep, KeepAll
<1>2. o \in EntryType /\ entry \in Seq(EntryType) /\ o.state = "live"
  BY <1>1, EntryFacts DEF SpawnInv, SpawnTypes, Claimable
<1>3. r \in EntryType
  BY <1>2 DEF EntryType
<1>4. r.state = o.state /\ Follows(o, r) /\ r.sessions = o.sessions
  BY <1>2 DEF EntryType, Follows
<1>5. entry' = [entry EXCEPT ![x] = r] /\ TemplateMoves
  BY <1>1, <1>2 DEF Claim, TemplateMoves
<1>. HIDE DEF r
<1>. QED  BY <1>1, <1>2, <1>3, <1>4, <1>5, OwnerLivesOn

\* A claimed owner is closed, or its end stays unproven.
LEMMA CloseKeeps ==
  ASSUME SpawnInv, NEW x \in DOMAIN entry, CloseOwner(x) \/ FinalizeUnproven(x)
  PROVE  SpawnInv'
<1>. DEFINE o == entry[x]
            r == [o EXCEPT !.admits = FALSE, !.sessions = {}]
            t == [o EXCEPT !.removal = "retry"]
<1>1. o.removal = "claimed" /\ UNCHANGED <<req, p, owners, counter, template, verdicts>>
  BY DEF CloseOwner, FinalizeUnproven, Keep, KeepAll
<1>2. o \in EntryType /\ entry \in Seq(EntryType) /\ o.state # "creating"
  BY <1>1, EntryFacts DEF SpawnInv, SpawnTypes
<1>3. r \in EntryType /\ t \in EntryType
  BY <1>2 DEF EntryType
<1>4. /\ r.state = o.state /\ Follows(o, r) /\ r.sessions = {}
      /\ t.state = o.state /\ Follows(o, t) /\ t.sessions = o.sessions
  BY <1>2 DEF EntryType, Follows
<1>5. entry' = [entry EXCEPT ![x] = r] \/ entry' = [entry EXCEPT ![x] = t]
  BY <1>2 DEF CloseOwner, FinalizeUnproven
<1>6. TemplateMoves
  BY <1>1 DEF TemplateMoves
<1>. HIDE DEF r, t
<1>7. r.sessions \subseteq o.sessions
  BY <1>4
<1>. QED  BY <1>1, <1>2, <1>3, <1>4, <1>5, <1>6, <1>7, OwnerLivesOn

\* A closed owner is removed, and its entry if the registry still holds it.
LEMMA RemovedKeeps ==
  ASSUME SpawnInv, NEW x \in DOMAIN entry, prepareOwnerRemovalLocked(x)
  PROVE  SpawnInv'
<1>. DEFINE o == entry[x]
            s == IF Held(x) THEN "removed" ELSE o.state
            r == [o EXCEPT !.removal = "no", !.state = s]
<1>1. /\ o.removal = "claimed" /\ UNCHANGED <<req, p, template, verdicts>>
      /\ entry' = [entry EXCEPT ![x].removal = "no", ![x].state = IF Held(x) THEN "removed" ELSE @]
      /\ IF Held(x) THEN Delete(x) ELSE UNCHANGED <<owners, counter>>
  BY DEF prepareOwnerRemovalLocked, Keep, Held
<1>2. o \in EntryType /\ entry \in Seq(EntryType) /\ o.state # "creating"
  BY <1>1, EntryFacts DEF SpawnInv, SpawnTypes
<1>3. s \in {"creating", "live", "abandoned", "removed"} /\ s # "creating"
  BY <1>2 DEF EntryType
<1>4. entry' = [entry EXCEPT ![x] = r]
  BY <1>1, <1>2 DEF EntryType
<1>5. Held(x) => s = "removed"
  OBVIOUS
<1>6. s = "live" => o.state = "live"
  OBVIOUS
<1>. HIDE DEF s
<1>7. r \in EntryType
  BY <1>2, <1>3 DEF EntryType
<1>8. r.state = s /\ Follows(o, r) /\ r.sessions = o.sessions
  BY <1>2 DEF EntryType, Follows
<1>. HIDE DEF r
<1>9. /\ counter' \in [Cwd -> Nat]
      /\ \/ owners' = owners
         \/ Held(x) /\ owners' = Restrict(owners, DOMAIN owners \ {entry[x].sid})
  BY <1>1, DeleteShape DEF SpawnInv, SpawnTypes
<1>10. TemplateMoves
  BY <1>1 DEF TemplateMoves
<1>. QED  BY <1>1, <1>2, <1>3, <1>4, <1>5, <1>6, <1>7, <1>8, <1>9, <1>10, OwnerMoves

\* What an owner publishes moves the templates on and keeps isolated verdicts.
LEMMA PublishMoves ==
  ASSUME SpawnInv, NEW x \in DOMAIN entry, NEW class \in Verdicts, Publish(x, class)
  PROVE  TemplateMoves
<1>. DEFINE env == entry[x].env
            cwd == entry[x].cwd
<1>1. /\ template'.rev = template.rev + 1
      /\ template'.scopes = {t \in template.scopes :
                               t.env # env \/ t.class = class \/ t.class = "isolated"}
                              \cup {templateScope(class, env, cwd)}
      /\ verdicts' = IF class = "isolated" THEN verdicts \cup {<<env, cwd>>} ELSE verdicts
  BY DEF Publish, updateTemplateLocked
<1>2. \A a, b : templateScope("isolated", a, b).class = "isolated"
  BY DEF templateScope
<1>3. ASSUME NEW v \in verdicts'
      PROVE  templateScope("isolated", v[1], v[2]) \in template'.scopes
  <2>1. CASE v \in verdicts
    BY <2>1, <1>1, <1>2 DEF SpawnInv, Published
  <2>2. CASE v \notin verdicts
    <3>1. class = "isolated" /\ v = <<env, cwd>>
      BY <2>2, <1>1, <1>3
    <3>. QED  BY <3>1, <1>1
  <2>. QED  BY <2>1, <2>2
<1>4. Published'
  BY <1>3 DEF Published, templateScope
<1>. QED  BY <1>1, <1>4 DEF TemplateMoves

\* A verdict is committed by a frozen owner, or found by a live one.
LEMMA VerdictKeeps ==
  ASSUME SpawnInv, NEW x \in DOMAIN entry, NEW class \in Verdicts,
         Commit(x, class) \/ ClassifyLive(x, class)
  PROVE  SpawnInv'
<1>. DEFINE o == entry[x]
            r(b, k) == [o EXCEPT !.frozen = b, !.class = k]
<1>1. o.state = "live" /\ UNCHANGED <<req, p, owners, counter>>
  BY DEF Commit, ClassifyLive, Commits, Live, Quiet
<1>2. o \in EntryType /\ entry \in Seq(EntryType)
  BY EntryFacts DEF SpawnInv, SpawnTypes
<1>3. class \in {"shared", "isolated"}
  BY DEF Verdicts
<1>4. o.frozen \in BOOLEAN /\ o.class \in Classes
  BY <1>2 DEF EntryType
<1>5. ASSUME NEW b \in BOOLEAN, NEW k \in Classes, entry' = [entry EXCEPT ![x] = r(b, k)],
             o.class # "none" => k # "none", TemplateMoves
      PROVE  SpawnInv'
  <2>1. r(b, k) \in EntryType
    BY <1>2, <1>5 DEF EntryType
  <2>2. r(b, k).state = o.state /\ r(b, k).sessions = o.sessions /\ Follows(o, r(b, k))
    BY <1>2, <1>5 DEF EntryType, Follows
  <2>. HIDE DEF r
  <2>. QED  BY <1>1, <1>5, <2>1, <2>2, OwnerLivesOn
<1>6. CASE Commit(x, class)
  <2>1. CASE Held(x)
    <3>1. /\ Publish(x, class)
          /\ entry' = [entry EXCEPT ![x].frozen = FALSE, ![x].class = Verdict(x, class)]
      BY <1>6, <2>1 DEF Commit
    <3>2. Verdict(x, class) \in {"shared", "isolated"}
      BY <1>3 DEF Verdict
    <3>3. PICK k \in {"shared", "isolated"} : k = Verdict(x, class)
      BY <3>2
    <3>4. entry' = [entry EXCEPT ![x] = r(FALSE, k)]
      BY <3>1, <3>3, <1>2
    <3>5. k \in Classes /\ k # "none"
      BY <3>3 DEF Classes
    <3>. HIDE DEF r
    <3>. QED  BY <3>1, <3>4, <3>5, <1>5, PublishMoves
  <2>2. CASE ~Held(x)
    <3>1. entry' = [entry EXCEPT ![x].frozen = FALSE] /\ UNCHANGED <<template, verdicts>>
      BY <1>6, <2>2 DEF Commit
    <3>2. entry' = [entry EXCEPT ![x] = r(FALSE, o.class)]
      BY <3>1, <1>2 DEF EntryType
    <3>3. TemplateMoves
      BY <3>1 DEF TemplateMoves
    <3>. HIDE DEF r
    <3>. QED  BY <3>2, <3>3, <1>4, <1>5
  <2>. QED  BY <2>1, <2>2
<1>7. CASE ClassifyLive(x, class)
  <2>1. Publish(x, class) /\ entry' = [entry EXCEPT ![x].class = class]
    BY <1>7 DEF ClassifyLive
  <2>2. entry' = [entry EXCEPT ![x] = r(o.frozen, class)]
    BY <2>1, <1>2 DEF EntryType
  <2>3. class \in Classes /\ class # "none"
    BY <1>3 DEF Classes
  <2>. HIDE DEF r
  <2>. QED  BY <2>1, <2>2, <2>3, <1>4, <1>5, PublishMoves
<1>. QED  BY <1>6, <1>7

\* An owner begins a commit, loses a session, its listener or its process.
LEMMA EventKeeps ==
  ASSUME SpawnInv, NEW x \in DOMAIN entry,
         \/ Freeze(x) \/ ListenerDies(x) \/ onUpstreamExit(x)
         \/ \E c \in Caller : SessionEnds(x, c)
  PROVE  SpawnInv'
<1>. DEFINE o == entry[x]
            r(b, a, l, s, z) == [o EXCEPT !.frozen = b, !.admits = a, !.reachable = l,
                                          !.sessions = s, !.exited = z]
<1>1. UNCHANGED <<req, p, owners, counter, template, verdicts>>
  BY DEF Freeze, ListenerDies, onUpstreamExit, SessionEnds, Quiet
<1>2. o \in EntryType /\ entry \in Seq(EntryType)
  BY EntryFacts DEF SpawnInv, SpawnTypes
<1>3. /\ o.frozen \in BOOLEAN /\ o.admits \in BOOLEAN /\ o.reachable \in BOOLEAN
      /\ o.sessions \in SUBSET Caller /\ o.exited \in BOOLEAN
  BY <1>2 DEF EntryType
<1>4. ASSUME NEW b \in BOOLEAN, NEW a \in BOOLEAN, NEW l \in BOOLEAN, NEW s \in SUBSET o.sessions,
             NEW z \in BOOLEAN, entry' = [entry EXCEPT ![x] = r(b, a, l, s, z)]
      PROVE  SpawnInv'
  <2>1. s \in SUBSET Caller
    BY <1>3
  <2>2. r(b, a, l, s, z) \in EntryType
    BY <1>2, <1>4, <2>1 DEF EntryType
  <2>3. /\ r(b, a, l, s, z).state = o.state /\ r(b, a, l, s, z).class = o.class
        /\ r(b, a, l, s, z).removal = o.removal /\ r(b, a, l, s, z).sessions = s
        /\ Follows(o, r(b, a, l, s, z))
    BY <1>2, <1>4 DEF EntryType, Follows
  <2>4. TemplateMoves
    BY <1>1 DEF TemplateMoves
  <2>. HIDE DEF r
  <2>5. r(b, a, l, s, z).sessions \subseteq o.sessions
    BY <2>3
  <2>. QED  BY <1>1, <1>4, <2>2, <2>3, <2>4, <2>5, OwnerLivesOn
<1>5. CASE Freeze(x)
  <2>1. entry' = [entry EXCEPT ![x] = r(TRUE, o.admits, o.reachable, o.sessions, o.exited)]
    BY <1>5, <1>2 DEF Freeze, EntryType
  <2>. HIDE DEF r
  <2>. QED  BY <2>1, <1>3, <1>4
<1>6. CASE ListenerDies(x)
  <2>1. PICK closed \in BOOLEAN : entry' = [entry EXCEPT ![x].reachable = FALSE, ![x].admits = ~closed]
    BY <1>6 DEF ListenerDies
  <2>2. PICK a \in BOOLEAN : a = ~closed
    OBVIOUS
  <2>3. entry' = [entry EXCEPT ![x] = r(o.frozen, a, FALSE, o.sessions, o.exited)]
    BY <2>1, <2>2, <1>2 DEF EntryType
  <2>. HIDE DEF r
  <2>. QED  BY <2>3, <1>3, <1>4
<1>7. CASE onUpstreamExit(x)
  <2>1. entry' = [entry EXCEPT ![x] = r(o.frozen, o.admits, o.reachable, o.sessions, TRUE)]
    BY <1>7, <1>2 DEF onUpstreamExit, EntryType
  <2>. HIDE DEF r
  <2>. QED  BY <2>1, <1>3, <1>4
<1>8. CASE \E c \in Caller : SessionEnds(x, c)
  <2>1. PICK c \in Caller : entry' = [entry EXCEPT ![x].sessions = @ \ {c}]
    BY <1>8 DEF SessionEnds
  <2>2. PICK s \in SUBSET o.sessions : s = o.sessions \ {c}
    OBVIOUS
  <2>3. entry' = [entry EXCEPT ![x] = r(o.frozen, o.admits, o.reachable, s, o.exited)]
    BY <2>1, <2>2, <1>2 DEF EntryType
  <2>. HIDE DEF r
  <2>. QED  BY <2>3, <1>3, <1>4
<1>. QED  BY <1>5, <1>6, <1>7, <1>8

\* The templates are invalidated, or the shutdown drops a placeholder.
LEMMA DropKeeps ==
  ASSUME SpawnInv, NEW x \in DOMAIN entry, invalidateOwnerTemplate(x) \/ ShutdownDrops(x)
  PROVE  SpawnInv'
<1>. DEFINE r == entry[x]
<1>1. /\ r \in EntryType /\ entry \in Seq(EntryType) /\ counter \in [Cwd -> Nat]
      /\ r.state = "creating" => r.class = "none" /\ r.removal = "no"
  BY EntryFacts DEF SpawnInv, SpawnTypes
<1>2. UNCHANGED <<req, p, entry>>
  BY DEF invalidateOwnerTemplate, ShutdownDrops, Quiet, Keep
<1>3. entry' = [entry EXCEPT ![x] = r] /\ Follows(entry[x], r)
  BY <1>1, <1>2 DEF Follows
<1>4. CASE invalidateOwnerTemplate(x)
  <2>1. UNCHANGED <<owners, counter>> /\ template'.rev = template.rev + 1 /\ verdicts' = {}
    BY <1>4 DEF invalidateOwnerTemplate, Quiet
  <2>2. TemplateMoves
    BY <2>1 DEF TemplateMoves, Published
  <2>. QED  BY <1>1, <1>2, <1>3, <2>1, <2>2, OwnerLivesOn
<1>5. CASE ShutdownDrops(x)
  <2>1. Held(x) /\ r.state = "creating" /\ Delete(x) /\ UNCHANGED <<template, verdicts>>
    BY <1>5 DEF ShutdownDrops, Keep
  <2>2. TemplateMoves
    BY <2>1 DEF TemplateMoves
  <2>. QED  BY <1>1, <1>2, <1>3, <2>1, <2>2, DeleteShape, OwnerMoves
<1>. QED  BY <1>4, <1>5

-----------------------------------------------------------------------------
(* The theorems *)

\* Initially no entry exists and every call is as it was made.
LEMMA SpawnInit == Init => SpawnInv
<1>. SUFFICES ASSUME Init PROVE SpawnInv
  OBVIOUS
<1>1. req \in Asked /\ entry = <<>> /\ owners = <<>> /\ verdicts = {}
  BY DEF Init
<1>2. DOMAIN entry = {} /\ DOMAIN owners = {}
  BY <1>1
<1>3. ASSUME NEW c \in Caller
      PROVE  p[c] \in CallType /\ Asks(c, p[c])
  <2>1. p[c] = Fresh(req[c].mode)
    BY DEF Init
  <2>2. req[c].mode \in Modes
    BY <1>1, Requests
  <2>3. NoTemplate \in Matches
    BY DEF NoTemplate, Matches, Classes
  <2>4. p[c] \in CallType
    BY <2>1, <2>2, <2>3 DEF Fresh, CallType, Places, Away
  <2>5. p[c].pc = "idle" /\ p[c].mode = req[c].mode /\ p[c].retries = 0 /\ p[c].mismatches = 0
    BY <2>1 DEF Fresh
  <2>6. 0 <= MaxRetries /\ 0 <= MaxMismatches
    BY SpawnAssumption
  <2>7. Asks(c, p[c])
    BY <2>5, <2>6, AwayAsks
  <2>. QED  BY <2>4, <2>7
<1>4. p \in [Caller -> CallType]
  BY <1>3 DEF Init
<1>5. /\ entry \in Seq(EntryType) /\ Len(entry) <= MaxEntries
      /\ owners \in [DOMAIN owners -> Nat] /\ DOMAIN owners \subseteq Sids
      /\ counter \in [Cwd -> Nat] /\ template.rev \in Nat
  <2>1. Len(entry) = 0 /\ 0 <= MaxEntries
    BY <1>1, SpawnAssumption
  <2>2. entry \in Seq(EntryType)
    BY <1>1
  <2>3. owners \in [DOMAIN owners -> Nat]
    BY <1>1, <1>2
  <2>4. template = [rev |-> 1, scopes |-> Cached] /\ counter = [d \in Cwd |-> 0]
    BY DEF Init
  <2>5. template.rev = 1
    BY <2>4
  <2>. QED  BY <2>1, <2>2, <2>3, <2>4, <2>5, <1>2
<1>6. IsFiniteSet(DOMAIN owners)
  BY <1>2, FS_EmptySet
<1>7. SpawnTypes
  BY <1>1, <1>4, <1>5, <1>6 DEF SpawnTypes
<1>8. Filed /\ Made /\ Asking /\ Joined /\ Elected /\ Published
  BY <1>1, <1>2, <1>3 DEF Filed, Made, Asking, Joined, Elected, Published
<1>. QED  BY <1>7, <1>8 DEF SpawnInv

\* Every step keeps the invariant.
LEMMA SpawnNext == SpawnInv /\ [Next]_vars => SpawnInv'
<1>. SUFFICES ASSUME SpawnInv, [Next]_vars PROVE SpawnInv'
  OBVIOUS
<1>1. CASE \E c \in Caller : Call(c) \/ Trouble(c)
  <2>1. PICK c \in Caller : Call(c) \/ Trouble(c)
    BY <1>1
  <2>. QED  BY <2>1, HandleSpawnKeeps, DeriveKeeps, LookupKeeps, ScanKeeps, RescanKeeps, WaitKeeps,
              ProbeKeeps, GateKeeps, AdmitKeeps, NewOwnerKeeps, NewOwnerFailsKeeps, PromoteKeeps,
              AdmitFirstKeeps, StartKeeps, RemoveKeeps, EndsKeep
         DEF Call, Trouble
<1>2. CASE \E e \in DOMAIN entry : RemovalStep(e) \/ CommitStep(e) \/ OwnerStep(e)
  <2>1. PICK x \in DOMAIN entry : RemovalStep(x) \/ CommitStep(x) \/ OwnerStep(x)
    BY <1>2
  <2>2. CASE RemovalStep(x) \/ ClaimRemoval(x) \/ OperatorRemoves(x)
    BY <2>2, CloseKeeps, RemovedKeeps, ClaimKeeps DEF RemovalStep
  <2>3. CASE \E class \in Verdicts : Commit(x, class) \/ ClassifyLive(x, class)
    BY <2>3, VerdictKeeps
  <2>4. CASE \/ Freeze(x) \/ ListenerDies(x) \/ onUpstreamExit(x)
             \/ \E c \in Caller : SessionEnds(x, c)
    BY <2>4, EventKeeps
  <2>5. CASE invalidateOwnerTemplate(x) \/ ShutdownDrops(x)
    BY <2>5, DropKeeps
  <2>. QED  BY <2>1, <2>2, <2>3, <2>4, <2>5 DEF CommitStep, OwnerStep
<1>3. CASE CrashWindowPasses \/ Fence \/ Unfence \/ Shutdown \/ UNCHANGED vars
  BY <1>3, NothingMoves DEF CrashWindowPasses, Fence, Unfence, Shutdown, vars
<1>. QED  BY <1>1, <1>2, <1>3 DEF Next

\* The invariant of the registry holds in every state of the specification.
THEOREM SpawnInvariant == Spec => []SpawnInv
BY SpawnInit, SpawnNext, PTL DEF Spec

\* A call is never given an owner whose environment conflicts with its own, and a
\* shared modern context never has two owners (findSharedOwnerLocked,
\* deriveEnvBucketedSid, admitOwner).
THEOREM RightOwnerGiven == Spec => []RightOwner
<1>1. SpawnInv => RightOwner
  <2>. SUFFICES ASSUME SpawnInv PROVE RightOwner
    OBVIOUS
  <2>1. SpawnTypeOK
    <3>1. ASSUME NEW c \in Caller
          PROVE  /\ p[c].retries <= MaxRetries /\ p[c].mismatches <= MaxMismatches
                 /\ p[c].pc \notin {"idle", "derive", "lookup", "failed", "done"} => p[c].e \in DOMAIN entry
      BY DEF SpawnInv, Asking, Asks, Away
    <3>2. ASSUME NEW e \in DOMAIN entry
          PROVE  entry[e].state \in {"creating", "live", "abandoned", "removed"}
      <4>1. entry[e] \in EntryType
        BY DEF SpawnInv, SpawnTypes
      <4>. QED  BY <4>1 DEF EntryType
    <3>. QED  BY <3>1, <3>2 DEF SpawnTypeOK, SpawnInv, SpawnTypes, Filed, At
  <2>2. ASSUME NEW c \in Caller, NEW e \in DOMAIN entry, c \in entry[e].sessions,
               p[c].mode \notin {"cwd", "git"}
        PROVE  Compatible(entry[e].env, Env(c))
    BY <2>2 DEF SpawnInv, Joined, Deprecated
  <2>. QED  BY <2>1, <2>2 DEF RightOwner, SpawnInv, Elected, At
<1>. QED  BY <1>1, SpawnInvariant, PTL

\* An owner that lives is registered, if no call asks for the deprecated mode
\* that shares by directory: its scan may replace an entry (daemon.go:1685).
THEOREM LiveStaysRegistered ==
  ASSUME \A ask \in Asked, c \in Caller : ask[c].era = "legacy" => ask[c].mode # "cwd"
  PROVE  Spec => []LiveIsRegistered
<1>1. SpawnInv => LiveIsRegistered
  <2>. SUFFICES ASSUME SpawnInv, NEW e \in DOMAIN entry, entry[e].state = "live" PROVE Held(e)
    BY DEF LiveIsRegistered
  <2>1. /\ MadeFor(entry[e]) /\ entry[e].creator \in Caller
        /\ ~Movable(entry[e].sid) => Held(e)
    BY EntryFacts
  <2>2. ~Movable(entry[e].sid)
    BY DEF Movable, ByDirectory
  <2>. QED  BY <2>1, <2>2
<1>. QED  BY <1>1, SpawnInvariant, PTL

\* A step of one call leaves the others where they are.
LEMMA OthersStay ==
  ASSUME SpawnInv, NEW c \in Caller, NEW d \in Caller, d # c, Call(d) \/ Trouble(d)
  PROVE  p'[c] = p[c]
<1>1. p \in [Caller -> CallType]
  BY DEF SpawnInv, SpawnTypes
<1>2. ASSUME NEW pc, NEW e PROVE (Go(d, pc) \/ GoWith(d, pc, e) \/ Return(d, pc)) => p'[c] = p[c]
  BY <1>1 DEF Go, GoWith, Return
<1>3. ASSUME NEW mode, NEW n PROVE Retry(d, mode, n) => p'[c] = p[c]
  BY <1>1, <1>2 DEF Retry, Fail
<1>4. Fail(d) \/ Again(d) \/ After(d) => p'[c] = p[c]
  BY <1>2, <1>3 DEF Fail, Again, After
<1>5. ASSUME NEW x PROVE promoteIsolatedRetry(d, x) => p'[c] = p[c]
  BY <1>3, <1>4 DEF promoteIsolatedRetry
<1>6. Refused(d) => p'[c] = p[c]
  BY <1>4, <1>5 DEF Refused
<1>7. ASSUME NEW s PROVE CreatePlaceholder(d, s) \/ findSharedOwnerLocked(d, s) => p'[c] = p[c]
  BY <1>2, <1>4 DEF CreatePlaceholder, findSharedOwnerLocked
<1>8. ASSUME NEW e PROVE Found(d, e) \/ Share(d, e) => p'[c] = p[c]
  BY <1>2, <1>4, <1>5 DEF Found, Share
<1>9. CASE HandleSpawn(d) \/ Derive(d) \/ Lookup(d) \/ Scan(d) \/ ScanTimeout(d) \/ Rescan(d)
  BY <1>1, <1>2, <1>4, <1>7, <1>8, <1>9 DEF HandleSpawn, Derive, Lookup, Scan, ScanTimeout, Rescan
<1>10. CASE Wait(d) \/ waitForOwnerAdmissionThaw(d) \/ Probe(d) \/ waitForCrossCwdClassify(d) \/ admitOwner(d)
  BY <1>2, <1>3, <1>4, <1>5, <1>6, <1>8, <1>10
     DEF Wait, waitForOwnerAdmissionThaw, Probe, waitForCrossCwdClassify, admitOwner
<1>11. CASE NewOwner(d) \/ Promote(d) \/ AdmitFirst(d) \/ StartInitialMaterialization(d)
  BY <1>1, <1>2, <1>4, <1>6, <1>11 DEF NewOwner, Promote, AdmitFirst, StartInitialMaterialization
<1>12. CASE Remove(d) \/ Removing(d) \/ Trouble(d)
  BY <1>2, <1>4, <1>12 DEF Remove, Removing, Trouble, WaitTimeout, NewOwnerFails, BindingExpires
<1>. QED  BY <1>9, <1>10, <1>11, <1>12 DEF Call

\* A global call is admitted by an owner that was found to be shareable.
LEMMA AdmittedIsShared ==
  ASSUME SpawnInv, NEW c \in Caller, admitOwner(c), Gated(c), p'[c].pc = "done"
  PROVE  entry[p[c].e].class = "shared"
<1>1. p[c].pc = "admit" /\ p \in [Caller -> CallType]
  BY DEF admitOwner, SpawnInv, SpawnTypes
<1>2. p[c].e \in DOMAIN entry /\ Suits(c, p[c], entry[p[c].e])
  BY <1>1 DEF SpawnInv, Asking, Asks, Away
<1>3. entry[p[c].e].class # "none" /\ entry[p[c].e] \in EntryType
  BY <1>1, <1>2, EntryFacts DEF Suits, Gated
<1>4. ~Leaves(c)
  BY <1>1 DEF Leaves
<1>5. entry[p[c].e].class # "isolated"
  BY <1>2, <1>4, FailShape, RefusedShape DEF admitOwner, E
<1>. QED  BY <1>3, <1>5 DEF EntryType, Classes

\* Only the call that made a placeholder makes it live, and not as a shared owner
\* where isolation was found.
LEMMA PromotedAsFound ==
  ASSUME SpawnInv, NEW c \in Caller, Promote(c), NEW e \in DOMAIN entry,
         entry[e].state = "creating", entry'[e].state = "live",
         <<entry[e].env, entry[e].cwd>> \in verdicts
  PROVE  entry'[e].class # "shared"
<1>. DEFINE m == p[c].match
            stale == m # NoTemplate /\ ~templateMatchCurrentLocked(m, Env(c), req[c].cwd)
            x == p[c].e
<1>1. p[c].pc = "promote"
  BY DEF Promote
<1>2. /\ Asks(c, p[c]) /\ x \in DOMAIN entry /\ Suits(c, p[c], entry[x])
  BY <1>1 DEF SpawnInv, Asking, Asks, Away
<1>3. entry \in Seq(EntryType) /\ entry[x] \in EntryType /\ MadeFor(entry[x]) /\ entry[x].creator = c
  BY <1>1, <1>2, EntryFacts DEF SpawnInv, SpawnTypes, Suits, Making
<1>4. CASE Drop(c) \/ Abandon(c)
  BY <1>2, <1>3, <1>4 DEF Drop, Abandon, EntryType
<1>5. CASE /\ Promotable(c, stale)
           /\ entry' = [entry EXCEPT ![x].state = "live", ![x].closed = TRUE, ![x].class = m.class]
  <2>1. e = x
    BY <1>2, <1>3, <1>5
  <2>2. entry'[e].class = m.class
    BY <2>1, <1>2, <1>3, <1>5 DEF EntryType
  <2>3. SUFFICES ASSUME m.class = "shared" PROVE FALSE
    BY <2>2
  <2>4. m # NoTemplate
    BY <2>3 DEF NoTemplate
  <2>5. m.rev = template.rev
    BY <2>4, <1>5 DEF Promotable, templateMatchCurrentLocked
  <2>6. templateScope("isolated", Env(c), req[c].cwd) \notin template.scopes
    BY <2>3, <2>5, <1>1, <1>2 DEF Asks, Selected
  <2>7. entry[e].env = Env(c) /\ entry[e].cwd = req[c].cwd
    BY <2>1, <1>3 DEF MadeFor
  <2>. QED  BY <2>6, <2>7 DEF SpawnInv, Published
<1>. QED  BY <1>4, <1>5 DEF Promote

\* No other step of a call makes a placeholder live.
LEMMA CallMakesNoneLive ==
  ASSUME SpawnInv, NEW c \in Caller, Call(c) \/ Trouble(c), NEW e \in DOMAIN entry,
         entry[e].state = "creating", entry'[e].state = "live"
  PROVE  Promote(c)
<1>1. entry \in Seq(EntryType) /\ entry[e] \in EntryType
  BY DEF SpawnInv, SpawnTypes
<1>2. entry' # entry
  OBVIOUS
<1>3. ASSUME NEW sid PROVE ~CreatePlaceholder(c, sid)
  <2>1. \A r : Append(entry, r)[e] = entry[e]
    BY <1>1
  <2>. QED  BY <2>1, <1>2 DEF CreatePlaceholder, Registry
<1>4. ASSUME NEW sid PROVE ~findSharedOwnerLocked(c, sid)
  BY <1>2, <1>3 DEF findSharedOwnerLocked, Registry
<1>5. ASSUME NEW x PROVE ~Found(c, x)
  BY <1>2 DEF Found, Registry
<1>6. \A x : entry' # [entry EXCEPT ![x].sessions = @ \cup {c}]
  BY <1>1 DEF EntryType
<1>7. \A x : entry' # [entry EXCEPT ![x].removal = "claimed"]
  BY <1>1 DEF EntryType
<1>8. ~Drop(c)
  BY <1>1 DEF Drop, EntryType
<1>9. CASE HandleSpawn(c) \/ Derive(c) \/ Lookup(c) \/ Scan(c) \/ ScanTimeout(c) \/ Rescan(c)
  BY <1>2, <1>3, <1>4, <1>5, <1>9
     DEF HandleSpawn, Derive, Lookup, Scan, ScanTimeout, Rescan, Registry
<1>10. CASE Wait(c) \/ waitForOwnerAdmissionThaw(c) \/ Probe(c) \/ waitForCrossCwdClassify(c) \/ admitOwner(c)
  BY <1>2, <1>6, <1>10
     DEF Wait, waitForOwnerAdmissionThaw, Probe, waitForCrossCwdClassify, admitOwner, Registry
<1>11. CASE NewOwner(c) \/ AdmitFirst(c) \/ StartInitialMaterialization(c)
  BY <1>2, <1>6, <1>11 DEF NewOwner, AdmitFirst, StartInitialMaterialization, Registry
<1>12. CASE Remove(c) \/ Removing(c) \/ Trouble(c)
  BY <1>2, <1>7, <1>8, <1>12
     DEF Remove, Removing, Claim, Trouble, WaitTimeout, NewOwnerFails, BindingExpires, Registry
<1>. QED  BY <1>9, <1>10, <1>11, <1>12 DEF Call

\* And no step of an owner or an operator does.
LEMMA OwnerMakesNoneLive ==
  ASSUME SpawnInv, NEW x \in DOMAIN entry, RemovalStep(x) \/ CommitStep(x) \/ OwnerStep(x),
         NEW e \in DOMAIN entry, entry[e].state = "creating"
  PROVE  entry'[e].state # "live"
<1>1. entry \in Seq(EntryType) /\ entry[e] \in EntryType /\ entry[x] \in EntryType
  BY DEF SpawnInv, SpawnTypes
<1>2. CASE ClaimRemoval(x) \/ OperatorRemoves(x) \/ CloseOwner(x) \/ FinalizeUnproven(x)
  BY <1>1, <1>2 DEF ClaimRemoval, OperatorRemoves, Claim, CloseOwner, FinalizeUnproven, EntryType
<1>3. CASE prepareOwnerRemovalLocked(x)
  <2>1. PICK s \in {"removed", entry[x].state} :
               entry' = [entry EXCEPT ![x].removal = "no", ![x].state = s]
    <3>1. [entry EXCEPT ![x].removal = "no"][x].state = entry[x].state
      BY <1>1 DEF EntryType
    <3>. QED  BY <1>3, <3>1 DEF prepareOwnerRemovalLocked
  <2>. QED  BY <1>1, <1>3, <2>1 DEF prepareOwnerRemovalLocked, EntryType
<1>4. CASE \E class \in Verdicts : Commit(x, class) \/ ClassifyLive(x, class)
  BY <1>1, <1>4 DEF Commit, ClassifyLive, Quiet, EntryType
<1>5. CASE Freeze(x) \/ ListenerDies(x) \/ onUpstreamExit(x) \/ \E c \in Caller : SessionEnds(x, c)
  <2>1. CASE Freeze(x) \/ onUpstreamExit(x)
    BY <1>1, <2>1 DEF Freeze, onUpstreamExit, EntryType
  <2>2. CASE ListenerDies(x)
    <3>1. PICK closed \in BOOLEAN :
                 entry' = [entry EXCEPT ![x].reachable = FALSE, ![x].admits = ~closed]
      BY <2>2 DEF ListenerDies
    <3>. QED  BY <1>1, <3>1 DEF EntryType
  <2>3. CASE \E c \in Caller : SessionEnds(x, c)
    BY <1>1, <2>3 DEF SessionEnds, EntryType
  <2>. QED  BY <1>5, <2>1, <2>2, <2>3
<1>6. CASE invalidateOwnerTemplate(x) \/ ShutdownDrops(x)
  BY <1>6 DEF invalidateOwnerTemplate, ShutdownDrops, Quiet
<1>. QED  BY <1>2, <1>3, <1>4, <1>5, <1>6 DEF RemovalStep, CommitStep, OwnerStep

\* A verdict about sharing that was read under one lock still binds under the
\* next: a global call joins only an owner known to be shareable, and where
\* isolation was found no owner starts as a shared one (waitForCrossCwdClassify,
\* templateMatchCurrentLocked).
THEOREM VerdictsStay == Spec => VerdictsKept
<1>. DEFINE Kept ==
       /\ \A c \in Caller :
            Gated(c) /\ p[c].pc = "admit" /\ p'[c].pc = "done"
              => entry[p[c].e].class = "shared"
       /\ \A e \in DOMAIN entry :
            /\ entry[e].state = "creating" /\ entry'[e].state = "live"
            /\ <<entry[e].env, entry[e].cwd>> \in verdicts
            => entry'[e].class # "shared"
<1>1. SpawnInv /\ [Next]_vars => [Kept]_vars
  <2>. SUFFICES ASSUME SpawnInv, Next PROVE Kept
    OBVIOUS
  <2>1. ASSUME NEW c \in Caller, Gated(c), p[c].pc = "admit", p'[c].pc = "done"
        PROVE  entry[p[c].e].class = "shared"
    <3>1. p' # p
      BY <2>1
    <3>2. PICK d \in Caller : Call(d) \/ Trouble(d)
      <4>1. ASSUME NEW x \in DOMAIN entry, RemovalStep(x) \/ CommitStep(x) \/ OwnerStep(x)
            PROVE  p' = p
        BY <4>1 DEF RemovalStep, CommitStep, OwnerStep, ClaimRemoval, OperatorRemoves, CloseOwner,
                    FinalizeUnproven, prepareOwnerRemovalLocked, Commit, ClassifyLive, Freeze,
                    invalidateOwnerTemplate, SessionEnds, ListenerDies, onUpstreamExit,
                    ShutdownDrops, Quiet
      <4>. QED  BY <3>1, <4>1 DEF Next, CrashWindowPasses, Fence, Unfence, Shutdown
    <3>3. d = c
      BY <2>1, <3>2, OthersStay
    <3>4. admitOwner(c)
      BY <2>1, <3>2, <3>3
         DEF Call, Trouble, HandleSpawn, Derive, Lookup, Scan, ScanTimeout, Rescan, Wait,
             waitForOwnerAdmissionThaw, Probe, waitForCrossCwdClassify, NewOwner, Promote,
             AdmitFirst, StartInitialMaterialization, Remove, Removing, WaitTimeout,
             NewOwnerFails, BindingExpires
    <3>. QED  BY <2>1, <3>4, AdmittedIsShared
  <2>2. ASSUME NEW e \in DOMAIN entry, entry[e].state = "creating", entry'[e].state = "live",
               <<entry[e].env, entry[e].cwd>> \in verdicts
        PROVE  entry'[e].class # "shared"
    <3>1. PICK c \in Caller : Call(c) \/ Trouble(c)
      BY <2>2, OwnerMakesNoneLive DEF Next, CrashWindowPasses, Fence, Unfence, Shutdown
    <3>. QED  BY <2>2, <3>1, CallMakesNoneLive, PromotedAsFound
  <2>. QED  BY <2>1, <2>2
<1>. QED  BY <1>1, SpawnInvariant, PTL DEF Spec, VerdictsKept

=============================================================================
