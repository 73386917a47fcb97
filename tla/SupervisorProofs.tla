--------------------------- MODULE SupervisorProofs ---------------------------
(***************************************************************************)
(* Proofs about Supervisor.  A handler is an operator from the runner to   *)
(* the runner, so the argument is about operators: RunnerOk says what      *)
(* holds of a runner at every point of a handler, and Kept what a handler  *)
(* may do to the runner it was given, in terms of the process trees, of    *)
(* the requests on its books and of what it has written.  Kept composes,   *)
(* and every handler is shown to keep both; one lemma turns that into a    *)
(* step of the specification and into a step of HostSession.               *)
(***************************************************************************)
EXTENDS Supervisor, Integers, TLAPS, NaturalsInduction, WellFoundedInduction

-----------------------------------------------------------------------------
(* What holds of a runner *)

RunnerFields ==
  {"state", "modern", "gen", "cur", "starting", "retryT", "replayT", "exitT",
   "drainT", "leaseT", "leasePassed", "resolving", "pending", "host", "child",
   "initReq", "awaiting", "initResp", "initFailed", "initialized", "dormInvalid",
   "since", "exit", "output", "evExit", "evOutput", "live", "terminal", "lease",
   "told", "wrote", "toHost", "toChild", "out", "fate"}

RegistryFields ==
  {"requests", "tokens", "tasks", "terminalTasks", "tombstones", "fences",
   "retiredRequests", "retiredTokens", "retiredTasks", "finalized", "err"}

IsRunner(s) == s = [n \in RunnerFields |-> s[n]]
IsRegistry(g) == g = [n \in RegistryFields |-> g[n]]

\* The fields of F are as they were.
Same(s, t, F) == \A n \in F : t[n] = s[n]

Kinds ==
  {"none", "request", "initialize", "initialized", "cancel", "response", "status",
   "progress", "ask", "rejected", "commit"}
HostMethods == UNION {HostMethod[i] : i \in HostReq}
ChildMethods == UNION {ChildMethod[i] : i \in ChildReq}
Methods == {"plain"} \cup HostMethods \cup ChildMethods
Statuses == {"none", "working", "completed", "cancelled"}

FrameSet ==
  [k : Kinds, id : Ids \cup ChildReq, method : Methods, tok : BOOLEAN,
   aug : BOOLEAN, task : Task \cup {NoTask}, kind : {"result", "error"},
   status : Statuses, from : Nat, late : BOOLEAN]
AskFrames == {f \in FrameSet : f.k = "ask"}
Entry == [f : FrameSet, same : BOOLEAN]
Fate == [n : Nat, kind : {"delivered", "not_written", "ambiguous"}, host : BOOLEAN, proof : BOOLEAN]
States == {"starting", "replaying", "active", "quiescing", "awaiting_exit",
           "dormant", "finalizing", "terminal"}
Serving == {"replaying", "active", "quiescing", "awaiting_exit"}

\* Requests in the queue, open ones, and all that the host waits for.
QueuedIds(s) ==
  {s.pending[j].f.id : j \in {j \in DOMAIN s.pending : s.pending[j].f.k = "request"}}
Open(s) == DOMAIN s.host.requests
OnBooks(s) == QueuedIds(s) \cup Open(s) \cup (IF s.awaiting THEN {InitId} ELSE {})

Shape(s) ==
  /\ IsRunner(s) /\ IsRegistry(s.host) /\ IsRegistry(s.child)
  /\ s.gen \in Nat /\ s.cur \in {0, s.gen} /\ s.live \in Int
  /\ s.state \in States
  /\ s.pending \in Seq(Entry) /\ Len(s.pending) <= QueueCap
  /\ s.told \in [Ids -> Nat] /\ s.wrote \in [Ids -> Nat]
  /\ s.fate \in Fate
  /\ s.toHost \in SUBSET AskFrames /\ s.toChild \in SUBSET FrameSet

Engine(s) ==
  /\ s.state \in Serving => s.cur # 0
  /\ s.starting => s.cur = 0
  /\ s.cur = 0 => s.exit = "no"

\* Open correlations are of the current engine, and nothing is both open and
\* retired.
Registers(s) ==
  /\ Open(s) \subseteq HostReq
  /\ \A id \in Open(s) : s.host.requests[id].gen = s.cur
  /\ \A id \in DOMAIN s.child.requests : s.child.requests[id].gen = s.cur
  /\ s.cur = 0 => Open(s) = {} /\ DOMAIN s.child.requests = {}
  /\ DOMAIN s.child.requests \cap DOMAIN s.child.retiredRequests = {}

\* What is known of a frame of the host; W are the withdrawn identifiers.
HostFrameOk(s, f, W) ==
  /\ f.k = "request" => f.id \in HostReq
  /\ f.k = "cancel" => f.id \in W
  /\ f.method = "listen" => s.modern
  /\ f.method = "reserved" => f.k = "request"
  /\ f.k \in {"initialize", "initialized"} => ~s.modern

\* A request waits once, and not for a second engine.
Queue(s, W) ==
  /\ \A j \in DOMAIN s.pending :
       /\ HostFrameOk(s, s.pending[j].f, W)
       /\ s.pending[j].f.k # "initialize"
       /\ s.pending[j].same => s.pending[j].f.k # "request"
       /\ s.pending[j].f.k = "request" => s.pending[j].f.id \notin Open(s)
  /\ \A i, j \in DOMAIN s.pending :
       /\ s.pending[i].f.k = "request" /\ s.pending[j].f.k = "request"
       /\ s.pending[i].f.id = s.pending[j].f.id
       => i = j

Lifecycle(s) ==
  /\ s.modern => ~s.initReq
  /\ s.awaiting => s.initReq
  /\ s.initialized => s.initReq
  /\ s.state = "replaying" => s.initReq
  /\ s.state \in {"quiescing", "awaiting_exit", "dormant"} =>
       (s.modern \/ s.initReq) /\ ~s.awaiting
  /\ s.state = "dormant" => s.cur = 0 /\ s.pending = <<>> /\ ~s.starting

\* What the current engine holds: G of before, and what was just written.  Its
\* requests are open or withdrawn and do not wait for another engine, and it
\* has an initialize only during a handshake.
GotOk(s, W, G) ==
  s.cur # 0 =>
    /\ \A f \in G \cup s.toChild :
         /\ f.k = "request" => /\ f.id \in Open(s) \cup W
                               /\ f.id \notin QueuedIds(s)
                               /\ f.method = "listen" => s.modern
         /\ f.k = "initialize" =>
              /\ f = Frame("initialize", InitId)
              /\ \/ s.state \in {"replaying", "finalizing"}
                 \/ s.state = "active" /\ s.awaiting
    /\ \A f, g \in G \cup s.toChild :
         f.k = "request" /\ g.k = "request" /\ f.id = g.id => f = g \/ f.id \in W

\* A request of an engine that the host has not answered is open in the current
\* generation or known as retired.
Due(s, a) ==
  \/ a.id \in DOMAIN s.child.requests /\ a.from = s.cur
  \/ a.id \in DOMAIN s.child.retiredRequests

\* A are the engines' requests with the host, or answered but not handed over.
HoldersOk(s, A) ==
  /\ \A a \in A \cup s.toHost : Due(s, a) /\ ~s.modern
  /\ \A a, b \in A \cup s.toHost : a.id = b.id => a = b
  /\ \A j \in DOMAIN s.pending : s.pending[j].f.k = "response" =>
       /\ Due(s, s.pending[j].f) /\ ~s.modern
       /\ \A a \in A \cup s.toHost : a.id # s.pending[j].f.id
       /\ \A i \in DOMAIN s.pending :
            s.pending[i].f.k = "response" /\ s.pending[i].f.id = s.pending[j].f.id => i = j

RunnerOk(s, W, G, A) ==
  /\ Shape(s) /\ Engine(s) /\ Registers(s)
  /\ ~s.terminal => /\ Queue(s, W) /\ Lifecycle(s)
                    /\ GotOk(s, W, G) /\ HoldersOk(s, A)

\* Process trees other than the current engine's.
Spare(s) == s.live - (IF s.cur # 0 /\ s.exit \in {"no", "unproven"} THEN 1 ELSE 0)

\* From s, with the requests H in hand, to t.  An identifier is answered once
\* and then off the books, leaves them unanswered only if withdrawn, and is
\* written to an engine once and then not queued any more.
Answers(s, t, H, W) ==
  /\ \A i \in Ids : \/ t.told[i] = s.told[i]
                    \/ t.told[i] = s.told[i] + 1 /\ i \in OnBooks(s) \cup H
  /\ ~t.terminal =>
       /\ \A i \in OnBooks(t) : i \in OnBooks(s) \cup H /\ t.told[i] = s.told[i]
       /\ \A i \in Ids \cap (OnBooks(s) \cup H) :
            i \notin OnBooks(t) => t.told[i] = s.told[i] + 1 \/ i \in W

Writes(s, t, H) ==
  /\ \A i \in Ids : \/ t.wrote[i] = s.wrote[i]
                    \/ t.wrote[i] = s.wrote[i] + 1 /\ i \in QueuedIds(s) \cup H
  /\ \A f \in t.toChild \ s.toChild : f.k = "response" => s.cur # 0 /\ f.from = s.cur
  /\ ~t.terminal =>
       \A i \in QueuedIds(t) : i \in QueuedIds(s) \cup H /\ t.wrote[i] = s.wrote[i]

Engines(s, t) ==
  /\ t.modern = s.modern /\ t.gen = s.gen /\ t.lease = s.lease
  /\ t.cur \in {0, s.cur}
  /\ t.live <= s.live
  /\ ~t.terminal =>
       /\ s.starting => t.starting
       /\ Spare(t) = Spare(s)
       /\ t.state = "dormant" => t.leaseT \/ (s.state = "dormant" /\ ~s.leaseT)

Kept(s, t, H, W) ==
  /\ Engines(s, t)
  /\ s.initReq => t.initReq
  /\ t.initReq => s.initReq \/ InitId \in H
  /\ Answers(s, t, H, W)
  /\ Writes(s, t, H)
-----------------------------------------------------------------------------
(* The inductive invariant *)

\* Engines' requests the host has, answered or not.
HostSide == asks \cup (IF hostIn.k = "response" THEN {hostIn} ELSE {})

HandIds(f) == IF f.k \in {"request", "initialize"} THEN {f.id} ELSE {}

HandOk ==
  /\ HostFrameOk(r, hostIn, withdrawn)
  /\ hostIn.k = "request" => /\ hostIn.id \notin OnBooks(r) \cup withdrawn
                             /\ carried[hostIn.id] = 0
  /\ hostIn.k = "initialize" => hostIn.id = InitId /\ ~r.initReq
  /\ hostIn.k = "response" => \A a \in asks : a.id # hostIn.id

Balance ==
  /\ attempt # "none" => r.starting
  /\ Spare(r) = IF attempt \in {"ok", "retained", "unproven"} THEN 1 ELSE 0

TasksOk(f) ==
  f = [t \in DOMAIN f |-> f[t]] /\ DOMAIN f \subseteq Task /\ \A t \in DOMAIN f : f[t] \in Statuses

Environment ==
  /\ hostIn \in FrameSet
  /\ asks \in SUBSET AskFrames
  /\ got \in SUBSET FrameSet
  /\ TasksOk(kidTasks) /\ TasksOk(hostTasks)
  /\ sends \in [Ids -> Nat] /\ answers \in [Ids -> Nat] /\ carried \in [Ids -> Nat]
  /\ withdrawn \subseteq HostReq
  /\ attempt \in {"none", "running"} \cup Outcome

SupInv ==
  /\ Environment
  /\ Shape(r) /\ Engine(r)
  /\ r.state # "terminal" => Registers(r)
  /\ r.told = Nothing /\ r.wrote = Nothing /\ r.toHost = {} /\ r.toChild = {}
  /\ r.live <= 1
  /\ ~strayed
  /\ \A i \in HostReq : carried[i] <= 1
  /\ \A i \in Ids : answers[i] <= sends[i] \/ i \in withdrawn
  /\ r.lease => r.terminal /\ (hostIn = NoFrame \/ hostIn.late)
  /\ Live =>
       /\ RunnerOk(r, withdrawn, got, HostSide)
       /\ HandOk
       /\ Balance
       /\ r.initReq => sends[InitId] > 0
       /\ \A i \in OnBooks(r) \cup HandIds(hostIn) : sends[i] > answers[i] \/ i \in withdrawn
       /\ \A i \in QueuedIds(r) : carried[i] = 0
       /\ r.state = "dormant" => r.leaseT \/ hostIn # NoFrame
-----------------------------------------------------------------------------
(* Induction, functions and queues *)

\* Induction over the natural numbers for a set.
LEMMA SetInduction ==
  ASSUME NEW S \in SUBSET Nat, 0 \in S, \A n \in S : n + 1 \in S
  PROVE  S = Nat
<1>. DEFINE R == {ss \in Nat \X Nat : ss[1] < ss[2]}
            T == Nat \ S
<1>1. IsWellFoundedOn(R, Nat)
  BY NatLessThanWellFounded, Zenon DEF OpToRel
<1>2. SUFFICES ASSUME T # {} PROVE FALSE
  OBVIOUS
<1>. HIDE DEF R
<1>3. PICK n \in T : \A m \in T : ~(<<m, n>> \in R)
  <2>1. T \subseteq Nat
    OBVIOUS
  <2>. HIDE DEF T
  <2>. QED  BY <1>1, <1>2, <2>1, WFMin
<1>4. n \in Nat /\ n # 0 /\ n - 1 \in Nat
  OBVIOUS
<1>5. n - 1 \in T
  BY <1>4
<1>6. <<n - 1, n>> \in R
  <2>1. <<n - 1, n>> \in Nat \X Nat /\ <<n - 1, n>>[1] = n - 1 /\ <<n - 1, n>>[2] = n
    BY <1>4
  <2>2. n - 1 < n
    BY <1>4
  <2>. QED  BY <2>1, <2>2, Zenon DEF R
<1>. QED  BY <1>3, <1>5, <1>6

\* What Put and Drop do to a map.
LEMMA PutFacts ==
  ASSUME NEW f, NEW k, NEW v
  PROVE  /\ DOMAIN Put(f, k, v) = DOMAIN f \cup {k}
         /\ Put(f, k, v)[k] = v
         /\ \A x \in DOMAIN f : x # k => Put(f, k, v)[x] = f[x]
BY DEF Put

\* What remains of a function without some of its arguments.
LEMMA DropFacts ==
  ASSUME NEW f, NEW K
  PROVE  /\ DOMAIN Drop(f, K) = DOMAIN f \ K
         /\ \A x \in DOMAIN f \ K : Drop(f, K)[x] = f[x]
BY DEF Drop, Restrict

IsKept(g, q, K, N) ==
  g = [n \in 0 .. N |-> IF n = 0 THEN <<>>
                        ELSE IF n \in K THEN g[n - 1] ELSE Append(g[n - 1], q[n])]

\* A function defined by recursion on the length of a queue exists, here the
\* one that leaves out positions.
LEMMA WithoutDef ==
  ASSUME NEW q, NEW K, NEW N \in Nat
  PROVE  \E g : IsKept(g, q, K, N)
<1>. DEFINE Step(h, n) == IF n \in K THEN h ELSE Append(h, q[n])
            IsG(g, m) == g = [n \in 0 .. m |-> IF n = 0 THEN <<>> ELSE Step(g[n - 1], n)]
            S == {m \in Nat : \E g : IsG(g, m)}
<1>. HIDE DEF Step
<1>1. 0 \in S
  <2>1. IsG([n \in 0 .. 0 |-> <<>>], 0)
    OBVIOUS
  <2>. QED  BY <2>1
<1>2. ASSUME NEW m \in S PROVE m + 1 \in S
  <2>1. PICK g : IsG(g, m)
    OBVIOUS
  <2>. DEFINE h == [n \in 0 .. m + 1 |-> IF n = m + 1 THEN Step(g[m], n) ELSE g[n]]
  <2>2. \A n \in 0 .. m + 1 : h[n] = IF n = 0 THEN <<>> ELSE Step(h[n - 1], n)
    BY <2>1
  <2>3. h = [n \in 0 .. m + 1 |-> h[n]]
    OBVIOUS
  <2>. HIDE DEF h
  <2>4. IsG(h, m + 1)
    BY <2>2, <2>3
  <2>5. m + 1 \in Nat
    OBVIOUS
  <2>. HIDE DEF IsG
  <2>. QED  BY <2>4, <2>5
<1>3. S = Nat
  <2>1. S \in SUBSET Nat
    OBVIOUS
  <2>. HIDE DEF S
  <2>. QED  BY <1>1, <1>2, <2>1, SetInduction
<1>. QED  BY <1>3 DEF Step, IsKept

\* Positions of w, numbered by h, are the positions of q up to n outside K.
Selects(w, q, K, n, h) ==
  /\ h \in [1 .. Len(w) -> (1 .. n) \ K]
  /\ \A a \in 1 .. Len(w) : w[a] = q[h[a]]
  /\ \A a, b \in 1 .. Len(w) : h[a] = h[b] => a = b
  /\ \A m \in (1 .. n) \ K : \E a \in 1 .. Len(w) : h[a] = m

\* Without keeps exactly the other entries, each once.
LEMMA WithoutFacts ==
  ASSUME NEW S, NEW q \in Seq(S), NEW K
  PROVE  /\ Without(q, K) \in Seq(S)
         /\ Len(Without(q, K)) <= Len(q)
         /\ \E h : Selects(Without(q, K), q, K, Len(q), h)
<1>. DEFINE N == Len(q)
            g == CHOOSE x : IsKept(x, q, K, N)
            P(n) == /\ g[n] \in Seq(S)
                    /\ Len(g[n]) <= n
                    /\ \E h : Selects(g[n], q, K, n, h)
            T == {n \in Nat : n <= N => P(n)}
<1>1. N \in Nat
  OBVIOUS
<1>2. \E x : IsKept(x, q, K, N)
  <2>. HIDE DEF N
  <2>. QED  BY <1>1, WithoutDef
<1>3. IsKept(g, q, K, N)
  BY <1>2
<1>4. Without(q, K) = g[N]
  BY DEF Without, IsKept
<1>. HIDE DEF g, N
<1>5. g[0] = <<>> /\ \A n \in 1 .. N : g[n] = IF n \in K THEN g[n - 1] ELSE Append(g[n - 1], q[n])
  <2>1. \A n \in 0 .. N : g[n] = IF n = 0 THEN <<>>
                                  ELSE IF n \in K THEN g[n - 1] ELSE Append(g[n - 1], q[n])
    BY <1>3, Zenon DEF IsKept
  <2>2. 0 \in 0 .. N /\ \A n \in 1 .. N : n \in 0 .. N /\ n # 0
    BY <1>1
  <2>. QED  BY <2>1, <2>2, Zenon
<1>6. 0 \in T
  <2>1. Selects(g[0], q, K, 0, <<>>)
    BY <1>5 DEF Selects
  <2>2. g[0] \in Seq(S) /\ Len(g[0]) <= 0
    BY <1>5
  <2>. QED  BY <2>1, <2>2
<1>7. ASSUME NEW n \in T PROVE n + 1 \in T
  <2>1. SUFFICES ASSUME n + 1 <= N PROVE P(n + 1)
    OBVIOUS
  <2>2. n \in Nat /\ P(n) /\ n + 1 \in 1 .. N /\ (n + 1) - 1 = n
    BY <1>1, <2>1
  <2>3. PICK h : Selects(g[n], q, K, n, h)
    BY <2>2
  <2>4. CASE n + 1 \in K
    <3>1. g[n + 1] = g[n]
      BY <1>5, <2>2, <2>4
    <3>2. Selects(g[n + 1], q, K, n + 1, h)
      BY <2>2, <2>3, <2>4, <3>1 DEF Selects
    <3>. QED  BY <2>2, <3>1, <3>2
  <2>5. CASE n + 1 \notin K
    <3>. DEFINE w == g[n]
                L == Len(w)
                k == [a \in 1 .. L + 1 |-> IF a = L + 1 THEN n + 1 ELSE h[a]]
    <3>1. g[n + 1] = Append(w, q[n + 1]) /\ q[n + 1] \in S
      <4>1. q[n + 1] \in S
        BY <2>2 DEF N
      <4>2. g[n + 1] = Append(g[(n + 1) - 1], q[n + 1])
        BY <1>5, <2>2, <2>5, Zenon
      <4>. QED  BY <2>2, <4>1, <4>2
    <3>2. w \in Seq(S) /\ L \in Nat /\ L <= n
      BY <2>2
    <3>3. /\ g[n + 1] \in Seq(S) /\ Len(g[n + 1]) = L + 1
          /\ g[n + 1][L + 1] = q[n + 1]
          /\ \A a \in 1 .. L : g[n + 1][a] = w[a]
      BY <3>1, <3>2
    <3>4. /\ h \in [1 .. L -> (1 .. n) \ K]
          /\ \A a \in 1 .. L : w[a] = q[h[a]]
          /\ \A a, b \in 1 .. L : h[a] = h[b] => a = b
          /\ \A m \in (1 .. n) \ K : \E a \in 1 .. L : h[a] = m
      BY <2>3 DEF Selects
    <3>. HIDE DEF L, w
    <3>5. k \in [1 .. L + 1 -> (1 .. n + 1) \ K]
      BY <2>2, <2>5, <3>2, <3>4
    <3>6. k[L + 1] = n + 1 /\ \A a \in 1 .. L : k[a] = h[a] /\ h[a] \in 1 .. n
      BY <3>2, <3>4
    <3>. HIDE DEF k
    <3>7. \A a \in 1 .. L + 1 : a \in 1 .. L \/ a = L + 1
      BY <3>2
    <3>8. \A a, b \in 1 .. L + 1 : k[a] = k[b] => a = b
      <4>. TAKE a, b \in 1 .. L + 1
      <4>1. n + 1 \notin 1 .. n
        BY <2>2
      <4>. QED  BY <3>4, <3>6, <3>7, <4>1
    <3>9. \A m \in (1 .. n + 1) \ K : \E a \in 1 .. L + 1 : k[a] = m
      <4>. TAKE m \in (1 .. n + 1) \ K
      <4>1. CASE m = n + 1
        BY <3>2, <3>6, <4>1
      <4>2. CASE m # n + 1
        <5>1. m \in (1 .. n) \ K
          BY <2>2, <4>2
        <5>2. PICK a \in 1 .. L : h[a] = m
          BY <3>4, <5>1
        <5>. QED  BY <3>2, <3>6, <5>2
      <4>. QED  BY <4>1, <4>2
    <3>10. \A a \in 1 .. L + 1 : g[n + 1][a] = q[k[a]]
      BY <3>3, <3>4, <3>6, <3>7
    <3>11. Selects(g[n + 1], q, K, n + 1, k)
      BY <3>3, <3>5, <3>8, <3>9, <3>10 DEF Selects
    <3>12. Len(g[n + 1]) <= n + 1
      BY <2>2, <3>2, <3>3
    <3>. QED  BY <3>3, <3>11, <3>12
  <2>. QED  BY <2>4, <2>5
<1>8. T = Nat
  <2>1. T \in SUBSET Nat
    OBVIOUS
  <2>. HIDE DEF T
  <2>. QED  BY <1>6, <1>7, <2>1, SetInduction
<1>9. P(N)
  BY <1>1, <1>8
<1>. QED  BY <1>4, <1>9 DEF N
-----------------------------------------------------------------------------
(* The registries: what a method does to the open and the retired requests *)

KeepsRequests(g, h) ==
  IsRegistry(h) /\ h.requests = g.requests /\ h.retiredRequests = g.retiredRequests

Closes(g, h, id) ==
  /\ IsRegistry(h)
  /\ h.retiredRequests = g.retiredRequests
  /\ h.requests \in {g.requests, Drop(g.requests, {id})}
  /\ ~h.err => h.requests = Drop(g.requests, {id})

\* A method that fails changes nothing but the mark of the failure.
LEMMA FailedKeeps ==
  ASSUME NEW g, IsRegistry(g)
  PROVE  KeepsRequests(g, Failed(g)) /\ Failed(g).err = TRUE
BY DEF Failed, KeepsRequests, IsRegistry, RegistryFields

\* Fencing touches neither open nor retired requests.
LEMMA AddManyKeeps ==
  ASSUME NEW g, IsRegistry(g), NEW E
  PROVE  KeepsRequests(g, addMany(g, E))
<1>1. KeepsRequests(g, [g EXCEPT !.fences = @ \cup E])
  BY DEF KeepsRequests, IsRegistry, RegistryFields
<1>2. [g EXCEPT !.fences = @ \cup E] = [g EXCEPT !.fences = g.fences \cup E]
  OBVIOUS
<1>. QED  BY <1>1, <1>2, FailedKeeps, Zenon DEF addMany

\* A fence leaves the open correlations alone.
LEMMA FenceRequestKeeps ==
  ASSUME NEW g, IsRegistry(g), NEW id, NEW rec, NEW b
  PROVE  KeepsRequests(g, fenceRequest(g, id, rec, b))
<1>1. \A K : KeepsRequests(g, [g EXCEPT !.tombstones = @ \cup K])
  BY DEF KeepsRequests, IsRegistry, RegistryFields
<1>. QED  BY <1>1, AddManyKeeps DEF fenceRequest

\* register opens one correlation.
LEMMA RegisterFacts ==
  ASSUME NEW g, IsRegistry(g), NEW id, NEW rec
  PROVE  /\ IsRegistry(register(g, id, rec))
         /\ register(g, id, rec).requests = Put(g.requests, id, rec)
         /\ register(g, id, rec).retiredRequests = g.retiredRequests
BY DEF register, IsRegistry, RegistryFields

\* The status of a task leaves the open correlations alone.
LEMMA UpdateTaskKeeps ==
  ASSUME NEW g, IsRegistry(g), NEW t, NEW status, NEW gen
  PROVE  KeepsRequests(g, updateTask(g, t, status, gen))
<1>. DEFINE task == g.tasks[t]
            fenced == IF task.tok THEN addMany(g, {<<"token", task.req>>}) ELSE g
<1>1. KeepsRequests(g, fenced) /\ KeepsRequests(g, g) /\ KeepsRequests(g, Failed(g))
  BY AddManyKeeps, FailedKeeps DEF KeepsRequests
<1>2. ASSUME NEW h, NEW a, NEW b, NEW c, KeepsRequests(g, h)
      PROVE  KeepsRequests(g, [h EXCEPT !.tasks = a, !.tokens = b, !.terminalTasks = c])
  BY <1>2 DEF KeepsRequests, IsRegistry, RegistryFields
<1>3. KeepsRequests(g, [g EXCEPT !.tasks[t].status = status])
  BY DEF KeepsRequests, IsRegistry, RegistryFields
<1>4. KeepsRequests(g, [g EXCEPT !.finalized = Put(@, t, status)])
  BY DEF KeepsRequests, IsRegistry, RegistryFields
<1>. HIDE DEF fenced
<1>5. KeepsRequests(g, [fenced EXCEPT
                     !.tasks = Drop(@, {t}),
                     !.tokens = IF task.tok THEN Drop(@, {task.req}) ELSE @,
                     !.terminalTasks = Put(@, t, [task EXCEPT !.status = status])])
  BY <1>1, <1>2
<1>. QED  BY <1>1, <1>3, <1>4, <1>5 DEF updateTask, fenced

\* So does its end.
LEMMA FinalizeTaskKeeps ==
  ASSUME NEW g, IsRegistry(g), NEW t, NEW gen
  PROVE  KeepsRequests(g, finalizeTask(g, t, gen))
<1>. DEFINE terminal == t \in DOMAIN g.terminalTasks
            task == IF t \in DOMAIN g.tasks THEN g.tasks[t] ELSE g.terminalTasks[t]
            fenced == addMany(g, TaskKeys(t, task))
<1>1. KeepsRequests(g, fenced) /\ KeepsRequests(g, g) /\ KeepsRequests(g, Failed(g))
  BY AddManyKeeps, FailedKeeps DEF KeepsRequests
<1>2. ASSUME NEW h, NEW a, NEW b, NEW c, NEW d, KeepsRequests(g, h)
      PROVE  KeepsRequests(g, [h EXCEPT !.finalized = a, !.tasks = b, !.terminalTasks = c,
                                        !.tokens = d])
  BY <1>2 DEF KeepsRequests, IsRegistry, RegistryFields
<1>. HIDE DEF fenced, task
<1>3. KeepsRequests(g, [fenced EXCEPT
                     !.finalized = IF terminal THEN Put(@, t, task.status) ELSE @,
                     !.tasks = Drop(@, {t}),
                     !.terminalTasks = Drop(@, {t}),
                     !.tokens = IF task.tok THEN Drop(@, {task.req}) ELSE @])
  BY <1>1, <1>2
<1>. QED  BY <1>1, <1>3 DEF finalizeTask, fenced, task

\* An answered request is closed, or the registry reports an error.
LEMMA CompleteCloses ==
  ASSUME NEW g, IsRegistry(g), NEW id, NEW resp
  PROVE  Closes(g, complete(g, id, resp), id)
<1>. DEFINE rec == g.requests[id]
            operation == rec.task # NoTask
            bind == ~operation /\ rec.aug /\ resp.kind = "result"
            Moved(a) == IF ~operation \/ resp.kind = "error" THEN a
                        ELSE IF rec.method = "tasks/result"
                             THEN finalizeTask(a, rec.task, rec.gen)
                        ELSE IF ~updateHandled(a, rec.task, rec.gen) THEN Failed(a)
                             ELSE updateTask(a, rec.task, OperationStatus(rec, resp), rec.gen)
            Closed(b) == [b EXCEPT !.requests = Drop(@, {id}),
                             !.tasks = IF bind THEN Put(@, resp.task, TaskOf(id, rec, resp))
                                       ELSE @,
                             !.tokens = IF rec.tok /\ ~bind THEN Drop(@, {id}) ELSE @]
            a == fenceRequest(g, id, rec, ~bind)
            b == Moved(a)
<1>1. Closes(g, Failed(g), id)
  BY FailedKeeps DEF Closes, KeepsRequests
<1>2. KeepsRequests(g, a)
  BY FenceRequestKeeps
<1>3. KeepsRequests(g, b)
  <2>. HIDE DEF a
  <2>1. IsRegistry(a)
    BY <1>2 DEF KeepsRequests
  <2>2. \A h : KeepsRequests(a, h) => KeepsRequests(g, h)
    BY <1>2 DEF KeepsRequests
  <2>3. KeepsRequests(a, Failed(a)) /\ KeepsRequests(a, a)
    BY <2>1, FailedKeeps DEF KeepsRequests
  <2>. QED  BY <2>1, <2>2, <2>3, FinalizeTaskKeeps, UpdateTaskKeeps
<1>4. Closes(g, Closed(b), id)
  <2>. HIDE DEF b
  <2>1. IsRegistry(b) /\ b.requests = g.requests /\ b.retiredRequests = g.retiredRequests
    BY <1>3 DEF KeepsRequests
  <2>. DEFINE x == Drop(b.requests, {id})
              y == IF bind THEN Put(b.tasks, resp.task, TaskOf(id, rec, resp)) ELSE b.tasks
              z == IF rec.tok /\ ~bind THEN Drop(b.tokens, {id}) ELSE b.tokens
  <2>3. Closed(b) = [b EXCEPT !.requests = x, !.tasks = y, !.tokens = z]
    OBVIOUS
  <2>. HIDE DEF Closed, x, y, z
  <2>4. /\ IsRegistry(Closed(b)) /\ Closed(b).requests = x
        /\ Closed(b).retiredRequests = b.retiredRequests
    BY <2>1, <2>3 DEF IsRegistry, RegistryFields
  <2>. QED  BY <2>1, <2>4 DEF Closes, x
<1>. HIDE DEF Closed
<1>. QED  BY <1>1, <1>4 DEF complete, IfDone, Closed

\* A cancelled request is closed, or the registry reports an error.
LEMMA CancelCloses ==
  ASSUME NEW g, IsRegistry(g), NEW id
  PROVE  Closes(g, cancel(g, id), id)
<1>. DEFINE rec == g.requests[id]
            a == fenceRequest(g, id, rec, TRUE)
<1>1. KeepsRequests(g, a)
  BY FenceRequestKeeps
<1>. HIDE DEF a, rec
<1>2. CASE a.err
  BY <1>1, <1>2 DEF cancel, Closes, KeepsRequests, a, rec
<1>3. CASE ~a.err
  <2>2. cancel(g, id) = removeToken([a EXCEPT !.requests = Drop(@, {id})], id, rec)
    BY <1>3 DEF cancel, a, rec
  <2>. DEFINE x == Drop(a.requests, {id})
              h == [a EXCEPT !.requests = x]
              y == IF rec.tok THEN Drop(h.tokens, {id}) ELSE h.tokens
  <2>3. cancel(g, id) = [[a EXCEPT !.requests = x] EXCEPT !.tokens = y]
    BY <2>2 DEF removeToken
  <2>. HIDE DEF x, y
  <2>4. /\ IsRegistry(cancel(g, id)) /\ cancel(g, id).requests = x
        /\ cancel(g, id).retiredRequests = a.retiredRequests
    BY <1>1, <2>3 DEF KeepsRequests, IsRegistry, RegistryFields
  <2>. QED  BY <1>1, <2>4 DEF Closes, KeepsRequests, x
<1>. QED  BY <1>2, <1>3

\* A retired request is not open any more.
LEMMA RetireRequestFacts ==
  ASSUME NEW g, IsRegistry(g), NEW id
  PROVE  /\ IsRegistry(retireRequest(g, id))
         /\ retireRequest(g, id).requests = Drop(g.requests, {id})
         /\ retireRequest(g, id).retiredRequests = Put(g.retiredRequests, id, g.requests[id])
BY DEF retireRequest, IsRegistry, RegistryFields

\* Progress leaves the open correlations alone.
LEMMA AcceptProgressKeeps ==
  ASSUME NEW g, IsRegistry(g), NEW id, NEW v
  PROVE  KeepsRequests(g, acceptProgress(g, id, v))
BY DEF acceptProgress, KeepsRequests, IsRegistry, RegistryFields

\* A generation is retired as a whole or, with an error, not at all.
LEMMA RetireGenerationFacts ==
  ASSUME NEW g, IsRegistry(g), NEW gen
  PROVE  LET h == retireGenerationChecked(g, gen)
             R == OfGeneration(g.requests, gen)
         IN  /\ IsRegistry(h)
             /\ \/ h.err /\ h.requests = g.requests /\ h.retiredRequests = g.retiredRequests
                \/ /\ h.requests = Drop(g.requests, R)
                   /\ h.retiredRequests = Over(Restrict(g.requests, R), g.retiredRequests)
<1>. DEFINE R == OfGeneration(g.requests, gen)
            T == OfGeneration(g.tasks, gen)
            E == OfGeneration(g.terminalTasks, gen)
            tokens == {id \in R : g.requests[id].tok}
                        \cup {g.tasks[t].req : t \in {u \in T : g.tasks[u].tok}}
            X == {<<"request", g.tasks[t].req>> : t \in T}
                   \cup UNION {TaskKeys(t, g.terminalTasks[t]) : t \in E}
            fenced == addMany(g, X)
            done == [fenced EXCEPT
              !.requests = Drop(@, R),
              !.retiredRequests = Over(Restrict(g.requests, R), @),
              !.tokens = Drop(@, tokens),
              !.retiredTokens = @ \cup tokens,
              !.tasks = Drop(@, T),
              !.retiredTasks = Over(Restrict(g.tasks, T), @),
              !.terminalTasks = Drop(@, E),
              !.finalized = Over([t \in E |-> g.terminalTasks[t].status], @)]
<1>1. KeepsRequests(g, fenced)
  BY AddManyKeeps
<1>2. retireGenerationChecked(g, gen) = Failed(g) \/ retireGenerationChecked(g, gen) = done
  BY Zenon DEF retireGenerationChecked
<1>3. /\ IsRegistry(done) /\ done.requests = Drop(g.requests, R)
      /\ done.retiredRequests = Over(Restrict(g.requests, R), g.retiredRequests)
  <2>. HIDE DEF fenced, R, T, E, tokens
  <2>. QED  BY <1>1 DEF KeepsRequests, IsRegistry, RegistryFields
<1>. HIDE DEF done, R
<1>. QED  BY <1>2, <1>3, FailedKeeps DEF KeepsRequests, R

Releases(g, h, id) ==
  /\ IsRegistry(h)
  /\ h.requests = g.requests
  /\ h.retiredRequests \in {g.retiredRequests, Drop(g.retiredRequests, {id})}

\* A late answer releases at most the request it answers.
LEMMA ConsumeReleases ==
  ASSUME NEW g, IsRegistry(g), NEW id, NEW resp
  PROVE  Releases(g, consumeRetiredResponse(g, id, resp), id)
<1>. DEFINE rec == g.retiredRequests[id]
            keys == RequestKeys(id, rec)
            x == Drop(g.retiredRequests, {id})
            released == releaseRetiredRequest(g, id)
            operated(st) == releaseRetiredTaskOperation(g, id, st)
            bound == addMany(g, {<<"request", id>>})
<1>. HIDE DEF rec
<1>1. Releases(g, Failed(g), id) /\ \A h : KeepsRequests(g, h) => Releases(g, h, id)
  BY FailedKeeps DEF Releases, KeepsRequests
<1>2. Releases(g, released, id)
  <2>. DEFINE a == IF taskRelated(rec) THEN addMany(g, keys)
                   ELSE [g EXCEPT !.tombstones = @ \cup keys]
              z == IF rec.tok THEN a.retiredTokens \ {id} ELSE a.retiredTokens
  <2>1. KeepsRequests(g, [g EXCEPT !.tombstones = @ \cup keys])
    BY DEF KeepsRequests, IsRegistry, RegistryFields
  <2>2. KeepsRequests(g, a)
    BY <2>1, AddManyKeeps
  <2>3. released = IF a.err THEN a
                   ELSE [a EXCEPT !.retiredRequests = Drop(a.retiredRequests, {id}),
                                  !.retiredTokens = z]
    BY DEF releaseRetiredRequest, rec
  <2>. HIDE DEF a, z, released
  <2>4. Releases(g, [a EXCEPT !.retiredRequests = Drop(a.retiredRequests, {id}),
                              !.retiredTokens = z], id)
    BY <2>2 DEF KeepsRequests, Releases, IsRegistry, RegistryFields
  <2>. QED  BY <1>1, <2>2, <2>3, <2>4
<1>3. ASSUME NEW st PROVE Releases(g, operated(st), id)
  <2>. DEFINE task == g.retiredTasks[rec.task]
              a == addMany(g, RequestKeys(id, rec) \cup TaskKeys(rec.task, task))
              y == IF rec.method = "tasks/result" THEN a.finalized
                   ELSE Put(a.finalized, rec.task, st)
              v == Drop(a.retiredTasks, {rec.task})
              z == a.retiredTokens \ ((IF rec.tok THEN {id} ELSE {})
                                       \cup (IF task.tok THEN {task.req} ELSE {}))
  <2>2. KeepsRequests(g, a)
    BY AddManyKeeps
  <2>3. operated(st) = IF a.err THEN a
                   ELSE [a EXCEPT !.finalized = y,
                                  !.retiredRequests = Drop(a.retiredRequests, {id}),
                                  !.retiredTasks = v, !.retiredTokens = z]
    BY DEF releaseRetiredTaskOperation, rec
  <2>. HIDE DEF a, y, v, z, operated
  <2>4. Releases(g, [a EXCEPT !.finalized = y,
                              !.retiredRequests = Drop(a.retiredRequests, {id}),
                              !.retiredTasks = v, !.retiredTokens = z], id)
    BY <2>2 DEF KeepsRequests, Releases, IsRegistry, RegistryFields
  <2>. QED  BY <1>1, <2>2, <2>3, <2>4
<1>. HIDE DEF released, operated
<1>4. ASSUME NEW v PROVE Releases(g, [released EXCEPT !.retiredTasks = v], id)
  BY <1>2 DEF Releases, IsRegistry, RegistryFields
<1>5. ASSUME NEW v PROVE Releases(g, [released EXCEPT !.finalized = v], id)
  BY <1>2 DEF Releases, IsRegistry, RegistryFields
<1>6. ASSUME NEW v
      PROVE  Releases(g, [bound EXCEPT !.retiredRequests = Drop(@, {id}), !.retiredTasks = v], id)
  <2>1. KeepsRequests(g, bound)
    BY AddManyKeeps
  <2>. HIDE DEF bound
  <2>. QED  BY <2>1 DEF KeepsRequests, Releases, IsRegistry, RegistryFields
<1>. DEFINE where == retiredTaskForOperation(g, rec)
            status == OperationStatus(rec, resp)
            e1 == [released EXCEPT !.retiredTasks[rec.task].status = status]
            e2 == [released EXCEPT !.finalized = Put(@, rec.task, status)]
            e3 == [bound EXCEPT !.retiredRequests = Drop(@, {id}),
                         !.retiredTasks = Put(@, resp.task, TaskOf(id, rec, resp))]
<1>7. Releases(g, e1, id) /\ Releases(g, e2, id) /\ Releases(g, e3, id)
  BY <1>4, <1>5, <1>6
<1>8. consumeRetiredResponse(g, id, resp)
        \in {Failed(g), released, e1, e2, e3, operated(status)}
  <2>. HIDE DEF e1, e2, e3, where, status
  <2>. QED  BY Zenon DEF consumeRetiredResponse, released, operated, e1, e2, e3, where, status,
                          bound, rec
<1>. HIDE DEF e1, e2, e3, status
<1>. QED  BY <1>1, <1>2, <1>3, <1>7, <1>8

\* The status of a retired task leaves the open correlations alone.
LEMMA ConsumeStatusKeeps ==
  ASSUME NEW g, IsRegistry(g), NEW t, NEW status
  PROVE  KeepsRequests(g, consumeRetiredTaskStatus(g, t, status))
<1>. DEFINE task == g.retiredTasks[t]
            fenced == addMany(g, TaskKeys(t, task))
            e1 == [g EXCEPT !.finalized = Put(@, t, status)]
            e2 == [g EXCEPT !.retiredTasks[t].status = status]
            e3 == [fenced EXCEPT
                     !.finalized = Put(@, t, status),
                     !.retiredTasks = Drop(@, {t}),
                     !.retiredTokens = IF task.tok THEN @ \ {task.req} ELSE @]
<1>1. KeepsRequests(g, fenced) /\ KeepsRequests(g, Failed(g))
  BY AddManyKeeps, FailedKeeps
<1>2. KeepsRequests(g, e1) /\ KeepsRequests(g, e2)
  BY DEF KeepsRequests, IsRegistry, RegistryFields
<1>3. KeepsRequests(g, e3)
  <2>. HIDE DEF fenced, task
  <2>. QED  BY <1>1 DEF KeepsRequests, IsRegistry, RegistryFields
<1>4. consumeRetiredTaskStatus(g, t, status) \in {Failed(g), e1, e2, e3}
  BY Zenon DEF consumeRetiredTaskStatus
<1>. HIDE DEF e1, e2, e3
<1>. QED  BY <1>1, <1>2, <1>3, <1>4

\* Clearing the tombstones leaves the open correlations alone.
LEMMA ClearFacts ==
  ASSUME NEW g, IsRegistry(g)
  PROVE  /\ KeepsRequests(g, clearTransitionTombstones(g))
         /\ IsRegistry(clearRetiredCorrelations(g))
         /\ clearRetiredCorrelations(g).requests = g.requests
         /\ DOMAIN clearRetiredCorrelations(g).retiredRequests = {}
BY DEF clearTransitionTombstones, clearRetiredCorrelations, KeepsRequests, IsRegistry,
       RegistryFields, None
-----------------------------------------------------------------------------
(* How Kept composes *)

\* The scalar parts of the runner that its invariant is about are as they were.
Stays(s, t) ==
  /\ t.state = s.state /\ t.modern = s.modern /\ t.gen = s.gen /\ t.cur = s.cur
  /\ t.starting = s.starting /\ t.leaseT = s.leaseT
  /\ t.initReq = s.initReq /\ t.awaiting = s.awaiting /\ t.initialized = s.initialized
  /\ t.exit = s.exit /\ t.live = s.live /\ t.terminal = s.terminal /\ t.lease = s.lease

\* And so are the queue, the registries and what was written.
Alike(s, t) ==
  /\ Stays(s, t)
  /\ t.pending = s.pending
  /\ t.toHost = s.toHost /\ t.toChild = s.toChild
  /\ t.host.requests = s.host.requests /\ t.child.requests = s.child.requests
  /\ t.child.retiredRequests = s.child.retiredRequests

Steady(s, t) == Alike(s, t) /\ t.told = s.told /\ t.wrote = s.wrote

Good(s, t, H, W, G, A) == RunnerOk(t, W, G, A) /\ Kept(s, t, H, W)

\* What RunnerOk says carries over to a state alike in the fields it names.
LEMMA AlikeOk ==
  ASSUME NEW s, NEW t, NEW W, NEW G, NEW A, RunnerOk(s, W, G, A), Alike(s, t), Shape(t)
  PROVE  /\ RunnerOk(t, W, G, A) /\ Engines(s, t)
         /\ QueuedIds(t) = QueuedIds(s) /\ OnBooks(t) = OnBooks(s)
<1>1. Engine(t) /\ Registers(t)
  BY DEF RunnerOk, Alike, Stays, Engine, Registers, Open
<1>2. QueuedIds(t) = QueuedIds(s) /\ OnBooks(t) = OnBooks(s)
  BY DEF Alike, Stays, QueuedIds, OnBooks, Open
<1>3. Queue(s, W) => Queue(t, W)
  BY DEF Alike, Stays, Queue, HostFrameOk, Open
<1>4. Lifecycle(s) => Lifecycle(t)
  BY DEF Alike, Stays, Lifecycle
<1>5. GotOk(s, W, G) => GotOk(t, W, G)
  BY <1>2 DEF Alike, Stays, GotOk, Open
<1>6. HoldersOk(s, A) => HoldersOk(t, A)
  BY DEF Alike, Stays, HoldersOk, Due
<1>7. RunnerOk(t, W, G, A)
  BY <1>1, <1>3, <1>4, <1>5, <1>6 DEF RunnerOk, Alike, Stays
<1>8. Engines(s, t)
  BY DEF Engines, Spare, Alike, Stays, RunnerOk, Shape
<1>. QED  BY <1>2, <1>7, <1>8

\* A step that changes none of the fields that count is good.
LEMMA SteadyGood ==
  ASSUME NEW s, NEW t, NEW W, NEW G, NEW A, RunnerOk(s, W, G, A), Steady(s, t), Shape(t)
  PROVE  Good(s, t, {}, W, G, A)
<1>1. Alike(s, t)
  BY DEF Steady
<1>2. Answers(s, t, {}, W)
  BY <1>1, AlikeOk DEF Answers, Steady
<1>3. Writes(s, t, {})
  BY <1>1, AlikeOk DEF Writes, Steady, Alike, Stays
<1>. QED  BY <1>1, <1>2, <1>3, AlikeOk DEF Good, Kept, Alike, Stays

\* Kept is reflexive.
LEMMA KeptItself ==
  ASSUME NEW s, NEW W, NEW G, NEW A, RunnerOk(s, W, G, A)
  PROVE  Good(s, s, {}, W, G, A)
BY SteadyGood DEF Steady, Alike, Stays, RunnerOk

\* Two parts of a handler, one after the other.
LEMMA KeptChain ==
  ASSUME NEW s, NEW t, NEW u, NEW H, NEW W, Kept(s, t, H, W), Kept(t, u, {}, W), ~t.terminal,
         Shape(s), Shape(t), Shape(u)
  PROVE  Kept(s, u, H, W)
<1>1. Engines(s, u)
  BY DEF Kept, Engines, Shape
<1>2. Answers(s, u, H, W)
  <2>. DEFINE X == OnBooks(s) \cup H
              Y == OnBooks(t)
              Z == OnBooks(u)
  <2>1. /\ \A i \in Ids : t.told[i] = s.told[i] \/ (t.told[i] = s.told[i] + 1 /\ i \in X)
        /\ \A i \in Y : i \in X /\ t.told[i] = s.told[i]
        /\ \A i \in Ids \cap X : i \notin Y => t.told[i] = s.told[i] + 1 \/ i \in W
    BY DEF Kept, Answers
  <2>2. /\ \A i \in Ids : u.told[i] = t.told[i] \/ (u.told[i] = t.told[i] + 1 /\ i \in Y)
        /\ ~u.terminal => \A i \in Z : i \in Y /\ u.told[i] = t.told[i]
        /\ ~u.terminal => \A i \in Ids \cap Y : i \notin Z => u.told[i] = t.told[i] + 1 \/ i \in W
    BY DEF Kept, Answers
  <2>. HIDE DEF X, Y, Z
  <2>3. \A i \in Ids : u.told[i] = s.told[i] \/ (u.told[i] = s.told[i] + 1 /\ i \in X)
    BY <2>1, <2>2
  <2>4. ~u.terminal => \A i \in Z : i \in X /\ u.told[i] = s.told[i]
    BY <2>1, <2>2
  <2>5. ~u.terminal => \A i \in Ids \cap X : i \notin Z => u.told[i] = s.told[i] + 1 \/ i \in W
    BY <2>1, <2>2
  <2>. QED  BY <2>3, <2>4, <2>5 DEF Answers, X, Z
<1>3. Writes(s, u, H)
  BY DEF Kept, Writes, Engines, Shape
<1>. QED  BY <1>1, <1>2, <1>3 DEF Kept

\* The same, with what holds at the end of each.
LEMMA GoodChain ==
  ASSUME NEW s, NEW t, NEW u, NEW H, NEW W, NEW G, NEW A, NEW G2, NEW A2, Shape(s),
         Good(s, t, H, W, G2, A2), Good(t, u, {}, W, G, A), ~t.terminal
  PROVE  Good(s, u, H, W, G, A)
BY KeptChain DEF Good, RunnerOk

\* Nothing is lost by an end of the session.
LEMMA TerminateGood ==
  ASSUME NEW s, NEW W, NEW G, NEW A, NEW H, RunnerOk(s, W, G, A)
  PROVE  Good(s, terminate(s), H, W, G, A) /\ terminate(s).terminal
<1>. DEFINE t == terminate(s)
<1>1. /\ Shape(t) /\ t.terminal
      /\ t.state = s.state /\ t.modern = s.modern /\ t.gen = s.gen /\ t.cur = s.cur
      /\ t.starting = s.starting /\ t.exit = s.exit /\ t.live = s.live /\ t.lease = s.lease
      /\ t.host = s.host /\ t.child = s.child /\ t.initReq = s.initReq
      /\ t.told = s.told /\ t.wrote = s.wrote /\ t.toChild = s.toChild
  BY DEF terminate, RunnerOk, Shape, IsRunner, RunnerFields
<1>. HIDE DEF t
<1>2. RunnerOk(t, W, G, A)
  BY <1>1 DEF RunnerOk, Engine, Registers, Open
<1>3. Kept(s, t, H, W)
  BY <1>1 DEF RunnerOk, Shape, Kept, Engines, Answers, Writes
<1>. QED  BY <1>1, <1>2, <1>3 DEF Good, t

\* The session ends on an error of a registry.
LEMMA EndOnErrorGood ==
  ASSUME NEW s, NEW t, NEW W, NEW G, NEW A, NEW H, RunnerOk(t, W, G, A), Kept(s, t, H, W), Shape(s), ~t.terminal
  PROVE  Good(s, EndOnError(t), H, W, G, A)
<1>1. Good(t, terminate(t), {}, W, G, A)
  BY TerminateGood
<1>2. Good(s, t, H, W, G, A)
  BY DEF Good
<1>3. Good(s, terminate(t), H, W, G, A)
  BY <1>1, <1>2, GoodChain
<1>. QED  BY <1>2, <1>3 DEF EndOnError

\* A write to the host that answers nothing and asks nothing.
LEMMA WriteHostGood ==
  ASSUME NEW s, NEW W, NEW G, NEW A, RunnerOk(s, W, G, A), NEW f,
         f.k \notin {"answer", "unlisten", "ask"}
  PROVE  Good(s, writeHost(s, f), {}, W, G, A)
<1>1. CASE ~s.fate.host
  BY <1>1, TerminateGood DEF writeHost
<1>2. CASE s.fate.host
  <2>1. writeHost(s, f) = [s EXCEPT !.told = s.told, !.toHost = s.toHost]
    BY <1>2 DEF writeHost, Noted
  <2>2. writeHost(s, f) = s
    BY <2>1 DEF RunnerOk, Shape, IsRunner, RunnerFields
  <2>. QED  BY <2>2, KeptItself
<1>. QED  BY <1>1, <1>2

\* A request in hand that is not on the books is rejected, or the session ends.
LEMMA RejectGood ==
  ASSUME NEW s, NEW W, NEW G, NEW A, RunnerOk(s, W, G, A), ~s.terminal,
         NEW id \in Ids, id \notin OnBooks(s)
  PROVE  Good(s, rejectHostRequest(s, id), {id}, W, G, A)
<1>. DEFINE t == rejectHostRequest(s, id)
<1>1. CASE ~s.fate.host
  BY <1>1, TerminateGood DEF writeHost, rejectHostRequest
<1>2. CASE s.fate.host
  <2>1. t = [s EXCEPT !.told = [s.told EXCEPT ![id] = @ + 1], !.toHost = s.toHost]
    BY <1>2 DEF writeHost, Noted, rejectHostRequest, Frame
  <2>3. s.told \in [Ids -> Nat] /\ IsRunner(s)
    BY DEF RunnerOk, Shape
  <2>. DEFINE y == [s.told EXCEPT ![id] = @ + 1]
  <2>7. y \in [Ids -> Nat]
    BY <2>3
  <2>. HIDE DEF t, y
  <2>8. IsRunner(t) /\ t.told = y /\ t.wrote = s.wrote /\ Alike(s, t)
    BY <2>1, <2>3, ZenonT(40) DEF IsRunner, RunnerFields, Alike, Stays, y
  <2>2. Shape(t) /\ Alike(s, t) /\ t.wrote = s.wrote /\ t.told = [s.told EXCEPT ![id] = @ + 1]
    BY <2>1, <2>3, <2>7, ZenonT(40) DEF RunnerOk, Shape, Alike, Stays, IsRunner, RunnerFields, y
  <2>4. RunnerOk(t, W, G, A) /\ Engines(s, t) /\ QueuedIds(t) = QueuedIds(s) /\ OnBooks(t) = OnBooks(s)
    BY <2>2, AlikeOk
  <2>5. Answers(s, t, {id}, W)
    BY <2>2, <2>3, <2>4 DEF Answers
  <2>6. Writes(s, t, {id})
    BY <2>2, <2>4 DEF Writes, Alike, Stays
  <2>. QED  BY <2>2, <2>4, <2>5, <2>6 DEF Good, Kept, Alike, Stays, t
<1>. QED  BY <1>1, <1>2

\* What is left alone by a write to the engine, and what the write adds.
Passes(s, t) ==
  /\ Stays(s, t) /\ t.pending = s.pending /\ t.host = s.host /\ t.child = s.child
  /\ t.told = s.told /\ t.toHost = s.toHost

Written(s, t, f) ==
  /\ s.cur # 0
  /\ t.toChild = s.toChild \cup {f}
  /\ t.wrote = Noted(s.wrote, {"request"}, f)

\* A write reaches the engine or leaves everything as it was.
LEMMA WriteChildFacts ==
  ASSUME NEW s, Shape(s), NEW f \in FrameSet, f.k = "request" => f.id \in Ids
  PROVE  LET t == writeChild(s, f)
         IN  /\ Shape(t) /\ Passes(s, t)
             /\ \/ t.toChild = s.toChild /\ t.wrote = s.wrote
                \/ t.out # "not_written" /\ Written(s, t, f)
             /\ t.out # "not_written" => s.cur # 0
<1>. DEFINE t == writeChild(s, f)
            x == s.toChild \cup {f}
            y == Noted(s.wrote, {"request"}, f)
            z == [s.fate EXCEPT !.n = @ - 1]
<1>1. /\ s.toChild \in SUBSET FrameSet /\ s.wrote \in [Ids -> Nat] /\ s.fate \in Fate
      /\ IsRunner(s)
  BY DEF Shape
<1>2. x \in SUBSET FrameSet
  BY <1>1
<1>3. y \in [Ids -> Nat]
  BY <1>1 DEF Noted
<1>4. s.fate.n > 0 => z \in Fate
  BY <1>1 DEF Fate
<1>5. \/ t = [s EXCEPT !.out = "not_written"]
      \/ /\ s.cur # 0 /\ s.fate.n > 0
         /\ t = [s EXCEPT !.toChild = x, !.wrote = y, !.out = "delivered", !.fate = z]
      \/ /\ s.cur # 0 /\ s.fate.kind = "ambiguous"
         /\ t = [s EXCEPT !.toChild = x, !.wrote = y, !.out = "ambiguous"]
      \/ s.cur # 0 /\ t = [s EXCEPT !.out = s.fate.kind]
  BY <1>1 DEF writeChild, IsRunner, RunnerFields
<1>. HIDE DEF x, y, z, t
<1>6. CASE t = [s EXCEPT !.out = "not_written"]
  <2>1. Shape(t) /\ Passes(s, t) /\ t.toChild = s.toChild /\ t.wrote = s.wrote
    BY <1>6 DEF Shape, IsRunner, RunnerFields, Passes, Stays
  <2>2. t.out = "not_written"
    BY <1>1, <1>6 DEF IsRunner, RunnerFields
  <2>. QED  BY <2>1, <2>2 DEF t
<1>7. CASE s.cur # 0 /\ t = [s EXCEPT !.out = s.fate.kind]
  <2>1. Shape(t) /\ Passes(s, t) /\ t.toChild = s.toChild /\ t.wrote = s.wrote
    BY <1>7 DEF Shape, IsRunner, RunnerFields, Passes, Stays
  <2>. QED  BY <1>7, <2>1 DEF t
<1>8. CASE /\ s.cur # 0 /\ s.fate.n > 0
           /\ t = [s EXCEPT !.toChild = x, !.wrote = y, !.out = "delivered", !.fate = z]
  <2>1. Shape(t) /\ Passes(s, t)
    BY <1>2, <1>3, <1>4, <1>8, ZenonT(40) DEF Shape, IsRunner, RunnerFields, Passes, Stays
  <2>2. t.toChild = x /\ t.wrote = y /\ t.out = "delivered"
    BY <1>1, <1>8 DEF IsRunner, RunnerFields
  <2>. QED  BY <1>8, <2>1, <2>2 DEF t, Written, x, y
<1>9. CASE /\ s.cur # 0 /\ s.fate.kind = "ambiguous"
           /\ t = [s EXCEPT !.toChild = x, !.wrote = y, !.out = "ambiguous"]
  <2>1. Shape(t) /\ Passes(s, t)
    BY <1>2, <1>3, <1>9, ZenonT(40) DEF Shape, IsRunner, RunnerFields, Passes, Stays
  <2>2. t.toChild = x /\ t.wrote = y /\ t.out = "ambiguous"
    BY <1>1, <1>9 DEF IsRunner, RunnerFields
  <2>. QED  BY <1>9, <2>1, <2>2 DEF t, Written, x, y
<1>. QED  BY <1>5, <1>6, <1>7, <1>8, <1>9

\* A write that is neither a request nor, but for the current engine, an answer.
LEMMA WriteChildGood ==
  ASSUME NEW s, NEW W, NEW G, NEW A, RunnerOk(s, W, G, A), ~s.terminal, NEW f \in FrameSet,
         f.k # "request",
         f.k = "response" => f.from = s.cur,
         f.k = "initialize" => /\ f = Frame("initialize", InitId)
                               /\ s.state = "replaying" \/ (s.state = "active" /\ s.awaiting)
  PROVE  LET t == writeChild(s, f)
         IN  /\ Good(s, t, {}, W, G, A) /\ Passes(s, t)
             /\ t.out # "not_written" => s.cur # 0
<1>. DEFINE t == writeChild(s, f)
<1>1. /\ Shape(t) /\ Passes(s, t)
      /\ t.toChild = s.toChild \/ (s.cur # 0 /\ t.toChild = s.toChild \cup {f})
      /\ t.wrote = s.wrote /\ (t.out # "not_written" => s.cur # 0)
  BY WriteChildFacts DEF RunnerOk, Written, Noted
<1>. HIDE DEF t
<1>2. Engine(t) /\ Registers(t)
  BY <1>1 DEF RunnerOk, Passes, Stays, Engine, Registers, Open
<1>3. QueuedIds(t) = QueuedIds(s) /\ OnBooks(t) = OnBooks(s) /\ Open(t) = Open(s)
  BY <1>1 DEF Passes, Stays, QueuedIds, OnBooks, Open
<1>4. Queue(t, W)
  BY <1>1, <1>3 DEF RunnerOk, Passes, Stays, Queue, HostFrameOk
<1>5. Lifecycle(t)
  BY <1>1 DEF RunnerOk, Passes, Stays, Lifecycle
<1>6. GotOk(t, W, G)
  BY <1>1, <1>3 DEF RunnerOk, Passes, Stays, GotOk
<1>7. HoldersOk(t, A)
  BY <1>1 DEF RunnerOk, Passes, Stays, HoldersOk, Due
<1>8. RunnerOk(t, W, G, A)
  BY <1>1, <1>2, <1>4, <1>5, <1>6, <1>7 DEF RunnerOk
<1>9. Engines(s, t)
  BY <1>1 DEF Engines, Spare, Passes, Stays, RunnerOk, Shape
<1>10. Answers(s, t, {}, W) /\ Writes(s, t, {})
  BY <1>1, <1>3 DEF Answers, Writes, Passes
<1>. QED  BY <1>1, <1>8, <1>9, <1>10 DEF Good, Kept, Passes, Stays, t

\* beginStart starts an engine only where there is none.
LEMMA BeginStartGood ==
  ASSUME NEW s, NEW W, NEW G, NEW A, RunnerOk(s, W, G, A)
  PROVE  Good(s, beginStart(s), {}, W, G, A)
<1>. DEFINE t == beginStart(s)
<1>1. CASE s.terminal \/ s.starting \/ s.cur # 0
  BY <1>1, KeptItself DEF beginStart
<1>2. CASE ~(s.terminal \/ s.starting \/ s.cur # 0)
  <2>1. t = [s EXCEPT !.retryT = FALSE, !.starting = TRUE, !.state = "starting"]
    BY <1>2 DEF beginStart
  <2>. HIDE DEF t
  <2>2. Shape(t)
    BY <2>1, ZenonT(40) DEF RunnerOk, Shape, IsRunner, RunnerFields, States
  <2>3. /\ t.state = "starting" /\ t.starting
        /\ t.modern = s.modern /\ t.gen = s.gen /\ t.cur = s.cur /\ t.leaseT = s.leaseT
        /\ t.initReq = s.initReq /\ t.awaiting = s.awaiting /\ t.initialized = s.initialized
        /\ t.exit = s.exit /\ t.live = s.live /\ t.terminal = s.terminal /\ t.lease = s.lease
        /\ t.pending = s.pending /\ t.host = s.host /\ t.child = s.child
        /\ t.told = s.told /\ t.toHost = s.toHost /\ t.toChild = s.toChild /\ t.wrote = s.wrote
    BY <2>1 DEF RunnerOk, Shape, IsRunner, RunnerFields
  <2>4. Engine(t) /\ Registers(t) /\ Lifecycle(t)
    BY <1>2, <2>3 DEF RunnerOk, Engine, Registers, Open, Serving, Lifecycle
  <2>5. QueuedIds(t) = QueuedIds(s) /\ OnBooks(t) = OnBooks(s) /\ Open(t) = Open(s)
    BY <2>3 DEF QueuedIds, OnBooks, Open
  <2>6. Queue(t, W)
    BY <1>2, <2>3, <2>5 DEF RunnerOk, Queue, HostFrameOk
  <2>7. GotOk(t, W, G)
    BY <1>2, <2>3 DEF GotOk
  <2>8. HoldersOk(t, A)
    BY <1>2, <2>3 DEF RunnerOk, HoldersOk, Due
  <2>9. Engines(s, t)
    BY <1>2, <2>3 DEF Engines, Spare, RunnerOk, Shape
  <2>10. Answers(s, t, {}, W) /\ Writes(s, t, {})
    BY <2>3, <2>5 DEF Answers, Writes
  <2>. QED  BY <2>2, <2>3, <2>4, <2>6, <2>7, <2>8, <2>9, <2>10 DEF RunnerOk, Good, Kept, t
<1>. QED  BY <1>1, <1>2

\* scheduleRetry arms its timer only where there is no engine.
LEMMA ScheduleRetryGood ==
  ASSUME NEW s, NEW W, NEW G, NEW A, RunnerOk(s, W, G, A)
  PROVE  Good(s, scheduleRetry(s), {}, W, G, A)
<1>. DEFINE t == scheduleRetry(s)
<1>1. CASE s.terminal \/ s.cur # 0 \/ s.retryT
  BY <1>1, KeptItself DEF scheduleRetry
<1>2. CASE ~(s.terminal \/ s.cur # 0 \/ s.retryT)
  <2>1. t = [s EXCEPT !.retryT = TRUE, !.state = "starting"]
    BY <1>2 DEF scheduleRetry
  <2>. HIDE DEF t
  <2>2. Shape(t)
    BY <2>1 DEF RunnerOk, Shape, IsRunner, RunnerFields, States
  <2>3. /\ t.state = "starting" /\ t.starting = s.starting
        /\ t.modern = s.modern /\ t.gen = s.gen /\ t.cur = s.cur /\ t.leaseT = s.leaseT
        /\ t.initReq = s.initReq /\ t.awaiting = s.awaiting /\ t.initialized = s.initialized
        /\ t.exit = s.exit /\ t.live = s.live /\ t.terminal = s.terminal /\ t.lease = s.lease
        /\ t.pending = s.pending /\ t.host = s.host /\ t.child = s.child
        /\ t.told = s.told /\ t.toHost = s.toHost /\ t.toChild = s.toChild /\ t.wrote = s.wrote
    BY <2>1 DEF RunnerOk, Shape, IsRunner, RunnerFields
  <2>4. Engine(t) /\ Registers(t) /\ Lifecycle(t)
    BY <1>2, <2>3 DEF RunnerOk, Engine, Registers, Open, Serving, Lifecycle
  <2>5. QueuedIds(t) = QueuedIds(s) /\ OnBooks(t) = OnBooks(s) /\ Open(t) = Open(s)
    BY <2>3 DEF QueuedIds, OnBooks, Open
  <2>6. Queue(t, W)
    BY <1>2, <2>3, <2>5 DEF RunnerOk, Queue, HostFrameOk
  <2>7. GotOk(t, W, G)
    BY <1>2, <2>3 DEF GotOk
  <2>8. HoldersOk(t, A)
    BY <1>2, <2>3 DEF RunnerOk, HoldersOk, Due
  <2>9. Engines(s, t)
    BY <1>2, <2>3 DEF Engines, Spare, RunnerOk, Shape
  <2>10. Answers(s, t, {}, W) /\ Writes(s, t, {})
    BY <2>3, <2>5 DEF Answers, Writes
  <2>. QED  BY <2>2, <2>3, <2>4, <2>6, <2>7, <2>8, <2>9, <2>10 DEF RunnerOk, Good, Kept, t
<1>. QED  BY <1>1, <1>2
-----------------------------------------------------------------------------
(* The queue *)

\* The entries of p are entries of q, none of them twice.
Thins(p, q) ==
  \E h : /\ h \in [1 .. Len(p) -> 1 .. Len(q)]
         /\ \A a \in 1 .. Len(p) : p[a] = q[h[a]]
         /\ \A a, b \in 1 .. Len(p) : h[a] = h[b] => a = b

\* A queue from which entries are taken is still a good queue.
LEMMA ThinOk ==
  ASSUME NEW s, NEW t, NEW W, NEW G, NEW A, RunnerOk(s, W, G, A), ~s.terminal,
         Shape(t), Stays(s, t), t.host = s.host, t.child = s.child,
         t.toHost = s.toHost, t.toChild = s.toChild, Thins(t.pending, s.pending)
  PROVE  /\ RunnerOk(t, W, G, A) /\ Engines(s, t) /\ QueuedIds(t) \subseteq QueuedIds(s)
         /\ \A a \in DOMAIN t.pending : \E b \in DOMAIN s.pending : t.pending[a] = s.pending[b]
<1>. DEFINE p == t.pending
            q == s.pending
<1>1. PICK h : /\ h \in [1 .. Len(p) -> 1 .. Len(q)]
               /\ \A a \in 1 .. Len(p) : p[a] = q[h[a]]
               /\ \A a, b \in 1 .. Len(p) : h[a] = h[b] => a = b
  BY DEF Thins
<1>2. /\ p \in Seq(Entry) /\ q \in Seq(Entry) /\ DOMAIN p = 1 .. Len(p) /\ DOMAIN q = 1 .. Len(q)
  BY DEF RunnerOk, Shape
<1>. HIDE DEF p, q
<1>3. \A a \in DOMAIN p : h[a] \in DOMAIN q /\ p[a] = q[h[a]]
  BY <1>1, <1>2
<1>4. \A a, b \in DOMAIN p : h[a] = h[b] => a = b
  BY <1>1, <1>2
<1>5. QueuedIds(t) \subseteq QueuedIds(s)
  BY <1>3 DEF QueuedIds, p, q
<1>6. Engine(t) /\ Registers(t)
  BY DEF RunnerOk, Stays, Engine, Registers, Open
<1>7. Queue(t, W)
  <2>1. \A j \in DOMAIN q :
          /\ HostFrameOk(s, q[j].f, W) /\ q[j].f.k # "initialize"
          /\ q[j].same => q[j].f.k # "request"
          /\ q[j].f.k = "request" => q[j].f.id \notin Open(s)
    BY DEF RunnerOk, Queue, q
  <2>2. \A i, j \in DOMAIN q :
          q[i].f.k = "request" /\ q[j].f.k = "request" /\ q[i].f.id = q[j].f.id => i = j
    BY DEF RunnerOk, Queue, q
  <2>3. \A f : HostFrameOk(s, f, W) => HostFrameOk(t, f, W)
    BY DEF HostFrameOk, Stays
  <2>4. \A j \in DOMAIN p :
          /\ HostFrameOk(t, p[j].f, W) /\ p[j].f.k # "initialize"
          /\ p[j].same => p[j].f.k # "request"
          /\ p[j].f.k = "request" => p[j].f.id \notin Open(t)
    BY <1>3, <2>1, <2>3 DEF Open
  <2>5. \A i, j \in DOMAIN p :
          p[i].f.k = "request" /\ p[j].f.k = "request" /\ p[i].f.id = p[j].f.id => i = j
    BY <1>3, <1>4, <2>2
  <2>. QED  BY <2>4, <2>5 DEF Queue, p
<1>8. Lifecycle(t)
  <2>1. q = <<>> => p = <<>>
    BY <1>1, <1>2
  <2>. QED  BY <2>1 DEF RunnerOk, Stays, Lifecycle, p, q
<1>9. GotOk(t, W, G)
  BY <1>5 DEF RunnerOk, Stays, GotOk, Open
<1>10. HoldersOk(t, A)
  <2>1. \A a \in A \cup t.toHost : Due(t, a) /\ ~t.modern
    BY DEF RunnerOk, Stays, HoldersOk, Due
  <2>2. \A a, b \in A \cup t.toHost : a.id = b.id => a = b
    BY DEF RunnerOk, HoldersOk
  <2>3. \A j \in DOMAIN q : q[j].f.k = "response" =>
          /\ Due(s, q[j].f) /\ ~s.modern
          /\ \A a \in A \cup s.toHost : a.id # q[j].f.id
          /\ \A i \in DOMAIN q : q[i].f.k = "response" /\ q[i].f.id = q[j].f.id => i = j
    BY DEF RunnerOk, HoldersOk, q
  <2>4. \A a : Due(s, a) => Due(t, a)
    BY DEF Due, Stays
  <2>5. ASSUME NEW j \in DOMAIN p, p[j].f.k = "response"
        PROVE  /\ Due(t, p[j].f) /\ ~t.modern
               /\ \A a \in A \cup t.toHost : a.id # p[j].f.id
               /\ \A i \in DOMAIN p : p[i].f.k = "response" /\ p[i].f.id = p[j].f.id => i = j
    BY <1>3, <1>4, <2>3, <2>4, <2>5 DEF Stays
  <2>. QED  BY <2>1, <2>2, <2>5 DEF HoldersOk, p
<1>11. Engines(s, t)
  BY DEF Engines, Spare, Stays, RunnerOk, Shape
<1>12. RunnerOk(t, W, G, A)
  BY <1>6, <1>7, <1>8, <1>9, <1>10 DEF RunnerOk
<1>. QED  BY <1>3, <1>5, <1>11, <1>12 DEF p, q

\* Entries that are no request, or a withdrawn one, may be dropped.
LEMMA WithoutGood ==
  ASSUME NEW s, NEW W, NEW G, NEW A, RunnerOk(s, W, G, A), ~s.terminal, NEW K,
         \A j \in DOMAIN s.pending :
           j \in K /\ s.pending[j].f.k = "request" => s.pending[j].f.id \in W
  PROVE  LET t == [s EXCEPT !.pending = Without(s.pending, K)]
         IN  Good(s, t, {}, W, G, A) /\ Stays(s, t) /\ t.host = s.host /\ t.child = s.child
<1>. DEFINE p == Without(s.pending, K)
            t == [s EXCEPT !.pending = p]
            q == s.pending
<1>1. q \in Seq(Entry) /\ Len(q) <= QueueCap /\ IsRunner(s) /\ DOMAIN q = 1 .. Len(q)
  BY DEF RunnerOk, Shape
<1>2. p \in Seq(Entry) /\ Len(p) <= Len(q) /\ \E h : Selects(p, q, K, Len(q), h)
  BY <1>1, WithoutFacts
<1>3. PICK h : Selects(p, q, K, Len(q), h)
  BY <1>2
<1>4. QueueCap \in Nat
  BY SupervisorAssumption
<1>5. Len(p) <= QueueCap
  <2>1. Len(p) \in Nat /\ Len(q) \in Nat
    BY <1>1, <1>2
  <2>. HIDE DEF p, q
  <2>. QED  BY <1>1, <1>2, <1>4, <2>1
<1>6. Thins(p, q)
  BY <1>1, <1>3 DEF Selects, Thins
<1>. HIDE DEF p
<1>7. /\ Shape(t) /\ Stays(s, t) /\ t.host = s.host /\ t.child = s.child /\ t.pending = p
      /\ t.toHost = s.toHost /\ t.toChild = s.toChild /\ t.told = s.told /\ t.wrote = s.wrote
  BY <1>1, <1>2, <1>5 DEF RunnerOk, Shape, IsRunner, RunnerFields, Stays
<1>. HIDE DEF t, q
<1>8. RunnerOk(t, W, G, A) /\ Engines(s, t) /\ QueuedIds(t) \subseteq QueuedIds(s)
  BY <1>6, <1>7, ThinOk DEF q
<1>9. \A i \in QueuedIds(s) : i \notin QueuedIds(t) => i \in W
  <2>1. SUFFICES ASSUME NEW j \in DOMAIN q, q[j].f.k = "request", j \notin K
                 PROVE  q[j].f.id \in QueuedIds(t)
    BY DEF QueuedIds, q
  <2>2. PICK a \in 1 .. Len(p) : h[a] = j
    BY <1>1, <1>3, <2>1 DEF Selects
  <2>3. p[a] = q[j] /\ a \in DOMAIN p
    BY <1>2, <1>3, <2>2 DEF Selects
  <2>. QED  BY <1>7, <2>1, <2>3 DEF QueuedIds
<1>10. /\ OnBooks(t) \subseteq OnBooks(s)
       /\ \A i \in OnBooks(s) : i \notin OnBooks(t) => i \in W
  BY <1>7, <1>8, <1>9 DEF OnBooks, Open, Stays
<1>11. Answers(s, t, {}, W)
  BY <1>7, <1>10 DEF Answers
<1>12. Writes(s, t, {})
  BY <1>7, <1>8 DEF Writes
<1>. QED  BY <1>7, <1>8, <1>11, <1>12 DEF Good, Kept, Stays, t, p

\* A withdrawn request leaves the queue.
LEMMA RemoveRequestGood ==
  ASSUME NEW s, NEW W, NEW G, NEW A, RunnerOk(s, W, G, A), ~s.terminal, NEW id \in W
  PROVE  Good(s, removeRequest(s, id), {}, W, G, A)
<1>. DEFINE K == {i \in DOMAIN s.pending : s.pending[i].f.k = "request" /\ s.pending[i].f.id = id}
<1>1. removeRequest(s, id) = [s EXCEPT !.pending = Without(s.pending, K)]
  BY DEF removeRequest
<1>2. \A j \in DOMAIN s.pending :
        j \in K /\ s.pending[j].f.k = "request" => s.pending[j].f.id \in W
  OBVIOUS
<1>. HIDE DEF K
<1>. QED  BY <1>1, <1>2, WithoutGood, SMTT(20)

\* Frames meant for the engine that goes leave the queue; none is a request.
LEMMA DiscardGood ==
  ASSUME NEW s, NEW W, NEW G, NEW A, RunnerOk(s, W, G, A), ~s.terminal
  PROVE  LET t == discardSameGenerationOnly(s)
         IN  Good(s, t, {}, W, G, A) /\ Stays(s, t) /\ t.host = s.host /\ t.child = s.child
<1>. DEFINE K == {i \in DOMAIN s.pending : s.pending[i].same}
<1>1. discardSameGenerationOnly(s) = [s EXCEPT !.pending = Without(s.pending, K)]
  BY DEF discardSameGenerationOnly
<1>2. \A j \in DOMAIN s.pending :
        j \in K /\ s.pending[j].f.k = "request" => s.pending[j].f.id \in W
  BY DEF RunnerOk, Queue
<1>. DEFINE u == [s EXCEPT !.pending = Without(s.pending, K)]
<1>. HIDE DEF K
<1>3. Good(s, u, {}, W, G, A) /\ Stays(s, u) /\ u.host = s.host /\ u.child = s.child
  BY <1>2, WithoutGood
<1>. QED  BY <1>1, <1>3

\* A frame in hand: what is known of a frame before it is handled.
HandFrame(s, f, W, G, A) ==
  /\ f \in FrameSet
  /\ HostFrameOk(s, f, W)
  /\ f.k = "request" =>
       /\ f.id \notin OnBooks(s)
       /\ s.cur # 0 => \A g \in G \cup s.toChild : g.k = "request" => g.id # f.id
  /\ f.k = "initialize" => f.id = InitId /\ ~s.initReq
  /\ f.k = "response" =>
       /\ Due(s, f) /\ ~s.modern
       /\ \A a \in A \cup s.toHost : a.id # f.id
       /\ \A j \in DOMAIN s.pending : s.pending[j].f.k = "response" => s.pending[j].f.id # f.id

\* A frame that enters the queue, in front or at the end.
LEMMA EnterOk ==
  ASSUME NEW s, NEW t, NEW W, NEW G, NEW A, RunnerOk(s, W, G, A), ~s.terminal,
         NEW f, HandFrame(s, f, W, G, A), f.k # "initialize",
         NEW same \in BOOLEAN, same => f.k # "request",
         Shape(t), t.host = s.host, t.child = s.child, t.told = s.told, t.wrote = s.wrote,
         t.toHost = s.toHost, t.toChild = s.toChild,
         t.modern = s.modern, t.gen = s.gen, t.cur = s.cur,
         t.initReq = s.initReq, t.awaiting = s.awaiting, t.initialized = s.initialized,
         t.exit = s.exit, t.live = s.live, t.terminal = s.terminal, t.lease = s.lease,
         \/ t.state = s.state /\ t.starting = s.starting /\ t.leaseT = s.leaseT /\ s.state # "dormant"
         \/ t.state = "starting" /\ t.starting /\ s.cur = 0,
         \/ t.pending = Append(s.pending, [f |-> f, same |-> same])
         \/ t.pending = <<[f |-> f, same |-> same]>> \o s.pending
  PROVE  Good(s, t, HandIds(f), W, G, A)
<1>. DEFINE e == [f |-> f, same |-> same]
            p == t.pending
            q == s.pending
            L == Len(q)
<1>1. q \in Seq(Entry) /\ DOMAIN q = 1 .. L /\ L \in Nat /\ p \in Seq(Entry) /\ e.f = f /\ e.same = same
  BY DEF RunnerOk, Shape
<1>2. PICK m \in DOMAIN p, h \in [DOMAIN p -> 0 .. L] :
         /\ p[m] = e
         /\ \A a \in DOMAIN p : a # m => h[a] \in DOMAIN q /\ p[a] = q[h[a]]
         /\ \A a, b \in DOMAIN p : a # m /\ b # m /\ h[a] = h[b] => a = b
         /\ \A j \in DOMAIN q : \E a \in DOMAIN p : a # m /\ h[a] = j
  <2>1. CASE p = Append(q, e)
    <3>. DEFINE hh == [a \in DOMAIN p |-> IF a = L + 1 THEN 0 ELSE a]
    <3>1. DOMAIN p = 1 .. L + 1 /\ p[L + 1] = e /\ \A a \in 1 .. L : p[a] = q[a]
      BY <1>1, <2>1
    <3>. HIDE DEF p, q, e, L
    <3>2. hh \in [DOMAIN p -> 0 .. L]
      BY <1>1, <3>1
    <3>3. \A a \in DOMAIN p : a # L + 1 => a \in 1 .. L /\ hh[a] = a
      BY <1>1, <3>1
    <3>4. L + 1 \in DOMAIN p /\ \A j \in 1 .. L : j \in DOMAIN p /\ j # L + 1
      BY <1>1, <3>1
    <3>. HIDE DEF hh
    <3>6. /\ p[L + 1] = e
          /\ \A a \in DOMAIN p : a # L + 1 => hh[a] \in DOMAIN q /\ p[a] = q[hh[a]]
          /\ \A a, b \in DOMAIN p : a # L + 1 /\ b # L + 1 /\ hh[a] = hh[b] => a = b
          /\ \A j \in DOMAIN q : \E a \in DOMAIN p : a # L + 1 /\ hh[a] = j
      BY <1>1, <3>1, <3>3, <3>4
    <3>. QED  BY <3>2, <3>4, <3>6, Zenon
  <2>2. CASE p = <<e>> \o q
    <3>. DEFINE hh == [a \in DOMAIN p |-> a - 1]
    <3>1. DOMAIN p = 1 .. L + 1 /\ p[1] = e /\ \A a \in 2 .. L + 1 : p[a] = q[a - 1]
      BY <1>1, <2>2
    <3>. HIDE DEF p, q, e, L
    <3>2. hh \in [DOMAIN p -> 0 .. L]
      BY <1>1, <3>1
    <3>3. \A a \in DOMAIN p : a # 1 => a \in 2 .. L + 1 /\ hh[a] = a - 1 /\ a - 1 \in 1 .. L
      BY <1>1, <3>1
    <3>4. 1 \in DOMAIN p /\ \A j \in 1 .. L : j + 1 \in DOMAIN p /\ j + 1 # 1 /\ hh[j + 1] = j
      BY <1>1, <3>1
    <3>5. \A a, b \in DOMAIN p : a - 1 = b - 1 => a = b
      BY <1>1, <3>1
    <3>. HIDE DEF hh
    <3>7. \A j \in DOMAIN q : \E a \in DOMAIN p : a # 1 /\ hh[a] = j
      <4>. TAKE j \in DOMAIN q
      <4>1. j + 1 \in DOMAIN p /\ j + 1 # 1 /\ hh[j + 1] = j
        BY <1>1, <3>4
      <4>. QED  BY <4>1
    <3>8. \A a \in DOMAIN p : a # 1 => hh[a] \in DOMAIN q /\ p[a] = q[hh[a]]
      BY <1>1, <3>1, <3>3
    <3>9. \A a, b \in DOMAIN p : a # 1 /\ b # 1 /\ hh[a] = hh[b] => a = b
      BY <3>3, <3>5
    <3>6. /\ p[1] = e
          /\ \A a \in DOMAIN p : a # 1 => hh[a] \in DOMAIN q /\ p[a] = q[hh[a]]
          /\ \A a, b \in DOMAIN p : a # 1 /\ b # 1 /\ hh[a] = hh[b] => a = b
          /\ \A j \in DOMAIN q : \E a \in DOMAIN p : a # 1 /\ hh[a] = j
      BY <3>1, <3>7, <3>8, <3>9
    <3>. QED  BY <3>2, <3>4, <3>6, Zenon
  <2>. QED  BY <2>1, <2>2
<1>. HIDE DEF p, q, L, e
<1>3. QueuedIds(t) = QueuedIds(s) \cup (IF f.k = "request" THEN {f.id} ELSE {})
  <2>1. ASSUME NEW i \in QueuedIds(t) PROVE i \in QueuedIds(s) \/ (f.k = "request" /\ i = f.id)
    <3>1. PICK a \in DOMAIN p : p[a].f.k = "request" /\ p[a].f.id = i
      BY <2>1 DEF QueuedIds, p
    <3>2. CASE a = m
      BY <1>1, <1>2, <3>1, <3>2
    <3>3. CASE a # m
      <4>1. h[a] \in DOMAIN q /\ q[h[a]].f.k = "request" /\ q[h[a]].f.id = i
        BY <1>2, <3>1, <3>3
      <4>. QED  BY <4>1 DEF QueuedIds, q
    <3>. QED  BY <3>2, <3>3
  <2>2. ASSUME NEW i \in QueuedIds(s) PROVE i \in QueuedIds(t)
    <3>1. PICK b \in DOMAIN q : q[b].f.k = "request" /\ q[b].f.id = i
      BY <2>2 DEF QueuedIds, q
    <3>2. PICK a \in DOMAIN p : a # m /\ h[a] = b
      BY <1>2
    <3>. QED  BY <1>2, <3>1, <3>2 DEF QueuedIds, p
  <2>3. f.k = "request" => f.id \in QueuedIds(t)
    BY <1>1, <1>2 DEF QueuedIds, p
  <2>. QED  BY <2>1, <2>2, <2>3
<1>4. Open(t) = Open(s)
  BY DEF Open
<1>5. Engine(t) /\ Registers(t)
  BY DEF RunnerOk, Engine, Registers, Open, Serving
<1>6. Queue(t, W)
  <2>1. \A j \in DOMAIN q :
          /\ HostFrameOk(s, q[j].f, W) /\ q[j].f.k # "initialize"
          /\ q[j].same => q[j].f.k # "request"
          /\ q[j].f.k = "request" => q[j].f.id \notin Open(s) /\ q[j].f.id \in QueuedIds(s)
    BY DEF RunnerOk, Queue, QueuedIds, q
  <2>2. \A i, j \in DOMAIN q :
          q[i].f.k = "request" /\ q[j].f.k = "request" /\ q[i].f.id = q[j].f.id => i = j
    BY DEF RunnerOk, Queue, q
  <2>3. \A g : HostFrameOk(s, g, W) => HostFrameOk(t, g, W)
    BY DEF HostFrameOk
  <2>4. f.k = "request" => f.id \notin Open(s) /\ f.id \notin QueuedIds(s)
    BY DEF HandFrame, OnBooks
  <2>7. HostFrameOk(t, f, W)
    BY <2>3 DEF HandFrame
  <2>5. ASSUME NEW j \in DOMAIN p
        PROVE  /\ HostFrameOk(t, p[j].f, W) /\ p[j].f.k # "initialize"
               /\ p[j].same => p[j].f.k # "request"
               /\ p[j].f.k = "request" => p[j].f.id \notin Open(t)
    <3>1. CASE j = m
      BY <1>1, <1>2, <1>4, <2>4, <2>7, <3>1
    <3>2. CASE j # m
      <4>1. h[j] \in DOMAIN q /\ p[j] = q[h[j]]
        BY <1>2, <3>2
      <4>. QED  BY <1>4, <2>1, <2>3, <4>1
    <3>. QED  BY <3>1, <3>2
  <2>6. \A i, j \in DOMAIN p :
          p[i].f.k = "request" /\ p[j].f.k = "request" /\ p[i].f.id = p[j].f.id => i = j
    BY <1>1, <1>2, <2>1, <2>2, <2>4
  <2>. QED  BY <2>5, <2>6 DEF Queue, p
<1>7. Lifecycle(t)
  BY DEF RunnerOk, Lifecycle
<1>8. GotOk(t, W, G)
  BY <1>3, <1>4 DEF RunnerOk, GotOk, HandFrame
<1>9. HoldersOk(t, A)
  <2>1. \A a \in A \cup t.toHost : Due(t, a) /\ ~t.modern
    BY DEF RunnerOk, HoldersOk, Due
  <2>2. \A a, b \in A \cup t.toHost : a.id = b.id => a = b
    BY DEF RunnerOk, HoldersOk
  <2>3. \A j \in DOMAIN q : q[j].f.k = "response" =>
          /\ Due(s, q[j].f) /\ ~s.modern
          /\ \A a \in A \cup s.toHost : a.id # q[j].f.id
          /\ \A i \in DOMAIN q : q[i].f.k = "response" /\ q[i].f.id = q[j].f.id => i = j
    BY DEF RunnerOk, HoldersOk, q
  <2>4. \A a : Due(s, a) => Due(t, a)
    BY DEF Due
  <2>5. f.k = "response" =>
          /\ Due(t, f) /\ ~t.modern /\ \A a \in A \cup t.toHost : a.id # f.id
          /\ \A j \in DOMAIN q : q[j].f.k = "response" => q[j].f.id # f.id
    BY <2>4 DEF HandFrame, q
  <2>6. ASSUME NEW j \in DOMAIN p, p[j].f.k = "response"
        PROVE  /\ Due(t, p[j].f) /\ ~t.modern
               /\ \A a \in A \cup t.toHost : a.id # p[j].f.id
               /\ \A i \in DOMAIN p : p[i].f.k = "response" /\ p[i].f.id = p[j].f.id => i = j
    <3>1. CASE j = m
      BY <1>1, <1>2, <2>3, <2>5, <2>6, <3>1
    <3>2. CASE j # m
      <4>1. h[j] \in DOMAIN q /\ p[j] = q[h[j]]
        BY <1>2, <3>2
      <4>2. /\ Due(t, p[j].f) /\ ~t.modern /\ \A a \in A \cup t.toHost : a.id # p[j].f.id
        BY <2>3, <2>4, <2>6, <4>1
      <4>3. ASSUME NEW i \in DOMAIN p, p[i].f.k = "response", p[i].f.id = p[j].f.id PROVE i = j
        <5>1. i # m
          BY <1>1, <1>2, <2>5, <2>6, <4>1, <4>3
        <5>2. h[i] \in DOMAIN q /\ p[i] = q[h[i]]
          BY <1>2, <5>1
        <5>3. h[i] = h[j]
          BY <2>3, <2>6, <4>1, <4>3, <5>2
        <5>. QED  BY <1>2, <3>2, <5>1, <5>3
      <4>. QED  BY <4>2, <4>3
    <3>. QED  BY <3>1, <3>2
  <2>. QED  BY <2>1, <2>2, <2>6 DEF HoldersOk, p
<1>10. Engines(s, t)
  BY DEF Engines, Spare, RunnerOk, Shape
<1>11. RunnerOk(t, W, G, A)
  BY <1>5, <1>6, <1>7, <1>8, <1>9 DEF RunnerOk
<1>12. Answers(s, t, HandIds(f), W)
  BY <1>3, <1>4 DEF Answers, OnBooks, HandIds
<1>13. Writes(s, t, HandIds(f))
  BY <1>3 DEF Writes, HandIds
<1>. QED  BY <1>10, <1>11, <1>12, <1>13 DEF Good, Kept

\* The identifier of a request in hand is one of the host's and not on the books.
LEMMA HandRejectGood ==
  ASSUME NEW s, NEW W, NEW G, NEW A, RunnerOk(s, W, G, A), ~s.terminal,
         NEW f, HandFrame(s, f, W, G, A), f.k = "request"
  PROVE  Good(s, rejectHostRequest(s, f.id), HandIds(f), W, G, A)
<1>1. f.id \in Ids /\ f.id \notin OnBooks(s) /\ HandIds(f) = {f.id}
  BY DEF HandFrame, HostFrameOk, Ids, HandIds
<1>. QED  BY <1>1, RejectGood

\* A frame is queued, an engine started for it if need be, or it is rejected.
LEMMA EnqueueGood ==
  ASSUME NEW s, NEW W, NEW G, NEW A, RunnerOk(s, W, G, A), ~s.terminal,
         NEW f, HandFrame(s, f, W, G, A), f.k # "initialize",
         NEW same \in BOOLEAN, same => f.k # "request"
  PROVE  Good(s, enqueueHost(s, f, same), HandIds(f), W, G, A)
<1>. DEFINE t == enqueueHost(s, f, same)
            e == [f |-> f, same |-> same]
            x == Append(s.pending, e)
            queued == enqueue(s, f, same)
<1>1. CASE f.k = "request" /\ t = rejectHostRequest(s, f.id)
  BY <1>1, HandRejectGood
<1>2. CASE f.k # "request" /\ t = s
  <2>1. HandIds(f) = {}
    BY <1>2 DEF HandIds
  <2>. QED  BY <1>2, <2>1, KeptItself
<1>3. CASE ~(Len(s.pending) >= QueueCap)
           /\ t = IF s.state = "dormant"
                  THEN beginStart([queued EXCEPT !.leaseT = FALSE])
                  ELSE IF s.cur = 0 /\ ~s.starting THEN beginStart(queued) ELSE queued
  <2>1. queued = [s EXCEPT !.pending = x]
    BY DEF enqueue
  <2>2. x \in Seq(Entry) /\ Len(x) <= QueueCap
    <3>1. e \in Entry
      BY DEF HandFrame, Entry
    <3>2. s.pending \in Seq(Entry) /\ Len(s.pending) \in Nat
      BY DEF RunnerOk, Shape
    <3>3. QueueCap \in Nat
      BY SupervisorAssumption
    <3>. HIDE DEF e
    <3>. QED  BY <1>3, <3>1, <3>2, <3>3
  <2>. HIDE DEF x, queued
  <2>3. /\ Shape(queued) /\ Stays(s, queued) /\ queued.pending = x /\ queued.host = s.host
        /\ queued.child = s.child /\ queued.told = s.told /\ queued.wrote = s.wrote
        /\ queued.toHost = s.toHost /\ queued.toChild = s.toChild
    BY <2>1, <2>2 DEF RunnerOk, Shape, IsRunner, RunnerFields, Stays
  <2>6. x = Append(s.pending, [f |-> f, same |-> same])
    BY DEF x, e
  <2>4. CASE s.state # "dormant" /\ t = queued
    <3>. HIDE DEF t, e
    <3>1. Good(s, t, HandIds(f), W, G, A)
      BY <2>3, <2>4, <2>6, EnterOk DEF Stays
    <3>. QED  BY <3>1 DEF t
  <2>5. CASE ~(s.state # "dormant" /\ t = queued)
    <3>1. s.cur = 0 /\ ~s.starting
      BY <1>3, <2>5 DEF RunnerOk, Lifecycle
    <3>2. PICK v \in {s.leaseT, FALSE} :
            t = [queued EXCEPT !.leaseT = v, !.retryT = FALSE, !.starting = TRUE, !.state = "starting"]
      <4>. DEFINE b == [queued EXCEPT !.leaseT = FALSE]
      <4>1. ~b.terminal /\ ~b.starting /\ b.cur = 0
        BY <2>3, <3>1 DEF Shape, IsRunner, RunnerFields, Stays
      <4>2. beginStart(b) = [b EXCEPT !.retryT = FALSE, !.starting = TRUE, !.state = "starting"]
        BY <4>1 DEF beginStart
      <4>3. beginStart(b) = [queued EXCEPT !.leaseT = FALSE, !.retryT = FALSE, !.starting = TRUE, !.state = "starting"]
        BY <4>2
      <4>4. beginStart(queued) = [queued EXCEPT !.retryT = FALSE, !.starting = TRUE, !.state = "starting"]
        BY <2>3, <3>1 DEF beginStart, Stays
      <4>5. queued = [queued EXCEPT !.leaseT = s.leaseT]
        BY <2>3 DEF Shape, IsRunner, RunnerFields, Stays
      <4>6. beginStart(queued) = [queued EXCEPT !.leaseT = s.leaseT, !.retryT = FALSE, !.starting = TRUE, !.state = "starting"]
        BY <4>4, <4>5
      <4>7. t = beginStart(b) \/ t = beginStart(queued)
        BY <1>3, <2>5, <3>1
      <4>. HIDE DEF b, t
      <4>. QED  BY <4>3, <4>6, <4>7
    <3>. HIDE DEF t, e
    <3>3. Shape(t)
      BY <2>3, <3>2, ZenonT(40) DEF Shape, IsRunner, RunnerFields, States
    <3>4. /\ t.host = s.host /\ t.child = s.child /\ t.told = s.told /\ t.wrote = s.wrote
          /\ t.toHost = s.toHost /\ t.toChild = s.toChild
          /\ t.modern = s.modern /\ t.gen = s.gen /\ t.cur = s.cur
          /\ t.initReq = s.initReq /\ t.awaiting = s.awaiting /\ t.initialized = s.initialized
          /\ t.exit = s.exit /\ t.live = s.live /\ t.terminal = s.terminal /\ t.lease = s.lease
          /\ t.state = "starting" /\ t.starting /\ t.pending = x
      BY <2>3, <3>2 DEF Shape, IsRunner, RunnerFields, Stays
    <3>5. Good(s, t, HandIds(f), W, G, A)
      BY <2>6, <3>1, <3>3, <3>4, EnterOk
    <3>. QED  BY <3>5 DEF t
  <2>. QED  BY <2>4, <2>5
<1>4. \/ f.k = "request" /\ t = rejectHostRequest(s, f.id)
      \/ f.k # "request" /\ t = s
      \/ ~(Len(s.pending) >= QueueCap)
           /\ t = IF s.state = "dormant"
                  THEN beginStart([queued EXCEPT !.leaseT = FALSE])
                  ELSE IF s.cur = 0 /\ ~s.starting THEN beginStart(queued) ELSE queued
  <2>. HIDE DEF queued
  <2>. QED  BY Zenon DEF enqueueHost, queued
<1>. QED  BY <1>1, <1>2, <1>3, <1>4

\* A frame that was not written goes back to the front of the queue, or is
\* rejected.
LEMMA RetainGood ==
  ASSUME NEW s, NEW W, NEW G, NEW A, RunnerOk(s, W, G, A), ~s.terminal,
         NEW f, HandFrame(s, f, W, G, A), f.k # "initialize", s.state # "dormant"
  PROVE  Good(s, retainAfterNotWritten(s, f), HandIds(f), W, G, A)
<1>. DEFINE t == retainAfterNotWritten(s, f)
            e == [f |-> f, same |-> FALSE]
            x == <<e>> \o s.pending
<1>1. CASE Len(s.pending) < QueueCap
  <2>1. t = [s EXCEPT !.pending = x]
    BY <1>1 DEF retainAfterNotWritten, pushFront
  <2>2. x \in Seq(Entry) /\ Len(x) <= QueueCap
    <3>1. e \in Entry
      BY DEF HandFrame, Entry
    <3>2. s.pending \in Seq(Entry) /\ Len(s.pending) \in Nat
      BY DEF RunnerOk, Shape
    <3>3. QueueCap \in Nat
      BY SupervisorAssumption
    <3>. HIDE DEF e
    <3>. QED  BY <1>1, <3>1, <3>2, <3>3
  <2>. HIDE DEF x, t
  <2>3. /\ Shape(t) /\ Stays(s, t) /\ t.pending = x /\ t.host = s.host
        /\ t.child = s.child /\ t.told = s.told /\ t.wrote = s.wrote
        /\ t.toHost = s.toHost /\ t.toChild = s.toChild
    BY <2>1, <2>2 DEF RunnerOk, Shape, IsRunner, RunnerFields, Stays
  <2>4. Good(s, t, HandIds(f), W, G, A)
    BY <2>3, EnterOk DEF Stays, x, e
  <2>. QED  BY <2>4 DEF t
<1>2. CASE ~(Len(s.pending) < QueueCap) /\ f.k = "request"
  BY <1>2, HandRejectGood DEF retainAfterNotWritten
<1>3. CASE ~(Len(s.pending) < QueueCap) /\ f.k # "request"
  <2>1. HandIds(f) = {} /\ t = s
    BY <1>3 DEF HandIds, retainAfterNotWritten
  <2>. QED  BY <2>1, KeptItself
<1>. QED  BY <1>1, <1>2, <1>3
-----------------------------------------------------------------------------
(* Requests that are closed, and generations that are retired *)

\* The engine has no request under the identifier, but for a withdrawn one.
Unheld(s, id, W, G) ==
  id \in W \/ \A g \in G \cup s.toChild : g.k = "request" => g.id # id

Closing(s, t, id) == t.host.requests = Drop(s.host.requests, {id})

OffBooks(s, t, id) == OnBooks(t) = OnBooks(s) \ {id}

\* A request of the host is taken off the open ones.
LEMMA CloseOk ==
  ASSUME NEW s, NEW t, NEW W, NEW G, NEW A, NEW id, RunnerOk(s, W, G, A), ~s.terminal,
         Shape(t), Stays(s, t), t.pending = s.pending, t.child = s.child,
         t.toHost = s.toHost, t.toChild = s.toChild,
         id \in Open(s), Closing(s, t, id),
         Unheld(s, id, W, G)
  PROVE  /\ RunnerOk(t, W, G, A) /\ Engines(s, t) /\ QueuedIds(t) = QueuedIds(s)
         /\ OffBooks(s, t, id)
<1>1. /\ Open(t) = Open(s) \ {id}
      /\ \A x \in Open(t) : t.host.requests[x] = s.host.requests[x]
  BY DEF Open, Drop, Restrict, Closing
<1>2. QueuedIds(t) = QueuedIds(s)
  BY DEF QueuedIds
<1>3. Engine(t) /\ Registers(t)
  BY <1>1 DEF RunnerOk, Stays, Engine, Registers, Serving
<1>4. Queue(t, W)
  BY <1>1 DEF RunnerOk, Stays, Queue, HostFrameOk
<1>5. Lifecycle(t)
  BY DEF RunnerOk, Stays, Lifecycle
<1>6. GotOk(t, W, G)
  BY <1>1, <1>2 DEF RunnerOk, Stays, GotOk, Unheld
<1>7. HoldersOk(t, A)
  BY DEF RunnerOk, Stays, HoldersOk, Due
<1>8. Engines(s, t)
  BY DEF Engines, Spare, Stays, RunnerOk, Shape
<1>9. id \in HostReq /\ id \notin QueuedIds(s) /\ InitId \notin HostReq
  <2>1. InitId \notin HostReq
    BY SupervisorAssumption
  <2>2. \A j \in DOMAIN s.pending : s.pending[j].f.k = "request" => s.pending[j].f.id \notin Open(s)
    BY DEF RunnerOk, Queue
  <2>. QED  BY <2>1, <2>2 DEF RunnerOk, Registers, QueuedIds
<1>10. OffBooks(s, t, id)
  BY <1>1, <1>2, <1>9 DEF OffBooks, OnBooks, Stays
<1>. QED  BY <1>2, <1>3, <1>4, <1>5, <1>6, <1>7, <1>8, <1>10 DEF RunnerOk

\* A change of the host's registry alone.
LEMMA HostRegistryFacts ==
  ASSUME NEW s, Shape(s), NEW g, IsRegistry(g)
  PROVE  LET t == [s EXCEPT !.host = g]
         IN  /\ Shape(t) /\ Stays(s, t) /\ t.host = g /\ t.child = s.child
             /\ t.pending = s.pending /\ t.toHost = s.toHost /\ t.toChild = s.toChild
             /\ t.told = s.told /\ t.wrote = s.wrote
BY DEF Shape, IsRunner, RunnerFields, Stays

\* The same of the registry of the engine's requests.
LEMMA ChildRegistryFacts ==
  ASSUME NEW s, Shape(s), NEW g, IsRegistry(g)
  PROVE  LET t == [s EXCEPT !.child = g]
         IN  /\ Shape(t) /\ Stays(s, t) /\ t.child = g /\ t.host = s.host
             /\ t.pending = s.pending /\ t.toHost = s.toHost /\ t.toChild = s.toChild
             /\ t.told = s.told /\ t.wrote = s.wrote
BY DEF Shape, IsRunner, RunnerFields, Stays

\* A finished modern request is not open any more.
LEMMA FinishModernFacts ==
  ASSUME NEW s, Shape(s), NEW id
  PROVE  LET t == finishModernRequest(s, id)
         IN  /\ Shape(t) /\ Stays(s, t) /\ t.child = s.child
             /\ t.host.requests = Drop(s.host.requests, {id})
             /\ t.pending = s.pending /\ t.toHost = s.toHost /\ t.toChild = s.toChild
             /\ t.told = s.told /\ t.wrote = s.wrote
<1>. DEFINE g == s.host
            x == Drop(g.requests, {id})
            rec == g.requests[id]
            y == IF rec.tok THEN Drop(g.tokens, {id}) ELSE g.tokens
            h == [g EXCEPT !.requests = x, !.tokens = y]
<1>1. IsRegistry(g)
  BY DEF Shape
<1>2. finishModernRequest(s, id) = [s EXCEPT !.host = h]
  <2>. DEFINE k == [g EXCEPT !.requests = x]
  <2>1. k.tokens = g.tokens
    BY <1>1 DEF IsRegistry, RegistryFields
  <2>2. finishModernRequest(s, id)
          = [s EXCEPT !.host = [k EXCEPT !.tokens = IF rec.tok THEN Drop(k.tokens, {id}) ELSE k.tokens]]
    BY DEF finishModernRequest, removeToken
  <2>3. (IF rec.tok THEN Drop(k.tokens, {id}) ELSE k.tokens) = y
    BY <2>1
  <2>4. h = [k EXCEPT !.tokens = y]
    OBVIOUS
  <2>. HIDE DEF k, y, h
  <2>. QED  BY <2>2, <2>3, <2>4
<1>. HIDE DEF x, y
<1>3. IsRegistry(h) /\ h.requests = x
  BY <1>1 DEF IsRegistry, RegistryFields
<1>. HIDE DEF h
<1>. QED  BY <1>2, <1>3, HostRegistryFacts DEF x

\* A withdrawn request is closed.
LEMMA CancelRequestGood ==
  ASSUME NEW s, NEW W, NEW G, NEW A, RunnerOk(s, W, G, A), ~s.terminal,
         NEW id \in W, id \in Open(s)
  PROVE  LET t == CancelRequest(s, id)
         IN  Good(s, t, {}, W, G, A) /\ (~t.terminal => Stays(s, t))
<1>1. Shape(s) /\ IsRegistry(s.host)
  BY DEF RunnerOk, Shape
<1>2. ASSUME NEW t, Shape(t), Stays(s, t), t.pending = s.pending, t.child = s.child,
             t.toHost = s.toHost, t.toChild = s.toChild, t.told = s.told, t.wrote = s.wrote,
             t.host.requests = Drop(s.host.requests, {id})
      PROVE  Good(s, t, {}, W, G, A)
  <2>1. /\ RunnerOk(t, W, G, A) /\ Engines(s, t) /\ QueuedIds(t) = QueuedIds(s)
        /\ OffBooks(s, t, id)
    <3>1. Unheld(s, id, W, G) /\ Closing(s, t, id)
      BY <1>2 DEF Unheld, Closing
    <3>. QED  BY <1>2, <3>1, CloseOk
  <2>2. Answers(s, t, {}, W) /\ Writes(s, t, {})
    BY <1>2, <2>1 DEF Answers, Writes, OffBooks
  <2>. QED  BY <1>2, <2>1, <2>2 DEF Good, Kept, Stays
<1>3. CASE s.modern
  <2>. DEFINE t == finishModernRequest(s, id)
  <2>1. /\ Shape(t) /\ Stays(s, t) /\ t.child = s.child
        /\ t.host.requests = Drop(s.host.requests, {id})
        /\ t.pending = s.pending /\ t.toHost = s.toHost /\ t.toChild = s.toChild
        /\ t.told = s.told /\ t.wrote = s.wrote
    BY <1>1, FinishModernFacts
  <2>. HIDE DEF t
  <2>2. Good(s, t, {}, W, G, A)
    BY <1>2, <2>1
  <2>. QED  BY <1>3, <2>1, <2>2 DEF t, CancelRequest
<1>4. CASE ~s.modern
  <2>. DEFINE g == cancel(s.host, id)
              t == [s EXCEPT !.host = g]
  <2>1. Closes(s.host, g, id)
    BY <1>1, CancelCloses
  <2>. HIDE DEF g
  <2>2. /\ Shape(t) /\ Stays(s, t) /\ t.host = g /\ t.child = s.child
        /\ t.pending = s.pending /\ t.toHost = s.toHost /\ t.toChild = s.toChild
        /\ t.told = s.told /\ t.wrote = s.wrote
    BY <1>1, <2>1, HostRegistryFacts DEF Closes
  <2>. HIDE DEF t
  <2>3. Good(s, t, {}, W, G, A)
    <3>1. CASE t.host.requests = s.host.requests
      BY <2>2, <3>1, SteadyGood DEF Steady, Alike
    <3>2. CASE t.host.requests = Drop(s.host.requests, {id})
      BY <1>2, <2>2, <3>2
    <3>. QED  BY <2>1, <2>2, <3>1, <3>2 DEF Closes
  <2>4. ~t.terminal
    BY <2>2 DEF Stays
  <2>5. Good(s, EndOnError(t), {}, W, G, A)
    BY <1>1, <2>3, <2>4, EndOnErrorGood DEF Good
  <2>6. EndOnError(t).terminal \/ EndOnError(t) = t
    BY <2>3, TerminateGood DEF EndOnError, Good
  <2>7. CancelRequest(s, id) = EndOnError(t)
    BY <1>4 DEF CancelRequest, t, g
  <2>. QED  BY <2>2, <2>5, <2>6, <2>7
<1>. QED  BY <1>3, <1>4

CommitStep(s, t, n) ==
  LET p == s.pending[n]
  IN  IF p.same /\ p.f.k = "cancel" /\ ~t.terminal /\ Cancellable(t, p.f.id)
      THEN CancelRequest(t, p.f.id) ELSE t
IsCommit(g, s, N) == g = [n \in 0 .. N |-> IF n = 0 THEN s ELSE CommitStep(s, g[n - 1], n)]

\* commitQuiescingCancellations as an equation.
LEMMA CommitDef ==
  ASSUME NEW s, NEW N \in Nat
  PROVE  \E g : IsCommit(g, s, N)
<1>. DEFINE S == {m \in Nat : \E g : IsCommit(g, s, m)}
<1>1. 0 \in S
  <2>1. IsCommit([n \in 0 .. 0 |-> s], s, 0)
    BY DEF IsCommit
  <2>. QED  BY <2>1
<1>2. ASSUME NEW m \in S PROVE m + 1 \in S
  <2>1. PICK g : IsCommit(g, s, m)
    OBVIOUS
  <2>. DEFINE h == [n \in 0 .. m + 1 |-> IF n = m + 1 THEN CommitStep(s, g[m], n) ELSE g[n]]
  <2>2. \A n \in 0 .. m + 1 : h[n] = IF n = 0 THEN s ELSE CommitStep(s, h[n - 1], n)
    BY <2>1 DEF IsCommit
  <2>3. h = [n \in 0 .. m + 1 |-> h[n]]
    OBVIOUS
  <2>. HIDE DEF h
  <2>4. IsCommit(h, s, m + 1)
    BY <2>2, <2>3 DEF IsCommit
  <2>5. m + 1 \in Nat
    OBVIOUS
  <2>. QED  BY <2>4, <2>5
<1>3. S = Nat
  <2>1. S \in SUBSET Nat
    OBVIOUS
  <2>. HIDE DEF S
  <2>. QED  BY <1>1, <1>2, <2>1, SetInduction
<1>. QED  BY <1>3

\* Cancellations held back while the engine was leaving close their requests.
LEMMA CommitGood ==
  ASSUME NEW s, NEW W, NEW G, NEW A, RunnerOk(s, W, G, A), ~s.terminal
  PROVE  LET t == commitQuiescingCancellations(s)
         IN  Good(s, t, {}, W, G, A) /\ (~t.terminal => Stays(s, t))
<1>. DEFINE N == Len(s.pending)
            g == CHOOSE x : IsCommit(x, s, N)
            P(t) == Good(s, t, {}, W, G, A) /\ (~t.terminal => Stays(s, t))
            T == {n \in Nat : n <= N => P(g[n])}
<1>1. N \in Nat /\ s.pending \in Seq(Entry) /\ DOMAIN s.pending = 1 .. N
  BY DEF RunnerOk, Shape
<1>2. \E x : IsCommit(x, s, N)
  <2>. HIDE DEF N
  <2>. QED  BY <1>1, CommitDef
<1>3. IsCommit(g, s, N)
  BY <1>2
<1>4. commitQuiescingCancellations(s) = g[N]
  BY DEF commitQuiescingCancellations, Repeated, IsCommit, CommitStep
<1>. HIDE DEF g, N
<1>5. g[0] = s /\ \A n \in 1 .. N : g[n] = CommitStep(s, g[n - 1], n)
  <2>1. \A n \in 0 .. N : g[n] = IF n = 0 THEN s ELSE CommitStep(s, g[n - 1], n)
    BY <1>3, Zenon DEF IsCommit
  <2>2. 0 \in 0 .. N /\ \A n \in 1 .. N : n \in 0 .. N /\ n # 0
    BY <1>1
  <2>. QED  BY <2>1, <2>2, Zenon
<1>6. 0 \in T
  <2>1. P(s)
    BY KeptItself DEF Stays
  <2>. QED  BY <1>5, <2>1
<1>7. ASSUME NEW n \in T PROVE n + 1 \in T
  <2>1. SUFFICES ASSUME n + 1 <= N PROVE P(g[n + 1])
    OBVIOUS
  <2>2. n \in Nat /\ P(g[n]) /\ n + 1 \in 1 .. N /\ (n + 1) - 1 = n
    BY <1>1, <2>1
  <2>. DEFINE t == g[n]
              p == s.pending[n + 1]
  <2>3. g[n + 1] = CommitStep(s, t, n + 1)
    BY <1>5, <2>2
  <2>4. P(t)
    BY <2>2
  <2>. HIDE DEF t
  <2>5. CASE ~(p.same /\ p.f.k = "cancel" /\ ~t.terminal /\ Cancellable(t, p.f.id))
    BY <2>3, <2>4, <2>5 DEF CommitStep
  <2>6. CASE p.same /\ p.f.k = "cancel" /\ ~t.terminal /\ Cancellable(t, p.f.id)
    <3>1. p.f.id \in W
      BY <1>1, <2>2, <2>6 DEF RunnerOk, Queue, HostFrameOk
    <3>2. p.f.id \in Open(t)
      BY <2>6 DEF Cancellable, Open
    <3>. DEFINE u == CancelRequest(t, p.f.id)
    <3>3. Good(t, u, {}, W, G, A) /\ (~u.terminal => Stays(t, u))
      BY <2>4, <2>6, <3>1, <3>2, CancelRequestGood DEF Good
    <3>4. g[n + 1] = u
      BY <2>3, <2>6 DEF CommitStep
    <3>. HIDE DEF u, p
    <3>5. Good(s, u, {}, W, G, A)
      BY <2>4, <2>6, <3>3, GoodChain DEF RunnerOk
    <3>6. ~u.terminal => Stays(s, u)
      BY <2>4, <2>6, <3>3 DEF Stays
    <3>. QED  BY <3>4, <3>5, <3>6
  <2>. QED  BY <2>5, <2>6
<1>8. T = Nat
  <2>1. T \in SUBSET Nat
    OBVIOUS
  <2>. HIDE DEF T
  <2>. QED  BY <1>6, <1>7, <2>1, SetInduction
<1>9. P(g[N])
  BY <1>1, <1>8
<1>. QED  BY <1>4, <1>9

\* The registries of a runner after the retirement of its engine.
Retired(s) == [s EXCEPT !.host = retireGenerationChecked(s.host, s.cur),
                        !.child = retireGenerationChecked(s.child, s.cur)]

\* Both registries have retired the generation, or one reports an error.
LEMMA RetiredFacts ==
  ASSUME NEW s, Shape(s), Registers(s)
  PROVE  LET h == Retired(s)
         IN  /\ Shape(h) /\ Registers(h) /\ Stays(s, h) /\ h.pending = s.pending
             /\ h.told = s.told /\ h.wrote = s.wrote
             /\ h.toHost = s.toHost /\ h.toChild = s.toChild
             /\ ~h.host.err => Open(h) = {}
             /\ ~h.child.err => /\ DOMAIN h.child.requests = {}
                                /\ DOMAIN s.child.requests \cup DOMAIN s.child.retiredRequests
                                     \subseteq DOMAIN h.child.retiredRequests
<1>. DEFINE h == Retired(s)
            x == retireGenerationChecked(s.host, s.cur)
            y == retireGenerationChecked(s.child, s.cur)
            R == OfGeneration(s.host.requests, s.cur)
            Q == OfGeneration(s.child.requests, s.cur)
<1>1. IsRegistry(s.host) /\ IsRegistry(s.child)
  BY DEF Shape
<1>2. /\ IsRegistry(x)
      /\ \/ x.err /\ x.requests = s.host.requests
         \/ x.requests = Drop(s.host.requests, R)
  BY <1>1, RetireGenerationFacts
<1>3. /\ IsRegistry(y)
      /\ \/ y.err /\ y.requests = s.child.requests /\ y.retiredRequests = s.child.retiredRequests
         \/ /\ y.requests = Drop(s.child.requests, Q)
            /\ y.retiredRequests = Over(Restrict(s.child.requests, Q), s.child.retiredRequests)
  BY <1>1, RetireGenerationFacts
<1>4. R = DOMAIN s.host.requests /\ Q = DOMAIN s.child.requests
  BY DEF Registers, OfGeneration, Open
<1>. HIDE DEF x, y, R, Q
<1>5. h = [s EXCEPT !.host = x, !.child = y]
  BY DEF Retired, x, y
<1>. HIDE DEF h
<1>6. /\ Shape(h) /\ Stays(s, h) /\ h.pending = s.pending
      /\ h.told = s.told /\ h.wrote = s.wrote
      /\ h.toHost = s.toHost /\ h.toChild = s.toChild /\ h.host = x /\ h.child = y
  BY <1>2, <1>3, <1>5, ZenonT(40) DEF Shape, IsRunner, RunnerFields, Stays
<1>7. (x.err /\ x.requests = s.host.requests) \/ DOMAIN x.requests = {}
  BY <1>2, <1>4 DEF Drop, Restrict
<1>8. \/ y.err /\ y.requests = s.child.requests /\ y.retiredRequests = s.child.retiredRequests
      \/ /\ DOMAIN y.requests = {}
         /\ DOMAIN y.retiredRequests = DOMAIN s.child.requests \cup DOMAIN s.child.retiredRequests
  <2>1. CASE /\ y.requests = Drop(s.child.requests, Q)
             /\ y.retiredRequests = Over(Restrict(s.child.requests, Q), s.child.retiredRequests)
    <3>1. DOMAIN y.requests = {}
      BY <1>4, <2>1 DEF Drop, Restrict
    <3>2. DOMAIN Restrict(s.child.requests, Q) = DOMAIN s.child.requests
      BY <1>4 DEF Restrict
    <3>3. DOMAIN y.retiredRequests = DOMAIN s.child.requests \cup DOMAIN s.child.retiredRequests
      BY <2>1, <3>2 DEF Over
    <3>. QED  BY <3>1, <3>3
  <2>. QED  BY <1>3, <2>1
<1>9. Registers(h)
  BY <1>6, <1>7, <1>8 DEF Registers, Open, Stays
<1>10. ~h.host.err => Open(h) = {}
  BY <1>6, <1>7 DEF Open
<1>11. ~h.child.err => /\ DOMAIN h.child.requests = {}
                       /\ DOMAIN s.child.requests \cup DOMAIN s.child.retiredRequests
                            \subseteq DOMAIN h.child.retiredRequests
  BY <1>6, <1>8
<1>. QED  BY <1>6, <1>9, <1>10, <1>11 DEF h

\* The retirement ends the session, or the host has been told of all its open
\* requests and the registries are free of them.
LEMMA RetireCurrentFacts ==
  ASSUME NEW s, NEW W, NEW G, NEW A, RunnerOk(s, W, G, A), ~s.terminal
  PROVE  LET c == RetireCurrent(s)
         IN  \/ c.terminal /\ Good(s, c, {}, W, G, A)
             \/ /\ ~c.terminal /\ Shape(c) /\ Registers(c) /\ Stays(s, c)
                /\ c.pending = s.pending
                /\ c.told = [i \in Ids |-> s.told[i] + IF i \in Open(s) THEN 1 ELSE 0]
                /\ c.wrote = s.wrote /\ c.toHost = s.toHost /\ c.toChild = s.toChild
                /\ Open(c) = {} /\ DOMAIN c.child.requests = {}
                /\ DOMAIN s.child.requests \cup DOMAIN s.child.retiredRequests
                     \subseteq DOMAIN c.child.retiredRequests
<1>. DEFINE h == Retired(s)
            c == RetireCurrent(s)
            lost == OfGeneration(s.host.requests, s.cur)
            told == [i \in Ids |-> s.told[i] + IF i \in Open(s) THEN 1 ELSE 0]
<1>0. Shape(s) /\ Registers(s) /\ Engine(s)
  BY DEF RunnerOk
<1>1. /\ Shape(h) /\ Registers(h) /\ Stays(s, h) /\ h.pending = s.pending
      /\ h.told = s.told /\ h.wrote = s.wrote
      /\ h.toHost = s.toHost /\ h.toChild = s.toChild
      /\ ~h.host.err => Open(h) = {}
      /\ ~h.child.err => /\ DOMAIN h.child.requests = {}
                         /\ DOMAIN s.child.requests \cup DOMAIN s.child.retiredRequests
                              \subseteq DOMAIN h.child.retiredRequests
  BY <1>0, RetiredFacts
<1>2. lost = Open(s)
  BY <1>0 DEF Registers, OfGeneration, Open
<1>3. c = IF EndOnError(h).terminal THEN EndOnError(h) ELSE rejectLost(EndOnError(h), lost)
  BY DEF RetireCurrent, Then, Retired
<1>. HIDE DEF h, lost, c
<1>4. ASSUME c = terminate(h) PROVE c.terminal /\ Good(s, c, {}, W, G, A)
  <2>1. /\ Shape(c) /\ c.terminal
        /\ c.state = h.state /\ c.modern = h.modern /\ c.gen = h.gen /\ c.cur = h.cur
        /\ c.starting = h.starting /\ c.exit = h.exit /\ c.live = h.live /\ c.lease = h.lease
        /\ c.host = h.host /\ c.child = h.child /\ c.initReq = h.initReq
        /\ c.told = h.told /\ c.wrote = h.wrote /\ c.toChild = h.toChild
    BY <1>1, <1>4 DEF terminate, Shape, IsRunner, RunnerFields
  <2>2. RunnerOk(c, W, G, A)
    BY <1>0, <1>1, <2>1 DEF RunnerOk, Engine, Registers, Open, Stays
  <2>3. Kept(s, c, {}, W)
    BY <1>0, <1>1, <2>1 DEF Shape, Kept, Engines, Answers, Writes, Stays
  <2>. QED  BY <2>1, <2>2, <2>3 DEF Good
<1>5. h.host.err \/ h.child.err => c = terminate(h)
  <2>1. terminate(h).terminal
    BY <1>1 DEF terminate, Shape, IsRunner, RunnerFields
  <2>. QED  BY <1>3, <2>1 DEF EndOnError
<1>6. ASSUME ~h.host.err, ~h.child.err
      PROVE  c = terminate(h) \/ c = [h EXCEPT !.told = told]
  <2>1. EndOnError(h) = h /\ ~h.terminal
    BY <1>1, <1>6 DEF EndOnError, Stays
  <2>2. c = rejectLost(h, lost)
    BY <1>3, <2>1
  <2>. DEFINE y == [i \in Ids |-> h.told[i] + IF i \in lost THEN 1 ELSE 0]
  <2>3. c = terminate(h) \/ ((lost = {} \/ h.fate.host) /\ c = [h EXCEPT !.told = y])
    BY <2>2 DEF rejectLost
  <2>4. y = told
    BY <1>1, <1>2
  <2>. HIDE DEF told, y
  <2>. QED  BY <2>3, <2>4
<1>7. ASSUME ~h.host.err, ~h.child.err, c = [h EXCEPT !.told = told]
      PROVE  /\ ~c.terminal /\ Shape(c) /\ Registers(c) /\ Stays(s, c)
             /\ c.pending = s.pending
             /\ c.told = told
             /\ c.wrote = s.wrote /\ c.toHost = s.toHost /\ c.toChild = s.toChild
             /\ Open(c) = {} /\ DOMAIN c.child.requests = {}
             /\ DOMAIN s.child.requests \cup DOMAIN s.child.retiredRequests
                     \subseteq DOMAIN c.child.retiredRequests
  <2>1. told \in [Ids -> Nat]
    BY <1>0 DEF Shape
  <2>. HIDE DEF told
  <2>2. /\ Shape(c) /\ Stays(h, c) /\ c.pending = h.pending /\ c.told = told
        /\ c.wrote = h.wrote /\ c.toHost = h.toHost /\ c.toChild = h.toChild
        /\ c.host = h.host /\ c.child = h.child
    BY <1>1, <1>7, <2>1, ZenonT(40) DEF Shape, IsRunner, RunnerFields, Stays
  <2>3. Registers(c) /\ Stays(s, c) /\ ~c.terminal
    BY <1>1, <2>2 DEF Registers, Open, Stays
  <2>. QED  BY <1>1, <1>7, <2>2, <2>3 DEF Open
<1>. QED  BY <1>4, <1>5, <1>6, <1>7 DEF c

\* The engine is gone: the session ends, or the runner is without an engine.
LEMMA RetireGood ==
  ASSUME NEW s, NEW W, NEW G, NEW A, RunnerOk(s, W, G, A), ~s.terminal, s.state \notin Serving
  PROVE  LET c == RetireCurrent(s)
             e == finalizeCurrent(c)
         IN  \/ c.terminal /\ Good(s, c, {}, W, G, A)
             \/ /\ ~c.terminal /\ Good(s, e, {}, W, G, A)
                /\ ~e.terminal => /\ e.cur = 0 /\ e.state = s.state /\ e.starting = s.starting
                                  /\ e.awaiting = s.awaiting /\ e.initReq = s.initReq
                                  /\ e.modern = s.modern /\ e.pending = s.pending
<1>. DEFINE c == RetireCurrent(s)
            e == finalizeCurrent(c)
            told == [i \in Ids |-> s.told[i] + IF i \in Open(s) THEN 1 ELSE 0]
<1>1. CASE c.terminal
  BY <1>1, RetireCurrentFacts
<1>2. CASE ~c.terminal
  <2>1. /\ Shape(c) /\ Registers(c) /\ Stays(s, c)
        /\ c.pending = s.pending
        /\ c.told = told
        /\ c.wrote = s.wrote /\ c.toHost = s.toHost /\ c.toChild = s.toChild
        /\ Open(c) = {} /\ DOMAIN c.child.requests = {}
        /\ DOMAIN s.child.requests \cup DOMAIN s.child.retiredRequests
             \subseteq DOMAIN c.child.retiredRequests
    BY <1>2, RetireCurrentFacts
  <2>2. s.told \in [Ids -> Nat] /\ s.live \in Int /\ Engine(s) /\ Registers(s) /\ Shape(s)
    BY DEF RunnerOk, Shape
  <2>3. \A i \in Ids : told[i] = s.told[i] + IF i \in Open(s) THEN 1 ELSE 0
    OBVIOUS
  <2>. HIDE DEF c, e, told
  <2>4. CASE c.cur # 0 /\ (c.exit = "unproven" \/ ~c.fate.proof)
    <3>1. e = terminate(c)
      BY <2>4 DEF e, finalizeCurrent
    <3>2. /\ Shape(e) /\ e.terminal
          /\ e.state = c.state /\ e.modern = c.modern /\ e.gen = c.gen /\ e.cur = c.cur
          /\ e.starting = c.starting /\ e.exit = c.exit /\ e.live = c.live /\ e.lease = c.lease
          /\ e.host = c.host /\ e.child = c.child /\ e.initReq = c.initReq
          /\ e.told = c.told /\ e.wrote = c.wrote /\ e.toChild = c.toChild
      BY <2>1, <3>1 DEF terminate, Shape, IsRunner, RunnerFields
    <3>3. RunnerOk(e, W, G, A)
      BY <2>1, <2>2, <3>2 DEF RunnerOk, Engine, Registers, Open, Stays
    <3>4. Answers(s, e, {}, W)
      BY <2>1, <2>2, <2>3, <3>2 DEF Answers, OnBooks
    <3>5. Engines(s, e) /\ Writes(s, e, {})
      BY <2>1, <2>2, <3>2 DEF Engines, Writes, Stays, Shape
    <3>. QED  BY <1>2, <2>1, <3>2, <3>3, <3>4, <3>5 DEF Good, Kept, Stays, c, e
  <2>5. CASE c.cur = 0 \/ ~(c.exit = "unproven" \/ ~c.fate.proof)
    <3>1. /\ Shape(e) /\ e.cur = 0 /\ e.exit = "no" /\ e.pending = s.pending
          /\ e.live = IF s.cur # 0 /\ s.exit = "no" THEN s.live - 1 ELSE s.live
          /\ e.host = c.host /\ e.child = c.child /\ e.told = told /\ e.wrote = s.wrote
          /\ e.toHost = s.toHost /\ e.toChild = s.toChild
          /\ e.state = s.state /\ e.modern = s.modern /\ e.gen = s.gen
          /\ e.starting = s.starting /\ e.leaseT = s.leaseT
          /\ e.initReq = s.initReq /\ e.awaiting = s.awaiting /\ e.initialized = s.initialized
          /\ e.terminal = s.terminal /\ e.lease = s.lease
          /\ (s.cur # 0 => s.exit # "unproven")
      <4>1. CASE c.cur = 0
        <5>1. e = c
          BY <4>1 DEF e, finalizeCurrent
        <5>. QED  BY <2>1, <2>2, <4>1, <5>1 DEF Stays, Engine
      <4>2. CASE c.cur # 0 /\ ~(c.exit = "unproven" \/ ~c.fate.proof)
        <5>. DEFINE v == IF c.exit = "no" THEN c.live - 1 ELSE c.live
        <5>1. e = [c EXCEPT !.cur = 0, !.exit = "no", !.output = "open", !.evExit = FALSE,
                            !.evOutput = FALSE, !.live = v]
          BY <4>2 DEF e, finalizeCurrent
        <5>2. v \in Int /\ v = IF s.cur # 0 /\ s.exit = "no" THEN s.live - 1 ELSE s.live
          BY <2>1, <2>2, <4>2 DEF Stays
        <5>. HIDE DEF v
        <5>3. Shape(e)
          <6>1. c.gen \in Nat /\ v \in Int
            BY <2>1, <5>2 DEF Shape
          <6>3. IsRunner(c)
            BY <2>1 DEF Shape
          <6>4. IsRunner(e)
            BY <5>1, <6>3, ZenonT(40) DEF IsRunner, RunnerFields
          <6>2. /\ e.host = c.host /\ e.child = c.child
                /\ e.gen = c.gen /\ e.cur = 0 /\ e.live = v /\ e.state = c.state
                /\ e.pending = c.pending /\ e.told = c.told /\ e.wrote = c.wrote
                /\ e.fate = c.fate /\ e.toHost = c.toHost /\ e.toChild = c.toChild
            BY <5>1, <6>3 DEF IsRunner, RunnerFields
          <6>. QED  BY <2>1, <6>1, <6>2, <6>4 DEF Shape
        <5>4. /\ e.cur = 0 /\ e.exit = "no" /\ e.pending = c.pending
              /\ e.live = v
              /\ e.host = c.host /\ e.child = c.child /\ e.told = c.told /\ e.wrote = c.wrote
              /\ e.toHost = c.toHost /\ e.toChild = c.toChild
              /\ e.state = c.state /\ e.modern = c.modern /\ e.gen = c.gen
              /\ e.starting = c.starting /\ e.leaseT = c.leaseT
              /\ e.initReq = c.initReq /\ e.awaiting = c.awaiting /\ e.initialized = c.initialized
              /\ e.terminal = c.terminal /\ e.lease = c.lease
          BY <2>1, <5>1 DEF Shape, IsRunner, RunnerFields
        <5>. QED  BY <2>1, <4>2, <5>2, <5>3, <5>4 DEF Stays
      <4>. QED  BY <2>5, <4>1, <4>2
    <3>2. Engine(e) /\ Registers(e)
      BY <2>1, <3>1 DEF Engine, Registers, Open
    <3>3. QueuedIds(e) = QueuedIds(s)
      BY <3>1 DEF QueuedIds
    <3>4. Open(e) = {} /\ \A a : Due(s, a) => Due(e, a)
      BY <2>1, <3>1 DEF Open, Due
    <3>5. Queue(e, W)
      BY <3>1, <3>4 DEF RunnerOk, Queue, HostFrameOk
    <3>6. Lifecycle(e)
      BY <3>1 DEF RunnerOk, Lifecycle
    <3>7. GotOk(e, W, G)
      BY <3>1 DEF GotOk
    <3>8. HoldersOk(e, A)
      BY <3>1, <3>4 DEF RunnerOk, HoldersOk
    <3>9. RunnerOk(e, W, G, A)
      BY <3>1, <3>2, <3>5, <3>6, <3>7, <3>8 DEF RunnerOk
    <3>10. Spare(e) = Spare(s) /\ e.live <= s.live
      BY <2>2, <3>1 DEF Spare, Engine
    <3>11. Engines(s, e)
      BY <3>1, <3>10 DEF Engines
    <3>12. Answers(s, e, {}, W)
      <4>1. \A i \in OnBooks(e) : i \in OnBooks(s) /\ i \notin Open(s)
        <5>1. InitId \notin HostReq
          BY SupervisorAssumption
        <5>2. \A i \in QueuedIds(s) : i \notin Open(s)
          BY DEF RunnerOk, Queue, QueuedIds
        <5>. QED  BY <2>2, <3>1, <3>3, <3>4, <5>1, <5>2 DEF OnBooks, Registers
      <4>2. \A i \in OnBooks(s) : i \notin OnBooks(e) => i \in Open(s)
        BY <3>1, <3>3, <3>4 DEF OnBooks
      <4>3. \A i \in OnBooks(e) : i \in Ids
        <5>1. \A i \in QueuedIds(s) : i \in HostReq
          BY DEF RunnerOk, Queue, QueuedIds, HostFrameOk
        <5>. QED  BY <3>3, <3>4, <5>1 DEF OnBooks, Ids
      <4>4. \A i \in Open(s) : i \in OnBooks(s)
        BY DEF OnBooks
      <4>. QED  BY <2>2, <2>3, <3>1, <4>1, <4>2, <4>3, <4>4 DEF Answers
    <3>13. Writes(s, e, {})
      BY <3>1, <3>3 DEF Writes
    <3>. QED  BY <1>2, <3>1, <3>9, <3>11, <3>12, <3>13 DEF Good, Kept, c, e
  <2>. QED  BY <2>4, <2>5
<1>. QED  BY <1>1, <1>2

\* A runner that keeps its engine moves to another state.
LEMMA MoveOk ==
  ASSUME NEW s, NEW t, NEW W, NEW G, NEW A, RunnerOk(s, W, G, A), ~s.terminal, Shape(t),
         t.modern = s.modern, t.gen = s.gen, t.cur = s.cur, t.starting = s.starting,
         t.initReq = s.initReq, t.awaiting = s.awaiting, t.initialized = s.initialized,
         t.exit = s.exit, t.live = s.live, t.terminal = s.terminal, t.lease = s.lease,
         t.pending = s.pending, t.host.requests = s.host.requests,
         t.child.requests = s.child.requests,
         t.child.retiredRequests = s.child.retiredRequests,
         t.told = s.told, t.wrote = s.wrote, t.toHost = s.toHost, t.toChild = s.toChild,
         t.state # "dormant", t.state \in Serving => s.cur # 0,
         t.state = "replaying" => s.initReq,
         t.state \in {"quiescing", "awaiting_exit"} => (s.modern \/ s.initReq) /\ ~s.awaiting,
         \/ t.state \in {"replaying", "finalizing"}
         \/ \A f \in G \cup s.toChild : f.k # "initialize"
  PROVE  Good(s, t, {}, W, G, A)
<1>1. Engine(t) /\ Registers(t)
  BY DEF RunnerOk, Engine, Registers, Open
<1>2. QueuedIds(t) = QueuedIds(s) /\ OnBooks(t) = OnBooks(s) /\ Open(t) = Open(s)
  BY DEF QueuedIds, OnBooks, Open
<1>3. Queue(t, W)
  BY <1>2 DEF RunnerOk, Queue, HostFrameOk
<1>4. Lifecycle(t)
  BY DEF RunnerOk, Lifecycle
<1>5. GotOk(t, W, G)
  BY <1>2 DEF RunnerOk, GotOk
<1>6. HoldersOk(t, A)
  BY DEF RunnerOk, HoldersOk, Due
<1>7. Engines(s, t)
  BY DEF RunnerOk, Shape, Engines, Spare
<1>8. Answers(s, t, {}, W) /\ Writes(s, t, {})
  BY <1>2 DEF Answers, Writes
<1>. QED  BY <1>1, <1>3, <1>4, <1>5, <1>6, <1>7, <1>8 DEF Good, Kept, RunnerOk

\* The current engine is retired and another one started, or the session ends.
LEMMA ReplaceGood ==
  ASSUME NEW s, NEW W, NEW G, NEW A, RunnerOk(s, W, G, A)
  PROVE  Good(s, replaceCurrent(s), {}, W, G, A)
<1>1. CASE s.terminal
  <2>1. replaceCurrent(s) = s
    BY <1>1 DEF replaceCurrent
  <2>. QED  BY <2>1, KeptItself
<1>2. CASE ~s.terminal /\ s.cur = 0
  <2>1. replaceCurrent(s) = beginStart(s)
    BY <1>2 DEF replaceCurrent
  <2>. QED  BY <2>1, BeginStartGood
<1>3. CASE ~s.terminal /\ s.cur # 0
  <2>. DEFINE a == [s EXCEPT !.replayT = FALSE, !.exitT = FALSE, !.drainT = FALSE,
                     !.leaseT = FALSE, !.resolving = FALSE, !.state = "finalizing"]
              b == commitQuiescingCancellations(a)
              d == discardSameGenerationOnly(b)
              c == RetireCurrent(d)
              e == finalizeCurrent(c)
              t == replaceCurrent(s)
  <2>1. t = IF b.terminal THEN b ELSE IF c.terminal THEN c ELSE IF e.terminal THEN e ELSE beginStart(e)
    <3>. HIDE DEF a
    <3>1. t = Then(commitQuiescingCancellations(a), LAMBDA x :
               Then(RetireCurrent(discardSameGenerationOnly(x)), LAMBDA y :
                 Then(finalizeCurrent(y), beginStart)))
      BY <1>3, Zenon DEF replaceCurrent, a
    <3>. QED  BY <3>1, Zenon DEF Then
  <2>0. Shape(s)
    BY DEF RunnerOk
  <2>2. Good(s, a, {}, W, G, A) /\ ~a.terminal /\ a.state = "finalizing"
    <3>1. /\ a.modern = s.modern /\ a.gen = s.gen /\ a.cur = s.cur /\ a.starting = s.starting
          /\ a.initReq = s.initReq /\ a.awaiting = s.awaiting /\ a.initialized = s.initialized
          /\ a.exit = s.exit /\ a.live = s.live /\ a.terminal = s.terminal /\ a.lease = s.lease
          /\ a.pending = s.pending /\ a.host = s.host /\ a.child = s.child
          /\ a.told = s.told /\ a.wrote = s.wrote /\ a.toHost = s.toHost /\ a.toChild = s.toChild
          /\ a.fate = s.fate /\ a.state = "finalizing"
      BY <2>0 DEF Shape, IsRunner, RunnerFields
    <3>2. IsRunner(a)
      BY <2>0, ZenonT(40) DEF Shape, IsRunner, RunnerFields
    <3>. HIDE DEF a
    <3>3. Shape(a)
      BY <2>0, <3>1, <3>2 DEF Shape, States
    <3>. QED  BY <1>3, <3>1, <3>3, MoveOk DEF Serving
  <2>. HIDE DEF a, t
  <2>3. Good(a, b, {}, W, G, A) /\ (~b.terminal => Stays(a, b))
    BY <2>2, CommitGood DEF Good
  <2>. HIDE DEF b
  <2>4. Good(s, b, {}, W, G, A)
    BY <2>0, <2>2, <2>3, GoodChain
  <2>5. CASE b.terminal
    BY <2>1, <2>4, <2>5 DEF t
  <2>6. CASE ~b.terminal
    <3>1. Good(b, d, {}, W, G, A) /\ Stays(b, d)
      BY <2>4, <2>6, DiscardGood DEF Good
    <3>. HIDE DEF d
    <3>2. ~d.terminal /\ d.state = "finalizing" /\ Good(s, d, {}, W, G, A)
      BY <2>0, <2>2, <2>3, <2>4, <2>6, <3>1, GoodChain DEF Stays
    <3>3. \/ c.terminal /\ Good(d, c, {}, W, G, A)
          \/ /\ ~c.terminal /\ Good(d, e, {}, W, G, A)
      BY <3>2, RetireGood DEF Good, Serving
    <3>. HIDE DEF c, e
    <3>4. CASE c.terminal /\ Good(d, c, {}, W, G, A)
      <4>1. Good(s, c, {}, W, G, A)
        BY <2>0, <3>2, <3>4, GoodChain
      <4>. QED  BY <2>1, <2>6, <3>4, <4>1 DEF t
    <3>5. CASE ~c.terminal /\ Good(d, e, {}, W, G, A)
      <4>1. Good(s, e, {}, W, G, A)
        BY <2>0, <3>2, <3>5, GoodChain
      <4>2. Good(e, beginStart(e), {}, W, G, A)
        BY <4>1, BeginStartGood DEF Good
      <4>3. ~e.terminal => Good(s, beginStart(e), {}, W, G, A)
        BY <2>0, <4>1, <4>2, GoodChain
      <4>. QED  BY <2>1, <2>6, <3>5, <4>1, <4>3 DEF t
    <3>. QED  BY <3>3, <3>4, <3>5
  <2>. QED  BY <2>5, <2>6
<1>. QED  BY <1>1, <1>2, <1>3

\* An engine that did not get its frame is replaced.
LEMMA ReplaceUnlessGood ==
  ASSUME NEW s, NEW W, NEW G, NEW A, RunnerOk(s, W, G, A)
  PROVE  Good(s, ReplaceUnlessDelivered(s), {}, W, G, A)
BY ReplaceGood, KeptItself DEF ReplaceUnlessDelivered
-----------------------------------------------------------------------------
(* Frames of the host *)

\* A step that changes nothing of interest may come first.
LEMMA SteadyFirst ==
  ASSUME NEW s, NEW t, NEW u, NEW H, NEW W, NEW G, NEW A, Steady(s, t), Good(t, u, H, W, G, A)
  PROVE  Good(s, u, H, W, G, A)
<1>1. QueuedIds(t) = QueuedIds(s) /\ OnBooks(t) = OnBooks(s) /\ Spare(t) = Spare(s)
  BY DEF Steady, Alike, Stays, QueuedIds, OnBooks, Open, Spare
<1>2. Kept(t, u, H, W)
  BY DEF Good
<1>3. Engines(s, u)
  BY <1>1, <1>2 DEF Kept, Engines, Steady, Alike, Stays
<1>4. Answers(s, u, H, W)
  BY <1>1, <1>2 DEF Kept, Answers, Steady
<1>5. Writes(s, u, H)
  BY <1>1, <1>2 DEF Kept, Writes, Steady, Alike, Stays
<1>. QED  BY <1>2, <1>3, <1>4, <1>5 DEF Good, Kept, Steady, Alike, Stays

\* A frame in hand stays good over a steady step.
LEMMA HandSteady ==
  ASSUME NEW s, NEW t, NEW f, NEW W, NEW G, NEW A, Steady(s, t), HandFrame(s, f, W, G, A)
  PROVE  HandFrame(t, f, W, G, A)
<1>1. OnBooks(t) = OnBooks(s)
  BY DEF Steady, Alike, Stays, QueuedIds, OnBooks, Open
<1>. QED  BY <1>1 DEF Steady, Alike, Stays, HandFrame, HostFrameOk, Due

\* A request in hand becomes an open one of the current engine.
LEMMA RegisterGood ==
  ASSUME NEW s, NEW W, NEW G, NEW A, NEW f, NEW t, RunnerOk(s, W, G, A), ~s.terminal,
         HandFrame(s, f, W, G, A), f.k = "request", s.cur # 0,
         Shape(t), Stays(s, t), t.pending = s.pending, t.child = s.child, t.told = s.told,
         t.toHost = s.toHost,
         \/ t.toChild = s.toChild /\ t.wrote = s.wrote
         \/ Written(s, t, f),
         Open(t) = Open(s) \cup {f.id},
         \A i \in Open(t) : t.host.requests[i].gen = s.cur
  PROVE  Good(s, t, HandIds(f), W, G, A)
<1>1. /\ f.id \in HostReq /\ f.id \notin OnBooks(s) /\ HandIds(f) = {f.id}
      /\ \A g \in G \cup s.toChild : g.k = "request" => g.id # f.id
      /\ f.method = "listen" => s.modern
  BY DEF HandFrame, HostFrameOk, HandIds
<1>2. QueuedIds(t) = QueuedIds(s)
  BY DEF QueuedIds
<1>3. Engine(t) /\ Registers(t)
  BY <1>1 DEF RunnerOk, Stays, Engine, Registers
<1>4. Queue(t, W)
  <2>1. \A j \in DOMAIN s.pending : s.pending[j].f.k = "request" => s.pending[j].f.id # f.id
    BY <1>1 DEF OnBooks, QueuedIds
  <2>. QED  BY <2>1 DEF RunnerOk, Stays, Queue, HostFrameOk
<1>5. Lifecycle(t)
  BY DEF RunnerOk, Stays, Lifecycle
<1>6. GotOk(t, W, G)
  <2>1. t.toChild = s.toChild \/ t.toChild = s.toChild \cup {f}
    BY DEF Written
  <2>2. f.id \notin QueuedIds(s)
    BY <1>1 DEF OnBooks
  <2>3. \A g \in G \cup s.toChild :
          /\ g.k = "request" => /\ g.id \in Open(s) \cup W
                                /\ g.id \notin QueuedIds(s)
                                /\ g.method = "listen" => s.modern
          /\ g.k = "initialize" =>
              /\ g = Frame("initialize", InitId)
              /\ \/ s.state \in {"replaying", "finalizing"}
                 \/ s.state = "active" /\ s.awaiting
    BY DEF RunnerOk, GotOk
  <2>4. \A g, k \in G \cup s.toChild :
         g.k = "request" /\ k.k = "request" /\ g.id = k.id => g = k \/ g.id \in W
    BY DEF RunnerOk, GotOk
  <2>5. \A g \in G \cup t.toChild : g \in G \cup s.toChild \/ g = f
    BY <2>1
  <2>6. \A g \in G \cup t.toChild :
          /\ g.k = "request" => /\ g.id \in Open(t) \cup W
                                /\ g.id \notin QueuedIds(t)
                                /\ g.method = "listen" => t.modern
          /\ g.k = "initialize" =>
              /\ g = Frame("initialize", InitId)
              /\ \/ t.state \in {"replaying", "finalizing"}
                 \/ t.state = "active" /\ t.awaiting
    BY <1>1, <1>2, <2>2, <2>3, <2>5 DEF Stays
  <2>7. \A g, k \in G \cup t.toChild :
         g.k = "request" /\ k.k = "request" /\ g.id = k.id => g = k \/ g.id \in W
    BY <1>1, <2>4, <2>5
  <2>. QED  BY <2>6, <2>7 DEF GotOk
<1>7. HoldersOk(t, A)
  BY DEF RunnerOk, Stays, HoldersOk, Due
<1>8. Engines(s, t)
  BY DEF Engines, Spare, Stays, RunnerOk, Shape
<1>9. Answers(s, t, HandIds(f), W)
  BY <1>1, <1>2 DEF Answers, OnBooks, Stays
<1>10. Writes(s, t, HandIds(f))
  <2>1. \/ t.toChild = s.toChild /\ t.wrote = s.wrote
        \/ t.toChild = s.toChild \cup {f} /\ t.wrote = [s.wrote EXCEPT ![f.id] = @ + 1]
    BY DEF Written, Noted
  <2>2. s.wrote \in [Ids -> Nat] /\ f.id \in Ids
    BY <1>1 DEF RunnerOk, Shape, Ids
  <2>3. \A i \in Ids : t.wrote[i] = s.wrote[i] \/ (t.wrote[i] = s.wrote[i] + 1 /\ i = f.id)
    BY <2>1, <2>2
  <2>4. \A i \in QueuedIds(s) : i # f.id /\ i \in Ids
    BY <1>1 DEF OnBooks, RunnerOk, Queue, QueuedIds, HostFrameOk, Ids
  <2>5. \A i \in QueuedIds(s) : t.wrote[i] = s.wrote[i]
    BY <2>3, <2>4
  <2>6. \A g \in t.toChild \ s.toChild : g.k # "response"
    BY <2>1
  <2>. QED  BY <1>1, <1>2, <2>3, <2>5, <2>6 DEF Writes
<1>. QED  BY <1>3, <1>4, <1>5, <1>6, <1>7, <1>8, <1>9, <1>10 DEF Good, Kept, RunnerOk, Stays

\* A frame reaches the engine, waits for one, or is rejected.
LEMMA DeliverGood ==
  ASSUME NEW s, NEW W, NEW G, NEW A, NEW f, RunnerOk(s, W, G, A), ~s.terminal,
         HandFrame(s, f, W, G, A), f.k \notin {"initialize", "response"}
  PROVE  Good(s, deliverHostFirst(s, f), HandIds(f), W, G, A)
<1>. DEFINE now == s.state = "active" \/ (s.state = "replaying" /\ IsPing(f))
            w == writeChild(s, f)
            rec == IF s.modern THEN ModernRec(f, s.cur) ELSE RecOf(f, s.cur)
            t == IF f.k = "request" /\ w.out # "not_written"
                 THEN [w EXCEPT !.host = register(@, f.id, rec)] ELSE w
            u == deliverHostFirst(s, f)
<1>0. Shape(s) /\ f \in FrameSet /\ (f.k = "request" => f.id \in Ids)
  BY DEF RunnerOk, HandFrame, HostFrameOk, Ids
<1>1. \/ u = enqueueHost(s, f, FALSE)
      \/ f.k = "request" /\ u = rejectHostRequest(s, f.id)
      \/ /\ s.cur # 0 /\ now
         /\ u = IF t.out = "not_written" THEN replaceCurrent(retainAfterNotWritten(t, f))
                ELSE ReplaceUnlessDelivered(t)
  <2>. HIDE DEF w, rec, t
  <2>1. CASE s.cur = 0 \/ ~now
    BY <2>1, Zenon DEF deliverHostFirst
  <2>2. CASE ~(s.cur = 0 \/ ~now) /\ f.k = "request" /\ ~validateHostRequest(s, f)
    BY <2>2, Zenon DEF deliverHostFirst
  <2>3. CASE ~(s.cur = 0 \/ ~now) /\ ~(f.k = "request" /\ ~validateHostRequest(s, f))
    BY <2>3, Zenon DEF deliverHostFirst, w, rec, t
  <2>. QED  BY <2>1, <2>2, <2>3
<1>2. CASE u = enqueueHost(s, f, FALSE)
  BY <1>2, EnqueueGood
<1>3. CASE f.k = "request" /\ u = rejectHostRequest(s, f.id)
  BY <1>3, HandRejectGood
<1>4. CASE /\ s.cur # 0 /\ now
           /\ u = IF t.out = "not_written" THEN replaceCurrent(retainAfterNotWritten(t, f))
                  ELSE ReplaceUnlessDelivered(t)
  <2>1. /\ Shape(w) /\ Passes(s, w)
        /\ \/ w.toChild = s.toChild /\ w.wrote = s.wrote
           \/ w.out # "not_written" /\ Written(s, w, f)
    BY <1>0, WriteChildFacts
  <2>. HIDE DEF w, u
  <2>2. CASE w.out = "not_written"
    <3>1. t = w
      BY <2>2
    <3>2. Steady(s, w)
      BY <2>1, <2>2 DEF Passes, Steady, Alike
    <3>3. RunnerOk(w, W, G, A) /\ HandFrame(w, f, W, G, A) /\ ~w.terminal /\ w.state # "dormant"
      <4>1. RunnerOk(w, W, G, A)
        BY <2>1, <3>2, SteadyGood DEF Good
      <4>2. HandFrame(w, f, W, G, A)
        BY <3>2, HandSteady
      <4>3. w.state = s.state /\ ~w.terminal
        BY <3>2 DEF Steady, Alike, Stays
      <4>. QED  BY <1>4, <4>1, <4>2, <4>3
    <3>. DEFINE v == retainAfterNotWritten(w, f)
    <3>4. Good(w, v, HandIds(f), W, G, A)
      BY <3>3, RetainGood
    <3>. HIDE DEF v
    <3>5. Good(s, v, HandIds(f), W, G, A)
      BY <3>2, <3>4, SteadyFirst
    <3>6. Good(v, replaceCurrent(v), {}, W, G, A)
      BY <3>5, ReplaceGood DEF Good
    <3>7. u = replaceCurrent(v)
      BY <1>4, <2>2, <3>1 DEF v
    <3>8. v.terminal => replaceCurrent(v) = v
      BY DEF replaceCurrent
    <3>9. Good(s, u, HandIds(f), W, G, A)
      BY <1>0, <3>5, <3>6, <3>7, <3>8, GoodChain
    <3>. QED  BY <3>9 DEF u
  <2>3. CASE w.out # "not_written"
    <3>. HIDE DEF rec
    <3>1. Good(s, t, HandIds(f), W, G, A) /\ ~t.terminal
      <4>1. CASE f.k # "request"
        <5>1. t = w /\ HandIds(f) = {}
          BY <4>1 DEF HandIds
        <5>2. Good(s, w, {}, W, G, A)
          BY <1>0, <4>1, WriteChildGood DEF w
        <5>. QED  BY <2>1, <5>1, <5>2 DEF Passes, Stays
      <4>2. CASE f.k = "request"
        <5>. DEFINE g == register(w.host, f.id, rec)
        <5>1. t = [w EXCEPT !.host = g]
          BY <2>3, <4>2
        <5>2. IsRegistry(g) /\ g.requests = Put(w.host.requests, f.id, rec)
          <6>1. IsRegistry(w.host)
            BY <2>1 DEF Shape
          <6>. QED  BY <6>1, RegisterFacts
        <5>. HIDE DEF g, t
        <5>3. /\ Shape(t) /\ Stays(w, t) /\ t.host = g /\ t.child = w.child
              /\ t.pending = w.pending /\ t.toHost = w.toHost /\ t.toChild = w.toChild
              /\ t.told = w.told /\ t.wrote = w.wrote
          BY <2>1, <5>1, <5>2, HostRegistryFacts
        <5>4. /\ Stays(s, t) /\ t.child = s.child /\ t.pending = s.pending /\ t.toHost = s.toHost
              /\ t.told = s.told
              /\ \/ t.toChild = s.toChild /\ t.wrote = s.wrote
                 \/ Written(s, t, f)
          BY <2>1, <5>3 DEF Passes, Stays, Written
        <5>5. rec.gen = s.cur
          BY DEF rec, ModernRec, RecOf
        <5>6. w.host.requests = s.host.requests
          BY <2>1 DEF Passes
        <5>7. /\ Open(t) = Open(s) \cup {f.id}
              /\ \A i \in Open(t) : t.host.requests[i].gen = s.cur
          <6>1. \A i \in Open(s) : s.host.requests[i].gen = s.cur
            BY DEF RunnerOk, Registers
          <6>2. t.host.requests = Put(s.host.requests, f.id, rec)
            BY <5>2, <5>3, <5>6
          <6>. QED  BY <5>5, <6>1, <6>2 DEF Open, Put
        <5>8. Good(s, t, HandIds(f), W, G, A)
          BY <1>4, <4>2, <5>3, <5>4, <5>7, RegisterGood
        <5>. QED  BY <5>4, <5>8 DEF Stays
      <4>. QED  BY <4>1, <4>2
    <3>2. t.out # "not_written"
      <4>1. IsRunner(w)
        BY <2>1 DEF Shape
      <4>. QED  BY <2>3, <4>1 DEF IsRunner, RunnerFields
    <3>. HIDE DEF t
    <3>3. u = ReplaceUnlessDelivered(t)
      BY <1>4, <3>2
    <3>4. Good(t, u, {}, W, G, A)
      BY <3>1, <3>3, ReplaceUnlessGood DEF Good
    <3>5. Good(s, u, HandIds(f), W, G, A)
      BY <1>0, <3>1, <3>4, GoodChain
    <3>. QED  BY <3>5 DEF u
  <2>. QED  BY <2>2, <2>3
<1>. QED  BY <1>1, <1>2, <1>3, <1>4

\* The fields of a frame without parameters.
LEMMA FrameFacts ==
  ASSUME NEW k \in Kinds, NEW id \in Ids \cup ChildReq
  PROVE  /\ Frame(k, id) \in FrameSet /\ Frame(k, id).k = k /\ Frame(k, id).id = id
         /\ Frame(k, id).method = "plain" /\ Frame(k, id).late = FALSE
<1>1. 0 \in Nat
  OBVIOUS
<1>2. "plain" \in Methods /\ "result" \in {"result", "error"} /\ "none" \in Statuses
  BY DEF Methods, Statuses
<1>3. FALSE \in BOOLEAN /\ NoTask \in Task \cup {NoTask}
  BY Zenon
<1>4. Frame(k, id) \in FrameSet
  BY <1>1, <1>2, <1>3, Zenon DEF Frame, FrameSet
<1>. QED  BY <1>4 DEF Frame

\* Timers and marks that the invariant does not read.
LEMMA MarkGood ==
  ASSUME NEW s, NEW t, NEW W, NEW G, NEW A, RunnerOk(s, W, G, A), IsRunner(t),
         Same(s, t, RunnerFields \ {"retryT", "replayT", "exitT", "drainT", "leasePassed",
                                    "resolving", "initResp", "initFailed", "dormInvalid", "since",
                                    "output", "evExit", "evOutput", "out"})
  PROVE  Good(s, t, {}, W, G, A) /\ Stays(s, t) /\ Steady(s, t) /\ t.host = s.host /\ t.child = s.child
<1>1. /\ Stays(s, t) /\ t.pending = s.pending /\ t.toHost = s.toHost /\ t.toChild = s.toChild
      /\ t.host = s.host /\ t.child = s.child /\ t.told = s.told /\ t.wrote = s.wrote
      /\ t.fate = s.fate
  BY DEF Same, RunnerFields, Stays
<1>2. Shape(t)
  BY <1>1 DEF RunnerOk, Shape, Stays
<1>3. Steady(s, t)
  BY <1>1 DEF Steady, Alike
<1>. QED  BY <1>1, <1>2, <1>3, SteadyGood

\* The host's initialize is on the books from now on.
LEMMA OpenedGood ==
  ASSUME NEW s, NEW W, NEW G, NEW A, RunnerOk(s, W, G, A), ~s.terminal, ~s.modern, ~s.initReq,
         NEW v \in {FALSE, s.leaseT}
  PROVE  LET t == [s EXCEPT !.initReq = TRUE, !.awaiting = TRUE, !.leaseT = v]
         IN  /\ Good(s, t, {InitId}, W, G, A) /\ ~t.terminal
             /\ t.awaiting /\ t.state = s.state /\ t.cur = s.cur
<1>. DEFINE t == [s EXCEPT !.initReq = TRUE, !.awaiting = TRUE, !.leaseT = v]
<1>1. IsRunner(s)
  BY DEF RunnerOk, Shape
<1>2. /\ t.state = s.state /\ t.modern = s.modern /\ t.gen = s.gen /\ t.cur = s.cur
      /\ t.starting = s.starting /\ t.leaseT = v
      /\ t.initReq = TRUE /\ t.awaiting = TRUE /\ t.initialized = s.initialized
      /\ t.exit = s.exit /\ t.live = s.live /\ t.terminal = s.terminal /\ t.lease = s.lease
      /\ t.pending = s.pending /\ t.toHost = s.toHost /\ t.toChild = s.toChild
      /\ t.host = s.host /\ t.child = s.child /\ t.told = s.told /\ t.wrote = s.wrote
      /\ t.fate = s.fate /\ IsRunner(t)
  BY <1>1, ZenonT(40) DEF IsRunner, RunnerFields
<1>. HIDE DEF t
<1>3. Shape(t)
  BY <1>2 DEF RunnerOk, Shape
<1>4. QueuedIds(t) = QueuedIds(s) /\ Open(t) = Open(s) /\ OnBooks(t) = OnBooks(s) \cup {InitId}
  BY <1>2 DEF QueuedIds, OnBooks, Open
<1>5. Engine(t) /\ Registers(t)
  BY <1>2 DEF RunnerOk, Engine, Registers, Open
<1>6. Queue(t, W)
  BY <1>2, <1>4 DEF RunnerOk, Queue, HostFrameOk
<1>7. s.state \notin {"quiescing", "awaiting_exit", "dormant"} /\ ~s.awaiting
  BY DEF RunnerOk, Lifecycle
<1>8. Lifecycle(t)
  BY <1>2, <1>7 DEF RunnerOk, Lifecycle
<1>9. GotOk(t, W, G)
  BY <1>2, <1>4 DEF RunnerOk, GotOk
<1>10. HoldersOk(t, A)
  BY <1>2 DEF RunnerOk, HoldersOk, Due
<1>11. Engines(s, t)
  BY <1>2, <1>7 DEF Engines, Spare, RunnerOk, Shape
<1>12. Answers(s, t, {InitId}, W) /\ Writes(s, t, {InitId})
  BY <1>2, <1>4 DEF Answers, Writes
<1>. QED  BY <1>2, <1>3, <1>5, <1>6, <1>8, <1>9, <1>10, <1>11, <1>12 DEF RunnerOk, Good, Kept, t

\* The initialized notification is remembered.
LEMMA InitializedGood ==
  ASSUME NEW s, NEW W, NEW G, NEW A, RunnerOk(s, W, G, A), s.initReq
  PROVE  LET t == [s EXCEPT !.initialized = TRUE]
         IN  Good(s, t, {}, W, G, A) /\ t.terminal = s.terminal /\ t.cur = s.cur
<1>. DEFINE t == [s EXCEPT !.initialized = TRUE]
<1>1. IsRunner(s)
  BY DEF RunnerOk, Shape
<1>2. /\ t.state = s.state /\ t.modern = s.modern /\ t.gen = s.gen /\ t.cur = s.cur
      /\ t.starting = s.starting /\ t.leaseT = s.leaseT
      /\ t.initReq = s.initReq /\ t.awaiting = s.awaiting
      /\ t.exit = s.exit /\ t.live = s.live /\ t.terminal = s.terminal /\ t.lease = s.lease
      /\ t.pending = s.pending /\ t.toHost = s.toHost /\ t.toChild = s.toChild
      /\ t.host = s.host /\ t.child = s.child /\ t.told = s.told /\ t.wrote = s.wrote
      /\ t.fate = s.fate /\ IsRunner(t)
  BY <1>1 DEF IsRunner, RunnerFields
<1>. HIDE DEF t
<1>3. Shape(t)
  BY <1>2 DEF RunnerOk, Shape
<1>4. QueuedIds(t) = QueuedIds(s) /\ Open(t) = Open(s) /\ OnBooks(t) = OnBooks(s)
  BY <1>2 DEF QueuedIds, OnBooks, Open
<1>5. Engine(t) /\ Registers(t)
  BY <1>2 DEF RunnerOk, Engine, Registers, Open
<1>6. ~s.terminal => Queue(t, W)
  BY <1>2, <1>4 DEF RunnerOk, Queue, HostFrameOk
<1>8. ~s.terminal => Lifecycle(t)
  BY <1>2 DEF RunnerOk, Lifecycle
<1>9. ~s.terminal => GotOk(t, W, G)
  BY <1>2, <1>4 DEF RunnerOk, GotOk
<1>10. ~s.terminal => HoldersOk(t, A)
  BY <1>2 DEF RunnerOk, HoldersOk, Due
<1>11. Engines(s, t)
  BY <1>2 DEF Engines, Spare, RunnerOk, Shape
<1>12. Answers(s, t, {}, W) /\ Writes(s, t, {})
  BY <1>2, <1>4 DEF Answers, Writes
<1>. QED  BY <1>2, <1>3, <1>5, <1>6, <1>8, <1>9, <1>10, <1>11, <1>12 DEF RunnerOk, Good, Kept, t

\* What the handshake does with a frame of the host.
LEMMA HostLifecycleGood ==
  ASSUME NEW s, NEW W, NEW G, NEW A, NEW f, RunnerOk(s, W, G, A), ~s.terminal, ~s.modern,
         HandFrame(s, f, W, G, A)
  PROVE  Good(s, handleHostLifecycle(s, f), HandIds(f), W, G, A)
<1>. DEFINE u == handleHostLifecycle(s, f)
            opened == [s EXCEPT !.initReq = TRUE, !.awaiting = TRUE]
            known == [s EXCEPT !.initialized = TRUE]
<1>0. Shape(s) /\ InitId \in Ids \cup ChildReq /\ Frame("initialize", InitId) \in FrameSet
      /\ Frame("initialized", InitId) \in FrameSet /\ Frame("initialized", InitId).k = "initialized"
      /\ Frame("initialize", InitId).k = "initialize"
  <2>1. InitId \in Ids \cup ChildReq
    BY DEF Ids
  <2>2. Shape(s)
    BY DEF RunnerOk
  <2>0. "initialize" \in Kinds /\ "initialized" \in Kinds
    BY DEF Kinds
  <2>3. Frame("initialize", InitId) \in FrameSet /\ Frame("initialize", InitId).k = "initialize"
    BY <2>0, <2>1, FrameFacts, Zenon
  <2>4. Frame("initialized", InitId) \in FrameSet /\ Frame("initialized", InitId).k = "initialized"
    BY <2>0, <2>1, FrameFacts, Zenon
  <2>. QED  BY <2>1, <2>2, <2>3, <2>4
<1>1. \/ /\ ~s.initReq /\ f.k = "initialize"
         /\ u = IF s.cur # 0 /\ s.state = "active" THEN writeInitialInitialize(opened)
                ELSE IF s.cur = 0 THEN beginStart([opened EXCEPT !.leaseT = FALSE])
                ELSE opened
      \/ IsPing(f) /\ u = routeInitializationHostPing(s, f)
      \/ /\ s.initReq /\ f.k = "initialized"
         /\ u = IF s.cur # 0 /\ s.state = "active" THEN writeLifecycleNotification(known) ELSE known
      \/ f.k = "request" /\ u = rejectHostRequest(s, f.id)
      \/ f.k \notin {"request", "initialize"} /\ u = s
  <2>1. f.k = "initialize" => ~s.initReq
    BY DEF HandFrame
  <2>. HIDE DEF opened, known
  <2>2. CASE ~s.initReq /\ f.k = "initialize"
    BY <2>2, Zenon DEF handleHostLifecycle, opened
  <2>3. CASE s.initReq /\ IsPing(f) /\ (s.awaiting \/ (~s.initialized /\ ~s.initFailed))
    <3>1. u = routeInitializationHostPing(s, f)
      <4>1. ~(~s.initReq /\ f.k = "initialize")
        BY <2>3
      <4>2. ~(s.initReq /\ ~s.awaiting /\ ~s.initFailed /\ ~s.initialized /\ f.k = "initialized")
        BY <2>3 DEF IsPing
      <4>. QED  BY <2>3, <4>1, <4>2, Zenon DEF handleHostLifecycle
    <3>. HIDE DEF u
    <3>. QED  BY <2>3, <3>1
  <2>4. CASE s.initReq /\ ~s.awaiting /\ ~s.initFailed /\ ~s.initialized /\ f.k = "initialized"
    <3>1. ~IsPing(f)
      BY <2>4 DEF IsPing
    <3>. QED  BY <2>4, <3>1, Zenon DEF handleHostLifecycle, known
  <2>5. CASE ~(~s.initReq /\ f.k = "initialize")
             /\ ~(s.initReq /\ IsPing(f) /\ (s.awaiting \/ (~s.initialized /\ ~s.initFailed)))
             /\ ~(s.initReq /\ ~s.awaiting /\ ~s.initFailed /\ ~s.initialized /\ f.k = "initialized")
    <3>1. u = IF f.k \in {"request", "initialize"} THEN rejectHostRequest(s, f.id) ELSE s
      BY <2>5, Zenon DEF handleHostLifecycle
    <3>. HIDE DEF u
    <3>. QED  BY <2>1, <2>5, <3>1
  <2>. QED  BY <2>2, <2>3, <2>4, <2>5
<1>. HIDE DEF u
<1>2. CASE /\ ~s.initReq /\ f.k = "initialize"
           /\ u = IF s.cur # 0 /\ s.state = "active" THEN writeInitialInitialize(opened)
                  ELSE IF s.cur = 0 THEN beginStart([opened EXCEPT !.leaseT = FALSE])
                  ELSE opened
  <2>. DEFINE o(v) == [s EXCEPT !.initReq = TRUE, !.awaiting = TRUE, !.leaseT = v]
  <2>1. [opened EXCEPT !.leaseT = FALSE] = o(FALSE) /\ opened = o(s.leaseT)
    BY <1>0 DEF Shape, IsRunner, RunnerFields
  <2>2. HandIds(f) = {InitId}
    BY <1>2 DEF HandIds, HandFrame
  <2>3. ASSUME NEW v \in {FALSE, s.leaseT}
        PROVE  /\ Good(s, o(v), {InitId}, W, G, A) /\ ~o(v).terminal
               /\ o(v).awaiting /\ o(v).state = s.state /\ o(v).cur = s.cur
    BY <1>2, OpenedGood
  <2>. HIDE DEF o, opened
  <2>4. CASE u = opened
    BY <2>1, <2>2, <2>3, <2>4 DEF u
  <2>5. CASE u = beginStart(o(FALSE))
    <3>1. Good(o(FALSE), u, {}, W, G, A)
      BY <2>3, <2>5, BeginStartGood DEF Good
    <3>2. Good(s, u, {InitId}, W, G, A)
      BY <1>0, <2>3, <3>1, GoodChain
    <3>. QED  BY <2>2, <3>2 DEF u
  <2>6. CASE s.cur # 0 /\ s.state = "active" /\ u = writeInitialInitialize(opened)
    <3>. DEFINE w == writeChild(opened, Frame("initialize", InitId))
    <3>1. /\ Good(s, opened, {InitId}, W, G, A) /\ ~opened.terminal
          /\ opened.awaiting /\ opened.state = s.state
      BY <2>1, <2>3
    <3>2. Good(opened, w, {}, W, G, A) /\ Passes(opened, w)
      BY <1>0, <2>6, <3>1, WriteChildGood DEF Good
    <3>. HIDE DEF w
    <3>3. Good(s, w, {InitId}, W, G, A) /\ ~w.terminal
      BY <1>0, <3>1, <3>2, GoodChain DEF Passes, Stays
    <3>4. Good(w, u, {}, W, G, A)
      <4>1. CASE w.out = "delivered"
        <5>1. u = [w EXCEPT !.replayT = TRUE]
          BY <2>6, <4>1 DEF writeInitialInitialize, w
        <5>2. IsRunner(w)
          BY <3>3 DEF Good, RunnerOk, Shape
        <5>3. IsRunner(u) /\ Same(w, u, RunnerFields \ {"replayT"})
          BY <5>1, <5>2 DEF IsRunner, RunnerFields, Same
        <5>. QED  BY <3>3, <5>3, MarkGood DEF Good, Same
      <4>2. CASE w.out # "delivered"
        <5>1. u = replaceCurrent(w)
          BY <2>6, <4>2 DEF writeInitialInitialize, w
        <5>. QED  BY <3>3, <5>1, ReplaceGood DEF Good
      <4>. QED  BY <4>1, <4>2
    <3>5. Good(s, u, {InitId}, W, G, A)
      BY <1>0, <3>3, <3>4, GoodChain
    <3>. QED  BY <2>2, <3>5 DEF u
  <2>. QED  BY <1>2, <2>1, <2>4, <2>5, <2>6
<1>3. CASE IsPing(f) /\ u = routeInitializationHostPing(s, f)
  <2>1. f.k = "request"
    BY <1>3 DEF IsPing
  <2>. QED  BY <1>3, <2>1, DeliverGood, EnqueueGood DEF routeInitializationHostPing, u
<1>4. CASE /\ s.initReq /\ f.k = "initialized"
           /\ u = IF s.cur # 0 /\ s.state = "active" THEN writeLifecycleNotification(known) ELSE known
  <2>1. HandIds(f) = {}
    BY <1>4 DEF HandIds
  <2>2. Good(s, known, {}, W, G, A) /\ ~known.terminal
    BY <1>4, InitializedGood
  <2>. HIDE DEF known
  <2>. DEFINE w == writeChild(known, Frame("initialized", InitId))
  <2>3. Good(known, w, {}, W, G, A) /\ Passes(known, w)
    BY <1>0, <2>2, WriteChildGood DEF Good
  <2>4. writeLifecycleNotification(known) = ReplaceUnlessDelivered(w)
    BY DEF writeLifecycleNotification
  <2>. HIDE DEF w
  <2>5. Good(s, w, {}, W, G, A) /\ ~w.terminal
    BY <1>0, <2>2, <2>3, GoodChain DEF Passes, Stays
  <2>6. Good(s, ReplaceUnlessDelivered(w), {}, W, G, A)
    BY <1>0, <2>5, ReplaceUnlessGood, GoodChain DEF Good
  <2>. QED  BY <1>4, <2>1, <2>2, <2>4, <2>6 DEF u
<1>5. CASE f.k = "request" /\ u = rejectHostRequest(s, f.id)
  BY <1>5, HandRejectGood DEF u
<1>6. CASE f.k \notin {"request", "initialize"} /\ u = s
  <2>1. HandIds(f) = {}
    BY <1>6 DEF HandIds
  <2>. QED  BY <1>6, <2>1, KeptItself DEF u
<1>. QED  BY <1>1, <1>2, <1>3, <1>4, <1>5, <1>6

\* A frame that is no request is written, and the engine replaced if it is not.
LEMMA WriteOrReplaceGood ==
  ASSUME NEW s, NEW W, NEW G, NEW A, RunnerOk(s, W, G, A), ~s.terminal, NEW f \in FrameSet,
         f.k \notin {"request", "initialize"},
         f.k = "response" => f.from = s.cur
  PROVE  Good(s, ReplaceUnlessDelivered(writeChild(s, f)), {}, W, G, A)
<1>. DEFINE w == writeChild(s, f)
<1>1. Good(s, w, {}, W, G, A) /\ Passes(s, w)
  BY WriteChildGood
<1>. HIDE DEF w
<1>2. Shape(s) /\ ~w.terminal
  BY <1>1 DEF RunnerOk, Passes, Stays
<1>3. Good(w, ReplaceUnlessDelivered(w), {}, W, G, A)
  BY <1>1, ReplaceUnlessGood DEF Good
<1>4. Good(s, ReplaceUnlessDelivered(w), {}, W, G, A)
  BY <1>1, <1>2, <1>3, GoodChain
<1>. QED  BY <1>4 DEF w

\* EndOnError ends the session or changes nothing.
LEMMA ErrorEnds ==
  ASSUME NEW t, NEW W, NEW G, NEW A, RunnerOk(t, W, G, A)
  PROVE  EndOnError(t).terminal \/ EndOnError(t) = t
BY TerminateGood DEF EndOnError

\* Only the registry of the engine's requests changes, and only under the
\* identifier of an answer in hand.
Settles(s, t, id) ==
  /\ DOMAIN t.child.requests \subseteq DOMAIN s.child.requests
  /\ DOMAIN s.child.requests \ {id} \subseteq DOMAIN t.child.requests
  /\ \A i \in DOMAIN t.child.requests : t.child.requests[i] = s.child.requests[i]
  /\ DOMAIN t.child.retiredRequests \subseteq DOMAIN s.child.retiredRequests
  /\ DOMAIN s.child.retiredRequests \ {id} \subseteq DOMAIN t.child.retiredRequests

\* An answered request of the engine is settled in its registry.
LEMMA CloseSettles ==
  ASSUME NEW s, NEW t, NEW id, Closes(s.child, t.child, id)
  PROVE  Settles(s, t, id)
<1>1. /\ DOMAIN Drop(s.child.requests, {id}) = DOMAIN s.child.requests \ {id}
      /\ \A x \in DOMAIN s.child.requests \ {id} :
           Drop(s.child.requests, {id})[x] = s.child.requests[x]
  BY DropFacts
<1>2. CASE t.child.requests = s.child.requests
  BY <1>2 DEF Settles, Closes
<1>3. CASE t.child.requests = Drop(s.child.requests, {id})
  BY <1>1, <1>3 DEF Settles, Closes
<1>. QED  BY <1>2, <1>3 DEF Closes

\* The answer in hand settles its request and no other.
LEMMA SettleGood ==
  ASSUME NEW s, NEW t, NEW W, NEW G, NEW A, NEW f, RunnerOk(s, W, G, A), ~s.terminal,
         HandFrame(s, f, W, G, A), f.k = "response",
         Shape(t), Stays(s, t), t.host = s.host, t.pending = s.pending,
         t.toHost = s.toHost, t.toChild = s.toChild, t.told = s.told, t.wrote = s.wrote,
         Settles(s, t, f.id)
  PROVE  Good(s, t, {}, W, G, A)
<1>1. Open(t) = Open(s) /\ QueuedIds(t) = QueuedIds(s) /\ OnBooks(t) = OnBooks(s)
  BY DEF Open, QueuedIds, OnBooks, Stays
<1>2. Engine(t) /\ Lifecycle(t)
  BY DEF RunnerOk, Engine, Lifecycle, Stays
<1>3. Registers(t)
  BY <1>1 DEF RunnerOk, Registers, Settles, Stays, Open
<1>4. Queue(t, W)
  BY <1>1 DEF RunnerOk, Queue, HostFrameOk, Stays
<1>5. GotOk(t, W, G)
  BY <1>1 DEF RunnerOk, GotOk, Stays
<1>6. HoldersOk(t, A)
  <2>1. ASSUME NEW a, Due(s, a), a.id # f.id PROVE Due(t, a)
    BY <2>1 DEF Due, Settles, Stays
  <2>. QED  BY <2>1 DEF RunnerOk, HoldersOk, HandFrame, Stays
<1>7. Engines(s, t)
  BY DEF Engines, Spare, Stays, RunnerOk, Shape
<1>8. Answers(s, t, {}, W) /\ Writes(s, t, {})
  BY <1>1 DEF Answers, Writes
<1>. QED  BY <1>2, <1>3, <1>4, <1>5, <1>6, <1>7, <1>8 DEF RunnerOk, Good, Kept, Stays

\* The host's answer to a request of the engine.
LEMMA HostResponseGood ==
  ASSUME NEW s, NEW W, NEW G, NEW A, NEW f, RunnerOk(s, W, G, A), ~s.terminal,
         HandFrame(s, f, W, G, A), f.k = "response"
  PROVE  Good(s, handleHostResponse(s, f), {}, W, G, A)
<1>. DEFINE u == handleHostResponse(s, f)
            open == /\ s.cur # 0
                    /\ f.id \in DOMAIN s.child.requests
                    /\ s.child.requests[f.id].gen = s.cur
            refused == [s EXCEPT !.child = cancel(s.child, f.id)]
            w == writeChild(s, f)
            done == IF w.out = "not_written" THEN w
                    ELSE [w EXCEPT !.child = complete(w.child, f.id, f)]
<1>1. CASE ~open
  <2>1. u = s
    BY <1>1, Zenon DEF handleHostResponse
  <2>. HIDE DEF u
  <2>2. Good(s, u, {}, W, G, A)
    BY <2>1, KeptItself
  <2>. QED  BY <2>2 DEF u
<1>2. CASE open
  <2>1. f.from = s.cur /\ f \in FrameSet /\ Shape(s) /\ IsRegistry(s.child)
    BY <1>2 DEF HandFrame, Due, RunnerOk, Registers, Shape
  <2>2. CASE ~canComplete(s.child, f.id, f)
    <3>. DEFINE e == EndOnError(refused)
    <3>1. u = IF e.terminal THEN e ELSE ReplaceUnlessDelivered(writeChild(e, f))
      BY <1>2, <2>2, Zenon DEF handleHostResponse, Then
    <3>2. Closes(s.child, cancel(s.child, f.id), f.id)
      BY <2>1, CancelCloses
    <3>3. /\ Shape(refused) /\ Stays(s, refused) /\ refused.child = cancel(s.child, f.id)
          /\ refused.host = s.host
          /\ refused.pending = s.pending /\ refused.toHost = s.toHost
          /\ refused.toChild = s.toChild /\ refused.told = s.told /\ refused.wrote = s.wrote
      BY <2>1, <3>2, ChildRegistryFacts DEF Closes
    <3>. HIDE DEF refused, u
    <3>4. Settles(s, refused, f.id)
      BY <3>2, <3>3, CloseSettles
    <3>5. Good(s, refused, {}, W, G, A)
      BY <3>3, <3>4, SettleGood
    <3>6. refused.cur = s.cur /\ ~refused.terminal
      BY <3>3 DEF Stays
    <3>7. Good(s, e, {}, W, G, A) /\ (e.terminal \/ e = refused)
      BY <2>1, <3>5, <3>6, EndOnErrorGood, ErrorEnds DEF Good
    <3>. HIDE DEF e
    <3>8. CASE e.terminal
      BY <3>1, <3>7, <3>8 DEF u
    <3>9. CASE ~e.terminal
      <4>1. Good(e, u, {}, W, G, A)
        BY <2>1, <3>1, <3>6, <3>7, <3>9, WriteOrReplaceGood DEF Good
      <4>2. Good(s, u, {}, W, G, A)
        BY <2>1, <3>7, <3>9, <4>1, GoodChain
      <4>. QED  BY <4>2 DEF u
    <3>. QED  BY <3>8, <3>9
  <2>3. CASE canComplete(s.child, f.id, f)
    <3>. DEFINE e == EndOnError(done)
    <3>1. u = IF e.terminal THEN e ELSE ReplaceUnlessDelivered(e)
      BY <1>2, <2>3, Zenon DEF handleHostResponse, Then
    <3>2. Good(s, w, {}, W, G, A) /\ Passes(s, w) /\ Shape(w) /\ RunnerOk(w, W, G, A) /\ ~w.terminal
      BY <2>1, WriteChildGood DEF Good, RunnerOk, Passes, Stays
    <3>. HIDE DEF w, u
    <3>3. Good(s, done, {}, W, G, A) /\ ~done.terminal
      <4>1. CASE w.out = "not_written"
        BY <3>2, <4>1
      <4>2. CASE w.out # "not_written"
        <5>1. done = [w EXCEPT !.child = complete(w.child, f.id, f)]
          BY <4>2
        <5>2. IsRegistry(w.child) /\ w.child = s.child
          BY <2>1, <3>2 DEF Passes
        <5>3. Closes(w.child, complete(w.child, f.id, f), f.id)
          BY <5>2, CompleteCloses
        <5>. DEFINE c == complete(w.child, f.id, f)
        <5>9. IsRegistry(c) /\ done = [w EXCEPT !.child = c] /\ c = complete(w.child, f.id, f)
          BY <5>1, <5>3 DEF Closes
        <5>. HIDE DEF c, done
        <5>4. /\ Shape(done) /\ Stays(w, done) /\ done.child = complete(w.child, f.id, f)
              /\ done.host = w.host
              /\ done.pending = w.pending /\ done.toHost = w.toHost
              /\ done.toChild = w.toChild /\ done.told = w.told /\ done.wrote = w.wrote
          BY <3>2, <5>9, ChildRegistryFacts
        <5>5. Settles(w, done, f.id)
          BY <5>3, <5>4, CloseSettles
        <5>6. HandFrame(w, f, W, G, A)
          BY <3>2 DEF HandFrame, Passes, Stays, HostFrameOk, Due
        <5>7. Good(w, done, {}, W, G, A)
          BY <3>2, <5>4, <5>5, <5>6, SettleGood
        <5>. QED  BY <2>1, <3>2, <5>4, <5>7, GoodChain DEF Stays
      <4>. QED  BY <4>1, <4>2
    <3>. HIDE DEF done
    <3>4. Good(s, e, {}, W, G, A) /\ (e.terminal \/ e = done)
      BY <2>1, <3>3, EndOnErrorGood, ErrorEnds DEF Good
    <3>. HIDE DEF e
    <3>5. CASE e.terminal
      BY <3>1, <3>4, <3>5 DEF u
    <3>6. CASE ~e.terminal
      <4>1. Good(e, u, {}, W, G, A)
        BY <3>1, <3>4, <3>6, ReplaceUnlessGood DEF Good
      <4>2. Good(s, u, {}, W, G, A)
        BY <2>1, <3>4, <3>6, <4>1, GoodChain
      <4>. QED  BY <4>2 DEF u
    <3>. QED  BY <3>5, <3>6
  <2>. QED  BY <2>2, <2>3
<1>. QED  BY <1>1, <1>2

\* The host withdraws a request: it leaves the queue, or the engine is told.
LEMMA HostCancellationGood ==
  ASSUME NEW s, NEW W, NEW G, NEW A, NEW f, RunnerOk(s, W, G, A), ~s.terminal,
         HandFrame(s, f, W, G, A), f.k = "cancel"
  PROVE  Good(s, handleHostCancellation(s, f), {}, W, G, A)
<1>. DEFINE u == handleHostCancellation(s, f)
            c == CancelRequest(s, f.id)
            rest == RemovableRequest(s, f.id) \/ s.cur = 0 \/ ~Cancellable(s, f.id)
<1>0. f.id \in W /\ f \in FrameSet /\ Shape(s) /\ HandIds(f) = {}
  BY DEF HandFrame, HostFrameOk, RunnerOk, HandIds
<1>1. \/ u \in {s, removeRequest(s, f.id), enqueueHost(s, f, TRUE)}
      \/ /\ Cancellable(s, f.id)
         /\ u = IF c.terminal THEN c ELSE ReplaceUnlessDelivered(writeChild(c, f))
  <2>. HIDE DEF c
  <2>1. CASE RemovableRequest(s, f.id)
    <3>1. u = removeRequest(s, f.id)
      BY <2>1, Zenon DEF handleHostCancellation
    <3>. QED  BY <3>1
  <2>2. CASE ~RemovableRequest(s, f.id) /\ (s.cur = 0 \/ ~Cancellable(s, f.id))
    <3>1. u = s
      BY <2>2, Zenon DEF handleHostCancellation
    <3>. QED  BY <3>1
  <2>3. CASE ~rest
    <3>0. u = CASE s.state = "quiescing" -> enqueueHost(s, f, TRUE)
                [] s.state = "active" ->
                     IF c.terminal THEN c ELSE ReplaceUnlessDelivered(writeChild(c, f))
                [] OTHER -> s
      BY <2>3, Zenon DEF handleHostCancellation, Then, c
    <3>. HIDE DEF u
    <3>1. CASE s.state = "quiescing"
      BY <3>0, <3>1
    <3>2. CASE s.state = "active"
      BY <2>3, <3>0, <3>2
    <3>3. CASE s.state \notin {"quiescing", "active"}
      BY <3>0, <3>3
    <3>. QED  BY <3>1, <3>2, <3>3
  <2>. QED  BY <2>1, <2>2, <2>3
<1>. HIDE DEF u
<1>2. CASE u = s
  BY <1>2, KeptItself DEF u
<1>3. CASE u = removeRequest(s, f.id)
  BY <1>0, <1>3, RemoveRequestGood DEF u
<1>4. CASE u = enqueueHost(s, f, TRUE)
  <2>1. Good(s, u, HandIds(f), W, G, A)
    BY <1>4, EnqueueGood
  <2>. QED  BY <1>0, <2>1 DEF u
<1>5. CASE /\ Cancellable(s, f.id)
           /\ u = IF c.terminal THEN c ELSE ReplaceUnlessDelivered(writeChild(c, f))
  <2>1. Good(s, c, {}, W, G, A)
    <3>1. f.id \in Open(s)
      BY <1>5 DEF Cancellable, Open
    <3>. QED  BY <1>0, <3>1, CancelRequestGood
  <2>. HIDE DEF c
  <2>2. CASE c.terminal
    BY <1>5, <2>1, <2>2 DEF u
  <2>3. CASE ~c.terminal
    <3>1. Good(c, u, {}, W, G, A)
      BY <1>0, <1>5, <2>1, <2>3, WriteOrReplaceGood DEF Good
    <3>2. Good(s, u, {}, W, G, A)
      BY <1>0, <2>1, <2>3, <3>1, GoodChain
    <3>. QED  BY <3>2 DEF u
  <2>. QED  BY <2>2, <2>3
<1>. QED  BY <1>1, <1>2, <1>3, <1>4, <1>5

\* A change of the engine's registry that leaves the requests alone.
LEMMA ChildKeepsGood ==
  ASSUME NEW s, NEW g, NEW W, NEW G, NEW A, RunnerOk(s, W, G, A), KeepsRequests(s.child, g)
  PROVE  LET t == [s EXCEPT !.child = g]
         IN  Good(s, t, {}, W, G, A) /\ Stays(s, t)
<1>. DEFINE t == [s EXCEPT !.child = g]
<1>1. /\ Shape(t) /\ Stays(s, t) /\ t.child = g /\ t.host = s.host
      /\ t.pending = s.pending /\ t.toHost = s.toHost /\ t.toChild = s.toChild
      /\ t.told = s.told /\ t.wrote = s.wrote
  BY ChildRegistryFacts DEF RunnerOk, KeepsRequests
<1>. HIDE DEF t
<1>2. Steady(s, t)
  BY <1>1 DEF Steady, Alike, KeepsRequests
<1>3. Good(s, t, {}, W, G, A)
  BY <1>1, <1>2, SteadyGood
<1>. QED  BY <1>1, <1>3 DEF t

\* Progress of the host on an engine's request.
LEMMA HostProgressGood ==
  ASSUME NEW s, NEW W, NEW G, NEW A, NEW f, RunnerOk(s, W, G, A), ~s.terminal,
         f \in FrameSet, f.k = "progress"
  PROVE  Good(s, handleHostProgress(s, f), {}, W, G, A)
<1>. DEFINE u == handleHostProgress(s, f)
            g == acceptProgress(s.child, f.id, 1)
            t == [s EXCEPT !.child = g]
<1>1. KeepsRequests(s.child, g) /\ Shape(s)
  BY AcceptProgressKeeps DEF RunnerOk, Shape
<1>2. u = s \/ u = ReplaceUnlessDelivered(writeChild(t, f))
  BY Zenon DEF handleHostProgress
<1>. HIDE DEF g, u
<1>3. Good(s, t, {}, W, G, A) /\ Stays(s, t)
  BY <1>1, ChildKeepsGood
<1>. HIDE DEF t
<1>4. CASE u = s
  BY <1>4, KeptItself DEF u
<1>5. CASE u = ReplaceUnlessDelivered(writeChild(t, f))
  <2>1. ~t.terminal /\ RunnerOk(t, W, G, A)
    BY <1>3 DEF Stays, Good
  <2>2. Good(t, u, {}, W, G, A)
    BY <1>5, <2>1, WriteOrReplaceGood
  <2>3. Good(s, u, {}, W, G, A)
    BY <1>1, <1>3, <2>1, <2>2, GoodChain
  <2>. QED  BY <2>3 DEF u
<1>. QED  BY <1>2, <1>4, <1>5

\* A task status of the host.
LEMMA HostStatusGood ==
  ASSUME NEW s, NEW W, NEW G, NEW A, NEW f, RunnerOk(s, W, G, A), ~s.terminal,
         f \in FrameSet, f.k = "status"
  PROVE  Good(s, handleHostTaskStatus(s, f), {}, W, G, A)
<1>. DEFINE u == handleHostTaskStatus(s, f)
            g == updateTask(s.child, f.task, f.status, s.cur)
            t == [s EXCEPT !.child = g]
            e == EndOnError(t)
<1>1. KeepsRequests(s.child, g) /\ Shape(s)
  BY UpdateTaskKeeps DEF RunnerOk, Shape
<1>2. u = s \/ u = IF e.terminal THEN e ELSE ReplaceUnlessDelivered(writeChild(e, f))
  BY Zenon DEF handleHostTaskStatus, Then
<1>. HIDE DEF g, u
<1>3. Good(s, t, {}, W, G, A) /\ Stays(s, t)
  BY <1>1, ChildKeepsGood
<1>. HIDE DEF t
<1>4. CASE u = s
  BY <1>4, KeptItself DEF u
<1>5. CASE u = IF e.terminal THEN e ELSE ReplaceUnlessDelivered(writeChild(e, f))
  <2>1. ~t.terminal /\ RunnerOk(t, W, G, A)
    BY <1>3 DEF Stays, Good
  <2>2. Good(s, e, {}, W, G, A)
    BY <1>1, <1>3, <2>1, EndOnErrorGood DEF Good
  <2>. HIDE DEF e
  <2>3. CASE e.terminal
    BY <1>5, <2>2, <2>3 DEF u
  <2>4. CASE ~e.terminal
    <3>1. Good(e, u, {}, W, G, A)
      BY <1>5, <2>2, <2>4, WriteOrReplaceGood DEF Good
    <3>2. Good(s, u, {}, W, G, A)
      BY <1>1, <2>2, <2>4, <3>1, GoodChain
    <3>. QED  BY <3>2 DEF u
  <2>. QED  BY <2>3, <2>4
<1>. QED  BY <1>2, <1>4, <1>5

\* A frame for this engine alone is handled, kept for it, or dropped.
LEMMA SameGenerationGood ==
  ASSUME NEW s, NEW v, NEW W, NEW G, NEW A, NEW f, RunnerOk(s, W, G, A), ~s.terminal,
         HandFrame(s, f, W, G, A), f.k \notin {"request", "initialize"}, Good(s, v, {}, W, G, A)
  PROVE  Good(s, SameGeneration(s, f, v), {}, W, G, A)
<1>. DEFINE u == SameGeneration(s, f, v)
<1>1. u \in {s, v, enqueueHost(s, f, TRUE)}
  <2>0. u = CASE s.state = "active" -> v
              [] s.state = "quiescing" -> enqueueHost(s, f, TRUE)
              [] OTHER -> s
    BY DEF SameGeneration
  <2>. HIDE DEF u
  <2>1. CASE s.state = "active"
    BY <2>0, <2>1
  <2>2. CASE s.state = "quiescing"
    BY <2>0, <2>2
  <2>3. CASE s.state \notin {"quiescing", "active"}
    BY <2>0, <2>3
  <2>. QED  BY <2>1, <2>2, <2>3
<1>. HIDE DEF u
<1>2. HandIds(f) = {}
  BY DEF HandIds
<1>3. Good(s, enqueueHost(s, f, TRUE), HandIds(f), W, G, A)
  BY EnqueueGood
<1>4. Good(s, s, {}, W, G, A)
  BY KeptItself
<1>5. Good(s, u, {}, W, G, A)
  BY <1>1, <1>2, <1>3, <1>4
<1>. QED  BY <1>5 DEF u

\* A late answer releases the request it answers.
LEMMA LateGood ==
  ASSUME NEW s, NEW W, NEW G, NEW A, NEW f, RunnerOk(s, W, G, A), ~s.terminal,
         HandFrame(s, f, W, G, A), f.k = "response"
  PROVE  Good(s, EndOnError([s EXCEPT !.child = consumeRetiredResponse(s.child, f.id, f)]), {}, W, G, A)
<1>. DEFINE g == consumeRetiredResponse(s.child, f.id, f)
            t == [s EXCEPT !.child = g]
<1>1. Releases(s.child, g, f.id) /\ Shape(s)
  BY ConsumeReleases DEF RunnerOk, Shape
<1>. HIDE DEF g
<1>2. /\ Shape(t) /\ Stays(s, t) /\ t.child = g /\ t.host = s.host
      /\ t.pending = s.pending /\ t.toHost = s.toHost /\ t.toChild = s.toChild
      /\ t.told = s.told /\ t.wrote = s.wrote
  BY <1>1, ChildRegistryFacts DEF Releases
<1>. HIDE DEF t
<1>3. Settles(s, t, f.id)
  <2>1. DOMAIN Drop(s.child.retiredRequests, {f.id}) = DOMAIN s.child.retiredRequests \ {f.id}
    BY DropFacts
  <2>. QED  BY <1>1, <1>2, <2>1 DEF Releases, Settles
<1>4. Good(s, t, {}, W, G, A)
  BY <1>2, <1>3, SettleGood
<1>5. Good(s, EndOnError(t), {}, W, G, A)
  BY <1>1, <1>2, <1>4, EndOnErrorGood DEF Good, Stays
<1>. QED  BY <1>5 DEF t, g

\* A task status that only a retired engine awaited.
LEMMA EndedGood ==
  ASSUME NEW s, NEW W, NEW G, NEW A, NEW f, RunnerOk(s, W, G, A), ~s.terminal
  PROVE  Good(s, EndOnError([s EXCEPT !.child = consumeRetiredTaskStatus(s.child, f.task, f.status)]),
              {}, W, G, A)
<1>. DEFINE g == consumeRetiredTaskStatus(s.child, f.task, f.status)
            t == [s EXCEPT !.child = g]
<1>1. KeepsRequests(s.child, g) /\ Shape(s)
  BY ConsumeStatusKeeps DEF RunnerOk, Shape
<1>. HIDE DEF g
<1>2. Good(s, t, {}, W, G, A) /\ Stays(s, t)
  BY <1>1, ChildKeepsGood
<1>. HIDE DEF t
<1>3. Good(s, EndOnError(t), {}, W, G, A)
  BY <1>1, <1>2, EndOnErrorGood DEF Good, Stays
<1>. QED  BY <1>3 DEF t, g

\* A frame of a legacy host.
LEMMA LegacyHostGood ==
  ASSUME NEW s, NEW W, NEW G, NEW A, NEW f, RunnerOk(s, W, G, A), ~s.terminal, ~s.modern,
         HandFrame(s, f, W, G, A)
  PROVE  Good(s, handleLegacyHost(s, f), HandIds(f), W, G, A)
<1>. DEFINE u == handleLegacyHost(s, f)
            late == [s EXCEPT !.child = consumeRetiredResponse(s.child, f.id, f)]
            ended == [s EXCEPT !.child = consumeRetiredTaskStatus(s.child, f.task, f.status)]
            B == LifecycleHandles(s, f)
<1>0. f \in FrameSet /\ (~B => f.k # "initialize")
      /\ (f.k \notin {"request", "initialize"} => HandIds(f) = {})
  BY DEF HandFrame, LifecycleHandles, HandIds
<1>1. CASE B
  <2>1. u = handleHostLifecycle(s, f)
    BY <1>1, Zenon DEF handleLegacyHost
  <2>. HIDE DEF u
  <2>. QED  BY <2>1, HostLifecycleGood DEF u
<1>2. CASE ~B /\ f.k = "response"
  <2>1. u = IF f.id \in DOMAIN s.child.retiredRequests THEN EndOnError(late)
            ELSE IF s.state \in {"active", "replaying", "awaiting_exit"} THEN handleHostResponse(s, f)
            ELSE IF s.state = "quiescing" THEN enqueueHost(s, f, TRUE) ELSE s
    <3>. HIDE DEF B
    <3>1. f.k \notin {"status", "cancel", "progress"}
      BY <1>2
    <3>. QED  BY <1>2, <3>1, Zenon DEF handleLegacyHost, B
  <2>. HIDE DEF u, late
  <2>2. Good(s, EndOnError(late), {}, W, G, A)
    BY <1>2, LateGood DEF late
  <2>3. Good(s, handleHostResponse(s, f), {}, W, G, A)
    BY <1>2, HostResponseGood
  <2>4. Good(s, enqueueHost(s, f, TRUE), HandIds(f), W, G, A)
    BY <1>2, EnqueueGood
  <2>5. Good(s, s, {}, W, G, A)
    BY KeptItself
  <2>6. Good(s, u, HandIds(f), W, G, A)
    BY <1>0, <1>2, <2>1, <2>2, <2>3, <2>4, <2>5
  <2>. QED  BY <2>6 DEF u
<1>3. CASE ~B /\ f.k = "status"
  <2>. DEFINE h == SameGeneration(s, f, handleHostTaskStatus(s, f))
  <2>1. u = IF knowsRetiredTask(s.child, f.task) THEN EndOnError(ended) ELSE h
    <3>1. f.k \notin {"response", "cancel", "progress"}
      BY <1>3
    <3>. QED  BY <1>3, <3>1, Zenon DEF handleLegacyHost
  <2>. HIDE DEF u
  <2>2. Good(s, EndOnError(ended), {}, W, G, A)
    BY EndedGood
  <2>3. Good(s, handleHostTaskStatus(s, f), {}, W, G, A)
    BY <1>0, <1>3, HostStatusGood
  <2>4. Good(s, h, {}, W, G, A)
    BY <1>3, <2>3, SameGenerationGood
  <2>. HIDE DEF h, ended
  <2>5. Good(s, u, HandIds(f), W, G, A)
    BY <1>0, <1>3, <2>1, <2>2, <2>4
  <2>. QED  BY <2>5 DEF u
<1>4. CASE ~B /\ f.k = "cancel"
  <2>1. u = handleHostCancellation(s, f)
    <3>1. f.k \notin {"response", "status", "progress"}
      BY <1>4
    <3>. QED  BY <1>4, <3>1, Zenon DEF handleLegacyHost
  <2>. HIDE DEF u
  <2>2. Good(s, u, {}, W, G, A)
    BY <1>4, <2>1, HostCancellationGood
  <2>. QED  BY <1>0, <1>4, <2>2 DEF u
<1>5. CASE ~B /\ f.k = "progress"
  <2>. DEFINE h == SameGeneration(s, f, handleHostProgress(s, f))
  <2>1. u = h
    <3>1. f.k \notin {"response", "status", "cancel"}
      BY <1>5
    <3>. QED  BY <1>5, <3>1, Zenon DEF handleLegacyHost
  <2>. HIDE DEF u
  <2>3. Good(s, handleHostProgress(s, f), {}, W, G, A)
    BY <1>0, <1>5, HostProgressGood
  <2>4. Good(s, h, {}, W, G, A)
    BY <1>5, <2>3, SameGenerationGood
  <2>. HIDE DEF h
  <2>5. Good(s, u, HandIds(f), W, G, A)
    BY <1>0, <1>5, <2>1, <2>4
  <2>. QED  BY <2>5 DEF u
<1>6. CASE ~B /\ f.k \notin {"response", "status", "cancel", "progress"}
  <2>1. u = deliverHostFirst(s, f)
    <3>1. f.k # "response" /\ f.k # "status" /\ f.k # "cancel" /\ f.k # "progress"
      BY <1>6
    <3>. QED  BY <1>6, <3>1, Zenon DEF handleLegacyHost
  <2>. HIDE DEF u
  <2>2. f.k \notin {"initialize", "response"}
    BY <1>0, <1>6
  <2>. QED  BY <2>1, <2>2, DeliverGood DEF u
<1>. QED  BY <1>1, <1>2, <1>3, <1>4, <1>5, <1>6

\* A frame of a modern host.
LEMMA ModernHostGood ==
  ASSUME NEW s, NEW W, NEW G, NEW A, NEW f, RunnerOk(s, W, G, A), ~s.terminal, s.modern,
         HandFrame(s, f, W, G, A)
  PROVE  Good(s, handleModernHost(s, f), HandIds(f), W, G, A)
<1>. DEFINE u == handleModernHost(s, f)
<1>0. f.k \notin {"initialize", "response"}
      /\ (f.k \notin {"request", "initialize"} => HandIds(f) = {})
  BY DEF HandFrame, HostFrameOk, HandIds
<1>1. CASE f.k \in {"response", "progress"}
  <2>1. u = s
    <3>1. f.k # "cancel"
      BY <1>1
    <3>. QED  BY <1>1, <3>1, Zenon DEF handleModernHost
  <2>. HIDE DEF u
  <2>2. f.k \notin {"request", "initialize"}
    BY <1>1
  <2>. QED  BY <1>0, <2>1, <2>2, KeptItself DEF u
<1>2. CASE f.k = "cancel"
  <2>1. u = handleHostCancellation(s, f)
    <3>1. f.k \notin {"response", "progress"}
      BY <1>2
    <3>. QED  BY <1>2, <3>1, Zenon DEF handleModernHost
  <2>. HIDE DEF u
  <2>2. Good(s, u, {}, W, G, A)
    BY <1>2, <2>1, HostCancellationGood
  <2>. QED  BY <1>0, <1>2, <2>2 DEF u
<1>3. CASE f.k \notin {"response", "progress"} /\ f.k # "cancel"
  <2>1. u = IF s.state = "active" THEN deliverHostFirst(s, f) ELSE enqueueHost(s, f, FALSE)
    BY <1>3, Zenon DEF handleModernHost
  <2>. HIDE DEF u
  <2>2. Good(s, deliverHostFirst(s, f), HandIds(f), W, G, A)
    BY <1>0, DeliverGood
  <2>3. Good(s, enqueueHost(s, f, FALSE), HandIds(f), W, G, A)
    BY <1>0, EnqueueGood
  <2>. QED  BY <2>1, <2>2, <2>3 DEF u
<1>. QED  BY <1>1, <1>2, <1>3

\* The dormant lease is armed again.
LEMMA ArmGood ==
  ASSUME NEW s, NEW W, NEW G, NEW A, RunnerOk(s, W, G, A)
  PROVE  LET t == [s EXCEPT !.leaseT = TRUE]
         IN  Good(s, t, {}, W, G, A) /\ t.leaseT
<1>. DEFINE t == [s EXCEPT !.leaseT = TRUE]
<1>1. IsRunner(s)
  BY DEF RunnerOk, Shape
<1>2. /\ t.state = s.state /\ t.modern = s.modern /\ t.gen = s.gen /\ t.cur = s.cur
      /\ t.starting = s.starting /\ t.leaseT = TRUE
      /\ t.initReq = s.initReq /\ t.awaiting = s.awaiting /\ t.initialized = s.initialized
      /\ t.exit = s.exit /\ t.live = s.live /\ t.terminal = s.terminal /\ t.lease = s.lease
      /\ t.pending = s.pending /\ t.toHost = s.toHost /\ t.toChild = s.toChild
      /\ t.host = s.host /\ t.child = s.child /\ t.told = s.told /\ t.wrote = s.wrote
      /\ t.fate = s.fate /\ IsRunner(t)
  BY <1>1 DEF IsRunner, RunnerFields
<1>. HIDE DEF t
<1>3. Shape(t)
  BY <1>2 DEF RunnerOk, Shape
<1>4. QueuedIds(t) = QueuedIds(s) /\ Open(t) = Open(s) /\ OnBooks(t) = OnBooks(s)
  BY <1>2 DEF QueuedIds, OnBooks, Open
<1>5. Engine(t) /\ Registers(t)
  BY <1>2 DEF RunnerOk, Engine, Registers, Open
<1>6. ~s.terminal => Queue(t, W)
  BY <1>2, <1>4 DEF RunnerOk, Queue, HostFrameOk
<1>8. ~s.terminal => Lifecycle(t)
  BY <1>2 DEF RunnerOk, Lifecycle
<1>9. ~s.terminal => GotOk(t, W, G)
  BY <1>2, <1>4 DEF RunnerOk, GotOk
<1>10. ~s.terminal => HoldersOk(t, A)
  BY <1>2 DEF RunnerOk, HoldersOk, Due
<1>11. Engines(s, t)
  BY <1>2 DEF Engines, Spare, RunnerOk, Shape
<1>12. Answers(s, t, {}, W) /\ Writes(s, t, {})
  BY <1>2, <1>4 DEF Answers, Writes
<1>. QED  BY <1>2, <1>3, <1>5, <1>6, <1>8, <1>9, <1>10, <1>11, <1>12 DEF RunnerOk, Good, Kept, t

\* A lease that ran out ends the session or is armed again.
LEMMA FinishLeaseGood ==
  ASSUME NEW s, NEW W, NEW G, NEW A, RunnerOk(s, W, G, A)
  PROVE  LET t == finishDormantLease(s)
         IN  Good(s, t, {}, W, G, A) /\ (t.terminal \/ t.leaseT)
BY TerminateGood, ArmGood DEF finishDormantLease

\* A frame of the host; a dormant runner is left with its lease armed.
LEMMA HostEventGood ==
  ASSUME NEW s, NEW W, NEW G, NEW A, NEW f, RunnerOk(s, W, G, A), ~s.terminal,
         HandFrame(s, f, W, G, A)
  PROVE  LET u == handleHostEvent(s, f)
         IN  /\ Good(s, u, HandIds(f), W, G, A)
             /\ u.terminal \/ u.state # "dormant" \/ u.leaseT
<1>. DEFINE x == IF f.method = "reserved" THEN rejectHostRequest(s, f.id)
                 ELSE IF s.modern THEN handleModernHost(s, f) ELSE handleLegacyHost(s, f)
            u == resumeDormantLeaseAfterHost(x)
<1>1. Good(s, x, HandIds(f), W, G, A)
  <2>1. CASE f.method = "reserved"
    <3>1. f.k = "request"
      BY <2>1 DEF HandFrame, HostFrameOk
    <3>. QED  BY <2>1, <3>1, HandRejectGood
  <2>2. CASE f.method # "reserved"
    BY <2>2, ModernHostGood, LegacyHostGood
  <2>. QED  BY <2>1, <2>2
<1>2. handleHostEvent(s, f) = u
  BY DEF handleHostEvent
<1>. HIDE DEF x
<1>3. CASE x.terminal \/ x.state # "dormant" \/ x.leaseT
  <2>1. u = x
    BY <1>3 DEF resumeDormantLeaseAfterHost
  <2>. QED  BY <1>1, <1>2, <1>3, <2>1
<1>4. CASE ~(x.terminal \/ x.state # "dormant" \/ x.leaseT)
  <2>1. u = finishDormantLease(x)
    BY <1>4 DEF resumeDormantLeaseAfterHost
  <2>2. Good(x, u, {}, W, G, A) /\ (u.terminal \/ u.leaseT)
    BY <1>1, <2>1, FinishLeaseGood DEF Good
  <2>. HIDE DEF u
  <2>3. Good(s, u, HandIds(f), W, G, A)
    BY <1>1, <1>4, <2>2, GoodChain DEF RunnerOk
  <2>. QED  BY <1>2, <2>2, <2>3
<1>. QED  BY <1>3, <1>4

-----------------------------------------------------------------------------
(* The queue is flushed *)

Takes(s, t, f) == QueuedIds(s) = QueuedIds(t) \cup HandIds(f)

\* An entry taken out of the queue is a frame in hand again.
LEMMA TakeOutOk ==
  ASSUME NEW s, NEW t, NEW W, NEW G, NEW A, RunnerOk(s, W, G, A), ~s.terminal,
         NEW j \in DOMAIN s.pending, NEW h,
         Selects(t.pending, s.pending, {j}, Len(s.pending), h),
         Shape(t), Stays(s, t), t.host = s.host, t.child = s.child, t.told = s.told,
         t.wrote = s.wrote, t.toHost = s.toHost, t.toChild = s.toChild
  PROVE  /\ RunnerOk(t, W, G, A) /\ HandFrame(t, s.pending[j].f, W, G, A)
         /\ Takes(s, t, s.pending[j].f)
<1>. DEFINE p == t.pending
            q == s.pending
            f == q[j].f
<1>1. /\ p \in Seq(Entry) /\ q \in Seq(Entry) /\ DOMAIN p = 1 .. Len(p) /\ DOMAIN q = 1 .. Len(q)
  BY DEF RunnerOk, Shape
<1>2. /\ h \in [1 .. Len(p) -> (1 .. Len(q)) \ {j}]
      /\ \A a \in 1 .. Len(p) : p[a] = q[h[a]]
      /\ \A a, b \in 1 .. Len(p) : h[a] = h[b] => a = b
      /\ \A m \in (1 .. Len(q)) \ {j} : \E a \in 1 .. Len(p) : h[a] = m
  BY DEF Selects
<1>3. RunnerOk(t, W, G, A)
  <2>1. Thins(p, q)
    <3>1. h \in [1 .. Len(p) -> 1 .. Len(q)]
      BY <1>2
    <3>. QED  BY <1>2, <3>1 DEF Thins
  <2>. HIDE DEF p, q
  <2>2. Thins(t.pending, s.pending)
    BY <2>1 DEF p, q
  <2>. QED  BY <2>2, ThinOk
<1>4. /\ \A a \in DOMAIN p : h[a] \in DOMAIN q /\ h[a] # j /\ p[a] = q[h[a]]
      /\ \A m \in DOMAIN q : m # j => \E a \in DOMAIN p : p[a] = q[m]
  <2>. HIDE DEF p, q
  <2>1. ASSUME NEW a \in DOMAIN p
        PROVE  h[a] \in DOMAIN q /\ h[a] # j /\ p[a] = q[h[a]]
    <3>1. a \in 1 .. Len(p)
      BY <1>1
    <3>2. h[a] \in (1 .. Len(q)) \ {j}
      BY <1>2, <3>1
    <3>. QED  BY <1>1, <1>2, <3>1, <3>2
  <2>2. ASSUME NEW m \in DOMAIN q, m # j
        PROVE  \E a \in DOMAIN p : p[a] = q[m]
    <3>1. PICK a \in 1 .. Len(p) : h[a] = m
      BY <1>1, <1>2, <2>2
    <3>2. a \in DOMAIN p /\ p[a] = q[m]
      BY <1>1, <1>2, <3>1
    <3>. QED  BY <3>2
  <2>. QED  BY <2>1, <2>2
<1>5. /\ HostFrameOk(s, f, W) /\ f.k # "initialize"
      /\ f.k = "request" => f.id \notin Open(s)
      /\ \A i \in DOMAIN q :
           q[i].f.k = "request" /\ f.k = "request" /\ q[i].f.id = f.id => i = j
  BY DEF RunnerOk, Queue
<1>6. f.k = "response" =>
        /\ Due(s, f) /\ ~s.modern
        /\ \A a \in A \cup s.toHost : a.id # f.id
        /\ \A i \in DOMAIN q : q[i].f.k = "response" /\ q[i].f.id = f.id => i = j
  BY DEF RunnerOk, HoldersOk
<1>7. f \in FrameSet
  <2>1. q[j] \in Entry
    BY <1>1
  <2>. QED  BY <2>1 DEF Entry
<1>8. QueuedIds(s) = QueuedIds(t) \cup HandIds(f)
  <2>1. ASSUME NEW i \in QueuedIds(s) PROVE i \in QueuedIds(t) \cup HandIds(f)
    <3>1. PICK m \in DOMAIN q : q[m].f.k = "request" /\ q[m].f.id = i
      BY DEF QueuedIds
    <3>2. CASE m = j
      BY <3>1, <3>2 DEF HandIds
    <3>3. CASE m # j
      BY <1>4, <3>1, <3>3 DEF QueuedIds
    <3>. QED  BY <3>2, <3>3
  <2>2. ASSUME NEW i \in QueuedIds(t) PROVE i \in QueuedIds(s)
    BY <1>4 DEF QueuedIds
  <2>3. ASSUME NEW i \in HandIds(f) PROVE i \in QueuedIds(s)
    BY <1>5 DEF QueuedIds, HandIds
  <2>. QED  BY <2>1, <2>2, <2>3
<1>9. f.k = "request" => f.id \notin QueuedIds(t)
  BY <1>4, <1>5, SMTT(20) DEF QueuedIds
<1>10. f.k = "request" => f.id \in HostReq /\ f.id # InitId
  BY <1>5, SupervisorAssumption DEF HostFrameOk
<1>11. f.k = "request" => f.id \notin OnBooks(t)
  BY <1>5, <1>9, <1>10 DEF OnBooks, Open
<1>12. f.k = "request" /\ s.cur # 0 => \A g \in G \cup s.toChild : g.k = "request" => g.id # f.id
  <2>1. f.k = "request" => f.id \in QueuedIds(s)
    BY <1>8 DEF HandIds
  <2>. HIDE DEF f
  <2>. QED  BY <2>1 DEF RunnerOk, GotOk
<1>. HIDE DEF f
<1>13. f.k = "response" =>
         /\ Due(t, f) /\ ~t.modern
         /\ \A a \in A \cup t.toHost : a.id # f.id
         /\ \A i \in DOMAIN p : p[i].f.k = "response" => p[i].f.id # f.id
  BY <1>4, <1>6 DEF Due, Stays
<1>14. HandFrame(t, f, W, G, A)
  <2>1. HostFrameOk(t, f, W)
    BY <1>5 DEF HostFrameOk, Stays
  <2>. QED  BY <1>5, <1>7, <1>11, <1>12, <1>13, <2>1 DEF HandFrame, Stays
<1>. QED  BY <1>3, <1>8, <1>14 DEF f, Takes

\* What is done with it is done with the queue it was in.
LEMMA TakeOutGood ==
  ASSUME NEW s, NEW t, NEW u, NEW W, NEW G, NEW A, NEW f, RunnerOk(s, W, G, A), ~s.terminal,
         Stays(s, t), t.host = s.host, t.told = s.told,
         t.wrote = s.wrote, t.toHost = s.toHost, t.toChild = s.toChild,
         Takes(s, t, f), f.k # "initialize",
         HandFrame(t, f, W, G, A), Good(t, u, HandIds(f), W, G, A)
  PROVE  Good(s, u, {}, W, G, A)
<1>1. OnBooks(s) = OnBooks(t) \cup HandIds(f)
  BY DEF OnBooks, Open, Stays, Takes
<1>2. InitId \notin HandIds(f)
  BY SupervisorAssumption DEF HandIds, HandFrame, HostFrameOk
<1>3. Engines(s, u)
  BY DEF Good, Kept, Engines, Spare, Stays
<1>4. Answers(s, u, {}, W)
  BY <1>1 DEF Good, Kept, Answers
<1>5. Writes(s, u, {})
  BY DEF Good, Kept, Writes, Stays, Takes
<1>. QED  BY <1>2, <1>3, <1>4, <1>5 DEF Good, Kept, Stays

\* The queue without an entry, as a runner.
LEMMA QueueFacts ==
  ASSUME NEW s, Shape(s), NEW q \in Seq(Entry), Len(q) <= QueueCap
  PROVE  LET t == [s EXCEPT !.pending = q]
         IN  /\ Shape(t) /\ Stays(s, t) /\ t.host = s.host /\ t.child = s.child
             /\ t.pending = q /\ t.toHost = s.toHost /\ t.toChild = s.toChild
             /\ t.told = s.told /\ t.wrote = s.wrote
BY DEF Shape, IsRunner, RunnerFields, Stays

\* The first frame that waits is handled.
LEMMA FlushOneGood ==
  ASSUME NEW s, NEW W, NEW G, NEW A, RunnerOk(s, W, G, A)
  PROVE  Good(s, FlushOne(s), {}, W, G, A)
<1>1. CASE ~(~s.terminal /\ s.cur # 0 /\ s.state = "active" /\ s.pending # <<>>)
  BY <1>1, KeptItself DEF FlushOne
<1>2. CASE ~s.terminal /\ s.cur # 0 /\ s.state = "active" /\ s.pending # <<>>
  <2>. DEFINE q == Tail(s.pending)
              f == s.pending[1].f
              t == [s EXCEPT !.pending = q]
              u == handleHostEvent(t, f)
              h == [a \in 1 .. Len(q) |-> a + 1]
  <2>1. FlushOne(s) = u
    BY <1>2 DEF FlushOne
  <2>2. s.pending \in Seq(Entry) /\ Len(s.pending) \in Nat /\ Len(s.pending) <= QueueCap /\ Shape(s)
    BY DEF RunnerOk, Shape
  <2>3. /\ q \in Seq(Entry) /\ Len(q) = Len(s.pending) - 1 /\ Len(q) \in Nat
        /\ 1 \in DOMAIN s.pending
        /\ \A a \in 1 .. Len(q) : q[a] = s.pending[a + 1]
    BY <1>2, <2>2
  <2>4. QueueCap \in Nat /\ Len(q) <= QueueCap
    BY <2>2, <2>3, SupervisorAssumption
  <2>. HIDE DEF q
  <2>5. /\ Shape(t) /\ Stays(s, t) /\ t.host = s.host /\ t.child = s.child
        /\ t.pending = q /\ t.toHost = s.toHost /\ t.toChild = s.toChild
        /\ t.told = s.told /\ t.wrote = s.wrote
    BY <2>2, <2>3, <2>4, QueueFacts
  <2>. HIDE DEF t, u
  <2>6. Selects(q, s.pending, {1}, Len(s.pending), h)
    <3>1. h \in [1 .. Len(q) -> (1 .. Len(s.pending)) \ {1}]
      BY <2>2, <2>3
    <3>2. \A m \in (1 .. Len(s.pending)) \ {1} : m - 1 \in 1 .. Len(q) /\ h[m - 1] = m
      BY <2>2, <2>3
    <3>3. \A a, b \in 1 .. Len(q) : h[a] = h[b] => a = b
      BY <2>3
    <3>. QED  BY <2>3, <3>1, <3>2, <3>3 DEF Selects
  <2>. HIDE DEF h
  <2>7. /\ RunnerOk(t, W, G, A) /\ HandFrame(t, f, W, G, A)
        /\ Takes(s, t, f)
    BY <1>2, <2>3, <2>5, <2>6, TakeOutOk
  <2>8. f.k # "initialize"
    BY <1>2, <2>3 DEF RunnerOk, Queue
  <2>. HIDE DEF f
  <2>9. Good(t, u, HandIds(f), W, G, A)
    BY <1>2, <2>5, <2>7, HostEventGood DEF Stays, u
  <2>10. Good(s, u, {}, W, G, A)
    BY <1>2, <2>5, <2>7, <2>8, <2>9, TakeOutGood
  <2>. QED  BY <2>1, <2>10
<1>. QED  BY <1>1, <1>2

IsFlush(g, s, N) == g = [n \in 0 .. N |-> IF n = 0 THEN s ELSE FlushOne(g[n - 1])]

\* flushPending as an equation.
LEMMA FlushDef ==
  ASSUME NEW s, NEW N \in Nat
  PROVE  \E g : IsFlush(g, s, N)
<1>. DEFINE S == {m \in Nat : \E g : IsFlush(g, s, m)}
<1>1. 0 \in S
  <2>1. IsFlush([n \in 0 .. 0 |-> s], s, 0)
    BY DEF IsFlush
  <2>. QED  BY <2>1
<1>2. ASSUME NEW m \in S PROVE m + 1 \in S
  <2>1. PICK g : IsFlush(g, s, m)
    OBVIOUS
  <2>. DEFINE h == [n \in 0 .. m + 1 |-> IF n = m + 1 THEN FlushOne(g[m]) ELSE g[n]]
  <2>2. \A n \in 0 .. m + 1 : h[n] = IF n = 0 THEN s ELSE FlushOne(h[n - 1])
    BY <2>1 DEF IsFlush
  <2>3. h = [n \in 0 .. m + 1 |-> h[n]]
    OBVIOUS
  <2>. HIDE DEF h
  <2>4. IsFlush(h, s, m + 1)
    BY <2>2, <2>3 DEF IsFlush
  <2>5. m + 1 \in Nat
    OBVIOUS
  <2>. QED  BY <2>4, <2>5
<1>3. S = Nat
  <2>1. S \in SUBSET Nat
    OBVIOUS
  <2>. HIDE DEF S
  <2>. QED  BY <1>1, <1>2, <2>1, SetInduction
<1>. QED  BY <1>3

\* Frames that wait are handled, one after the other.
LEMMA FlushGood ==
  ASSUME NEW s, NEW W, NEW G, NEW A, RunnerOk(s, W, G, A)
  PROVE  Good(s, flushPending(s), {}, W, G, A)
<1>. DEFINE N == Len(s.pending)
            g == CHOOSE x : IsFlush(x, s, N)
            P(t) == Good(s, t, {}, W, G, A)
            T == {n \in Nat : n <= N => P(g[n])}
<1>1. N \in Nat /\ Shape(s)
  BY DEF RunnerOk, Shape
<1>2. \E x : IsFlush(x, s, N)
  <2>. HIDE DEF N
  <2>. QED  BY <1>1, FlushDef
<1>3. IsFlush(g, s, N)
  BY <1>2
<1>4. flushPending(s) = g[N]
  BY DEF flushPending, Repeated, IsFlush
<1>. HIDE DEF g, N
<1>5. g[0] = s /\ \A n \in 1 .. N : g[n] = FlushOne(g[n - 1])
  <2>1. \A n \in 0 .. N : g[n] = IF n = 0 THEN s ELSE FlushOne(g[n - 1])
    BY <1>3, Zenon DEF IsFlush
  <2>2. 0 \in 0 .. N /\ \A n \in 1 .. N : n \in 0 .. N /\ n # 0
    BY <1>1
  <2>. QED  BY <2>1, <2>2, Zenon
<1>6. 0 \in T
  <2>1. P(s)
    BY KeptItself
  <2>. QED  BY <1>5, <2>1
<1>7. ASSUME NEW n \in T PROVE n + 1 \in T
  <2>1. SUFFICES ASSUME n + 1 <= N PROVE P(g[n + 1])
    OBVIOUS
  <2>2. n \in Nat /\ P(g[n]) /\ n + 1 \in 1 .. N /\ (n + 1) - 1 = n
    BY <1>1, <2>1
  <2>. DEFINE t == g[n]
  <2>3. g[n + 1] = FlushOne(t)
    BY <1>5, <2>2
  <2>4. P(t)
    BY <2>2
  <2>. HIDE DEF t
  <2>5. CASE t.terminal
    <3>1. FlushOne(t) = t
      BY <2>5 DEF FlushOne
    <3>. QED  BY <2>3, <2>4, <3>1
  <2>6. CASE ~t.terminal
    <3>1. Good(t, FlushOne(t), {}, W, G, A)
      BY <2>4, FlushOneGood DEF Good
    <3>2. Good(s, FlushOne(t), {}, W, G, A)
      BY <1>1, <2>4, <2>6, <3>1, GoodChain
    <3>. QED  BY <2>3, <3>2
  <2>. QED  BY <2>5, <2>6
<1>8. T = Nat
  <2>1. T \in SUBSET Nat
    OBVIOUS
  <2>. HIDE DEF T
  <2>. QED  BY <1>6, <1>7, <2>1, SetInduction
<1>9. P(g[N])
  BY <1>1, <1>8
<1>. QED  BY <1>4, <1>9

\* A ping that waits is delivered.
LEMMA FlushPingGood ==
  ASSUME NEW s, NEW W, NEW G, NEW A, RunnerOk(s, W, G, A)
  PROVE  Good(s, FlushPing(s), {}, W, G, A)
<1>. DEFINE B == ~s.terminal /\ s.cur # 0 /\ s.state = "replaying"
                  /\ (\E j \in DOMAIN s.pending : IsPing(s.pending[j].f))
<1>1. CASE ~B
  BY <1>1, KeptItself DEF FlushPing
<1>2. CASE B
  <2>. DEFINE p == s.pending
              C(i) == i \in DOMAIN p /\ IsPing(p[i].f) /\ \A k \in 1 .. i - 1 : ~IsPing(p[k].f)
              j == CHOOSE i \in DOMAIN p : IsPing(p[i].f) /\ \A k \in 1 .. i - 1 : ~IsPing(p[k].f)
              q == Without(p, {j})
              f == p[j].f
              t == [s EXCEPT !.pending = q]
              u == deliverHostFirst(t, f)
  <2>1. FlushPing(s) = u
    BY <1>2 DEF FlushPing
  <2>2. p \in Seq(Entry) /\ Len(p) \in Nat /\ Len(p) <= QueueCap /\ Shape(s)
        /\ DOMAIN p = 1 .. Len(p)
    BY DEF RunnerOk, Shape
  <2>3. j \in DOMAIN p /\ IsPing(f)
    <3>1. \E i \in DOMAIN p : IsPing(p[i].f) /\ \A k \in 1 .. i - 1 : ~IsPing(p[k].f)
      <4>. DEFINE S == {i \in Nat : \A k \in 1 .. i : k \in DOMAIN p => ~IsPing(p[k].f)}
      <4>1. SUFFICES ASSUME ~(\E i \in DOMAIN p : C(i)) PROVE FALSE
        OBVIOUS
      <4>2. 0 \in S
        OBVIOUS
      <4>3. ASSUME NEW i \in S PROVE i + 1 \in S
        <5>1. i \in Nat /\ (i + 1) - 1 = i
          OBVIOUS
        <5>2. SUFFICES ASSUME NEW k \in 1 .. i + 1, k \in DOMAIN p, IsPing(p[k].f) PROVE FALSE
          BY <5>1
        <5>3. k = i + 1
          BY <5>1, <5>2
        <5>4. \A m \in 1 .. k - 1 : ~IsPing(p[m].f)
          BY <2>2, <5>1, <5>2, <5>3
        <5>. QED  BY <4>1, <5>2, <5>4
      <4>4. S = Nat
        <5>1. S \in SUBSET Nat
          OBVIOUS
        <5>. HIDE DEF S
        <5>. QED  BY <4>2, <4>3, <5>1, SetInduction
      <4>. QED  BY <1>2, <2>2, <4>4
    <3>. QED  BY <3>1, Zenon
  <2>. HIDE DEF j
  <2>4. q \in Seq(Entry) /\ Len(q) <= Len(p) /\ \E x : Selects(q, p, {j}, Len(p), x)
    BY <2>2, WithoutFacts
  <2>5. PICK h : Selects(q, p, {j}, Len(p), h)
    BY <2>4
  <2>6. QueueCap \in Nat /\ Len(q) \in Nat /\ Len(q) <= QueueCap
    BY <2>2, <2>4, SupervisorAssumption
  <2>. HIDE DEF q
  <2>7. /\ Shape(t) /\ Stays(s, t) /\ t.host = s.host /\ t.child = s.child
        /\ t.pending = q /\ t.toHost = s.toHost /\ t.toChild = s.toChild
        /\ t.told = s.told /\ t.wrote = s.wrote
    BY <2>2, <2>4, <2>6, QueueFacts
  <2>. HIDE DEF t, u
  <2>8. /\ RunnerOk(t, W, G, A) /\ HandFrame(t, f, W, G, A)
        /\ Takes(s, t, f)
    BY <1>2, <2>3, <2>5, <2>7, TakeOutOk
  <2>9. f.k = "request"
    BY <2>3 DEF IsPing
  <2>. HIDE DEF f
  <2>10. Good(t, u, HandIds(f), W, G, A)
    BY <1>2, <2>7, <2>8, <2>9, DeliverGood DEF Stays, u
  <2>11. Good(s, u, {}, W, G, A)
    BY <1>2, <2>7, <2>8, <2>9, <2>10, TakeOutGood
  <2>. QED  BY <2>1, <2>11
<1>. QED  BY <1>1, <1>2

IsPings(g, s, N) == g = [n \in 0 .. N |-> IF n = 0 THEN s ELSE FlushPing(g[n - 1])]

\* flushReplayPings as an equation.
LEMMA PingsDef ==
  ASSUME NEW s, NEW N \in Nat
  PROVE  \E g : IsPings(g, s, N)
<1>. DEFINE S == {m \in Nat : \E g : IsPings(g, s, m)}
<1>1. 0 \in S
  <2>1. IsPings([n \in 0 .. 0 |-> s], s, 0)
    BY DEF IsPings
  <2>. QED  BY <2>1
<1>2. ASSUME NEW m \in S PROVE m + 1 \in S
  <2>1. PICK g : IsPings(g, s, m)
    OBVIOUS
  <2>. DEFINE h == [n \in 0 .. m + 1 |-> IF n = m + 1 THEN FlushPing(g[m]) ELSE g[n]]
  <2>2. \A n \in 0 .. m + 1 : h[n] = IF n = 0 THEN s ELSE FlushPing(h[n - 1])
    BY <2>1 DEF IsPings
  <2>3. h = [n \in 0 .. m + 1 |-> h[n]]
    OBVIOUS
  <2>. HIDE DEF h
  <2>4. IsPings(h, s, m + 1)
    BY <2>2, <2>3 DEF IsPings
  <2>5. m + 1 \in Nat
    OBVIOUS
  <2>. QED  BY <2>4, <2>5
<1>3. S = Nat
  <2>1. S \in SUBSET Nat
    OBVIOUS
  <2>. HIDE DEF S
  <2>. QED  BY <1>1, <1>2, <2>1, SetInduction
<1>. QED  BY <1>3

\* Pings that wait are delivered during a replay.
LEMMA PingsGood ==
  ASSUME NEW s, NEW W, NEW G, NEW A, RunnerOk(s, W, G, A)
  PROVE  Good(s, flushReplayPings(s), {}, W, G, A)
<1>. DEFINE N == Len(s.pending)
            g == CHOOSE x : IsPings(x, s, N)
            P(t) == Good(s, t, {}, W, G, A)
            T == {n \in Nat : n <= N => P(g[n])}
<1>1. N \in Nat /\ Shape(s)
  BY DEF RunnerOk, Shape
<1>2. \E x : IsPings(x, s, N)
  <2>. HIDE DEF N
  <2>. QED  BY <1>1, PingsDef
<1>3. IsPings(g, s, N)
  BY <1>2
<1>4. flushReplayPings(s) = g[N]
  BY DEF flushReplayPings, Repeated, IsPings
<1>. HIDE DEF g, N
<1>5. g[0] = s /\ \A n \in 1 .. N : g[n] = FlushPing(g[n - 1])
  <2>1. \A n \in 0 .. N : g[n] = IF n = 0 THEN s ELSE FlushPing(g[n - 1])
    BY <1>3, Zenon DEF IsPings
  <2>2. 0 \in 0 .. N /\ \A n \in 1 .. N : n \in 0 .. N /\ n # 0
    BY <1>1
  <2>. QED  BY <2>1, <2>2, Zenon
<1>6. 0 \in T
  <2>1. P(s)
    BY KeptItself
  <2>. QED  BY <1>5, <2>1
<1>7. ASSUME NEW n \in T PROVE n + 1 \in T
  <2>1. SUFFICES ASSUME n + 1 <= N PROVE P(g[n + 1])
    OBVIOUS
  <2>2. n \in Nat /\ P(g[n]) /\ n + 1 \in 1 .. N /\ (n + 1) - 1 = n
    BY <1>1, <2>1
  <2>. DEFINE t == g[n]
  <2>3. g[n + 1] = FlushPing(t)
    BY <1>5, <2>2
  <2>4. P(t)
    BY <2>2
  <2>. HIDE DEF t
  <2>5. CASE t.terminal
    <3>1. FlushPing(t) = t
      BY <2>5 DEF FlushPing
    <3>. QED  BY <2>3, <2>4, <3>1
  <2>6. CASE ~t.terminal
    <3>1. Good(t, FlushPing(t), {}, W, G, A)
      BY <2>4, FlushPingGood DEF Good
    <3>2. Good(s, FlushPing(t), {}, W, G, A)
      BY <1>1, <2>4, <2>6, <3>1, GoodChain
    <3>. QED  BY <2>3, <3>2
  <2>. QED  BY <2>5, <2>6
<1>8. T = Nat
  <2>1. T \in SUBSET Nat
    OBVIOUS
  <2>. HIDE DEF T
  <2>. QED  BY <1>6, <1>7, <2>1, SetInduction
<1>9. P(g[N])
  BY <1>1, <1>8
<1>. QED  BY <1>4, <1>9
-----------------------------------------------------------------------------
(* Frames of the engine *)

\* A step that changes nothing of interest may come last.
LEMMA SteadyLast ==
  ASSUME NEW s, NEW t, NEW u, NEW H, NEW W, NEW G, NEW A, Good(s, t, H, W, G, A),
         Steady(t, u), Shape(u)
  PROVE  Good(s, u, H, W, G, A)
<1>1. RunnerOk(u, W, G, A) /\ QueuedIds(u) = QueuedIds(t) /\ OnBooks(u) = OnBooks(t)
  BY AlikeOk DEF Good, Steady
<1>2. Engines(s, u)
  BY DEF Good, Kept, Engines, Spare, Steady, Alike, Stays
<1>3. Answers(s, u, H, W)
  BY <1>1 DEF Good, Kept, Answers, Steady, Alike, Stays
<1>4. Writes(s, u, H)
  BY <1>1 DEF Good, Kept, Writes, Steady, Alike, Stays
<1>. QED  BY <1>1, <1>2, <1>3, <1>4 DEF Good, Kept, Steady, Alike, Stays

\* Withdrawn requests may be taken as in hand.
LEMMA WiderGood ==
  ASSUME NEW s, NEW t, NEW W, NEW H \in SUBSET W, NEW G, NEW A, Good(s, t, {}, W, G, A)
  PROVE  Good(s, t, H, W, G, A)
<1>1. Answers(s, t, H, W)
  BY DEF Good, Kept, Answers
<1>2. Writes(s, t, H)
  BY DEF Good, Kept, Writes
<1>. QED  BY <1>1, <1>2 DEF Good, Kept

\* An engine that holds less.
LEMMA LessHeld ==
  ASSUME NEW s, NEW W, NEW G, NEW A, NEW F \in SUBSET G, RunnerOk(s, W, G, A)
  PROVE  RunnerOk(s, W, F, A)
<1>1. ~s.terminal => GotOk(s, W, F)
  BY DEF RunnerOk, GotOk
<1>. QED  BY <1>1 DEF RunnerOk

\* The session ends after an answer.
LEMMA EndGood ==
  ASSUME NEW s, NEW t, NEW H, NEW W, NEW G, NEW A, RunnerOk(s, W, G, A),
         Shape(t), Registers(t), t.terminal,
         t.modern = s.modern, t.gen = s.gen, t.cur = s.cur, t.starting = s.starting,
         t.state = s.state, t.exit = s.exit, t.live = s.live, t.lease = s.lease,
         t.initReq = s.initReq, t.wrote = s.wrote, t.toChild = s.toChild,
         \A i \in Ids : \/ t.told[i] = s.told[i]
                        \/ t.told[i] = s.told[i] + 1 /\ i \in OnBooks(s) \cup H
  PROVE  Good(s, t, H, W, G, A)
<1>1. Engine(t)
  BY DEF RunnerOk, Engine
<1>2. Engines(s, t)
  BY DEF Engines, RunnerOk, Shape
<1>3. Answers(s, t, H, W) /\ Writes(s, t, H)
  BY DEF Answers, Writes
<1>. QED  BY <1>1, <1>2, <1>3 DEF Good, RunnerOk, Kept

Told(s, t, id) == t.told = [s.told EXCEPT ![id] = @ + 1]

\* An open request is answered and closed.
LEMMA AnsweredGood ==
  ASSUME NEW s, NEW t, NEW W, NEW G, NEW A, NEW id, RunnerOk(s, W, G, A), ~s.terminal,
         Shape(t), Stays(s, t), t.pending = s.pending, t.child = s.child,
         t.toHost = s.toHost, t.toChild = s.toChild, t.wrote = s.wrote,
         id \in Open(s), Closing(s, t, id), Unheld(s, id, W, G), Told(s, t, id)
  PROVE  Good(s, t, {}, W, G, A)
<1>1. /\ RunnerOk(t, W, G, A) /\ Engines(s, t) /\ QueuedIds(t) = QueuedIds(s)
      /\ OffBooks(s, t, id)
  BY CloseOk
<1>2. id \in OnBooks(s) /\ id \in Ids
  BY DEF OnBooks, RunnerOk, Registers, Ids
<1>3. s.told \in [Ids -> Nat]
  BY DEF RunnerOk, Shape
<1>4. t.told[id] = s.told[id] + 1 /\ \A i \in Ids : i # id => t.told[i] = s.told[i]
  BY <1>2, <1>3 DEF Told
<1>5. OnBooks(s) \subseteq Ids
  BY SupervisorAssumption DEF OnBooks, QueuedIds, Ids, Open, RunnerOk, Registers, Queue, HostFrameOk
<1>6. Answers(s, t, {}, W)
  <2>1. \A i \in Ids : \/ t.told[i] = s.told[i]
                       \/ t.told[i] = s.told[i] + 1 /\ i \in OnBooks(s)
    BY <1>2, <1>4
  <2>2. OnBooks(t) = OnBooks(s) \ {id}
    BY <1>1 DEF OffBooks
  <2>3. \A i \in OnBooks(t) : i \in OnBooks(s) /\ t.told[i] = s.told[i]
    BY <1>4, <1>5, <2>2
  <2>4. \A i \in Ids \cap OnBooks(s) : i \notin OnBooks(t) => t.told[i] = s.told[i] + 1
    BY <1>4, <2>2
  <2>. QED  BY <2>1, <2>3, <2>4 DEF Answers
<1>7. Writes(s, t, {})
  BY <1>1 DEF Writes
<1>. QED  BY <1>1, <1>6, <1>7 DEF Good, Kept, Stays

\* What an answer to the host does to the runner.
LEMMA AnswerFacts ==
  ASSUME NEW s, Shape(s), NEW id \in Ids
  PROVE  LET t == writeHost(s, Frame("answer", id))
         IN  /\ ~s.fate.host => t = terminate(s) /\ t.terminal
             /\ s.fate.host =>
                  /\ Shape(t) /\ Stays(s, t) /\ t.pending = s.pending
                  /\ t.host = s.host /\ t.child = s.child /\ t.toHost = s.toHost
                  /\ t.toChild = s.toChild /\ t.wrote = s.wrote /\ Told(s, t, id)
<1>. DEFINE t == writeHost(s, Frame("answer", id))
<1>1. CASE ~s.fate.host
  <2>1. t = terminate(s)
    BY <1>1 DEF writeHost
  <2>2. terminate(s).terminal
    BY DEF terminate, Shape, IsRunner, RunnerFields
  <2>. QED  BY <1>1, <2>1, <2>2
<1>2. CASE s.fate.host
  <2>. DEFINE n == [s.told EXCEPT ![id] = @ + 1]
  <2>1. t = [s EXCEPT !.told = n, !.toHost = s.toHost]
    BY <1>2 DEF writeHost, Noted, Frame
  <2>2. n \in [Ids -> Nat]
    BY DEF Shape
  <2>. HIDE DEF n, t
  <2>3. /\ Shape(t) /\ Stays(s, t) /\ t.pending = s.pending
        /\ t.host = s.host /\ t.child = s.child /\ t.toHost = s.toHost
        /\ t.toChild = s.toChild /\ t.wrote = s.wrote /\ t.told = n
    BY <2>1, <2>2, ZenonT(40) DEF Shape, IsRunner, RunnerFields, Stays
  <2>. QED  BY <1>2, <2>3 DEF Told, n, t
<1>. QED  BY <1>1, <1>2

\* terminate changes one field.
LEMMA TerminateFacts ==
  ASSUME NEW s, Shape(s)
  PROVE  LET t == terminate(s)
         IN  /\ Shape(t) /\ t.terminal /\ t.state = s.state /\ t.modern = s.modern
             /\ t.gen = s.gen /\ t.cur = s.cur /\ t.starting = s.starting
             /\ t.exit = s.exit /\ t.live = s.live /\ t.lease = s.lease
             /\ t.initReq = s.initReq /\ t.host = s.host /\ t.child = s.child
             /\ t.told = s.told /\ t.wrote = s.wrote /\ t.toChild = s.toChild
             /\ t.pending = s.pending /\ t.toHost = s.toHost
<1>. DEFINE t == terminate(s)
<1>1. t = [s EXCEPT !.terminal = TRUE]
  BY DEF terminate
<1>. HIDE DEF t
<1>2. /\ t.terminal /\ t.state = s.state /\ t.modern = s.modern
      /\ t.gen = s.gen /\ t.cur = s.cur /\ t.starting = s.starting
      /\ t.exit = s.exit /\ t.live = s.live /\ t.lease = s.lease
      /\ t.initReq = s.initReq /\ t.host = s.host /\ t.child = s.child
      /\ t.told = s.told /\ t.wrote = s.wrote /\ t.toChild = s.toChild
      /\ t.pending = s.pending /\ t.toHost = s.toHost /\ t.fate = s.fate /\ IsRunner(t)
  BY <1>1 DEF Shape, IsRunner, RunnerFields
<1>3. Shape(t)
  BY <1>2 DEF Shape
<1>. QED  BY <1>2, <1>3 DEF t

\* An answer has been written and its request is closed in the registry.
LEMMA CompletedGood ==
  ASSUME NEW s, NEW w, NEW g, NEW W, NEW G, NEW A, NEW id, RunnerOk(s, W, G, A), ~s.terminal,
         Shape(w), Stays(s, w), w.pending = s.pending, w.host = s.host, w.child = s.child,
         w.toHost = s.toHost, w.toChild = s.toChild, w.wrote = s.wrote, Told(s, w, id),
         id \in Open(s), Unheld(s, id, W, G), Closes(s.host, g, id)
  PROVE  LET u == EndOnError([w EXCEPT !.host = g])
         IN  Good(s, u, {}, W, G, A) /\ (~u.terminal => Stays(s, u))
<1>. DEFINE x == [w EXCEPT !.host = g]
            u == EndOnError(x)
<1>1. /\ Shape(x) /\ Stays(w, x) /\ x.host = g /\ x.child = w.child
      /\ x.pending = w.pending /\ x.toHost = w.toHost /\ x.toChild = w.toChild
      /\ x.told = w.told /\ x.wrote = w.wrote
  BY HostRegistryFacts DEF Closes
<1>. HIDE DEF x
<1>2. Stays(s, x) /\ Told(s, x, id)
  BY <1>1 DEF Stays, Told
<1>3. CASE x.host.err \/ x.child.err
  <2>1. u = terminate(x)
    BY <1>3 DEF EndOnError
  <2>. HIDE DEF u
  <2>2. /\ Shape(u) /\ u.terminal /\ u.state = x.state /\ u.modern = x.modern
        /\ u.gen = x.gen /\ u.cur = x.cur /\ u.starting = x.starting
        /\ u.exit = x.exit /\ u.live = x.live /\ u.lease = x.lease
        /\ u.initReq = x.initReq /\ u.host = x.host /\ u.child = x.child
        /\ u.told = x.told /\ u.wrote = x.wrote /\ u.toChild = x.toChild
    BY <1>1, <2>1, TerminateFacts
  <2>3. Registers(u)
    <3>1. /\ DOMAIN Drop(s.host.requests, {id}) = DOMAIN s.host.requests \ {id}
          /\ \A y \in DOMAIN s.host.requests \ {id} :
               Drop(s.host.requests, {id})[y] = s.host.requests[y]
      BY DropFacts
    <3>2. g.requests = s.host.requests \/ g.requests = Drop(s.host.requests, {id})
      BY DEF Closes
    <3>3. DOMAIN g.requests \subseteq DOMAIN s.host.requests
          /\ \A y \in DOMAIN g.requests : g.requests[y] = s.host.requests[y]
      BY <3>1, <3>2
    <3>4. u.host = g /\ u.child = s.child /\ u.cur = s.cur
      BY <1>1, <1>2, <2>2 DEF Stays
    <3>. QED  BY <3>3, <3>4 DEF RunnerOk, Registers, Open
  <2>4. id \in Ids /\ id \in OnBooks(s) /\ s.told \in [Ids -> Nat]
    BY DEF RunnerOk, Registers, Ids, OnBooks, Shape
  <2>5. \A i \in Ids : \/ u.told[i] = s.told[i]
                       \/ u.told[i] = s.told[i] + 1 /\ i \in OnBooks(s) \cup {}
    BY <1>2, <2>2, <2>4 DEF Told
  <2>6. Good(s, u, {}, W, G, A)
    BY <1>1, <1>2, <2>2, <2>3, <2>5, EndGood DEF Stays
  <2>. QED  BY <2>2, <2>6 DEF u, x
<1>4. CASE ~(x.host.err \/ x.child.err)
  <2>1. u = x
    BY <1>4 DEF EndOnError
  <2>2. Closing(s, x, id)
    BY <1>1, <1>4 DEF Closes, Closing
  <2>3. Good(s, x, {}, W, G, A)
    BY <1>1, <1>2, <2>2, AnsweredGood
  <2>. QED  BY <1>2, <2>1, <2>3 DEF x
<1>. QED  BY <1>3, <1>4

\* The engine holds no initialize.
NoInit(s, G) == \A g \in G \cup s.toChild : g.k # "initialize"

\* The host's initialize is answered.
LEMMA AnswerInitGood ==
  ASSUME NEW s, NEW f, NEW W, NEW G, NEW A, RunnerOk(s, W, G, A), ~s.terminal, s.awaiting,
         NoInit(s, G)
  PROVE  LET t == AnswerInitialize(s, f)
         IN  /\ Good(s, t, {}, W, G, A)
             /\ ~t.terminal => t.state = s.state /\ t.cur = s.cur /\ t.toChild = s.toChild
<1>. DEFINE w == writeHost(s, Frame("answer", InitId))
            t == AnswerInitialize(s, f)
            a == f.kind = "result"
            b == f.kind = "error"
<1>0. InitId \in Ids /\ Shape(s)
  BY DEF Ids, RunnerOk
<1>1. t = IF w.terminal THEN w
          ELSE [w EXCEPT !.awaiting = FALSE, !.initResp = a, !.initFailed = b]
  BY DEF AnswerInitialize, Then
<1>2. /\ ~s.fate.host => w = terminate(s) /\ w.terminal
      /\ s.fate.host =>
           /\ Shape(w) /\ Stays(s, w) /\ w.pending = s.pending
           /\ w.host = s.host /\ w.child = s.child /\ w.toHost = s.toHost
           /\ w.toChild = s.toChild /\ w.wrote = s.wrote /\ Told(s, w, InitId)
  BY <1>0, AnswerFacts
<1>. HIDE DEF w, t, a, b
<1>3. CASE ~s.fate.host
  BY <1>1, <1>2, <1>3, TerminateGood DEF t
<1>4. CASE s.fate.host
  <2>1. t = [w EXCEPT !.awaiting = FALSE, !.initResp = a, !.initFailed = b]
    BY <1>1, <1>2, <1>4 DEF Stays
  <2>2. IsRunner(w)
    BY <1>2, <1>4 DEF Shape
  <2>3. /\ t.state = w.state /\ t.modern = w.modern /\ t.gen = w.gen /\ t.cur = w.cur
        /\ t.starting = w.starting /\ t.leaseT = w.leaseT
        /\ t.initReq = w.initReq /\ t.awaiting = FALSE /\ t.initialized = w.initialized
        /\ t.exit = w.exit /\ t.live = w.live /\ t.terminal = w.terminal /\ t.lease = w.lease
        /\ t.pending = w.pending /\ t.toHost = w.toHost /\ t.toChild = w.toChild
        /\ t.host = w.host /\ t.child = w.child /\ t.told = w.told /\ t.wrote = w.wrote
        /\ t.fate = w.fate /\ IsRunner(t)
    BY <2>1, <2>2, ZenonT(40) DEF IsRunner, RunnerFields
  <2>4. Shape(t)
    BY <1>2, <1>4, <2>3 DEF Shape
  <2>5. /\ t.state = s.state /\ t.modern = s.modern /\ t.gen = s.gen /\ t.cur = s.cur
        /\ t.starting = s.starting /\ t.leaseT = s.leaseT
        /\ t.initReq = s.initReq /\ t.initialized = s.initialized
        /\ t.exit = s.exit /\ t.live = s.live /\ t.terminal = s.terminal /\ t.lease = s.lease
        /\ t.pending = s.pending /\ t.toHost = s.toHost /\ t.toChild = s.toChild
        /\ t.host = s.host /\ t.child = s.child /\ t.wrote = s.wrote
    BY <1>2, <1>4, <2>3 DEF Stays
  <2>6. Open(t) = Open(s) /\ QueuedIds(t) = QueuedIds(s)
    BY <2>5 DEF Open, QueuedIds
  <2>7. Open(s) \cup QueuedIds(s) \subseteq HostReq
    BY DEF RunnerOk, Registers, Queue, QueuedIds, HostFrameOk
  <2>8. OnBooks(s) = Open(s) \cup QueuedIds(s) \cup {InitId} /\ OnBooks(t) = Open(s) \cup QueuedIds(s)
    BY <2>3, <2>6 DEF OnBooks
  <2>9. Engine(t) /\ Registers(t)
    BY <2>5 DEF RunnerOk, Engine, Registers, Open
  <2>10. Queue(t, W)
    BY <2>5, <2>6 DEF RunnerOk, Queue, HostFrameOk
  <2>11. Lifecycle(t)
    BY <2>3, <2>5 DEF RunnerOk, Lifecycle
  <2>12. GotOk(t, W, G)
    BY <2>5, <2>6 DEF RunnerOk, GotOk, NoInit
  <2>13. HoldersOk(t, A)
    BY <2>5 DEF RunnerOk, HoldersOk, Due
  <2>14. Engines(s, t)
    BY <2>5 DEF Engines, Spare, RunnerOk, Shape
  <2>15. /\ s.told \in [Ids -> Nat]
         /\ t.told[InitId] = s.told[InitId] + 1
         /\ \A i \in Ids : i # InitId => t.told[i] = s.told[i]
    BY <1>0, <1>2, <1>4, <2>3 DEF Told, Shape
  <2>16. Answers(s, t, {}, W)
    <3>1. \A i \in OnBooks(t) : i \in Ids /\ i # InitId
      BY <2>7, <2>8, SupervisorAssumption DEF Ids
    <3>. QED  BY <2>8, <2>15, <3>1 DEF Answers
  <2>17. Writes(s, t, {})
    BY <2>5, <2>6 DEF Writes
  <2>18. Good(s, t, {}, W, G, A)
    BY <2>4, <2>5, <2>9, <2>10, <2>11, <2>12, <2>13, <2>14, <2>16, <2>17 DEF RunnerOk, Good, Kept
  <2>. QED  BY <2>5, <2>18 DEF t
<1>. QED  BY <1>3, <1>4

\* What is known of a frame of the current engine, which no longer holds what
\* the frame settles.
FromEngine(s, f, W, G) ==
  /\ s.cur # 0
  /\ f.k = "answer" => /\ f.id \in HostReq /\ f.id \in Open(s) \cup W
                       /\ f.id \notin QueuedIds(s)
                       /\ Unheld(s, f.id, W, G)
  /\ f.k = "unlisten" => s.modern /\ Unheld(s, f.id, W, G)
  /\ f.k = "init" => /\ NoInit(s, G)
                     /\ \/ s.state \in {"replaying", "finalizing"}
                        \/ s.state = "active" /\ s.awaiting
  /\ f.k = "ask" => f \in FrameSet

\* The engine's answer to a request, or to the initialize.
LEMMA ChildResponseGood ==
  ASSUME NEW s, NEW f, NEW W, NEW G, NEW A, RunnerOk(s, W, G, A), ~s.terminal,
         FromEngine(s, f, W, G), f.k \in {"answer", "init"}
  PROVE  LET u == handleChildResponse(s, f)
         IN  Good(s, u, {}, W, G, A)
<1>. DEFINE u == handleChildResponse(s, f)
            open == f.id \in DOMAIN s.host.requests /\ s.host.requests[f.id].gen = s.cur
            w == writeHost(s, Frame("answer", f.id))
            x == [w EXCEPT !.host = complete(w.host, f.id, f)]
            a == [s EXCEPT !.replayT = FALSE]
<1>0. Shape(s) /\ IsRegistry(s.host)
  BY DEF RunnerOk, Shape
<1>1. CASE f.k = "init"
  <2>1. u = IF s.awaiting THEN AnswerInitialize(a, f) ELSE s
    BY <1>1, Zenon DEF handleChildResponse, completeInitialInitialize
  <2>2. CASE ~s.awaiting
    BY <2>1, <2>2, KeptItself
  <2>3. CASE s.awaiting
    <3>1. IsRunner(a) /\ Same(s, a, RunnerFields \ {"replayT"})
      BY <1>0 DEF Shape, IsRunner, RunnerFields, Same
    <3>. HIDE DEF a
    <3>2. Good(s, a, {}, W, G, A) /\ Stays(s, a) /\ Steady(s, a)
      BY <3>1, MarkGood DEF Same
    <3>3. ~a.terminal /\ a.awaiting /\ NoInit(a, G)
      BY <1>1, <2>3, <3>2 DEF Steady, Alike, Stays, FromEngine, NoInit
    <3>4. Good(a, AnswerInitialize(a, f), {}, W, G, A)
      BY <3>2, <3>3, AnswerInitGood DEF Good
    <3>5. Good(s, AnswerInitialize(a, f), {}, W, G, A)
      BY <1>0, <3>2, <3>3, <3>4, GoodChain
    <3>. QED  BY <2>1, <2>3, <3>5
  <2>. QED  BY <2>2, <2>3
<1>2. CASE f.k # "init" /\ ~open
  <2>1. u = s
    BY <1>2, Zenon DEF handleChildResponse
  <2>. QED  BY <2>1, KeptItself
<1>3. CASE f.k # "init" /\ open
  <2>1. u = IF ~canComplete(s.host, f.id, f) THEN replaceCurrent(s)
            ELSE IF w.terminal THEN w ELSE EndOnError(x)
    BY <1>3, Zenon DEF handleChildResponse, Then
  <2>. HIDE DEF u
  <2>2. f.id \in Open(s) /\ f.id \in Ids /\ Unheld(s, f.id, W, G)
    BY <1>3 DEF Open, RunnerOk, Registers, FromEngine, Ids
  <2>3. /\ ~s.fate.host => w = terminate(s) /\ w.terminal
        /\ s.fate.host =>
             /\ Shape(w) /\ Stays(s, w) /\ w.pending = s.pending
             /\ w.host = s.host /\ w.child = s.child /\ w.toHost = s.toHost
             /\ w.toChild = s.toChild /\ w.wrote = s.wrote /\ Told(s, w, f.id)
    BY <1>0, <2>2, AnswerFacts
  <2>. HIDE DEF w
  <2>4. CASE ~canComplete(s.host, f.id, f)
    BY <2>1, <2>4, ReplaceGood DEF u
  <2>5. CASE canComplete(s.host, f.id, f) /\ ~s.fate.host
    BY <2>1, <2>3, <2>5, TerminateGood DEF u
  <2>6. CASE canComplete(s.host, f.id, f) /\ s.fate.host
    <3>1. u = EndOnError(x)
      BY <2>1, <2>3, <2>6 DEF Stays
    <3>2. Closes(s.host, complete(s.host, f.id, f), f.id)
      BY <1>0, CompleteCloses
    <3>3. x = [w EXCEPT !.host = complete(s.host, f.id, f)]
      BY <2>3, <2>6
    <3>. HIDE DEF x
    <3>4. Good(s, EndOnError(x), {}, W, G, A)
      BY <2>2, <2>3, <2>6, <3>2, <3>3, CompletedGood
    <3>. QED  BY <3>1, <3>4 DEF u
  <2>. QED  BY <2>4, <2>5, <2>6
<1>. QED  BY <1>1, <1>2, <1>3

\* A request of the engine reaches the host and is open from now on.
LEMMA AskGood ==
  ASSUME NEW s, NEW t, NEW f, NEW W, NEW G, NEW A, RunnerOk(s, W, G, A), ~s.terminal, ~s.modern,
         s.cur # 0, Shape(t), Stays(s, t), t.pending = s.pending, t.host = s.host,
         t.told = s.told, t.wrote = s.wrote, t.toChild = s.toChild,
         t.toHost = s.toHost \cup {f}, f.from = s.cur,
         f.id \notin DOMAIN s.child.requests, f.id \notin DOMAIN s.child.retiredRequests,
         DOMAIN t.child.requests = DOMAIN s.child.requests \cup {f.id},
         \A i \in DOMAIN t.child.requests : t.child.requests[i].gen = s.cur,
         t.child.retiredRequests = s.child.retiredRequests
  PROVE  Good(s, t, {}, W, G, A)
<1>1. Open(t) = Open(s) /\ QueuedIds(t) = QueuedIds(s) /\ OnBooks(t) = OnBooks(s)
  BY DEF Open, QueuedIds, OnBooks, Stays
<1>2. Engine(t) /\ Lifecycle(t)
  BY DEF RunnerOk, Engine, Lifecycle, Stays
<1>3. Registers(t)
  BY <1>1 DEF RunnerOk, Registers, Stays, Open
<1>4. Queue(t, W)
  BY <1>1 DEF RunnerOk, Queue, HostFrameOk, Stays
<1>5. GotOk(t, W, G)
  BY <1>1 DEF RunnerOk, GotOk, Stays
<1>6. HoldersOk(t, A)
  <2>1. ASSUME NEW a, Due(s, a) PROVE Due(t, a) /\ a.id # f.id
    BY <2>1 DEF Due, Stays
  <2>2. Due(t, f)
    BY DEF Due, Stays
  <2>3. HoldersOk(s, A)
    BY DEF RunnerOk
  <2>4. \A a \in A \cup t.toHost : Due(t, a) /\ ~t.modern
    BY <2>1, <2>2, <2>3 DEF HoldersOk, Stays
  <2>5. \A a, b \in A \cup t.toHost : a.id = b.id => a = b
    BY <2>1, <2>3 DEF HoldersOk
  <2>6. ASSUME NEW j \in DOMAIN t.pending, t.pending[j].f.k = "response"
        PROVE  /\ Due(t, t.pending[j].f) /\ ~t.modern
               /\ \A a \in A \cup t.toHost : a.id # t.pending[j].f.id
               /\ \A i \in DOMAIN t.pending :
                    t.pending[i].f.k = "response" /\ t.pending[i].f.id = t.pending[j].f.id => i = j
    BY <2>1, <2>3, <2>6 DEF HoldersOk, Stays
  <2>. QED  BY <2>4, <2>5, <2>6 DEF HoldersOk
<1>7. Engines(s, t)
  BY DEF Engines, Spare, Stays, RunnerOk, Shape
<1>8. Answers(s, t, {}, W) /\ Writes(s, t, {})
  BY <1>1 DEF Answers, Writes
<1>. QED  BY <1>2, <1>3, <1>4, <1>5, <1>6, <1>7, <1>8 DEF RunnerOk, Good, Kept, Stays

\* A request of the engine is entered and passed on, or refused.
LEMMA ChildRequestGood ==
  ASSUME NEW s, NEW f, NEW W, NEW G, NEW A, RunnerOk(s, W, G, A), ~s.terminal, ~s.modern,
         s.cur # 0, f \in FrameSet, f.k = "ask"
  PROVE  Good(s, handleChildRequest(s, f), {}, W, G, A)
<1>. DEFINE u == handleChildRequest(s, f)
            rec == RecOf(f, s.cur)
            a == [f EXCEPT !.from = s.cur]
            w == writeHost(s, a)
            rej == Frame("rejected", f.id)
            t == [w EXCEPT !.child = register(w.child, f.id, rec)]
            B == ~s.initialized /\ (~s.initReq \/ f.method # "ping")
            C == f.task # NoTask /\ ~validateTaskOperation(s.child, f, s.cur)
<1>0. Shape(s) /\ IsRegistry(s.child) /\ s.cur \in Nat
  BY DEF RunnerOk, Shape
<1>1. \/ u = replaceCurrent(s)
      \/ u = ReplaceUnlessDelivered(writeChild(s, rej))
      \/ canRegister(s.child, f.id, rec) /\ u = IF w.terminal THEN w ELSE t
  <2>. HIDE DEF rej, w, rec
  <2>1. CASE B
    <3>1. u = replaceCurrent(s)
      BY <2>1, Zenon DEF handleChildRequest
    <3>. QED  BY <3>1
  <2>2. CASE ~B /\ C
    <3>1. u = ReplaceUnlessDelivered(writeChild(s, rej))
      <4>1. s.initialized \/ (s.initReq /\ f.method = "ping")
        BY <2>2
      <4>. QED  BY <2>2, <4>1, Zenon DEF handleChildRequest, rej
    <3>. QED  BY <3>1
  <2>3. CASE ~B /\ ~C
    <3>1. u = IF ~canRegister(s.child, f.id, rec) THEN replaceCurrent(s)
              ELSE IF w.terminal THEN w ELSE t
      BY <2>3, Zenon DEF handleChildRequest, rec, w
    <3>. HIDE DEF u, t
    <3>. QED  BY <3>1
  <2>. QED  BY <2>1, <2>2, <2>3
<1>. HIDE DEF u
<1>2. CASE u = replaceCurrent(s)
  BY <1>2, ReplaceGood DEF u
<1>3. CASE u = ReplaceUnlessDelivered(writeChild(s, rej))
  <2>1. f.id \in Ids \cup ChildReq /\ "rejected" \in Kinds
    BY DEF FrameSet, Kinds
  <2>2. rej \in FrameSet /\ rej.k = "rejected"
    BY <2>1, FrameFacts, Zenon
  <2>. HIDE DEF rej
  <2>. QED  BY <1>3, <2>2, WriteOrReplaceGood DEF u
<1>4. CASE canRegister(s.child, f.id, rec) /\ u = IF w.terminal THEN w ELSE t
  <2>1. a \in FrameSet /\ a.k = "ask" /\ a.id = f.id /\ a.from = s.cur
    BY <1>0 DEF FrameSet
  <2>2. rec.gen = s.cur
    BY DEF RecOf
  <2>3. f.id \notin DOMAIN s.child.requests /\ f.id \notin DOMAIN s.child.retiredRequests
    BY <1>4 DEF canRegister
  <2>. HIDE DEF a, rec
  <2>4. CASE ~s.fate.host
    <3>1. w = terminate(s)
      BY <2>4 DEF writeHost
    <3>. QED  BY <1>4, <3>1, TerminateGood DEF u
  <2>5. CASE s.fate.host
    <3>. DEFINE n == s.toHost \cup {a}
    <3>1. w = [s EXCEPT !.told = s.told, !.toHost = n]
      BY <2>1, <2>5 DEF writeHost, Noted
    <3>2. n \in SUBSET AskFrames
      BY <1>0, <2>1 DEF Shape, AskFrames
    <3>. HIDE DEF n, w
    <3>3. /\ Shape(w) /\ Stays(s, w) /\ w.pending = s.pending /\ w.host = s.host
          /\ w.child = s.child /\ w.told = s.told /\ w.wrote = s.wrote
          /\ w.toChild = s.toChild /\ w.toHost = n
      BY <1>0, <3>1, <3>2, ZenonT(40) DEF Shape, IsRunner, RunnerFields, Stays
    <3>. DEFINE g == register(w.child, f.id, rec)
    <3>4. /\ IsRegistry(g) /\ g.requests = Put(s.child.requests, f.id, rec)
          /\ g.retiredRequests = s.child.retiredRequests
      BY <1>0, <3>3, RegisterFacts
    <3>. HIDE DEF g
    <3>5. /\ Shape(t) /\ Stays(w, t) /\ t.child = g /\ t.host = w.host
          /\ t.pending = w.pending /\ t.toHost = w.toHost /\ t.toChild = w.toChild
          /\ t.told = w.told /\ t.wrote = w.wrote
      BY <3>3, <3>4, ChildRegistryFacts DEF g
    <3>6. u = t
      BY <1>4, <3>3 DEF Stays
    <3>. HIDE DEF t
    <3>7. /\ DOMAIN t.child.requests = DOMAIN s.child.requests \cup {a.id}
          /\ \A i \in DOMAIN t.child.requests : t.child.requests[i].gen = s.cur
      <4>1. /\ DOMAIN g.requests = DOMAIN s.child.requests \cup {f.id}
            /\ g.requests[f.id] = rec
            /\ \A x \in DOMAIN s.child.requests : x # f.id => g.requests[x] = s.child.requests[x]
        <5>. DEFINE q == s.child.requests
        <5>1. /\ DOMAIN Put(q, f.id, rec) = DOMAIN q \cup {f.id}
              /\ Put(q, f.id, rec)[f.id] = rec
              /\ \A x \in DOMAIN q : x # f.id => Put(q, f.id, rec)[x] = q[x]
          BY DEF Put
        <5>. QED  BY <3>4, <5>1
      <4>. QED  BY <2>1, <2>2, <3>5, <4>1 DEF RunnerOk, Registers
    <3>8. Stays(s, t) /\ t.toHost = s.toHost \cup {a} /\ t.child.retiredRequests = s.child.retiredRequests
      BY <3>3, <3>4, <3>5 DEF Stays, n
    <3>9. Good(s, t, {}, W, G, A)
      BY <2>1, <2>3, <3>3, <3>5, <3>7, <3>8, AskGood
    <3>. QED  BY <3>6, <3>9 DEF u
  <2>. QED  BY <2>4, <2>5
<1>. QED  BY <1>1, <1>2, <1>3, <1>4

\* A write to the host that is neither an answer nor a request.
LEMMA WriteHostFacts ==
  ASSUME NEW s, Shape(s), NEW f, f.k \notin {"answer", "unlisten", "ask"}
  PROVE  LET t == writeHost(s, f)
         IN  t.terminal \/ (Stays(s, t) /\ t.host = s.host /\ t.child = s.child)
<1>. DEFINE t == writeHost(s, f)
<1>1. CASE ~s.fate.host
  BY <1>1, TerminateFacts DEF writeHost
<1>2. CASE s.fate.host
  <2>1. t = [s EXCEPT !.told = s.told, !.toHost = s.toHost]
    BY <1>2 DEF writeHost, Noted
  <2>. HIDE DEF t
  <2>2. Stays(s, t) /\ t.host = s.host /\ t.child = s.child
    BY <2>1 DEF Shape, IsRunner, RunnerFields, Stays
  <2>. QED  BY <2>2 DEF t
<1>. QED  BY <1>1, <1>2

\* An open request of the engine that it has cancelled is retired.
LEMMA RetireOneGood ==
  ASSUME NEW s, NEW id, NEW W, NEW G, NEW A, RunnerOk(s, W, G, A), ~s.terminal,
         id \in DOMAIN s.child.requests
  PROVE  Good(s, [s EXCEPT !.child = retireRequest(s.child, id)], {}, W, G, A)
<1>. DEFINE g == retireRequest(s.child, id)
            t == [s EXCEPT !.child = g]
<1>0. Shape(s) /\ IsRegistry(s.child)
  BY DEF RunnerOk, Shape
<1>1. /\ IsRegistry(g) /\ g.requests = Drop(s.child.requests, {id})
      /\ g.retiredRequests = Put(s.child.retiredRequests, id, s.child.requests[id])
  BY <1>0, RetireRequestFacts
<1>. HIDE DEF g
<1>2. /\ Shape(t) /\ Stays(s, t) /\ t.child = g /\ t.host = s.host
      /\ t.pending = s.pending /\ t.toHost = s.toHost /\ t.toChild = s.toChild
      /\ t.told = s.told /\ t.wrote = s.wrote
  BY <1>0, <1>1, ChildRegistryFacts
<1>. HIDE DEF t
<1>3. /\ DOMAIN t.child.requests = DOMAIN s.child.requests \ {id}
      /\ \A x \in DOMAIN t.child.requests : t.child.requests[x] = s.child.requests[x]
      /\ DOMAIN t.child.retiredRequests = DOMAIN s.child.retiredRequests \cup {id}
  <2>1. /\ DOMAIN Drop(s.child.requests, {id}) = DOMAIN s.child.requests \ {id}
        /\ \A x \in DOMAIN s.child.requests \ {id} :
             Drop(s.child.requests, {id})[x] = s.child.requests[x]
    BY DropFacts
  <2>2. DOMAIN g.retiredRequests = DOMAIN s.child.retiredRequests \cup {id}
    BY <1>1 DEF Put
  <2>. QED  BY <1>1, <1>2, <2>1, <2>2
<1>4. Open(t) = Open(s) /\ QueuedIds(t) = QueuedIds(s) /\ OnBooks(t) = OnBooks(s)
  BY <1>2 DEF Open, QueuedIds, OnBooks, Stays
<1>5. Engine(t) /\ Lifecycle(t)
  BY <1>2 DEF RunnerOk, Engine, Lifecycle, Stays
<1>6. Registers(t)
  BY <1>2, <1>3, <1>4 DEF RunnerOk, Registers, Stays, Open
<1>7. Queue(t, W)
  BY <1>2, <1>4 DEF RunnerOk, Queue, HostFrameOk, Stays
<1>8. GotOk(t, W, G)
  BY <1>2, <1>4 DEF RunnerOk, GotOk, Stays
<1>9. HoldersOk(t, A)
  <2>1. ASSUME NEW a, Due(s, a) PROVE Due(t, a)
    BY <1>2, <1>3, <2>1 DEF Due, Stays
  <2>. QED  BY <1>2, <2>1 DEF RunnerOk, HoldersOk, Stays
<1>10. Engines(s, t)
  BY <1>2 DEF Engines, Spare, Stays, RunnerOk, Shape
<1>11. Answers(s, t, {}, W) /\ Writes(s, t, {})
  BY <1>2, <1>4 DEF Answers, Writes
<1>12. Good(s, t, {}, W, G, A)
  BY <1>2, <1>5, <1>6, <1>7, <1>8, <1>9, <1>10, <1>11 DEF RunnerOk, Good, Kept, Stays
<1>. QED  BY <1>12 DEF t, g

\* A cancellation of the engine retires its own request.
LEMMA ChildCancellationGood ==
  ASSUME NEW s, NEW f, NEW W, NEW G, NEW A, RunnerOk(s, W, G, A), ~s.terminal, f.k = "cancel"
  PROVE  Good(s, handleChildCancellation(s, f), {}, W, G, A)
<1>. DEFINE u == handleChildCancellation(s, f)
            w == writeHost(s, f)
            t == [w EXCEPT !.child = retireRequest(w.child, f.id)]
<1>1. \/ u = s
      \/ f.id \in DOMAIN s.child.requests /\ u = IF w.terminal THEN w ELSE t
  <2>. HIDE DEF w
  <2>. QED  BY DEF handleChildCancellation, w
<1>2. Good(s, w, {}, W, G, A) /\ (w.terminal \/ (Stays(s, w) /\ w.child = s.child)) /\ Shape(s)
  BY WriteHostGood, WriteHostFacts DEF RunnerOk
<1>. HIDE DEF u, w
<1>3. CASE u = s
  BY <1>3, KeptItself DEF u
<1>4. CASE f.id \in DOMAIN s.child.requests /\ u = IF w.terminal THEN w ELSE t
  <2>1. CASE w.terminal
    BY <1>2, <1>4, <2>1 DEF u
  <2>2. CASE ~w.terminal
    <3>1. u = t /\ f.id \in DOMAIN w.child.requests
      BY <1>2, <1>4, <2>2
    <3>2. Good(w, t, {}, W, G, A)
      BY <1>2, <2>2, <3>1, RetireOneGood DEF Good
    <3>. HIDE DEF t
    <3>3. Good(s, t, {}, W, G, A)
      BY <1>2, <2>2, <3>2, GoodChain
    <3>. QED  BY <3>1, <3>3 DEF u
  <2>. QED  BY <2>1, <2>2
<1>. QED  BY <1>1, <1>3, <1>4

\* A change of the host's registry that leaves the requests alone.
LEMMA HostKeepsGood ==
  ASSUME NEW s, NEW g, NEW W, NEW G, NEW A, RunnerOk(s, W, G, A), KeepsRequests(s.host, g)
  PROVE  LET t == [s EXCEPT !.host = g]
         IN  Good(s, t, {}, W, G, A) /\ Stays(s, t)
<1>. DEFINE t == [s EXCEPT !.host = g]
<1>1. /\ Shape(t) /\ Stays(s, t) /\ t.host = g /\ t.child = s.child
      /\ t.pending = s.pending /\ t.toHost = s.toHost /\ t.toChild = s.toChild
      /\ t.told = s.told /\ t.wrote = s.wrote
  BY HostRegistryFacts DEF RunnerOk, KeepsRequests
<1>. HIDE DEF t
<1>2. Steady(s, t)
  BY <1>1 DEF Steady, Alike, KeepsRequests
<1>3. Good(s, t, {}, W, G, A)
  BY <1>1, <1>2, SteadyGood
<1>. QED  BY <1>1, <1>3 DEF t

\* Progress of the engine on a request of the host.
LEMMA ChildProgressGood ==
  ASSUME NEW s, NEW f, NEW W, NEW G, NEW A, RunnerOk(s, W, G, A), ~s.terminal, f.k = "progress"
  PROVE  Good(s, handleChildProgress(s, f), {}, W, G, A)
<1>. DEFINE u == handleChildProgress(s, f)
            g == acceptProgress(s.host, f.id, 1)
            t == [s EXCEPT !.host = g]
<1>1. u = s \/ u = writeHost(t, f)
  BY Zenon DEF handleChildProgress
<1>2. KeepsRequests(s.host, g) /\ Shape(s)
  BY AcceptProgressKeeps DEF RunnerOk, Shape
<1>. HIDE DEF u, g
<1>3. Good(s, t, {}, W, G, A) /\ Stays(s, t)
  BY <1>2, HostKeepsGood
<1>. HIDE DEF t
<1>4. Good(t, writeHost(t, f), {}, W, G, A)
  BY <1>3, WriteHostGood DEF Good
<1>5. Good(s, writeHost(t, f), {}, W, G, A)
  BY <1>2, <1>3, <1>4, GoodChain DEF Stays
<1>. QED  BY <1>1, <1>5, KeptItself DEF u

\* A task status of the engine.
LEMMA ChildStatusGood ==
  ASSUME NEW s, NEW f, NEW W, NEW G, NEW A, RunnerOk(s, W, G, A), ~s.terminal, f.k = "status"
  PROVE  Good(s, handleChildTaskStatus(s, f), {}, W, G, A)
<1>. DEFINE u == handleChildTaskStatus(s, f)
            g == updateTask(s.host, f.task, f.status, s.cur)
            t == [s EXCEPT !.host = g]
            e == EndOnError(t)
<1>1. u = s \/ u = IF e.terminal THEN e ELSE writeHost(e, f)
  BY Zenon DEF handleChildTaskStatus, Then
<1>2. KeepsRequests(s.host, g) /\ Shape(s)
  BY UpdateTaskKeeps DEF RunnerOk, Shape
<1>. HIDE DEF u, g
<1>3. Good(s, t, {}, W, G, A) /\ Stays(s, t)
  BY <1>2, HostKeepsGood
<1>. HIDE DEF t
<1>4. Good(s, e, {}, W, G, A)
  BY <1>2, <1>3, EndOnErrorGood DEF Good, Stays
<1>. HIDE DEF e
<1>5. Good(e, writeHost(e, f), {}, W, G, A)
  BY <1>4, WriteHostGood DEF Good
<1>6. ~e.terminal => Good(s, writeHost(e, f), {}, W, G, A)
  BY <1>2, <1>4, <1>5, GoodChain
<1>. QED  BY <1>1, <1>4, <1>6, KeptItself DEF u

\* The frames the supervisor writes of its own.
LEMMA FrameKinds ==
  ASSUME NEW k \in {"initialize", "initialized", "commit"}
  PROVE  Frame(k, InitId) \in FrameSet /\ Frame(k, InitId).k = k
<1>1. k \in Kinds /\ InitId \in Ids \cup ChildReq
  BY DEF Kinds, Ids
<1>. QED  BY <1>1, FrameFacts, Zenon

\* A frame other than an initialize is written.
LEMMA NoInitWrite ==
  ASSUME NEW s, Shape(s), NEW G, NoInit(s, G), NEW f \in FrameSet, f.k \notin {"request", "initialize"}
  PROVE  NoInit(writeChild(s, f), G)
<1>. DEFINE t == writeChild(s, f)
<1>1. t.toChild = s.toChild \/ t.toChild = s.toChild \cup {f}
  BY WriteChildFacts DEF Written
<1>. HIDE DEF t
<1>2. NoInit(t, G)
  BY <1>1 DEF NoInit
<1>. QED  BY <1>2 DEF t

\* The engine is told of what is known and takes over.
LEMMA ActivateGood ==
  ASSUME NEW s, NEW W, NEW G, NEW A, RunnerOk(s, W, G, A), ~s.terminal, s.cur # 0, NoInit(s, G)
  PROVE  LET t == [s EXCEPT
                     !.host = clearRetiredCorrelations(clearTransitionTombstones(s.host)),
                     !.child = clearTransitionTombstones(s.child),
                     !.state = "active"]
         IN  Good(s, t, {}, W, G, A) /\ t.terminal = s.terminal
<1>. DEFINE g == clearRetiredCorrelations(clearTransitionTombstones(s.host))
            h == clearTransitionTombstones(s.child)
            t == [s EXCEPT !.host = g, !.child = h, !.state = "active"]
<1>0. Shape(s) /\ IsRegistry(s.host) /\ IsRegistry(s.child) /\ IsRunner(s)
  BY DEF RunnerOk, Shape
<1>1. KeepsRequests(s.child, h)
  BY <1>0, ClearFacts
<1>2. IsRegistry(g) /\ g.requests = s.host.requests
  <2>1. KeepsRequests(s.host, clearTransitionTombstones(s.host))
    BY <1>0, ClearFacts
  <2>2. IsRegistry(clearTransitionTombstones(s.host))
    BY <2>1 DEF KeepsRequests
  <2>. QED  BY <2>1, <2>2, ClearFacts DEF KeepsRequests
<1>. HIDE DEF g, h
<1>3. /\ t.state = "active" /\ t.modern = s.modern /\ t.gen = s.gen /\ t.cur = s.cur
      /\ t.starting = s.starting
      /\ t.initReq = s.initReq /\ t.awaiting = s.awaiting /\ t.initialized = s.initialized
      /\ t.exit = s.exit /\ t.live = s.live /\ t.terminal = s.terminal /\ t.lease = s.lease
      /\ t.pending = s.pending /\ t.toHost = s.toHost /\ t.toChild = s.toChild
      /\ t.host = g /\ t.child = h /\ t.told = s.told /\ t.wrote = s.wrote
      /\ t.fate = s.fate /\ IsRunner(t)
  BY <1>0, ZenonT(40) DEF IsRunner, RunnerFields
<1>. HIDE DEF t
<1>4. Shape(t)
  BY <1>0, <1>1, <1>2, <1>3 DEF Shape, States, KeepsRequests
<1>5. /\ t.host.requests = s.host.requests /\ t.child.requests = s.child.requests
      /\ t.child.retiredRequests = s.child.retiredRequests
  BY <1>1, <1>2, <1>3 DEF KeepsRequests
<1>6. Good(s, t, {}, W, G, A)
  BY <1>3, <1>4, <1>5, MoveOk DEF NoInit
<1>. QED  BY <1>3, <1>6 DEF t, g, h

\* The replay is over.
LEMMA CompleteReplayGood ==
  ASSUME NEW s, NEW f, NEW W, NEW G, NEW A, RunnerOk(s, W, G, A), ~s.terminal, s.cur # 0,
         NoInit(s, G)
  PROVE  Good(s, completeReplay(s, f), {}, W, G, A)
<1>. DEFINE a == [s EXCEPT !.replayT = FALSE]
            m == Frame("initialized", InitId)
            b == IF s.initialized THEN writeChild(a, m) ELSE [a EXCEPT !.out = "delivered"]
            c == IF s.awaiting THEN AnswerInitialize(b, f) ELSE b
            d == [c EXCEPT
                    !.host = clearRetiredCorrelations(clearTransitionTombstones(c.host)),
                    !.child = clearTransitionTombstones(c.child),
                    !.state = "active"]
            u == completeReplay(s, f)
<1>0. Shape(s) /\ m \in FrameSet /\ m.k = "initialized"
  BY FrameKinds DEF RunnerOk
<1>1. u = IF b.out # "delivered" THEN replaceCurrent(b)
          ELSE IF c.terminal THEN c ELSE flushPending(d)
  BY DEF completeReplay, Then
<1>2. Good(s, a, {}, W, G, A) /\ Stays(s, a) /\ NoInit(a, G) /\ Shape(a)
  <2>1. IsRunner(a) /\ Same(s, a, RunnerFields \ {"replayT"})
    BY <1>0 DEF Shape, IsRunner, RunnerFields, Same
  <2>. HIDE DEF a
  <2>2. Good(s, a, {}, W, G, A) /\ Stays(s, a) /\ Steady(s, a)
    BY <2>1, MarkGood DEF Same
  <2>. QED  BY <2>2 DEF Steady, Alike, NoInit, Good, RunnerOk
<1>. HIDE DEF a, m
<1>3. /\ Good(s, b, {}, W, G, A) /\ ~b.terminal /\ b.awaiting = s.awaiting /\ b.cur = s.cur
      /\ NoInit(b, G)
  <2>1. CASE s.initialized
    <3>1. b = writeChild(a, m)
      BY <2>1
    <3>2. Good(a, b, {}, W, G, A) /\ Passes(a, b)
      BY <1>0, <1>2, <3>1, WriteChildGood DEF Good, Stays
    <3>3. NoInit(b, G)
      BY <1>0, <1>2, <3>1, NoInitWrite
    <3>. HIDE DEF b
    <3>4. Good(s, b, {}, W, G, A)
      BY <1>0, <1>2, <3>2, GoodChain DEF Stays
    <3>. QED  BY <1>2, <3>2, <3>3, <3>4 DEF Passes, Stays
  <2>2. CASE ~s.initialized
    <3>1. b = [a EXCEPT !.out = "delivered"]
      BY <2>2
    <3>. HIDE DEF b
    <3>2. IsRunner(b) /\ Same(a, b, RunnerFields \ {"out"})
      BY <1>2, <3>1 DEF Shape, IsRunner, RunnerFields, Same
    <3>3. Good(a, b, {}, W, G, A) /\ Stays(a, b) /\ Steady(a, b)
      BY <1>2, <3>2, MarkGood DEF Same, Good
    <3>4. Good(s, b, {}, W, G, A)
      BY <1>0, <1>2, <3>3, GoodChain DEF Stays
    <3>. QED  BY <1>2, <3>3, <3>4 DEF Steady, Alike, Stays, NoInit
  <2>. QED  BY <2>1, <2>2
<1>. HIDE DEF b, u
<1>4. CASE b.out # "delivered"
  <2>1. Good(b, u, {}, W, G, A)
    BY <1>1, <1>3, <1>4, ReplaceGood DEF Good
  <2>2. Good(s, u, {}, W, G, A)
    BY <1>0, <1>3, <2>1, GoodChain
  <2>. QED  BY <2>2 DEF u
<1>5. CASE b.out = "delivered"
  <2>1. Good(s, c, {}, W, G, A) /\ (~c.terminal => c.cur # 0 /\ NoInit(c, G))
    <3>1. CASE s.awaiting
      <4>1. c = AnswerInitialize(b, f)
        BY <3>1
      <4>2. Good(b, c, {}, W, G, A) /\ (~c.terminal => c.cur = b.cur /\ c.toChild = b.toChild)
        BY <1>3, <3>1, <4>1, AnswerInitGood DEF Good
      <4>. HIDE DEF c
      <4>3. Good(s, c, {}, W, G, A)
        BY <1>0, <1>3, <4>2, GoodChain
      <4>. QED  BY <1>3, <4>2, <4>3 DEF NoInit
    <3>2. CASE ~s.awaiting
      BY <1>3, <3>2
    <3>. QED  BY <3>1, <3>2
  <2>. HIDE DEF c
  <2>2. CASE c.terminal
    BY <1>1, <1>5, <2>1, <2>2 DEF u
  <2>3. CASE ~c.terminal
    <3>1. u = flushPending(d)
      BY <1>1, <1>5, <2>3
    <3>2. Good(c, d, {}, W, G, A) /\ ~d.terminal
      BY <2>1, <2>3, ActivateGood DEF Good
    <3>. HIDE DEF d
    <3>3. Good(s, d, {}, W, G, A)
      BY <1>0, <2>1, <2>3, <3>2, GoodChain
    <3>4. Good(d, u, {}, W, G, A)
      BY <3>1, <3>2, FlushGood DEF Good
    <3>5. Good(s, u, {}, W, G, A)
      BY <1>0, <3>2, <3>3, <3>4, GoodChain
    <3>. QED  BY <3>5 DEF u
  <2>. QED  BY <2>2, <2>3
<1>. QED  BY <1>4, <1>5

\* A frame of the engine during a replay.
LEMMA ReplayFrameGood ==
  ASSUME NEW s, NEW f, NEW W, NEW G, NEW A, RunnerOk(s, W, G, A), ~s.terminal, ~s.modern,
         FromEngine(s, f, W, G)
  PROVE  Good(s, handleReplayFrame(s, f), {}, W, G, A)
<1>. DEFINE u == handleReplayFrame(s, f)
<1>1. CASE f.k = "ask"
  <2>1. u = handleChildRequest(s, f) \/ u = replaceCurrent(s)
    <3>1. f.k # "answer" /\ f.k # "init" /\ f.k # "log"
      BY <1>1
    <3>2. CASE f.method = "ping"
      BY <1>1, <3>1, <3>2, Zenon DEF handleReplayFrame
    <3>3. CASE f.method # "ping"
      BY <1>1, <3>1, <3>3, Zenon DEF handleReplayFrame
    <3>. QED  BY <3>2, <3>3
  <2>. HIDE DEF u
  <2>2. Good(s, handleChildRequest(s, f), {}, W, G, A)
    BY <1>1, ChildRequestGood DEF FromEngine
  <2>. QED  BY <2>1, <2>2, ReplaceGood DEF u
<1>2. CASE f.k = "answer"
  <2>1. u = handleChildResponse(s, f) \/ u = replaceCurrent(s)
    <3>1. f.k # "ask" /\ f.k # "init" /\ f.k # "log"
      BY <1>2
    <3>. QED  BY <1>2, <3>1, Zenon DEF handleReplayFrame
  <2>. HIDE DEF u
  <2>2. Good(s, handleChildResponse(s, f), {}, W, G, A)
    BY <1>2, ChildResponseGood
  <2>. QED  BY <2>1, <2>2, ReplaceGood DEF u
<1>3. CASE f.k = "init"
  <2>1. u = completeReplay(s, f) \/ u = replaceCurrent(s)
    <3>1. f.k # "ask" /\ f.k # "answer" /\ f.k # "log"
      BY <1>3
    <3>. QED  BY <1>3, <3>1, Zenon DEF handleReplayFrame
  <2>. HIDE DEF u
  <2>2. Good(s, completeReplay(s, f), {}, W, G, A)
    BY <1>3, CompleteReplayGood DEF FromEngine
  <2>. QED  BY <2>1, <2>2, ReplaceGood DEF u
<1>4. CASE f.k = "log"
  <2>1. u = writeHost(s, f) \/ u = s
    <3>1. f.k # "ask" /\ f.k # "answer" /\ f.k # "init"
      BY <1>4
    <3>. QED  BY <1>4, <3>1, Zenon DEF handleReplayFrame
  <2>. HIDE DEF u
  <2>2. Good(s, writeHost(s, f), {}, W, G, A)
    BY <1>4, WriteHostGood
  <2>. QED  BY <2>1, <2>2, KeptItself DEF u
<1>5. CASE f.k # "ask" /\ f.k # "answer" /\ f.k # "init" /\ f.k # "log"
  <2>1. u = replaceCurrent(s)
    BY <1>5, Zenon DEF handleReplayFrame
  <2>. HIDE DEF u
  <2>. QED  BY <2>1, ReplaceGood DEF u
<1>. QED  BY <1>1, <1>2, <1>3, <1>4, <1>5

Marks == {"retryT", "replayT", "exitT", "drainT", "leasePassed", "resolving", "initResp",
          "initFailed", "dormInvalid", "since", "output", "evExit", "evOutput", "out"}

\* A move to another state, with the timers and marks that go with it.
LEMMA MoveGood ==
  ASSUME NEW s, NEW t, NEW W, NEW G, NEW A, RunnerOk(s, W, G, A), ~s.terminal, IsRunner(t),
         Same(s, t, RunnerFields \ ({"state"} \cup Marks)),
         t.state \in States, t.state # "dormant", t.state \in Serving => s.cur # 0,
         t.state = "replaying" => s.initReq,
         t.state \in {"quiescing", "awaiting_exit"} => (s.modern \/ s.initReq) /\ ~s.awaiting,
         t.state \in {"replaying", "finalizing"} \/ NoInit(s, G)
  PROVE  /\ Good(s, t, {}, W, G, A) /\ ~t.terminal /\ t.cur = s.cur /\ t.initReq = s.initReq
         /\ t.awaiting = s.awaiting /\ t.modern = s.modern /\ t.starting = s.starting
         /\ t.pending = s.pending /\ t.toChild = s.toChild
<1>1. /\ t.modern = s.modern /\ t.gen = s.gen /\ t.cur = s.cur /\ t.starting = s.starting
      /\ t.initReq = s.initReq /\ t.awaiting = s.awaiting /\ t.initialized = s.initialized
      /\ t.exit = s.exit /\ t.live = s.live /\ t.terminal = s.terminal /\ t.lease = s.lease
      /\ t.pending = s.pending /\ t.host = s.host /\ t.child = s.child
      /\ t.told = s.told /\ t.wrote = s.wrote /\ t.toHost = s.toHost /\ t.toChild = s.toChild
      /\ t.fate = s.fate
  BY DEF Same, RunnerFields, Marks
<1>2. Shape(t)
  BY <1>1 DEF RunnerOk, Shape
<1>3. Good(s, t, {}, W, G, A)
  BY <1>1, <1>2, MoveOk DEF NoInit
<1>. QED  BY <1>1, <1>3

\* A new engine is given the initialize that its predecessor had.
LEMMA BeginReplayGood ==
  ASSUME NEW s, NEW W, NEW G, NEW A, RunnerOk(s, W, G, A), ~s.terminal, s.cur # 0, s.initReq
  PROVE  Good(s, beginReplay(s), {}, W, G, A)
<1>. DEFINE a == [s EXCEPT !.state = "replaying"]
            m == Frame("initialize", InitId)
            w == writeChild(a, m)
            v == [w EXCEPT !.replayT = TRUE]
            u == beginReplay(s)
<1>0. Shape(s) /\ m \in FrameSet /\ m.k = "initialize"
  BY FrameKinds DEF RunnerOk
<1>1. u = IF w.out # "delivered" THEN replaceCurrent(w) ELSE flushReplayPings(v)
  BY DEF beginReplay, setState
<1>2. Good(s, a, {}, W, G, A) /\ ~a.terminal /\ a.state = "replaying"
  <2>1. IsRunner(a) /\ Same(s, a, RunnerFields \ ({"state"} \cup Marks)) /\ a.state = "replaying"
    BY <1>0 DEF Shape, IsRunner, RunnerFields, Same, Marks
  <2>. HIDE DEF a
  <2>2. a.state \in States
    BY <2>1 DEF States
  <2>. QED  BY <2>1, <2>2, MoveGood
<1>. HIDE DEF a
<1>3. Good(a, w, {}, W, G, A) /\ Passes(a, w)
  BY <1>0, <1>2, WriteChildGood DEF Good
<1>. HIDE DEF m, w, u
<1>4. Good(s, w, {}, W, G, A) /\ ~w.terminal
  BY <1>0, <1>2, <1>3, GoodChain DEF Passes, Stays
<1>5. CASE w.out # "delivered"
  <2>1. Good(w, u, {}, W, G, A)
    BY <1>1, <1>4, <1>5, ReplaceGood DEF Good
  <2>2. Good(s, u, {}, W, G, A)
    BY <1>0, <1>4, <2>1, GoodChain
  <2>. QED  BY <2>2 DEF u
<1>6. CASE w.out = "delivered"
  <2>0. Shape(w)
    BY <1>4 DEF Good, RunnerOk
  <2>1. IsRunner(v) /\ Same(w, v, RunnerFields \ {"replayT"})
    BY <2>0 DEF Shape, IsRunner, RunnerFields, Same
  <2>2. u = flushReplayPings(v)
    BY <1>1, <1>6
  <2>. HIDE DEF v
  <2>3. Good(w, v, {}, W, G, A) /\ Stays(w, v)
    BY <1>4, <2>1, MarkGood DEF Same, Good
  <2>4. Good(s, v, {}, W, G, A) /\ ~v.terminal
    BY <1>0, <1>4, <2>3, GoodChain DEF Stays
  <2>5. Good(v, u, {}, W, G, A)
    BY <2>2, <2>4, PingsGood DEF Good
  <2>6. Good(s, u, {}, W, G, A)
    BY <1>0, <2>4, <2>5, GoodChain
  <2>. QED  BY <2>6 DEF u
<1>. QED  BY <1>5, <1>6

\* The runner rests: it has no engine and owes nothing.
LEMMA DormantGood ==
  ASSUME NEW s, NEW W, NEW G, NEW A, RunnerOk(s, W, G, A), ~s.terminal, s.cur = 0,
         ~s.starting, s.pending = <<>>, s.modern \/ s.initReq, ~s.awaiting
  PROVE  Good(s, armDormantLease(setState(s, "dormant")), {}, W, G, A)
<1>. DEFINE t == [s EXCEPT !.state = "dormant", !.leaseT = TRUE, !.leasePassed = FALSE]
<1>0. Shape(s)
  BY DEF RunnerOk
<1>1. armDormantLease(setState(s, "dormant")) = t
  BY <1>0 DEF armDormantLease, setState, Shape, IsRunner, RunnerFields
<1>2. /\ IsRunner(t)
      /\ Same(s, t, RunnerFields \ {"state", "leaseT", "leasePassed"})
      /\ t.state = "dormant" /\ t.leaseT
  BY <1>0 DEF Shape, IsRunner, RunnerFields, Same
<1>. HIDE DEF t
<1>3. /\ t.modern = s.modern /\ t.gen = s.gen /\ t.cur = s.cur /\ t.starting = s.starting
      /\ t.initReq = s.initReq /\ t.awaiting = s.awaiting /\ t.initialized = s.initialized
      /\ t.exit = s.exit /\ t.live = s.live /\ t.terminal = s.terminal /\ t.lease = s.lease
      /\ t.pending = s.pending /\ t.host = s.host /\ t.child = s.child
      /\ t.told = s.told /\ t.wrote = s.wrote /\ t.toHost = s.toHost /\ t.toChild = s.toChild
      /\ t.fate = s.fate
  BY <1>2 DEF Same, RunnerFields
<1>4. Shape(t)
  BY <1>0, <1>2, <1>3 DEF Shape, States
<1>5. Engine(t) /\ Registers(t)
  BY <1>2, <1>3 DEF RunnerOk, Engine, Registers, Open, Serving
<1>6. QueuedIds(t) = QueuedIds(s) /\ OnBooks(t) = OnBooks(s) /\ Open(t) = Open(s)
  BY <1>3 DEF QueuedIds, OnBooks, Open
<1>7. Queue(t, W)
  BY <1>3, <1>6 DEF RunnerOk, Queue, HostFrameOk
<1>8. Lifecycle(t) /\ GotOk(t, W, G)
  BY <1>2, <1>3 DEF RunnerOk, Lifecycle, GotOk
<1>9. HoldersOk(t, A)
  BY <1>3 DEF RunnerOk, HoldersOk, Due
<1>10. Engines(s, t)
  BY <1>0, <1>2, <1>3 DEF Shape, Engines, Spare
<1>11. Answers(s, t, {}, W) /\ Writes(s, t, {})
  BY <1>3, <1>6 DEF Answers, Writes
<1>12. Good(s, t, {}, W, G, A)
  BY <1>3, <1>4, <1>5, <1>7, <1>8, <1>9, <1>10, <1>11 DEF Good, Kept, RunnerOk
<1>. QED  BY <1>1, <1>12

\* The engine that has agreed to leave is gone, or has failed to.
LEMMA MaybeCompleteGood ==
  ASSUME NEW s, NEW W, NEW G, NEW A, RunnerOk(s, W, G, A), ~s.terminal
  PROVE  Good(s, maybeCompleteDormancy(s), {}, W, G, A)
<1>. DEFINE d == [s EXCEPT !.exitT = FALSE, !.state = "finalizing"]
            c == RetireCurrent(d)
            e == finalizeCurrent(c)
            z == IF e.pending # <<>> \/ e.since THEN beginStart(e)
                 ELSE armDormantLease(setState(e, "dormant"))
            v == IF c.terminal THEN c ELSE IF e.terminal THEN e ELSE z
            u == maybeCompleteDormancy(s)
<1>0. Shape(s)
  BY DEF RunnerOk
<1>1. \/ u = s \/ u = replaceCurrent(s)
      \/ s.state = "awaiting_exit" /\ u = v
  <2>1. CASE s.cur = 0 \/ s.state # "awaiting_exit"
    BY <2>1, Zenon DEF maybeCompleteDormancy
  <2>2. CASE s.cur # 0 /\ s.state = "awaiting_exit" /\ (s.exit = "no" \/ s.output # "eof")
    BY <2>2, Zenon DEF maybeCompleteDormancy
  <2>3. CASE s.cur # 0 /\ s.state = "awaiting_exit" /\ ~(s.exit = "no" \/ s.output # "eof")
    <3>1. u = IF s.exit # "dormant" \/ s.dormInvalid THEN replaceCurrent(s) ELSE v
      BY <2>3, Zenon DEF maybeCompleteDormancy, Then
    <3>. QED  BY <2>3, <3>1, Zenon
  <2>. QED  BY <2>1, <2>2, <2>3
<1>2. CASE u = s
  BY <1>2, KeptItself
<1>3. CASE u = replaceCurrent(s)
  BY <1>3, ReplaceGood
<1>4. CASE s.state = "awaiting_exit" /\ u = v
  <2>1. (s.modern \/ s.initReq) /\ ~s.awaiting /\ ~s.starting
    BY <1>4 DEF RunnerOk, Lifecycle, Engine, Serving
  <2>2. IsRunner(d) /\ Same(s, d, RunnerFields \ ({"state"} \cup Marks)) /\ d.state = "finalizing"
    BY <1>0 DEF Shape, IsRunner, RunnerFields, Same, Marks
  <2>. HIDE DEF d
  <2>3. d.state \in States /\ d.state \notin Serving
    BY <2>2 DEF States, Serving
  <2>4. Good(s, d, {}, W, G, A) /\ ~d.terminal /\ d.modern = s.modern /\ d.initReq = s.initReq
        /\ d.awaiting = s.awaiting /\ d.starting = s.starting
    BY <2>2, <2>3, MoveGood
  <2>5. \/ c.terminal /\ Good(d, c, {}, W, G, A)
        \/ /\ ~c.terminal /\ Good(d, e, {}, W, G, A)
           /\ ~e.terminal => /\ e.cur = 0 /\ e.starting = d.starting
                             /\ e.awaiting = d.awaiting /\ e.initReq = d.initReq
                             /\ e.modern = d.modern
    BY <2>3, <2>4, RetireGood DEF Good
  <2>. HIDE DEF c, e, u
  <2>6. CASE c.terminal /\ Good(d, c, {}, W, G, A)
    <3>1. Good(s, c, {}, W, G, A)
      BY <1>0, <2>4, <2>6, GoodChain
    <3>. QED  BY <1>4, <2>6, <3>1 DEF u
  <2>7. CASE /\ ~c.terminal /\ Good(d, e, {}, W, G, A)
             /\ ~e.terminal => /\ e.cur = 0 /\ e.starting = d.starting
                               /\ e.awaiting = d.awaiting /\ e.initReq = d.initReq
                               /\ e.modern = d.modern
    <3>1. Good(s, e, {}, W, G, A)
      BY <1>0, <2>4, <2>7, GoodChain
    <3>2. CASE e.terminal
      BY <1>4, <2>7, <3>1, <3>2 DEF u
    <3>3. CASE ~e.terminal
      <4>1. u = z
        BY <1>4, <2>7, <3>3
      <4>2. Good(e, z, {}, W, G, A)
        <5>1. CASE e.pending # <<>> \/ e.since
          BY <3>1, <5>1, BeginStartGood DEF Good
        <5>2. CASE ~(e.pending # <<>> \/ e.since)
          <6>1. z = armDormantLease(setState(e, "dormant")) /\ e.pending = <<>>
            BY <5>2
          <6>. QED  BY <2>1, <2>4, <2>7, <3>1, <3>3, <6>1, DormantGood DEF Good
        <5>. QED  BY <5>1, <5>2
      <4>. HIDE DEF z
      <4>3. Good(s, z, {}, W, G, A)
        BY <1>0, <3>1, <3>3, <4>2, GoodChain
      <4>. QED  BY <4>1, <4>3 DEF u
    <3>. QED  BY <3>2, <3>3
  <2>. QED  BY <2>5, <2>6, <2>7
<1>. QED  BY <1>1, <1>2, <1>3, <1>4

\* Outside a handshake the engine holds no initialize.
LEMMA NoInitHere ==
  ASSUME NEW s, NEW W, NEW G, NEW A, RunnerOk(s, W, G, A), ~s.terminal, s.cur # 0,
         \/ s.state \in {"quiescing", "awaiting_exit"}
         \/ s.state = "active" /\ ~s.awaiting
  PROVE  NoInit(s, G)
BY DEF RunnerOk, GotOk, NoInit

\* The engine offers to leave and is asked to.
LEMMA ReadyGood ==
  ASSUME NEW s, NEW W, NEW G, NEW A, RunnerOk(s, W, G, A), ~s.terminal, s.cur # 0,
         s.state = "active", s.modern \/ (~s.awaiting /\ s.initialized)
  PROVE  LET w == writeChild([s EXCEPT !.state = "quiescing", !.since = FALSE],
                             Frame("commit", InitId))
         IN  /\ Good(s, replaceCurrent(w), {}, W, G, A)
             /\ Good(s, [w EXCEPT !.exitT = TRUE], {}, W, G, A)
<1>. DEFINE a == [s EXCEPT !.state = "quiescing", !.since = FALSE]
            m == Frame("commit", InitId)
            w == writeChild(a, m)
            v == [w EXCEPT !.exitT = TRUE]
<1>0. Shape(s) /\ m \in FrameSet /\ m.k = "commit"
  BY FrameKinds DEF RunnerOk
<1>1. ~s.awaiting /\ (s.modern \/ s.initReq)
  BY DEF RunnerOk, Lifecycle
<1>2. NoInit(s, G)
  BY <1>1, NoInitHere
<1>3. IsRunner(a) /\ Same(s, a, RunnerFields \ ({"state"} \cup Marks)) /\ a.state = "quiescing"
  BY <1>0 DEF Shape, IsRunner, RunnerFields, Same, Marks
<1>. HIDE DEF a, m
<1>4. a.state \in States
  BY <1>3 DEF States
<1>5. Good(s, a, {}, W, G, A) /\ ~a.terminal
  BY <1>1, <1>2, <1>3, <1>4, MoveGood
<1>6. Good(a, w, {}, W, G, A) /\ Passes(a, w)
  BY <1>0, <1>5, WriteChildGood DEF Good
<1>. HIDE DEF w
<1>7. Good(s, w, {}, W, G, A) /\ ~w.terminal
  BY <1>0, <1>5, <1>6, GoodChain DEF Passes, Stays
<1>8. Good(w, replaceCurrent(w), {}, W, G, A)
  BY <1>7, ReplaceGood DEF Good
<1>9. Good(s, replaceCurrent(w), {}, W, G, A)
  BY <1>0, <1>7, <1>8, GoodChain
<1>10. Shape(w)
  BY <1>7 DEF Good, RunnerOk
<1>11. IsRunner(v) /\ Same(w, v, RunnerFields \ {"exitT"})
  BY <1>10 DEF Shape, IsRunner, RunnerFields, Same
<1>. HIDE DEF v
<1>12. Good(w, v, {}, W, G, A)
  BY <1>7, <1>11, MarkGood DEF Same, Good
<1>13. Good(s, v, {}, W, G, A)
  BY <1>0, <1>7, <1>12, GoodChain
<1>. QED  BY <1>9, <1>13 DEF v, w, a, m

\* It does not leave after all.
LEMMA NackGood ==
  ASSUME NEW s, NEW W, NEW G, NEW A, RunnerOk(s, W, G, A), ~s.terminal, s.state = "quiescing"
  PROVE  Good(s, flushPending([s EXCEPT !.exitT = FALSE, !.state = "active"]), {}, W, G, A)
<1>. DEFINE a == [s EXCEPT !.exitT = FALSE, !.state = "active"]
<1>0. Shape(s) /\ s.cur # 0
  BY DEF RunnerOk, Engine, Serving
<1>1. NoInit(s, G)
  BY <1>0, NoInitHere
<1>2. IsRunner(a) /\ Same(s, a, RunnerFields \ ({"state"} \cup Marks)) /\ a.state = "active"
  BY <1>0 DEF Shape, IsRunner, RunnerFields, Same, Marks
<1>. HIDE DEF a
<1>3. a.state \in States
  BY <1>2 DEF States
<1>4. Good(s, a, {}, W, G, A) /\ ~a.terminal
  BY <1>0, <1>1, <1>2, <1>3, MoveGood
<1>5. Good(a, flushPending(a), {}, W, G, A)
  BY <1>4, FlushGood DEF Good
<1>6. Good(s, flushPending(a), {}, W, G, A)
  BY <1>0, <1>4, <1>5, GoodChain
<1>. QED  BY <1>6 DEF a

\* It agrees to leave.
LEMMA AckGood ==
  ASSUME NEW s, NEW W, NEW G, NEW A, RunnerOk(s, W, G, A), ~s.terminal, s.state = "quiescing"
  PROVE  LET c == commitQuiescingCancellations([s EXCEPT !.drainT = FALSE])
             d == [discardSameGenerationOnly(c) EXCEPT !.state = "awaiting_exit", !.exitT = TRUE]
         IN  /\ Good(s, c, {}, W, G, A)
             /\ ~c.terminal => Good(s, maybeCompleteDormancy(d), {}, W, G, A)
<1>. DEFINE a == [s EXCEPT !.drainT = FALSE]
            c == commitQuiescingCancellations(a)
            b == discardSameGenerationOnly(c)
            d == [b EXCEPT !.state = "awaiting_exit", !.exitT = TRUE]
<1>0. Shape(s) /\ s.cur # 0 /\ (s.modern \/ s.initReq) /\ ~s.awaiting
  BY DEF RunnerOk, Engine, Serving, Lifecycle
<1>1. IsRunner(a) /\ Same(s, a, RunnerFields \ {"drainT"})
  BY <1>0 DEF Shape, IsRunner, RunnerFields, Same
<1>. HIDE DEF a
<1>2. Good(s, a, {}, W, G, A) /\ Stays(s, a)
  BY <1>1, MarkGood DEF Same
<1>3. Good(a, c, {}, W, G, A) /\ (~c.terminal => Stays(a, c))
  BY <1>2, CommitGood DEF Good, Stays
<1>. HIDE DEF c
<1>4. Good(s, c, {}, W, G, A)
  BY <1>0, <1>2, <1>3, GoodChain DEF Stays
<1>5. ASSUME ~c.terminal
      PROVE  Good(s, maybeCompleteDormancy(d), {}, W, G, A)
  <2>1. Good(c, b, {}, W, G, A) /\ Stays(c, b)
    BY <1>4, <1>5, DiscardGood DEF Good
  <2>. HIDE DEF b
  <2>2. Good(s, b, {}, W, G, A) /\ ~b.terminal
    BY <1>0, <1>4, <1>5, <2>1, GoodChain DEF Stays
  <2>3. /\ b.cur # 0 /\ b.state = "quiescing" /\ ~b.awaiting /\ (b.modern \/ b.initReq)
    BY <1>0, <1>2, <1>3, <1>5, <2>1 DEF Stays
  <2>4. NoInit(b, G) /\ Shape(b)
    BY <2>2, <2>3, NoInitHere DEF Good, RunnerOk
  <2>5. IsRunner(d) /\ Same(b, d, RunnerFields \ ({"state"} \cup Marks)) /\ d.state = "awaiting_exit"
    BY <2>4 DEF Shape, IsRunner, RunnerFields, Same, Marks
  <2>. HIDE DEF d
  <2>6. d.state \in States
    BY <2>5 DEF States
  <2>7. Good(b, d, {}, W, G, A) /\ ~d.terminal
    BY <2>2, <2>3, <2>4, <2>5, <2>6, MoveGood DEF Good
  <2>8. Good(s, d, {}, W, G, A)
    BY <1>0, <2>2, <2>7, GoodChain
  <2>9. Good(d, maybeCompleteDormancy(d), {}, W, G, A)
    BY <2>7, MaybeCompleteGood DEF Good
  <2>. QED  BY <1>0, <2>7, <2>8, <2>9, GoodChain
<1>. QED  BY <1>4, <1>5 DEF a, b, c, d

\* The frames of the dormancy handshake.
LEMMA ChildControlGood ==
  ASSUME NEW s, NEW f, NEW W, NEW G, NEW A, RunnerOk(s, W, G, A), ~s.terminal, s.cur # 0
  PROVE  Good(s, handleChildControl(s, f), {}, W, G, A)
<1>. DEFINE u == handleChildControl(s, f)
            w == writeChild([s EXCEPT !.state = "quiescing", !.since = FALSE],
                            Frame("commit", InitId))
            x == [w EXCEPT !.exitT = TRUE]
            n == flushPending([s EXCEPT !.exitT = FALSE, !.state = "active"])
            c == commitQuiescingCancellations([s EXCEPT !.drainT = FALSE])
            d == [discardSameGenerationOnly(c) EXCEPT !.state = "awaiting_exit", !.exitT = TRUE]
<1>1. CASE f.method = "ready"
  <2>1. u = IF s.state # "active" \/ (~s.modern /\ (s.awaiting \/ ~s.initialized))
            THEN replaceCurrent(s)
            ELSE IF ~safeToCommitDormant(s) THEN s
            ELSE IF w.out # "delivered" THEN replaceCurrent(w) ELSE x
    BY <1>1, Zenon DEF handleChildControl
  <2>2. s.state = "active" /\ (s.modern \/ (~s.awaiting /\ s.initialized)) =>
          Good(s, replaceCurrent(w), {}, W, G, A) /\ Good(s, x, {}, W, G, A)
    BY ReadyGood
  <2>. HIDE DEF u, w, x
  <2>. QED  BY <2>1, <2>2, ReplaceGood, KeptItself DEF u
<1>2. CASE f.method = "nack"
  <2>1. f.method # "ready"
    BY <1>2
  <2>2. u = IF s.state # "quiescing" THEN replaceCurrent(s) ELSE n
    BY <1>2, <2>1, Zenon DEF handleChildControl
  <2>3. s.state = "quiescing" => Good(s, n, {}, W, G, A)
    BY NackGood
  <2>. HIDE DEF u, n
  <2>. QED  BY <2>2, <2>3, ReplaceGood DEF u
<1>3. CASE f.method # "ready" /\ f.method # "nack"
  <2>1. u = IF s.state # "quiescing" THEN replaceCurrent(s)
            ELSE IF c.terminal THEN c ELSE maybeCompleteDormancy(d)
    BY <1>3, Zenon DEF handleChildControl, Then
  <2>2. s.state = "quiescing" =>
          /\ Good(s, c, {}, W, G, A)
          /\ ~c.terminal => Good(s, maybeCompleteDormancy(d), {}, W, G, A)
    BY AckGood
  <2>. HIDE DEF u, c, d
  <2>. QED  BY <2>1, <2>2, ReplaceGood DEF u
<1>. QED  BY <1>1, <1>2, <1>3

SameBooks(s, t) ==
  /\ OnBooks(t) = OnBooks(s) /\ QueuedIds(t) = QueuedIds(s) /\ t.terminal = s.terminal
  /\ t.wrote = s.wrote /\ t.toChild = s.toChild

\* A mark is set on a runner that has not ended.
LEMMA MarkLast ==
  ASSUME NEW s, NEW t, NEW H, NEW W, NEW G, NEW A, NEW v, Good(s, t, H, W, G, A)
  PROVE  LET u == [t EXCEPT !.dormInvalid = v]
         IN  Good(s, u, H, W, G, A) /\ SameBooks(t, u)
<1>. DEFINE u == [t EXCEPT !.dormInvalid = v]
<1>0. Shape(t)
  BY DEF Good, RunnerOk
<1>1. IsRunner(u) /\ Same(t, u, RunnerFields \ {"dormInvalid"})
  BY <1>0 DEF Shape, IsRunner, RunnerFields, Same
<1>. HIDE DEF u
<1>2. Good(t, u, {}, W, G, A) /\ Steady(t, u)
  BY <1>1, MarkGood DEF Same, Good
<1>3. Good(s, u, H, W, G, A)
  BY <1>2, SteadyLast DEF Good, RunnerOk
<1>4. SameBooks(t, u)
  BY <1>2 DEF Steady, Alike, Stays, OnBooks, QueuedIds, Open, SameBooks
<1>. QED  BY <1>3, <1>4 DEF u

\* An answer of the engine for a request that was withdrawn before.
LateIds(s, f) == IF f.k = "answer" /\ f.id \notin Open(s) THEN {f.id} ELSE {}

\* It may be passed on, and nothing is put on the books.
Lates(s, t, f, W, G, A) ==
  /\ Good(s, t, LateIds(s, f), W, G, A)
  /\ Writes(s, t, {})
  /\ t.terminal \/ OnBooks(t) \subseteq OnBooks(s)

\* What is good without a late answer is good with one.
LEMMA LateWiden ==
  ASSUME NEW s, NEW t, NEW f, NEW W, NEW G, NEW A, FromEngine(s, f, W, G), Good(s, t, {}, W, G, A)
  PROVE  Lates(s, t, f, W, G, A)
<1>1. LateIds(s, f) \in SUBSET W
  BY DEF FromEngine, LateIds
<1>2. Writes(s, t, {}) /\ (t.terminal \/ OnBooks(t) \subseteq OnBooks(s))
  BY DEF Good, Kept, Answers
<1>. HIDE DEF LateIds
<1>3. Good(s, t, LateIds(s, f), W, G, A)
  BY <1>1, WiderGood
<1>. QED  BY <1>2, <1>3 DEF Lates

\* A mark that dormancy is off changes nothing else.
LEMMA MarkLates ==
  ASSUME NEW s, NEW t, NEW f, NEW W, NEW G, NEW A, NEW v, Lates(s, t, f, W, G, A)
  PROVE  Lates(s, [t EXCEPT !.dormInvalid = v], f, W, G, A)
<1>. DEFINE u == [t EXCEPT !.dormInvalid = v]
            H == LateIds(s, f)
<1>1. /\ Good(s, t, H, W, G, A) /\ Writes(s, t, {})
      /\ t.terminal \/ OnBooks(t) \subseteq OnBooks(s)
  BY DEF Lates
<1>. HIDE DEF H
<1>2. Good(s, u, H, W, G, A) /\ SameBooks(t, u)
  BY <1>1, MarkLast
<1>. HIDE DEF u
<1>3. Writes(s, u, {})
  BY <1>1, <1>2 DEF Writes, SameBooks
<1>4. Lates(s, u, f, W, G, A)
  BY <1>1, <1>2, <1>3 DEF Lates, H, SameBooks
<1>. QED  BY <1>4 DEF u

\* What a frame of an engine that has agreed to leave does before it voids the
\* dormancy.
LEMMA LeavingAnswerGood ==
  ASSUME NEW s, NEW f, NEW W, NEW G, NEW A, RunnerOk(s, W, G, A), ~s.terminal,
         FromEngine(s, f, W, G), f.k = "answer", ~s.awaiting
  PROVE  LET w == writeHost(s, Frame("answer", f.id))
             done == IF f.id \in Open(s) THEN [w EXCEPT !.host = complete(w.host, f.id, f)] ELSE w
         IN  /\ w.terminal => Lates(s, w, f, W, G, A)
             /\ ~w.terminal => Lates(s, EndOnError(done), f, W, G, A)
<1>. DEFINE w == writeHost(s, Frame("answer", f.id))
            done == IF f.id \in Open(s) THEN [w EXCEPT !.host = complete(w.host, f.id, f)] ELSE w
<1>0. Shape(s) /\ f.id \in Ids /\ IsRegistry(s.host)
  BY DEF RunnerOk, Shape, FromEngine, Ids
<1>1. CASE f.id \in Open(s)
  <2>2. CASE ~s.fate.host
    <3>1. w = terminate(s) /\ w.terminal
      BY <1>0, <2>2, AnswerFacts
    <3>. HIDE DEF w
    <3>2. Good(s, w, {}, W, G, A)
      BY <3>1, TerminateGood
    <3>3. Lates(s, w, f, W, G, A)
      BY <3>2, LateWiden
    <3>. QED  BY <3>1, <3>3 DEF w
  <2>3. CASE s.fate.host
    <3>1. /\ Shape(w) /\ Stays(s, w) /\ w.pending = s.pending
          /\ w.host = s.host /\ w.child = s.child /\ w.toHost = s.toHost
          /\ w.toChild = s.toChild /\ w.wrote = s.wrote /\ Told(s, w, f.id)
      BY <1>0, <2>3, AnswerFacts
    <3>. HIDE DEF w
    <3>2. Closes(s.host, complete(s.host, f.id, f), f.id)
      BY <1>0, CompleteCloses
    <3>3. Unheld(s, f.id, W, G)
      BY DEF FromEngine
    <3>4. Good(s, EndOnError([w EXCEPT !.host = complete(s.host, f.id, f)]), {}, W, G, A)
      BY <1>1, <3>1, <3>2, <3>3, CompletedGood
    <3>5. done = [w EXCEPT !.host = complete(s.host, f.id, f)]
      BY <1>1, <3>1
    <3>6. ~w.terminal
      BY <3>1 DEF Stays
    <3>7. Lates(s, EndOnError(done), f, W, G, A)
      BY <3>4, <3>5, LateWiden
    <3>. QED  BY <3>6, <3>7 DEF w, done
  <2>. QED  BY <2>2, <2>3
<1>2. CASE f.id \notin Open(s)
  <2>1. LateIds(s, f) = {f.id}
    BY <1>2 DEF LateIds
  <2>2. f.id \notin OnBooks(s)
    BY <1>2 DEF OnBooks, FromEngine
  <2>3. Good(s, w, {f.id}, W, G, A)
    BY <1>0, <2>2, RejectGood DEF rejectHostRequest
  <2>4. done = w
    BY <1>2
  <2>6. /\ w.terminal \/ OnBooks(w) = OnBooks(s)
        /\ QueuedIds(w) = QueuedIds(s) /\ w.wrote = s.wrote /\ w.toChild = s.toChild
    <3>1. /\ w.terminal \/ (Stays(s, w) /\ w.pending = s.pending /\ w.host = s.host)
          /\ w.pending = s.pending /\ w.wrote = s.wrote /\ w.toChild = s.toChild
      BY <1>0, AnswerFacts, TerminateFacts
    <3>. HIDE DEF w
    <3>. QED  BY <3>1 DEF Stays, OnBooks, QueuedIds, Open
  <2>. HIDE DEF w, done
  <2>9. Writes(s, w, {}) /\ Writes(s, EndOnError(w), {})
    <3>1. Shape(w)
      BY <2>3 DEF Good, RunnerOk
    <3>2. /\ EndOnError(w).pending = w.pending /\ EndOnError(w).wrote = w.wrote
          /\ EndOnError(w).toChild = w.toChild
      BY <3>1, TerminateFacts DEF EndOnError
    <3>3. QueuedIds(EndOnError(w)) = QueuedIds(w)
      BY <3>2 DEF QueuedIds
    <3>. QED  BY <2>6, <3>2, <3>3 DEF Writes
  <2>5. ~w.terminal => Good(s, EndOnError(w), {f.id}, W, G, A)
    BY <1>0, <2>3, EndOnErrorGood DEF Good
  <2>7. EndOnError(w).terminal \/ EndOnError(w) = w
    BY <2>3, ErrorEnds DEF Good
  <2>8. /\ w.terminal => Lates(s, w, f, W, G, A)
        /\ ~w.terminal => Lates(s, EndOnError(w), f, W, G, A)
    BY <2>1, <2>3, <2>5, <2>6, <2>7, <2>9 DEF Lates
  <2>. QED  BY <2>4, <2>8 DEF w, done
<1>. QED  BY <1>1, <1>2

\* A frame of an engine that agreed to leave.
LEMMA LeavingGood ==
  ASSUME NEW s, NEW f, NEW W, NEW G, NEW A, RunnerOk(s, W, G, A), ~s.terminal, ~s.modern,
         s.state = "awaiting_exit", FromEngine(s, f, W, G)
  PROVE  Lates(s, FrameWhileLeaving(s, f), f, W, G, A)
<1>. DEFINE u == FrameWhileLeaving(s, f)
            Void(t) == [t EXCEPT !.dormInvalid = t.dormInvalid \/ t.state = "awaiting_exit"]
            e == IF f.k \in {"answer", "init"} THEN Frame("answer", f.id) ELSE f
            w == writeHost(s, e)
            open == /\ f.k = "answer" /\ f.id \in DOMAIN s.host.requests
                    /\ s.host.requests[f.id].gen = s.cur
            done == IF open THEN [w EXCEPT !.host = complete(w.host, f.id, f)] ELSE w
            z == EndOnError(done)
<1>0. ~s.awaiting /\ f.k # "init" /\ f.k # "unlisten"
  BY DEF RunnerOk, Lifecycle, FromEngine
<1>1. CASE s.dormInvalid
  <2>1. u = s
    BY <1>1, Zenon DEF FrameWhileLeaving
  <2>2. Good(s, s, {}, W, G, A)
    BY KeptItself
  <2>. QED  BY <2>1, <2>2, LateWiden
<1>2. CASE ~s.dormInvalid /\ f.k = "ask"
  <2>1. u = Void(handleChildRequest(s, f))
    BY <1>2, Zenon DEF FrameWhileLeaving
  <2>. DEFINE a == handleChildRequest(s, f)
  <2>2. Good(s, a, {}, W, G, A)
    BY <1>2, ChildRequestGood DEF FromEngine
  <2>. HIDE DEF a, u
  <2>3. Good(s, Void(a), {}, W, G, A)
    BY <2>2, MarkLast
  <2>4. u = Void(a)
    BY <2>1 DEF a
  <2>. QED  BY <2>3, <2>4, LateWiden DEF u
<1>3. CASE ~s.dormInvalid /\ f.k # "ask"
  <2>1. u = IF w.terminal THEN w ELSE IF z.terminal THEN z ELSE Void(z)
    BY <1>3, Zenon DEF FrameWhileLeaving, Then
  <2>2. /\ w.terminal => Lates(s, w, f, W, G, A)
        /\ ~w.terminal => Lates(s, z, f, W, G, A)
    <3>1. CASE f.k = "answer"
      <4>1. e = Frame("answer", f.id)
        BY <3>1
      <4>2. open <=> f.id \in Open(s)
        BY <3>1 DEF RunnerOk, Registers, Open
      <4>. HIDE DEF e, open
      <4>. QED  BY <1>0, <3>1, <4>1, <4>2, LeavingAnswerGood
    <3>2. CASE f.k # "answer"
      <4>1. e = f /\ ~open
        BY <1>0, <3>2
      <4>2. Good(s, w, {}, W, G, A)
        BY <1>0, <1>3, <3>2, <4>1, WriteHostGood
      <4>3. done = w
        BY <4>1
      <4>. HIDE DEF w, done, open
      <4>4. Shape(s)
        BY DEF RunnerOk
      <4>5. ~w.terminal => Good(s, z, {}, W, G, A)
        BY <4>2, <4>3, <4>4, EndOnErrorGood DEF Good
      <4>. HIDE DEF z
      <4>. QED  BY <4>2, <4>5, LateWiden
    <3>. QED  BY <3>1, <3>2
  <2>. HIDE DEF w, z, u
  <2>3. ~w.terminal => Lates(s, Void(z), f, W, G, A)
    BY <2>2, MarkLates
  <2>. QED  BY <2>1, <2>2, <2>3 DEF u
<1>. QED  BY <1>1, <1>2, <1>3

\* The end of a subscription is an answer, too.
LEMMA UnlistenFacts ==
  ASSUME NEW s, Shape(s), NEW f, f.k = "unlisten", f.id \in Ids
  PROVE  LET t == writeHost(s, f)
         IN  /\ ~s.fate.host => t = terminate(s) /\ t.terminal
             /\ s.fate.host =>
                  /\ Shape(t) /\ Stays(s, t) /\ t.pending = s.pending
                  /\ t.host = s.host /\ t.child = s.child /\ t.toHost = s.toHost
                  /\ t.toChild = s.toChild /\ t.wrote = s.wrote /\ Told(s, t, f.id)
<1>. DEFINE t == writeHost(s, f)
            v == [s.told EXCEPT ![f.id] = @ + 1]
<1>1. CASE ~s.fate.host
  <2>1. t = terminate(s)
    BY <1>1 DEF writeHost
  <2>. QED  BY <1>1, <2>1, TerminateFacts
<1>2. CASE s.fate.host
  <2>1. t = [s EXCEPT !.told = v, !.toHost = s.toHost]
    BY <1>2 DEF writeHost, Noted
  <2>2. v \in [Ids -> Nat]
    BY DEF Shape
  <2>. HIDE DEF t, v
  <2>3. /\ Shape(t) /\ Stays(s, t) /\ t.pending = s.pending
        /\ t.host = s.host /\ t.child = s.child /\ t.toHost = s.toHost
        /\ t.toChild = s.toChild /\ t.wrote = s.wrote /\ t.told = v
    BY <2>1, <2>2, ZenonT(40) DEF Shape, IsRunner, RunnerFields, Stays
  <2>. QED  BY <1>2, <2>3 DEF Told, t, v
<1>. QED  BY <1>1, <1>2

\* An answer to a modern host, and the request is forgotten.
LEMMA ModernAnswerGood ==
  ASSUME NEW s, NEW e, NEW id, NEW W, NEW G, NEW A, RunnerOk(s, W, G, A), ~s.terminal,
         id \in Open(s), Unheld(s, id, W, G),
         e = Frame("answer", id) \/ (e.k = "unlisten" /\ e.id = id)
  PROVE  LET w == writeHost(s, e)
         IN  /\ w.terminal => Good(s, w, {}, W, G, A)
             /\ ~w.terminal => Good(s, finishModernRequest(w, id), {}, W, G, A)
<1>. DEFINE w == writeHost(s, e)
            u == finishModernRequest(w, id)
<1>0. Shape(s) /\ id \in Ids
  BY DEF RunnerOk, Registers, Ids
<1>1. /\ ~s.fate.host => w = terminate(s) /\ w.terminal
      /\ s.fate.host =>
                  /\ Shape(w) /\ Stays(s, w) /\ w.pending = s.pending
                  /\ w.host = s.host /\ w.child = s.child /\ w.toHost = s.toHost
                  /\ w.toChild = s.toChild /\ w.wrote = s.wrote /\ Told(s, w, id)
  BY <1>0, AnswerFacts, UnlistenFacts
<1>. HIDE DEF w
<1>2. CASE ~s.fate.host
  <2>1. Good(s, w, {}, W, G, A)
    BY <1>1, <1>2, TerminateGood
  <2>. QED  BY <1>1, <1>2, <2>1 DEF w
<1>3. CASE s.fate.host
  <2>1. /\ Shape(u) /\ Stays(w, u) /\ u.child = w.child
        /\ u.host.requests = Drop(w.host.requests, {id})
        /\ u.pending = w.pending /\ u.toHost = w.toHost /\ u.toChild = w.toChild
        /\ u.told = w.told /\ u.wrote = w.wrote
    BY <1>1, <1>3, FinishModernFacts
  <2>. HIDE DEF u
  <2>2. Stays(s, u) /\ Closing(s, u, id) /\ Told(s, u, id) /\ ~w.terminal
    BY <1>1, <1>3, <2>1 DEF Stays, Closing, Told
  <2>3. Good(s, u, {}, W, G, A)
    BY <1>1, <1>3, <2>1, <2>2, AnsweredGood
  <2>. QED  BY <2>2, <2>3 DEF u, w
<1>. QED  BY <1>2, <1>3

\* A frame of a modern engine.
LEMMA ModernChildGood ==
  ASSUME NEW s, NEW f, NEW W, NEW G, NEW A, RunnerOk(s, W, G, A), ~s.terminal, s.modern,
         FromEngine(s, f, W, G), f.k # "init"
  PROVE  Good(s, handleModernChild(s, f), {}, W, G, A)
<1>. DEFINE u == handleModernChild(s, f)
            t == IF s.state = "awaiting_exit" THEN [s EXCEPT !.dormInvalid = TRUE] ELSE s
            open == f.id \in DOMAIN t.host.requests /\ t.host.requests[f.id].gen = t.cur
            listen == open /\ t.host.requests[f.id].method = "listen"
            e == IF f.k = "answer" THEN Frame("answer", f.id) ELSE f
            w == writeHost(t, e)
            v == CASE f.k = "ask" -> t
                   [] f.k = "answer" ->
                        IF ~open THEN t
                        ELSE IF w.terminal THEN w ELSE finishModernRequest(w, f.id)
                   [] f.k = "unlisten" ->
                        IF ~listen THEN t
                        ELSE IF w.terminal THEN w ELSE finishModernRequest(w, f.id)
                   [] f.k = "progress" -> handleChildProgress(t, f)
                   [] OTHER -> w
<1>0. Shape(s)
  BY DEF RunnerOk
<1>1. u = s \/ u = v
  <2>1. CASE s.state \notin {"active", "quiescing", "awaiting_exit"}
    BY <2>1, Zenon DEF handleModernChild
  <2>2. CASE s.state = "awaiting_exit" /\ s.dormInvalid
    BY <2>2, Zenon DEF handleModernChild
  <2>3. CASE /\ ~(s.state \notin {"active", "quiescing", "awaiting_exit"})
             /\ ~(s.state = "awaiting_exit" /\ s.dormInvalid)
    BY <2>3, Zenon DEF handleModernChild
  <2>. QED  BY <2>1, <2>2, <2>3, Zenon
<1>2. Good(s, t, {}, W, G, A) /\ Steady(s, t)
  <2>1. CASE s.state = "awaiting_exit"
    <3>1. t = [s EXCEPT !.dormInvalid = TRUE]
      BY <2>1
    <3>2. IsRunner(t) /\ Same(s, t, RunnerFields \ {"dormInvalid"})
      BY <1>0, <3>1 DEF Shape, IsRunner, RunnerFields, Same
    <3>. HIDE DEF t
    <3>3. Good(s, t, {}, W, G, A) /\ Steady(s, t)
      BY <3>2, MarkGood DEF Same
    <3>. QED  BY <3>3 DEF t
  <2>2. CASE s.state # "awaiting_exit"
    BY <2>2, KeptItself DEF Steady, Alike, Stays
  <2>. QED  BY <2>1, <2>2
<1>. HIDE DEF t
<1>3. RunnerOk(t, W, G, A) /\ ~t.terminal /\ Open(t) = Open(s) /\ t.toChild = s.toChild
  BY <1>2 DEF Good, Steady, Alike, Stays, Open
<1>4. f.k \in {"answer", "unlisten"} => Unheld(t, f.id, W, G)
  BY <1>3 DEF FromEngine, Unheld
<1>5. open => f.id \in Open(t)
  BY DEF Open
<1>6. Good(t, v, {}, W, G, A)
  <2>1. CASE f.k = "ask"
    <3>1. v = t
      BY <2>1, Zenon
    <3>. QED  BY <1>3, <3>1, KeptItself
  <2>2. CASE f.k = "answer"
    <3>1. v = IF ~open THEN t ELSE IF w.terminal THEN w ELSE finishModernRequest(w, f.id)
      <4>1. f.k # "ask"
        BY <2>2
      <4>. HIDE DEF open, listen, w
      <4>. QED  BY <2>2, <4>1, Zenon
    <3>2. e = Frame("answer", f.id)
      BY <2>2
    <3>. HIDE DEF v, e
    <3>3. open => /\ w.terminal => Good(t, w, {}, W, G, A)
                  /\ ~w.terminal => Good(t, finishModernRequest(w, f.id), {}, W, G, A)
      BY <1>3, <1>4, <1>5, <2>2, <3>2, ModernAnswerGood
    <3>. HIDE DEF open, w
    <3>. QED  BY <1>3, <3>1, <3>3, KeptItself
  <2>3. CASE f.k = "unlisten"
    <3>1. v = IF ~listen THEN t ELSE IF w.terminal THEN w ELSE finishModernRequest(w, f.id)
      <4>1. f.k # "ask" /\ f.k # "answer"
        BY <2>3
      <4>. HIDE DEF open, listen, w
      <4>. QED  BY <2>3, <4>1, Zenon
    <3>2. e.k = "unlisten" /\ e.id = f.id
      BY <2>3
    <3>. HIDE DEF v, e
    <3>3. open => /\ w.terminal => Good(t, w, {}, W, G, A)
                  /\ ~w.terminal => Good(t, finishModernRequest(w, f.id), {}, W, G, A)
      BY <1>3, <1>4, <1>5, <2>3, <3>2, ModernAnswerGood
    <3>4. listen => open
      OBVIOUS
    <3>. HIDE DEF open, listen, w
    <3>. QED  BY <1>3, <3>1, <3>3, <3>4, KeptItself
  <2>4. CASE f.k = "progress"
    <3>1. v = handleChildProgress(t, f)
      <4>1. f.k # "ask" /\ f.k # "answer" /\ f.k # "unlisten"
        BY <2>4
      <4>. HIDE DEF open, listen, w
      <4>. QED  BY <2>4, <4>1, Zenon
    <3>. HIDE DEF v
    <3>. QED  BY <1>3, <2>4, <3>1, ChildProgressGood
  <2>5. CASE f.k \notin {"ask", "answer", "unlisten", "progress"}
    <3>1. v = w
      <4>. HIDE DEF open, listen, w
      <4>. QED  BY <2>5, Zenon
    <3>2. e = f
      BY <2>5
    <3>. HIDE DEF v
    <3>. QED  BY <1>3, <2>5, <3>1, <3>2, WriteHostGood
  <2>. QED  BY <2>1, <2>2, <2>3, <2>4, <2>5
<1>. HIDE DEF v, u
<1>7. Good(s, v, {}, W, G, A)
  BY <1>2, <1>6, SteadyFirst
<1>. QED  BY <1>1, <1>7, KeptItself DEF u

\* A frame of a legacy engine that serves.
LEMMA ServingFrameGood ==
  ASSUME NEW s, NEW f, NEW W, NEW G, NEW A, RunnerOk(s, W, G, A), ~s.terminal, ~s.modern,
         FromEngine(s, f, W, G)
  PROVE  LET early == IF f.k \in {"answer", "init"} THEN handleChildResponse(s, f)
                      ELSE IF f.k = "ask" THEN handleChildRequest(s, f)
                      ELSE IF f.k = "log" /\ s.initReq THEN writeHost(s, f) ELSE s
             known == CASE f.k \in {"answer", "init"} -> handleChildResponse(s, f)
                    [] f.k = "ask" -> handleChildRequest(s, f)
                    [] f.k = "cancel" -> handleChildCancellation(s, f)
                    [] f.k = "progress" -> handleChildProgress(s, f)
                    [] f.k = "status" -> handleChildTaskStatus(s, f)
                    [] OTHER -> writeHost(s, f)
         IN  Good(s, early, {}, W, G, A) /\ Good(s, known, {}, W, G, A)
<1>. DEFINE early == IF f.k \in {"answer", "init"} THEN handleChildResponse(s, f)
                     ELSE IF f.k = "ask" THEN handleChildRequest(s, f)
                     ELSE IF f.k = "log" /\ s.initReq THEN writeHost(s, f) ELSE s
            known == CASE f.k \in {"answer", "init"} -> handleChildResponse(s, f)
                    [] f.k = "ask" -> handleChildRequest(s, f)
                    [] f.k = "cancel" -> handleChildCancellation(s, f)
                    [] f.k = "progress" -> handleChildProgress(s, f)
                    [] f.k = "status" -> handleChildTaskStatus(s, f)
                    [] OTHER -> writeHost(s, f)
<1>1. CASE f.k \in {"answer", "init"}
  <2>1. early = handleChildResponse(s, f) /\ known = handleChildResponse(s, f)
    BY <1>1, Zenon
  <2>. HIDE DEF early, known
  <2>2. Good(s, early, {}, W, G, A) /\ Good(s, known, {}, W, G, A)
    BY <1>1, <2>1, ChildResponseGood
  <2>. QED  BY <2>2 DEF early, known
<1>2. CASE f.k = "ask"
  <2>0. f.k \notin {"answer", "init"}
    BY <1>2
  <2>1. early = handleChildRequest(s, f) /\ known = handleChildRequest(s, f)
    BY <1>2, <2>0, Zenon
  <2>. HIDE DEF early, known
  <2>2. Good(s, early, {}, W, G, A) /\ Good(s, known, {}, W, G, A)
    BY <1>2, <2>1, ChildRequestGood DEF FromEngine
  <2>. QED  BY <2>2 DEF early, known
<1>3. CASE f.k \notin {"answer", "init", "ask"}
  <2>0. f.k \notin {"answer", "init"} /\ f.k # "ask"
    BY <1>3
  <2>1. early = s \/ (f.k = "log" /\ early = writeHost(s, f))
    BY <2>0, Zenon
  <2>2. \/ f.k = "cancel" /\ known = handleChildCancellation(s, f)
        \/ f.k = "progress" /\ known = handleChildProgress(s, f)
        \/ f.k = "status" /\ known = handleChildTaskStatus(s, f)
        \/ f.k \notin {"cancel", "progress", "status"} /\ known = writeHost(s, f)
    <3>1. CASE f.k = "cancel"
      BY <2>0, <3>1, Zenon
    <3>2. CASE f.k = "progress"
      <4>1. f.k # "cancel"
        BY <3>2
      <4>. QED  BY <2>0, <3>2, <4>1, Zenon
    <3>3. CASE f.k = "status"
      <4>1. f.k # "cancel" /\ f.k # "progress"
        BY <3>3
      <4>. QED  BY <2>0, <3>3, <4>1, Zenon
    <3>4. CASE f.k \notin {"cancel", "progress", "status"}
      BY <2>0, <3>4, Zenon
    <3>. QED  BY <3>1, <3>2, <3>3, <3>4
  <2>3. f.k = "log" \/ f.k \notin {"cancel", "progress", "status"} =>
          (f.k # "unlisten" => Good(s, writeHost(s, f), {}, W, G, A))
    BY <1>3, WriteHostGood
  <2>4. f.k # "unlisten"
    BY DEF FromEngine
  <2>. HIDE DEF early, known
  <2>5. Good(s, early, {}, W, G, A)
    BY <2>1, <2>3, <2>4, KeptItself
  <2>6. Good(s, known, {}, W, G, A)
    BY <2>2, <2>3, <2>4, ChildCancellationGood, ChildProgressGood, ChildStatusGood
  <2>. QED  BY <2>5, <2>6 DEF early, known
<1>. QED  BY <1>1, <1>2, <1>3

\* A frame of the current engine.
LEMMA ChildFrameGood ==
  ASSUME NEW s, NEW f, NEW W, NEW G, NEW A, RunnerOk(s, W, G, A), ~s.terminal,
         FromEngine(s, f, W, G)
  PROVE  Lates(s, handleChildFrame(s, f), f, W, G, A)
<1>. DEFINE u == handleChildFrame(s, f)
            early == IF f.k \in {"answer", "init"} THEN handleChildResponse(s, f)
                     ELSE IF f.k = "ask" THEN handleChildRequest(s, f)
                     ELSE IF f.k = "log" /\ s.initReq THEN writeHost(s, f) ELSE s
            known == CASE f.k \in {"answer", "init"} -> handleChildResponse(s, f)
                    [] f.k = "ask" -> handleChildRequest(s, f)
                    [] f.k = "cancel" -> handleChildCancellation(s, f)
                    [] f.k = "progress" -> handleChildProgress(s, f)
                    [] f.k = "status" -> handleChildTaskStatus(s, f)
                    [] OTHER -> writeHost(s, f)
<1>0. s.cur # 0
  BY DEF FromEngine
<1>1. CASE f.k = "control"
  <2>1. u = handleChildControl(s, f)
    BY <1>1, Zenon DEF handleChildFrame
  <2>. HIDE DEF u
  <2>2. Good(s, u, {}, W, G, A)
    BY <1>0, <2>1, ChildControlGood
  <2>. QED  BY <2>2, LateWiden DEF u
<1>2. CASE f.k # "control" /\ s.modern
  <2>1. u = handleModernChild(s, f)
    BY <1>2, Zenon DEF handleChildFrame
  <2>. HIDE DEF u
  <2>2. Good(s, u, {}, W, G, A)
    <3>1. CASE f.k # "init"
      BY <1>2, <2>1, <3>1, ModernChildGood
    <3>2. CASE f.k = "init"
      <4>1. s.state = "finalizing"
        BY <1>2, <3>2 DEF RunnerOk, Lifecycle, FromEngine
      <4>2. s.state \notin {"active", "quiescing", "awaiting_exit"}
        BY <4>1
      <4>3. u = s
        BY <2>1, <4>2, Zenon DEF handleModernChild
      <4>. QED  BY <4>3, KeptItself
    <3>. QED  BY <3>1, <3>2
  <2>. QED  BY <2>2, LateWiden DEF u
<1>3. CASE f.k # "control" /\ ~s.modern /\ s.state = "replaying"
  <2>1. u = handleReplayFrame(s, f)
    BY <1>3, Zenon DEF handleChildFrame
  <2>. HIDE DEF u
  <2>2. Good(s, u, {}, W, G, A)
    BY <1>3, <2>1, ReplayFrameGood
  <2>. QED  BY <2>2, LateWiden DEF u
<1>4. CASE f.k # "control" /\ ~s.modern /\ s.state = "awaiting_exit"
  <2>0. s.state # "replaying"
    BY <1>4
  <2>1. u = FrameWhileLeaving(s, f)
    BY <1>4, <2>0, Zenon DEF handleChildFrame
  <2>. HIDE DEF u
  <2>. QED  BY <1>4, <2>1, LeavingGood DEF u
<1>5. CASE f.k # "control" /\ ~s.modern /\ s.state # "replaying" /\ s.state # "awaiting_exit"
  <2>1. u = IF s.state \notin {"active", "quiescing"} THEN s
            ELSE IF ~s.initialized THEN early ELSE known
    BY <1>5, Zenon DEF handleChildFrame
  <2>2. Good(s, early, {}, W, G, A) /\ Good(s, known, {}, W, G, A)
    BY <1>5, ServingFrameGood
  <2>. HIDE DEF u, early, known
  <2>3. Good(s, u, {}, W, G, A)
    BY <2>1, <2>2, KeptItself
  <2>. QED  BY <2>3, LateWiden DEF u
<1>. QED  BY <1>1, <1>2, <1>3, <1>4, <1>5

\* The output of the engine has ended.
LEMMA ChildOutputGood ==
  ASSUME NEW s, NEW W, NEW G, NEW A, RunnerOk(s, W, G, A), ~s.terminal
  PROVE  Good(s, handleChildOutput(s), {}, W, G, A)
<1>. DEFINE t == [s EXCEPT !.drainT = FALSE, !.evOutput = FALSE]
            v == [t EXCEPT !.dormInvalid = @ \/ s.state = "awaiting_exit"]
            u == handleChildOutput(s)
<1>0. Shape(s)
  BY DEF RunnerOk
<1>1. u = maybeCompleteDormancy(t) \/ u = replaceCurrent(v)
  BY Zenon DEF handleChildOutput
<1>2. IsRunner(t) /\ Same(s, t, RunnerFields \ {"drainT", "evOutput"})
  BY <1>0 DEF Shape, IsRunner, RunnerFields, Same
<1>. HIDE DEF t, u
<1>3. Good(s, t, {}, W, G, A) /\ Stays(s, t)
  BY <1>2, MarkGood DEF Same
<1>4. Good(t, v, {}, W, G, A) /\ Stays(t, v)
  <2>0. Shape(t)
    BY <1>3 DEF Good, RunnerOk
  <2>1. IsRunner(v) /\ Same(t, v, RunnerFields \ {"dormInvalid"})
    BY <2>0 DEF Shape, IsRunner, RunnerFields, Same
  <2>. HIDE DEF v
  <2>2. Good(t, v, {}, W, G, A) /\ Stays(t, v)
    BY <1>3, <2>1, MarkGood DEF Same, Good
  <2>. QED  BY <2>2 DEF v
<1>. HIDE DEF v
<1>5. Good(s, v, {}, W, G, A) /\ ~t.terminal /\ ~v.terminal
  BY <1>0, <1>3, <1>4, GoodChain DEF Stays
<1>6. Good(t, maybeCompleteDormancy(t), {}, W, G, A)
  BY <1>3, <1>5, MaybeCompleteGood DEF Good
<1>7. Good(v, replaceCurrent(v), {}, W, G, A)
  BY <1>5, ReplaceGood DEF Good
<1>8. Good(s, maybeCompleteDormancy(t), {}, W, G, A) /\ Good(s, replaceCurrent(v), {}, W, G, A)
  BY <1>0, <1>3, <1>5, <1>6, <1>7, GoodChain
<1>. QED  BY <1>1, <1>8 DEF u

\* The engine has exited.
LEMMA ChildExitGood ==
  ASSUME NEW s, NEW W, NEW G, NEW A, RunnerOk(s, W, G, A), ~s.terminal
  PROVE  Good(s, handleChildExit(s), {}, W, G, A)
<1>. DEFINE t == [s EXCEPT !.evExit = FALSE]
            v == [t EXCEPT !.drainT = TRUE]
            u == handleChildExit(s)
<1>0. Shape(s)
  BY DEF RunnerOk
<1>1. u = maybeCompleteDormancy(t) \/ u = replaceCurrent(t) \/ u = v
  BY Zenon DEF handleChildExit
<1>2. IsRunner(t) /\ Same(s, t, RunnerFields \ {"evExit"})
  BY <1>0 DEF Shape, IsRunner, RunnerFields, Same
<1>. HIDE DEF t, u
<1>3. Good(s, t, {}, W, G, A) /\ Stays(s, t)
  BY <1>2, MarkGood DEF Same
<1>4. Good(t, v, {}, W, G, A)
  <2>0. Shape(t)
    BY <1>3 DEF Good, RunnerOk
  <2>1. IsRunner(v) /\ Same(t, v, RunnerFields \ {"drainT"})
    BY <2>0 DEF Shape, IsRunner, RunnerFields, Same
  <2>. HIDE DEF v
  <2>2. Good(t, v, {}, W, G, A)
    BY <1>3, <2>1, MarkGood DEF Same, Good
  <2>. QED  BY <2>2 DEF v
<1>. HIDE DEF v
<1>5. Good(t, maybeCompleteDormancy(t), {}, W, G, A) /\ Good(t, replaceCurrent(t), {}, W, G, A)
  BY <1>3, MaybeCompleteGood, ReplaceGood DEF Good, Stays
<1>6. Good(s, maybeCompleteDormancy(t), {}, W, G, A) /\ Good(s, replaceCurrent(t), {}, W, G, A)
      /\ Good(s, v, {}, W, G, A)
  BY <1>0, <1>3, <1>4, <1>5, GoodChain DEF Stays
<1>. QED  BY <1>1, <1>6 DEF u
-----------------------------------------------------------------------------
(* Start attempts *)

\* What a change of the engine or of the attempt leaves alone.
Based(s, b) ==
  /\ b.modern = s.modern /\ b.initReq = s.initReq /\ b.lease = s.lease
  /\ b.terminal = s.terminal /\ b.state = s.state /\ b.leaseT = s.leaseT
  /\ b.awaiting = s.awaiting /\ b.initialized = s.initialized
  /\ b.pending = s.pending /\ Open(b) = Open(s)
  /\ b.told = s.told /\ b.wrote = s.wrote /\ b.toHost = s.toHost /\ b.toChild = s.toChild

\* The start attempt has reported.
LEMMA ReportedOk ==
  ASSUME NEW s, NEW W, NEW G, NEW A, RunnerOk(s, W, G, A), NEW v \in Int
  PROVE  LET a == [s EXCEPT !.starting = FALSE, !.live = v]
         IN  /\ RunnerOk(a, W, G, A) /\ Based(s, a) /\ a.gen = s.gen /\ a.cur = s.cur
             /\ a.live = v /\ ~a.starting /\ a.exit = s.exit /\ a.fate = s.fate
             /\ a.host = s.host /\ a.child = s.child
<1>. DEFINE a == [s EXCEPT !.starting = FALSE, !.live = v]
<1>0. Shape(s)
  BY DEF RunnerOk
<1>1. /\ IsRunner(a) /\ Same(s, a, RunnerFields \ {"starting", "live"})
      /\ a.live = v /\ a.starting = FALSE
  BY <1>0 DEF Shape, IsRunner, RunnerFields, Same
<1>. HIDE DEF a
<1>2. /\ a.state = s.state /\ a.modern = s.modern /\ a.gen = s.gen /\ a.cur = s.cur
      /\ a.leaseT = s.leaseT /\ a.initReq = s.initReq
      /\ a.awaiting = s.awaiting /\ a.initialized = s.initialized /\ a.exit = s.exit
      /\ a.terminal = s.terminal /\ a.lease = s.lease
      /\ a.pending = s.pending /\ a.toHost = s.toHost /\ a.toChild = s.toChild
      /\ a.host = s.host /\ a.child = s.child /\ a.told = s.told /\ a.wrote = s.wrote
      /\ a.fate = s.fate
  BY <1>1 DEF Same, RunnerFields
<1>3. Shape(a) /\ Engine(a) /\ Registers(a)
  BY <1>0, <1>1, <1>2 DEF RunnerOk, Shape, Engine, Registers, Open
<1>4. QueuedIds(a) = QueuedIds(s) /\ Open(a) = Open(s)
  BY <1>2 DEF QueuedIds, Open
<1>5. ~s.terminal => Queue(a, W) /\ Lifecycle(a)
  BY <1>1, <1>2, <1>4 DEF RunnerOk, Queue, HostFrameOk, Lifecycle
<1>6. ~s.terminal => GotOk(a, W, G) /\ HoldersOk(a, A)
  BY <1>2, <1>4 DEF RunnerOk, GotOk, HoldersOk, Due
<1>7. RunnerOk(a, W, G, A) /\ Based(s, a)
  BY <1>2, <1>3, <1>4, <1>5, <1>6 DEF RunnerOk, Based
<1>. QED  BY <1>1, <1>2, <1>7 DEF a

\* A new engine: nothing is held and nothing is open.
LEMMA NewEngineOk ==
  ASSUME NEW s, NEW b, NEW W, NEW G, NEW A, RunnerOk(s, W, G, A), ~s.terminal, s.cur = 0,
         s.toChild = {}, s.state # "dormant",
         Shape(b), Based(s, b), b.gen = s.gen + 1, b.cur = s.gen + 1, ~b.starting,
         b.host.requests = s.host.requests, b.child.requests = s.child.requests,
         s.modern \/ b.child.retiredRequests = s.child.retiredRequests,
         DOMAIN b.child.retiredRequests \subseteq DOMAIN s.child.retiredRequests
  PROVE  RunnerOk(b, W, {}, A)
<1>1. Open(b) = {} /\ DOMAIN b.child.requests = {} /\ b.cur # 0
  BY DEF RunnerOk, Registers, Open, Shape
<1>2. Engine(b) /\ Registers(b)
  BY <1>1 DEF Engine, Registers
<1>3. Queue(b, W)
  BY <1>1 DEF RunnerOk, Queue, HostFrameOk, Based
<1>4. Lifecycle(b)
  BY DEF RunnerOk, Lifecycle, Based
<1>5. GotOk(b, W, {})
  BY DEF GotOk, Based
<1>6. HoldersOk(b, A)
  <2>1. ASSUME NEW x, Due(s, x), ~s.modern
        PROVE  Due(b, x)
    BY <2>1 DEF Due, RunnerOk, Registers
  <2>2. HoldersOk(s, A) /\ b.toHost = s.toHost /\ b.pending = s.pending /\ b.modern = s.modern
    BY DEF RunnerOk, Based
  <2>3. \A x \in A \cup b.toHost : Due(b, x) /\ ~b.modern
    BY <2>1, <2>2 DEF HoldersOk
  <2>4. \A j \in DOMAIN b.pending : b.pending[j].f.k = "response" => Due(b, b.pending[j].f) /\ ~b.modern
    BY <2>1, <2>2 DEF HoldersOk
  <2>. QED  BY <2>2, <2>3, <2>4 DEF HoldersOk
<1>. QED  BY <1>2, <1>3, <1>4, <1>5, <1>6 DEF RunnerOk

\* The runner with a new engine, its registries as they were or cleared.
LEMMA UpFacts ==
  ASSUME NEW s, Shape(s), NEW b, NEW g, NEW h, IsRegistry(g), IsRegistry(h),
         IsRunner(b), Same(s, b, RunnerFields \ {"starting", "gen", "cur", "dormInvalid", "host", "child"}),
         b.starting = FALSE, b.gen = s.gen + 1, b.cur = s.gen + 1, b.host = g, b.child = h,
         g.requests = s.host.requests
  PROVE  Shape(b) /\ Based(s, b) /\ b.live = s.live /\ b.exit = s.exit
<1>1. /\ b.state = s.state /\ b.modern = s.modern /\ b.live = s.live
      /\ b.leaseT = s.leaseT /\ b.initReq = s.initReq
      /\ b.awaiting = s.awaiting /\ b.initialized = s.initialized /\ b.exit = s.exit
      /\ b.terminal = s.terminal /\ b.lease = s.lease
      /\ b.pending = s.pending /\ b.toHost = s.toHost /\ b.toChild = s.toChild
      /\ b.told = s.told /\ b.wrote = s.wrote /\ b.fate = s.fate
  BY DEF Same, RunnerFields
<1>2. Shape(b)
  BY <1>1 DEF Shape
<1>3. Open(b) = Open(s)
  BY DEF Open
<1>. QED  BY <1>1, <1>2, <1>3 DEF Based

\* A new engine takes over: b is the runner that has it.
Takeover(s, b) ==
  /\ Based(s, b) /\ b.gen = s.gen + 1 /\ b.cur = s.gen + 1 /\ b.live = s.live /\ b.exit = s.exit

\* A start that succeeded makes its engine the current one.
LEMMA StartOkGood ==
  ASSUME NEW s, NEW W, NEW G, NEW A, RunnerOk(s, W, G, A), ~s.terminal, s.starting, s.toChild = {}
  PROVE  \E b : /\ RunnerOk(b, W, {}, A) /\ Takeover(s, b)
                /\ Good(b, handleStartAttempt(s, "ok"), {}, W, {}, A)
<1>. DEFINE u == handleStartAttempt(s, "ok")
            a == [s EXCEPT !.starting = FALSE]
            up == [a EXCEPT !.gen = @ + 1, !.cur = s.gen + 1, !.dormInvalid = FALSE]
            g == clearRetiredCorrelations(clearTransitionTombstones(up.host))
            h == clearRetiredCorrelations(clearTransitionTombstones(up.child))
            fresh == [up EXCEPT !.host = g, !.child = h]
<1>0. Shape(s) /\ IsRegistry(s.host) /\ IsRegistry(s.child) /\ s.gen \in Nat
      /\ s.cur = 0 /\ s.state # "dormant"
  BY DEF RunnerOk, Shape, Engine, Lifecycle
<1>1. u = IF ~s.modern /\ s.initReq THEN beginReplay(up)
          ELSE flushPending(setState(IF s.modern THEN fresh ELSE up, "active"))
  <2>1. "ok" # "unproven" /\ "ok" # "failed" /\ "ok" # "retained"
    OBVIOUS
  <2>. QED  BY <2>1, Zenon DEF handleStartAttempt
<1>2. /\ IsRunner(up)
      /\ Same(s, up, RunnerFields \ {"starting", "gen", "cur", "dormInvalid", "host", "child"})
      /\ up.host = s.host /\ up.child = s.child
      /\ up.starting = FALSE /\ up.gen = s.gen + 1 /\ up.cur = s.gen + 1
  BY <1>0, ZenonT(40) DEF Shape, IsRunner, RunnerFields, Same
<1>. HIDE DEF up, u
<1>3. RunnerOk(up, W, {}, A) /\ Takeover(s, up)
  <2>1. Shape(up) /\ Based(s, up) /\ up.live = s.live /\ up.exit = s.exit
    BY <1>0, <1>2, UpFacts
  <2>2. RunnerOk(up, W, {}, A)
    BY <1>0, <1>2, <2>1, NewEngineOk
  <2>. QED  BY <1>2, <2>1, <2>2 DEF Takeover
<1>4. (RunnerOk(fresh, W, {}, A) /\ Takeover(s, fresh)) \/ ~s.modern
  <2>1. /\ IsRegistry(g) /\ g.requests = s.host.requests
        /\ IsRegistry(h) /\ h.requests = s.child.requests
        /\ DOMAIN h.retiredRequests = {}
    <3>1. /\ IsRegistry(clearTransitionTombstones(s.host))
          /\ clearTransitionTombstones(s.host).requests = s.host.requests
          /\ IsRegistry(clearTransitionTombstones(s.child))
          /\ clearTransitionTombstones(s.child).requests = s.child.requests
      BY <1>0, ClearFacts DEF KeepsRequests
    <3>. QED  BY <1>2, <3>1, ClearFacts
  <2>. HIDE DEF g, h
  <2>2. /\ IsRunner(fresh)
        /\ Same(s, fresh, RunnerFields \ {"starting", "gen", "cur", "dormInvalid", "host", "child"})
        /\ fresh.host = g /\ fresh.child = h
        /\ fresh.starting = FALSE /\ fresh.gen = s.gen + 1 /\ fresh.cur = s.gen + 1
    BY <1>2 DEF IsRunner, RunnerFields, Same
  <2>. HIDE DEF fresh
  <2>3. Shape(fresh) /\ Based(s, fresh) /\ fresh.live = s.live /\ fresh.exit = s.exit
    BY <1>0, <2>1, <2>2, UpFacts
  <2>4. s.modern => RunnerOk(fresh, W, {}, A)
    BY <1>0, <2>1, <2>2, <2>3, NewEngineOk
  <2>. QED  BY <2>2, <2>3, <2>4 DEF Takeover
<1>. HIDE DEF fresh
<1>5. CASE ~s.modern /\ s.initReq
  <2>1. u = beginReplay(up)
    BY <1>1, <1>5
  <2>2. ~up.terminal /\ up.cur # 0 /\ up.initReq
    BY <1>0, <1>2, <1>3, <1>5 DEF Takeover, Based
  <2>3. Good(up, u, {}, W, {}, A)
    BY <1>3, <2>1, <2>2, BeginReplayGood
  <2>. QED  BY <1>3, <2>3 DEF u
<1>6. CASE ~(~s.modern /\ s.initReq)
  <2>. DEFINE b == IF s.modern THEN fresh ELSE up
              c == setState(b, "active")
  <2>1. u = flushPending(c)
    BY <1>1, <1>6
  <2>2. RunnerOk(b, W, {}, A) /\ Takeover(s, b)
    BY <1>3, <1>4
  <2>. HIDE DEF b
  <2>3. Shape(b) /\ ~b.terminal /\ b.cur # 0 /\ NoInit(b, {})
    BY <1>0, <2>2 DEF RunnerOk, Takeover, Based, NoInit
  <2>4. IsRunner(c) /\ Same(b, c, RunnerFields \ ({"state"} \cup Marks)) /\ c.state = "active"
    BY <2>3 DEF Shape, IsRunner, RunnerFields, Same, Marks, setState
  <2>. HIDE DEF c
  <2>5. c.state \in States
    BY <2>4 DEF States
  <2>6. Good(b, c, {}, W, {}, A) /\ ~c.terminal
    BY <2>2, <2>3, <2>4, <2>5, MoveGood
  <2>7. Good(c, u, {}, W, {}, A)
    BY <2>1, <2>6, FlushGood DEF Good
  <2>8. Good(b, u, {}, W, {}, A)
    BY <2>3, <2>6, <2>7, GoodChain
  <2>. QED  BY <2>2, <2>8 DEF u
<1>. QED  BY <1>5, <1>6

\* The attempt has failed, or what it started is stopped again.
LEMMA StartFailGood ==
  ASSUME NEW s, NEW W, NEW G, NEW A, RunnerOk(s, W, G, A), ~s.terminal, s.starting,
         NEW o \in Outcome, o # "ok"
  PROVE  \E b : /\ RunnerOk(b, W, G, A) /\ Based(s, b) /\ b.gen = s.gen /\ b.cur = s.cur
                /\ b.exit = s.exit
                /\ b.live <= s.live
                /\ Good(b, handleStartAttempt(s, o), {}, W, G, A)
                /\ \/ handleStartAttempt(s, o).terminal
                   \/ o = "failed" /\ b.live = s.live
                   \/ o = "retained" /\ b.live = s.live - 1
<1>. DEFINE u == handleStartAttempt(s, o)
            a == [s EXCEPT !.starting = FALSE]
            clean == cleanupInvalidStart(a)
            c == [a EXCEPT !.live = @ - 1]
<1>0. Shape(s) /\ s.live \in Int /\ s.cur = 0
  BY DEF RunnerOk, Shape, Engine
<1>1. a = [s EXCEPT !.starting = FALSE, !.live = s.live] /\ a.live = s.live
  BY <1>0 DEF Shape, IsRunner, RunnerFields
<1>2. c = [s EXCEPT !.starting = FALSE, !.live = s.live - 1]
  BY <1>0, <1>1 DEF Shape, IsRunner, RunnerFields
<1>. DEFINE From(v) == [s EXCEPT !.starting = FALSE, !.live = v]
<1>2a. ASSUME NEW v \in Int
      PROVE  /\ RunnerOk(From(v), W, G, A) /\ Based(s, From(v)) /\ From(v).gen = s.gen
             /\ From(v).cur = s.cur /\ From(v).exit = s.exit /\ From(v).live = v
  BY ReportedOk, ZenonT(40)
<1>2b. a = From(s.live) /\ c = From(s.live - 1) /\ s.live - 1 \in Int
  BY <1>0, <1>1, <1>2
<1>. HIDE DEF From
<1>3. /\ RunnerOk(a, W, G, A) /\ Based(s, a) /\ a.gen = s.gen /\ a.cur = s.cur
      /\ a.exit = s.exit /\ a.live = s.live
  <2>. HIDE DEF a, c
  <2>. QED  BY <1>0, <1>2a, <1>2b
<1>4. /\ RunnerOk(c, W, G, A) /\ Based(s, c) /\ c.gen = s.gen /\ c.cur = s.cur
      /\ c.exit = s.exit /\ c.live = s.live - 1
  <2>. HIDE DEF a, c
  <2>. QED  BY <1>0, <1>2a, <1>2b
<1>5. clean = terminate(a) \/ clean = c
  BY DEF cleanupInvalidStart
<1>6. Good(a, terminate(a), {}, W, G, A) /\ terminate(a).terminal
  BY <1>3, TerminateGood
<1>7. ~c.terminal
  BY <1>4 DEF Based
<1>8. CASE o = "unproven"
  <2>1. u = terminate(a)
    BY <1>8, Zenon DEF handleStartAttempt
  <2>2. a.live <= s.live
    BY <1>0, <1>3
  <2>. HIDE DEF a, u
  <2>3. u.terminal /\ Good(a, u, {}, W, G, A)
    BY <1>6, <2>1
  <2>. QED  BY <1>3, <2>2, <2>3 DEF u
<1>9. CASE o = "failed"
  <2>0. o # "unproven"
    BY <1>9
  <2>1. u = scheduleRetry(a)
    BY <1>9, <2>0, Zenon DEF handleStartAttempt
  <2>. HIDE DEF a, u
  <2>2. Good(a, u, {}, W, G, A)
    BY <1>3, <2>1, ScheduleRetryGood
  <2>3. a.live <= s.live
    BY <1>0, <1>3
  <2>. QED  BY <1>3, <1>9, <2>2, <2>3 DEF u
<1>10. CASE o = "retained"
  <2>0. o # "unproven" /\ o # "failed"
    BY <1>10
  <2>1. u = IF clean.terminal THEN clean ELSE scheduleRetry(clean)
    <3>. HIDE DEF clean
    <3>. QED  BY <1>10, <2>0, Zenon DEF handleStartAttempt, clean
  <2>. HIDE DEF a, c, clean, u
  <2>2. CASE clean = terminate(a)
    <3>1. u = terminate(a)
      BY <1>6, <2>1, <2>2
    <3>2. a.live <= s.live
      BY <1>0, <1>3
    <3>3. u.terminal /\ Good(a, u, {}, W, G, A)
      BY <1>6, <3>1
    <3>. QED  BY <1>3, <3>2, <3>3 DEF u
  <2>3. CASE clean = c
    <3>1. u = scheduleRetry(c)
      BY <1>7, <2>1, <2>3
    <3>2. Good(c, u, {}, W, G, A)
      BY <1>4, <3>1, ScheduleRetryGood
    <3>3. c.live <= s.live
      BY <1>0, <1>4
    <3>. QED  BY <1>4, <1>10, <3>2, <3>3 DEF u
  <2>. QED  BY <1>5, <2>2, <2>3
<1>. QED  BY <1>8, <1>9, <1>10 DEF Outcome
-----------------------------------------------------------------------------
(* From an operator on the runner to a step of the specification *)

Reset(u) == [u EXCEPT !.told = Nothing, !.wrote = Nothing, !.toHost = {},
                      !.toChild = {}, !.out = "none", !.fate = Calm]

Emptied(t) == t.told = Nothing /\ t.wrote = Nothing /\ t.toHost = {} /\ t.toChild = {}

\* No identifier is counted at first.
LEMMA NothingType ==
  Nothing \in [Ids -> Nat] /\ Calm \in Fate /\ \A i \in Ids : Nothing[i] = 0
BY SupervisorAssumption DEF Nothing, Calm, Fate

\* What was written has reached the peers.
LEMMA ResetOk ==
  ASSUME NEW u, NEW W, NEW G, NEW A, NEW F, NEW B, RunnerOk(u, W, G, A),
         u.cur # 0 => F \subseteq G \cup u.toChild,
         B \subseteq A \cup u.toHost
  PROVE  LET t == Reset(u)
         IN  /\ RunnerOk(t, W, F, B) /\ Stays(u, t) /\ t.pending = u.pending
             /\ t.host = u.host /\ t.child = u.child /\ Emptied(t)
<1>. DEFINE t == Reset(u)
<1>0. Shape(u)
  BY DEF RunnerOk
<1>1. /\ IsRunner(t) /\ Same(u, t, RunnerFields \ {"told", "wrote", "toHost", "toChild", "out", "fate"})
      /\ t.told = Nothing /\ t.wrote = Nothing /\ t.toHost = {} /\ t.toChild = {} /\ t.fate = Calm
  BY <1>0, ZenonT(40) DEF Shape, IsRunner, RunnerFields, Same, Reset
<1>. HIDE DEF t
<1>2. Stays(u, t) /\ t.pending = u.pending /\ t.host = u.host /\ t.child = u.child
  BY <1>1 DEF Same, RunnerFields, Stays
<1>3. Shape(t)
  BY <1>0, <1>1, <1>2, NothingType DEF Shape, Stays
<1>4. Engine(t) /\ Registers(t)
  BY <1>2 DEF RunnerOk, Engine, Registers, Open, Stays
<1>5. QueuedIds(t) = QueuedIds(u) /\ Open(t) = Open(u)
  BY <1>2 DEF QueuedIds, Open
<1>6. ~u.terminal => Queue(t, W) /\ Lifecycle(t)
  BY <1>2, <1>5 DEF RunnerOk, Queue, HostFrameOk, Lifecycle, Stays
<1>7. ~u.terminal => GotOk(t, W, F)
  <2>1. SUFFICES ASSUME ~u.terminal, t.cur # 0 PROVE GotOk(t, W, F)
    BY DEF GotOk
  <2>2. F \cup t.toChild \subseteq G \cup u.toChild /\ GotOk(u, W, G) /\ u.cur # 0
    BY <1>1, <1>2, <2>1 DEF RunnerOk, Stays
  <2>. QED  BY <1>2, <1>5, <2>2 DEF GotOk, Stays
<1>8. ~u.terminal => HoldersOk(t, B)
  <2>1. SUFFICES ASSUME ~u.terminal PROVE HoldersOk(t, B)
    OBVIOUS
  <2>2. B \cup t.toHost \subseteq A \cup u.toHost /\ HoldersOk(u, A)
    BY <1>1, <2>1 DEF RunnerOk
  <2>. QED  BY <1>2, <2>2 DEF HoldersOk, Due, Stays
<1>9. RunnerOk(t, W, F, B)
  BY <1>2, <1>3, <1>4, <1>6, <1>7, <1>8 DEF RunnerOk, Stays
<1>. QED  BY <1>1, <1>2, <1>9 DEF Emptied, t

\* The runner with which the handling of an event begins.
Start(b) ==
  /\ b.modern = r.modern /\ b.initReq = r.initReq /\ b.awaiting = r.awaiting
  /\ b.pending = r.pending /\ Open(b) = Open(r) /\ Emptied(b) /\ b.live <= 1 /\ Shape(b)

\* The frame of the host is handled, or it keeps waiting.
Hands(b, u, H, A) ==
  \/ hostIn' = NoFrame /\ H = HandIds(hostIn) /\ A = asks
  \/ /\ hostIn' = hostIn /\ H \subseteq withdrawn /\ A = HostSide /\ Writes(b, u, {})
     /\ u.terminal \/ OnBooks(u) \subseteq OnBooks(b)

Accounts(u, after) ==
  u.terminal \/ /\ after.attempt # "none" => u.starting
                /\ Spare(u) = IF after.attempt \in {"ok", "retained", "unproven"} THEN 1 ELSE 0
                /\ u.state = "dormant" => u.leaseT \/ hostIn' # NoFrame

\* An event is handled, from the runner b to u, with the requests H in hand.
EventStep(b, u, H, G, A, after) ==
  /\ SupInv /\ Live
  /\ Start(b) /\ Good(b, u, H, withdrawn, G, A)
  /\ Handled(u, after)
  /\ \/ b.gen = r.gen /\ b.cur = r.cur /\ got \ after.taken \subseteq G
     \/ b.gen = r.gen + 1 /\ b.cur = b.gen
  /\ Hands(b, u, H, A)
  /\ Accounts(u, after)
  /\ after.attempt \in {"none", "running"} \cup Outcome /\ TasksOk(after.tasks)
  /\ u.lease => u.terminal /\ (hostIn' = NoFrame \/ hostIn'.late)
  /\ UNCHANGED <<sends, withdrawn, hostTasks>>

\* The books are the frame in hand, the queue and the open correlations.
LEMMA BooksSplit ==
  Books = HandIds(hostIn) \cup OnBooks(r)
BY DEF Books, HandIds, OnBooks, QueuedIds, Open

\* No frame is a frame of no request.
LEMMA NoFrameType ==
  NoFrame \in FrameSet /\ NoFrame.k = "none" /\ HandIds(NoFrame) = {} /\ NoFrame.method = "plain"
<1>1. "none" \in Kinds /\ InitId \in Ids \cup ChildReq
  BY DEF Kinds, Ids
<1>2. NoFrame \in FrameSet /\ NoFrame.k = "none" /\ NoFrame.method = "plain"
  BY <1>1, FrameFacts, Zenon DEF NoFrame
<1>. HIDE DEF NoFrame
<1>. QED  BY <1>2 DEF HandIds

\* The requests on the books, and the one in hand.
LEMMA BooksFacts ==
  ASSUME SupInv, Live
  PROVE  /\ OnBooks(r) \subseteq Ids /\ HandIds(hostIn) \subseteq Ids
         /\ QueuedIds(r) \subseteq OnBooks(r)
         /\ HandIds(hostIn) \cap OnBooks(r) = {} /\ HandIds(hostIn) \cap withdrawn = {}
         /\ withdrawn \subseteq HostReq
<1>1. RunnerOk(r, withdrawn, got, HostSide) /\ ~r.terminal /\ HandOk /\ withdrawn \subseteq HostReq
  BY DEF SupInv, Live, Environment
<1>2. QueuedIds(r) \subseteq HostReq /\ Open(r) \subseteq HostReq
  BY <1>1 DEF RunnerOk, Queue, Registers, HostFrameOk, QueuedIds
<1>3. OnBooks(r) \subseteq Ids /\ QueuedIds(r) \subseteq OnBooks(r)
  BY <1>2 DEF OnBooks, Ids
<1>4. HandIds(hostIn) \subseteq Ids
  BY <1>1 DEF HandOk, HostFrameOk, HandIds, Ids
<1>5. hostIn.k = "initialize" => hostIn.id = InitId /\ InitId \notin OnBooks(r)
  BY <1>1, <1>2, SupervisorAssumption DEF HandOk, OnBooks, RunnerOk, Lifecycle
<1>6. HandIds(hostIn) \cap OnBooks(r) = {} /\ HandIds(hostIn) \cap withdrawn = {}
  BY <1>1, <1>5, SupervisorAssumption DEF HandOk, HandIds
<1>. QED  BY <1>1, <1>3, <1>4, <1>6

\* The parts of the runner after the event.
LEMMA EventRunner ==
  ASSUME NEW b, NEW u, NEW H, NEW G, NEW A, NEW after, EventStep(b, u, H, G, A, after)
  PROVE  /\ r' = Reset(u) /\ RunnerOk(r', withdrawn', got', HostSide')
         /\ Stays(u, r') /\ r'.pending = u.pending /\ r'.host = u.host /\ Emptied(r')
         /\ OnBooks(r') = OnBooks(u) /\ QueuedIds(r') = QueuedIds(u)
         /\ RunnerOk(u, withdrawn, G, A) /\ Kept(b, u, H, withdrawn)
<1>0. RunnerOk(u, withdrawn, G, A) /\ Kept(b, u, H, withdrawn) /\ withdrawn' = withdrawn
  BY DEF EventStep, Good
<1>1. r' = Reset(u)
  BY DEF EventStep, Handled, Reset
<1>2. u.cur # 0 => got' \subseteq G \cup u.toChild
  <2>1. SUFFICES ASSUME u.cur # 0 PROVE got' \subseteq G \cup u.toChild
    OBVIOUS
  <2>2. u.gen = b.gen /\ u.cur = b.cur /\ b.cur \in {0, b.gen}
    BY <1>0, <2>1 DEF Kept, Engines, EventStep, Start, Shape
  <2>3. CASE b.gen = r.gen /\ b.cur = r.cur /\ got \ after.taken \subseteq G
    BY <2>1, <2>2, <2>3 DEF EventStep, Handled
  <2>4. CASE b.gen = r.gen + 1 /\ b.cur = b.gen
    <3>1. r.gen \in Nat
      BY DEF EventStep, SupInv, Shape
    <3>2. ~(u.cur = r.cur /\ u.gen = r.gen)
      BY <2>2, <2>4, <3>1
    <3>. QED  BY <2>1, <3>2 DEF EventStep, Handled
  <2>. QED  BY <2>3, <2>4 DEF EventStep
<1>3. HostSide' \subseteq A \cup u.toHost
  <2>1. asks' = asks \cup u.toHost
    BY DEF EventStep, Handled
  <2>2. CASE hostIn' = NoFrame /\ A = asks
    BY <2>1, <2>2, NoFrameType DEF HostSide
  <2>3. CASE hostIn' = hostIn /\ A = HostSide
    BY <2>1, <2>3 DEF HostSide
  <2>. QED  BY <2>2, <2>3 DEF EventStep, Hands
<1>4. /\ RunnerOk(r', withdrawn', got', HostSide') /\ Stays(u, r') /\ r'.pending = u.pending
      /\ r'.host = u.host /\ Emptied(r')
  BY <1>0, <1>1, <1>2, <1>3, ResetOk
<1>5. OnBooks(r') = OnBooks(u) /\ QueuedIds(r') = QueuedIds(u)
  BY <1>4 DEF OnBooks, QueuedIds, Open, Stays
<1>. QED  BY <1>0, <1>1, <1>4, <1>5

\* How often an identifier was answered and written in one event.
LEMMA EventCounts ==
  ASSUME NEW b, NEW u, NEW H, NEW G, NEW A, NEW after, EventStep(b, u, H, G, A, after)
  PROVE  /\ \A i \in Ids : /\ answers[i] \in Nat /\ carried[i] \in Nat
                           /\ answers'[i] = answers[i] + u.told[i]
                           /\ carried'[i] = carried[i] + u.wrote[i]
                           /\ u.told[i] = 0 \/ (u.told[i] = 1 /\ i \in OnBooks(r) \cup H)
                           /\ u.wrote[i] = 0 \/ (u.wrote[i] = 1 /\ i \in QueuedIds(r) \cup H)
         /\ ~u.terminal =>
              /\ \A i \in OnBooks(u) : i \in OnBooks(r) \cup H /\ (i \in Ids => u.told[i] = 0)
              /\ \A i \in Ids \cap (OnBooks(r) \cup H) :
                   i \notin OnBooks(u) => u.told[i] = 1 \/ i \in withdrawn
              /\ \A i \in QueuedIds(u) : i \in QueuedIds(r) \cup H /\ (i \in Ids => u.wrote[i] = 0)
         /\ answers' \in [Ids -> Nat] /\ carried' \in [Ids -> Nat]
         /\ OnBooks(b) = OnBooks(r)
<1>1. b.told = Nothing /\ b.wrote = Nothing /\ OnBooks(b) = OnBooks(r) /\ QueuedIds(b) = QueuedIds(r)
  BY DEF EventStep, Start, Emptied, OnBooks, QueuedIds
<1>2. \A i \in Ids : b.told[i] = 0 /\ b.wrote[i] = 0
  BY <1>1, NothingType
<1>3. /\ answers \in [Ids -> Nat] /\ carried \in [Ids -> Nat]
      /\ u.told \in [Ids -> Nat] /\ u.wrote \in [Ids -> Nat]
  BY EventRunner DEF EventStep, SupInv, Environment, RunnerOk, Shape
<1>4. /\ answers' = [i \in Ids |-> answers[i] + u.told[i]]
      /\ carried' = [i \in Ids |-> carried[i] + u.wrote[i]]
  BY DEF EventStep, Handled
<1>5. Answers(b, u, H, withdrawn) /\ Writes(b, u, H)
  BY EventRunner DEF Kept
<1>6. \A i \in Ids : /\ answers[i] \in Nat /\ carried[i] \in Nat
                     /\ answers'[i] = answers[i] + u.told[i]
                     /\ carried'[i] = carried[i] + u.wrote[i]
  BY <1>3, <1>4
<1>7. \A i \in Ids : /\ u.told[i] = 0 \/ (u.told[i] = 1 /\ i \in OnBooks(r) \cup H)
                     /\ u.wrote[i] = 0 \/ (u.wrote[i] = 1 /\ i \in QueuedIds(r) \cup H)
  BY <1>1, <1>2, <1>5 DEF Answers, Writes
<1>8. ~u.terminal =>
              /\ \A i \in OnBooks(u) : i \in OnBooks(r) \cup H /\ (i \in Ids => u.told[i] = 0)
              /\ \A i \in Ids \cap (OnBooks(r) \cup H) :
                   i \notin OnBooks(u) => u.told[i] = 1 \/ i \in withdrawn
              /\ \A i \in QueuedIds(u) : i \in QueuedIds(r) \cup H /\ (i \in Ids => u.wrote[i] = 0)
  BY <1>1, <1>2, <1>5 DEF Answers, Writes
<1>9. answers' \in [Ids -> Nat] /\ carried' \in [Ids -> Nat]
  BY <1>3, <1>4
<1>. QED  BY <1>1, <1>6, <1>7, <1>8, <1>9

\* What an event leaves of the invariant to a session that goes on.
LEMMA EventLive ==
  ASSUME NEW b, NEW u, NEW H, NEW G, NEW A, NEW after, EventStep(b, u, H, G, A, after), ~u.terminal
  PROVE  /\ HandOk'
         /\ Balance'
         /\ r'.initReq => sends'[InitId] > 0
         /\ \A i \in OnBooks(r') \cup HandIds(hostIn') : sends'[i] > answers'[i] \/ i \in withdrawn'
         /\ \A i \in QueuedIds(r') : carried'[i] = 0
         /\ r'.state = "dormant" => r'.leaseT \/ hostIn' # NoFrame
<1>0. /\ SupInv /\ Live /\ withdrawn' = withdrawn /\ sends' = sends /\ Hands(b, u, H, A)
      /\ HandOk /\ sends \in [Ids -> Nat]
      /\ \A i \in OnBooks(r) \cup HandIds(hostIn) : sends[i] > answers[i] \/ i \in withdrawn
      /\ \A i \in QueuedIds(r) : carried[i] = 0
  BY DEF EventStep, SupInv, Environment
<1>1. /\ Stays(u, r') /\ OnBooks(r') = OnBooks(u) /\ QueuedIds(r') = QueuedIds(u)
      /\ Kept(b, u, H, withdrawn) /\ RunnerOk(u, withdrawn, G, A)
  BY EventRunner
<1>2. /\ OnBooks(r) \subseteq Ids /\ HandIds(hostIn) \subseteq Ids
      /\ HandIds(hostIn) \cap OnBooks(r) = {} /\ HandIds(hostIn) \cap withdrawn = {}
      /\ withdrawn \subseteq HostReq /\ QueuedIds(r) \subseteq OnBooks(r)
  BY <1>0, BooksFacts
<1>3. r'.modern = r.modern
  BY <1>1 DEF EventStep, Start, Kept, Engines, Stays
<1>4. H \subseteq Ids /\ (hostIn' = hostIn => H \subseteq withdrawn)
  <2>1. CASE hostIn' = NoFrame /\ H = HandIds(hostIn)
    BY <1>2, <2>1, NoFrameType
  <2>2. CASE H \subseteq withdrawn
    BY <1>2, <2>2 DEF Ids
  <2>. QED  BY <1>0, <2>1, <2>2 DEF Hands
<1>5. HandOk'
  <2>1. CASE hostIn' = NoFrame
    <3>1. /\ hostIn'.k = "none" /\ hostIn'.method = "plain"
      BY <2>1, NoFrameType
    <3>. QED  BY <3>1 DEF HandOk, HostFrameOk
  <2>2. CASE hostIn' = hostIn /\ H \subseteq withdrawn /\ A = HostSide
    <3>1. HostFrameOk(r', hostIn', withdrawn')
      BY <1>0, <1>3, <2>2 DEF HandOk, HostFrameOk
    <3>2. ASSUME hostIn.k = "request"
          PROVE  hostIn.id \notin OnBooks(r') \cup withdrawn /\ carried'[hostIn.id] = 0
      <4>1. hostIn.id \notin OnBooks(r) \cup withdrawn /\ carried[hostIn.id] = 0 /\ hostIn.id \in Ids
        BY <1>0, <1>2, <3>2 DEF HandOk, HandIds
      <4>2. hostIn.id \notin H /\ hostIn.id \notin QueuedIds(r)
        BY <1>2, <2>2, <4>1
      <4>. QED  BY <1>1, <4>1, <4>2, EventCounts
    <3>3. ASSUME hostIn.k = "initialize"
          PROVE  hostIn.id = InitId /\ ~r'.initReq
      <4>1. InitId \notin H
        BY <1>2, <2>2, SupervisorAssumption
      <4>2. hostIn.id = InitId /\ ~b.initReq
        BY <1>0, <3>3 DEF HandOk, EventStep, Start
      <4>. QED  BY <1>1, <4>1, <4>2 DEF Kept, Stays
    <3>4. ASSUME hostIn.k = "response", NEW a \in asks'
          PROVE  a.id # hostIn.id
      <4>1. hostIn \in A \cup u.toHost /\ a \in A \cup u.toHost
        BY <2>2, <3>4 DEF HostSide, EventStep, Handled
      <4>2. a.k = "ask"
        BY <1>1, <3>4 DEF EventStep, Handled, SupInv, Environment, AskFrames, RunnerOk, Shape
      <4>3. HoldersOk(u, A)
        BY <1>1 DEF RunnerOk
      <4>. QED  BY <3>4, <4>1, <4>2, <4>3 DEF HoldersOk
    <3>. QED  BY <1>0, <2>2, <3>1, <3>2, <3>3, <3>4 DEF HandOk
  <2>. QED  BY <1>0, <2>1, <2>2 DEF Hands
<1>6. Balance'
  <2>1. /\ after.attempt # "none" => u.starting
        /\ Spare(u) = IF after.attempt \in {"ok", "retained", "unproven"} THEN 1 ELSE 0
        /\ attempt' = IF u.starting /\ after.attempt = "none" THEN "running" ELSE after.attempt
    BY DEF EventStep, Accounts, Handled
  <2>2. Spare(r') = Spare(u) /\ r'.starting = u.starting
    BY <1>1 DEF Spare, Stays
  <2>. QED  BY <2>1, <2>2 DEF Balance
<1>7. r'.initReq => sends'[InitId] > 0
  <2>1. SUFFICES ASSUME r'.initReq PROVE sends[InitId] > 0
    BY <1>0
  <2>2. CASE r.initReq
    BY <1>0, <2>2 DEF SupInv
  <2>3. CASE ~r.initReq
    <3>1. InitId \in H
      BY <1>1, <2>1, <2>3 DEF Kept, Stays, EventStep, Start
    <3>2. InitId \notin withdrawn
      BY <1>2, SupervisorAssumption
    <3>3. InitId \in HandIds(hostIn)
      BY <1>0, <3>1, <3>2 DEF Hands
    <3>4. sends[InitId] > answers[InitId] /\ answers[InitId] \in Nat /\ sends[InitId] \in Nat
      BY <1>0, <1>2, <3>2, <3>3, EventCounts
    <3>. QED  BY <3>4
  <2>. QED  BY <2>2, <2>3
<1>8. ASSUME NEW i \in OnBooks(r') \cup HandIds(hostIn')
      PROVE  sends'[i] > answers'[i] \/ i \in withdrawn'
  <2>1. CASE i \in OnBooks(r')
    <3>1. i \in OnBooks(r) \cup H /\ i \in Ids /\ u.told[i] = 0
      BY <1>1, <1>2, <1>4, <2>1, EventCounts
    <3>2. answers'[i] = answers[i] + u.told[i] /\ answers[i] \in Nat
      BY <3>1, EventCounts
    <3>3. answers'[i] = answers[i]
      BY <3>1, <3>2
    <3>4. i \in OnBooks(r) \cup HandIds(hostIn) \/ i \in withdrawn
      BY <1>0, <3>1 DEF Hands
    <3>. QED  BY <1>0, <3>3, <3>4
  <2>2. CASE i \in HandIds(hostIn')
    <3>1. hostIn' = hostIn
      BY <1>0, <2>2, NoFrameType DEF Hands
    <3>2. i \in HandIds(hostIn) /\ i \in Ids /\ i \notin OnBooks(r) \cup H
      BY <1>2, <1>4, <2>2, <3>1
    <3>3. u.told[i] = 0 /\ answers'[i] = answers[i] + u.told[i] /\ answers[i] \in Nat
      BY <3>2, EventCounts
    <3>4. answers'[i] = answers[i]
      BY <3>3
    <3>. QED  BY <1>0, <3>2, <3>4
  <2>. QED  BY <2>1, <2>2
<1>9. ASSUME NEW i \in QueuedIds(r')
      PROVE  carried'[i] = 0
  <2>1. i \in QueuedIds(u) /\ i \in QueuedIds(r) \cup H
    BY <1>1, EventCounts
  <2>2. i \in Ids /\ u.wrote[i] = 0
    BY <1>2, <1>4, <2>1, EventCounts
  <2>3. carried[i] = 0
    <3>1. CASE i \in QueuedIds(r)
      BY <1>0, <3>1
    <3>2. CASE i \in H /\ i \notin QueuedIds(r)
      <4>3. CASE H = HandIds(hostIn)
        <5>1. CASE hostIn.k = "request"
          BY <1>0, <3>2, <4>3, <5>1 DEF HandIds, HandOk
        <5>2. CASE hostIn.k = "initialize"
          <6>1. i = InitId
            BY <1>0, <3>2, <4>3, <5>2 DEF HandIds, HandOk
          <6>2. QueuedIds(u) \subseteq HostReq
            BY <1>1 DEF RunnerOk, Queue, HostFrameOk, QueuedIds
          <6>. QED  BY <2>1, <6>1, <6>2, SupervisorAssumption
        <5>3. CASE hostIn.k \notin {"request", "initialize"}
          BY <3>2, <4>3, <5>3 DEF HandIds
        <5>. QED  BY <5>1, <5>2, <5>3
      <4>4. CASE Writes(b, u, {})
        <5>1. QueuedIds(b) = QueuedIds(r)
          BY DEF EventStep, Start, QueuedIds
        <5>. QED  BY <2>1, <3>2, <4>4, <5>1 DEF Writes
      <4>. QED  BY <1>0, <4>3, <4>4 DEF Hands
    <3>. QED  BY <2>1, <3>1, <3>2
  <2>. QED  BY <2>2, <2>3, EventCounts
<1>10. r'.state = "dormant" => r'.leaseT \/ hostIn' # NoFrame
  BY <1>1 DEF EventStep, Accounts, Stays
<1>. QED  BY <1>5, <1>6, <1>7, <1>8, <1>9, <1>10

\* An event keeps the invariant.
LEMMA EventKeeps ==
  ASSUME NEW b, NEW u, NEW H, NEW G, NEW A, NEW after, EventStep(b, u, H, G, A, after)
  PROVE  SupInv'
<1>0. SupInv /\ Live /\ Handled(u, after) /\ withdrawn' = withdrawn
  BY DEF EventStep
<1>1. /\ RunnerOk(r', withdrawn', got', HostSide') /\ Stays(u, r') /\ Emptied(r')
      /\ RunnerOk(u, withdrawn, G, A) /\ Kept(b, u, H, withdrawn)
  BY EventRunner
<1>2. Environment'
  <2>1. Environment /\ sends' = sends /\ hostTasks' = hostTasks
    BY <1>0 DEF SupInv, EventStep
  <2>2. hostIn' \in FrameSet
    BY <2>1, NoFrameType DEF Environment, EventStep, Hands
  <2>3. asks' \in SUBSET AskFrames
    BY <1>0, <1>1, <2>1 DEF Handled, Environment, RunnerOk, Shape
  <2>4. got' \in SUBSET FrameSet
    BY <1>0, <1>1, <2>1 DEF Handled, Environment, RunnerOk, Shape
  <2>5. TasksOk(kidTasks') /\ TasksOk(hostTasks')
    <3>1. TasksOk(None)
      BY DEF TasksOk, None
    <3>2. kidTasks' \in {after.tasks, None} /\ TasksOk(after.tasks)
      BY <1>0 DEF Handled, EventStep
    <3>. QED  BY <2>1, <3>1, <3>2 DEF Environment
  <2>6. attempt' \in {"none", "running"} \cup Outcome
    BY <1>0 DEF Handled, EventStep
  <2>. QED  BY <1>0, <2>1, <2>2, <2>3, <2>4, <2>5, <2>6, EventCounts DEF Environment
<1>3. Shape(r') /\ Engine(r') /\ Registers(r')
  BY <1>1 DEF RunnerOk
<1>4. r'.live <= 1
  <2>1. u.live <= b.live /\ b.live <= 1 /\ u.live \in Int /\ b.live \in Int
    BY <1>1 DEF Kept, Engines, EventStep, Start, RunnerOk, Shape
  <2>. QED  BY <1>1, <2>1 DEF Stays
<1>5. ~strayed'
  <2>1. b.toChild = {} /\ ~strayed
    BY <1>0 DEF EventStep, Start, Emptied, SupInv
  <2>2. ASSUME NEW f \in u.toChild, f.k = "response"
        PROVE  f.from = IF u.gen > r.gen THEN u.gen ELSE r.cur
    <3>1. b.cur # 0 /\ f.from = b.cur /\ u.gen = b.gen
      BY <1>1, <2>1, <2>2 DEF Kept, Writes, Engines
    <3>2. r.gen \in Nat
      BY <1>0 DEF SupInv, Shape
    <3>3. CASE b.gen = r.gen /\ b.cur = r.cur
      BY <3>1, <3>2, <3>3
    <3>4. CASE b.gen = r.gen + 1 /\ b.cur = b.gen
      BY <3>1, <3>2, <3>4
    <3>. QED  BY <3>3, <3>4 DEF EventStep
  <2>. QED  BY <1>0, <2>1, <2>2 DEF Handled
<1>6. ASSUME NEW i \in HostReq
      PROVE  carried'[i] <= 1
  <2>0. i \in Ids /\ carried[i] <= 1
    BY <1>0 DEF Ids, SupInv
  <2>1. CASE u.wrote[i] = 0
    BY <2>0, <2>1, EventCounts
  <2>2. CASE u.wrote[i] = 1 /\ i \in QueuedIds(r) \cup H
    <3>1. carried[i] = 0
      <4>1. CASE i \in QueuedIds(r)
        BY <1>0, <4>1 DEF SupInv
      <4>2. CASE i \in H /\ H = HandIds(hostIn)
        BY <1>0, <4>2, SupervisorAssumption DEF SupInv, HandIds, HandOk
      <4>3. CASE Writes(b, u, {})
        <5>1. QueuedIds(b) = QueuedIds(r) /\ b.wrote[i] = 0
          BY <2>0, NothingType DEF EventStep, Start, QueuedIds, Emptied
        <5>2. i \in QueuedIds(r)
          BY <2>0, <2>2, <4>3, <5>1 DEF Writes
        <5>. QED  BY <1>0, <5>2 DEF SupInv
      <4>. QED  BY <2>2, <4>1, <4>2, <4>3 DEF EventStep, Hands
    <3>. QED  BY <2>0, <2>2, <3>1, EventCounts
  <2>. QED  BY <2>0, <2>1, <2>2, EventCounts
<1>7. r'.lease => r'.terminal /\ (hostIn' = NoFrame \/ hostIn'.late)
  BY <1>1 DEF EventStep, Stays
<1>8. Live' => /\ HandOk' /\ Balance'
               /\ r'.initReq => sends'[InitId] > 0
               /\ \A i \in OnBooks(r') \cup HandIds(hostIn') : sends'[i] > answers'[i] \/ i \in withdrawn'
               /\ \A i \in QueuedIds(r') : carried'[i] = 0
               /\ r'.state = "dormant" => r'.leaseT \/ hostIn' # NoFrame
  BY <1>1, EventLive DEF Live, Stays
<1>9. ASSUME NEW i \in Ids
      PROVE  answers'[i] <= sends'[i] \/ i \in withdrawn'
  <2>1. /\ answers[i] <= sends[i] \/ i \in withdrawn
        /\ sends'[i] = sends[i] /\ sends[i] \in Nat
    BY <1>0 DEF SupInv, Environment, EventStep
  <2>2. CASE u.told[i] = 0
    BY <1>0, <2>1, <2>2, EventCounts
  <2>3. CASE u.told[i] = 1 /\ i \in OnBooks(r) \cup H
    <3>1. i \in withdrawn \/ sends[i] > answers[i]
      BY <1>0, <2>3 DEF SupInv, EventStep, Hands
    <3>. QED  BY <1>0, <2>1, <2>3, <3>1, EventCounts
  <2>. QED  BY <2>2, <2>3, EventCounts
<1>. QED  BY <1>1, <1>2, <1>3, <1>4, <1>5, <1>6, <1>7, <1>8, <1>9 DEF SupInv, Emptied
-----------------------------------------------------------------------------
(* The promise to the host *)

\* An event settles requests of the host, or does nothing the host can see.
LEMMA EventSession ==
  ASSUME NEW b, NEW u, NEW H, NEW G, NEW A, NEW after, EventStep(b, u, H, G, A, after)
  PROVE  Session!HSNext
<1>. DEFINE T == {i \in Ids : u.told[i] = 1}
            AA == T \cap Books
            LL == T \ Books
            WW == IF u.terminal THEN {} ELSE Books \ (Books' \cup T)
<1>0. /\ SupInv /\ Live /\ withdrawn' = withdrawn /\ Hands(b, u, H, A)
      /\ answers' = [i \in Ids |-> answers[i] + u.told[i]]
  BY DEF EventStep, Handled
<1>1. /\ Stays(u, r') /\ OnBooks(r') = OnBooks(u)
  BY EventRunner
<1>2. /\ OnBooks(r) \subseteq Ids /\ HandIds(hostIn) \subseteq Ids
      /\ HandIds(hostIn) \cap OnBooks(r) = {} /\ HandIds(hostIn) \cap withdrawn = {}
  BY <1>0, BooksFacts
<1>3. Books = HandIds(hostIn) \cup OnBooks(r) /\ Books' = HandIds(hostIn') \cup OnBooks(u)
  <2>1. Books' = HandIds(hostIn') \cup OnBooks(r')
    BY DEF Books, HandIds, OnBooks, QueuedIds, Open
  <2>. QED  BY <1>1, <2>1, BooksSplit
<1>. HIDE DEF T
<1>4. \A i \in T : i \in OnBooks(r) \cup H
  BY EventCounts DEF T
<1>5. LL \subseteq withdrawn
  BY <1>0, <1>3, <1>4 DEF Hands
<1>6. ~u.terminal => /\ Books' \subseteq Books /\ Books' \cap T = {}
                     /\ Books \ (Books' \cup T) \subseteq withdrawn
  <2>1. SUFFICES ASSUME ~u.terminal
                 PROVE  /\ Books' \subseteq Books /\ Books' \cap T = {}
                        /\ Books \ (Books' \cup T) \subseteq withdrawn
    OBVIOUS
  <2>2. OnBooks(u) \cap T = {}
    BY <1>0, <2>1, EventCounts DEF T
  <2>3. \A i \in OnBooks(r) \cup H : i \in Ids /\ i \notin OnBooks(u) /\ i \notin T => i \in withdrawn
    BY <2>1, EventCounts DEF T
  <2>4. CASE hostIn' = NoFrame /\ H = HandIds(hostIn)
    <3>1. Books' = OnBooks(u) /\ OnBooks(u) \subseteq Books
      BY <1>3, <2>1, <2>4, NoFrameType, EventCounts
    <3>. QED  BY <1>2, <1>3, <2>2, <2>3, <2>4, <3>1
  <2>5. CASE hostIn' = hostIn /\ H \subseteq withdrawn /\ OnBooks(u) \subseteq OnBooks(b)
    <3>1. OnBooks(b) = OnBooks(r)
      BY EventCounts
    <3>2. Books' = HandIds(hostIn) \cup OnBooks(u)
      BY <1>3, <2>5
    <3>3. HandIds(hostIn) \cap T = {}
      BY <1>2, <1>4, <2>5
    <3>. QED  BY <1>2, <1>3, <2>2, <2>3, <2>5, <3>1, <3>2, <3>3
  <2>. QED  BY <1>0, <2>1, <2>4, <2>5 DEF Hands
<1>7. /\ AA \subseteq Books /\ WW \subseteq Books \cap withdrawn /\ LL \subseteq withdrawn
      /\ ~u.terminal => Books' = Books \ (AA \cup WW)
      /\ AA \cup LL = T
  BY <1>5, <1>6
<1>8. AA \in SUBSET Ids /\ WW \in SUBSET Ids /\ LL \in SUBSET Ids
  BY <1>2, <1>3 DEF T
<1>9. answers' = [i \in Ids |-> answers[i] + IF i \in AA \cup LL THEN 1 ELSE 0]
  <2>1. \A i \in Ids : u.told[i] = IF i \in T THEN 1 ELSE 0
    BY EventCounts DEF T
  <2>. QED  BY <1>0, <1>7, <2>1
<1>10. ~r.terminal /\ r'.terminal = u.terminal
  BY <1>0, <1>1 DEF Live, Stays
<1>. HIDE DEF AA, WW, LL
<1>11. Live' <=> ~u.terminal
  BY <1>10 DEF Live
<1>12. Session!Settle(AA, WW, LL)
  <2>1. ~(~Live)
    BY <1>0
  <2>2. AA \subseteq IF Live THEN Books ELSE {}
    BY <1>0, <1>7
  <2>3. WW \subseteq (IF Live THEN Books ELSE {}) \cap withdrawn
    BY <1>0, <1>7
  <2>4. (IF Live THEN Books ELSE {})' =
          IF (~Live)' THEN {} ELSE (IF Live THEN Books ELSE {}) \ (AA \cup WW)
    BY <1>0, <1>7, <1>11
  <2>5. (~Live)' \in BOOLEAN
    OBVIOUS
  <2>. QED  BY <1>0, <1>7, <1>9, <2>1, <2>2, <2>3, <2>4, <2>5 DEF Session!Settle
<1>. QED  BY <1>8, <1>12 DEF Session!HSNext
-----------------------------------------------------------------------------
(* One step of the specification after the other *)

WithFate(fate) == [r EXCEPT !.fate = fate]

\* The fates of the writes of an event.
LEMMA FatesType == Fates \subseteq Fate
<1>1. Calm \in Fate
  BY NothingType
<1>2. [Calm EXCEPT !.host = FALSE] \in Fate
  BY <1>1 DEF Fate
<1>3. [Calm EXCEPT !.proof = FALSE] \in Fate
  BY <1>1 DEF Fate
<1>4. [n : 0 .. QueueCap, kind : {"not_written", "ambiguous"}, host : {TRUE}, proof : {TRUE}]
        \subseteq Fate
  <2>1. SUFFICES ASSUME NEW f \in [n : 0 .. QueueCap, kind : {"not_written", "ambiguous"},
                                   host : {TRUE}, proof : {TRUE}]
                 PROVE  f \in Fate
    OBVIOUS
  <2>2. f.n \in Nat /\ f.kind \in {"delivered", "not_written", "ambiguous"}
    BY SupervisorAssumption
  <2>3. f.host = TRUE /\ f.proof = TRUE
    OBVIOUS
  <2>. QED  BY <2>2, <2>3 DEF Fate
<1>. QED  BY <1>1, <1>2, <1>3, <1>4 DEF Fates

\* The runner with which an event begins.
LEMMA BaseFacts ==
  ASSUME SupInv, Live, NEW fate \in Fates
  PROVE  LET b == WithFate(fate)
         IN  /\ RunnerOk(b, withdrawn, got, HostSide) /\ Start(b) /\ Steady(r, b) /\ Shape(b)
             /\ b.host = r.host /\ b.child = r.child /\ ~b.terminal /\ b.toChild = {}
             /\ b.output = r.output
<1>. DEFINE b == WithFate(fate)
<1>0. /\ Shape(r) /\ RunnerOk(r, withdrawn, got, HostSide) /\ Emptied(r) /\ r.live <= 1 /\ ~r.terminal
      /\ fate \in Fate
  BY FatesType DEF SupInv, Emptied, Live
<1>1. /\ Shape(b) /\ Stays(r, b) /\ b.pending = r.pending /\ b.host = r.host /\ b.child = r.child
      /\ b.toHost = r.toHost /\ b.toChild = r.toChild /\ b.told = r.told /\ b.wrote = r.wrote
      /\ b.output = r.output
  BY <1>0 DEF WithFate, Shape, IsRunner, RunnerFields, Stays
<1>. HIDE DEF b
<1>2. Steady(r, b)
  BY <1>1 DEF Steady, Alike
<1>3. RunnerOk(b, withdrawn, got, HostSide)
  BY <1>0, <1>1, <1>2, AlikeOk DEF Steady
<1>4. Start(b) /\ ~b.terminal /\ b.toChild = {}
  BY <1>0, <1>1 DEF Start, Emptied, Stays, Open
<1>. QED  BY <1>1, <1>2, <1>3, <1>4 DEF b

\* An event without a frame of the host in hand.
LEMMA PlainEvent ==
  ASSUME SupInv, Live, NEW fate \in Fates, NEW u, NEW H, NEW G, NEW after,
         Good(WithFate(fate), u, H, withdrawn, G, HostSide),
         H = {} \/ /\ H \subseteq withdrawn /\ Writes(WithFate(fate), u, {})
                   /\ u.terminal \/ OnBooks(u) \subseteq OnBooks(WithFate(fate)),
         got \ after.taken \subseteq G, Handled(u, after), hostIn' = hostIn,
         after.attempt = attempt, TasksOk(after.tasks),
         UNCHANGED <<sends, withdrawn, hostTasks>>
  PROVE  SupInv' /\ Session!HSNext
<1>. DEFINE b == WithFate(fate)
<1>1. /\ RunnerOk(b, withdrawn, got, HostSide) /\ Start(b) /\ Steady(r, b)
  BY BaseFacts
<1>2. Good(b, u, H, withdrawn, G, HostSide) /\ Kept(b, u, H, withdrawn)
  BY DEF Good
<1>3. Hands(b, u, H, HostSide)
  <2>1. CASE H = {}
    <3>1. Writes(b, u, {}) /\ (u.terminal \/ OnBooks(u) \subseteq OnBooks(b))
      BY <1>2, <2>1 DEF Kept, Answers
    <3>. HIDE DEF b
    <3>. QED  BY <2>1, <3>1 DEF Hands
  <2>2. CASE /\ H \subseteq withdrawn /\ Writes(b, u, {})
             /\ u.terminal \/ OnBooks(u) \subseteq OnBooks(b)
    <3>. HIDE DEF b
    <3>. QED  BY <2>2 DEF Hands
  <2>. QED  BY <2>1, <2>2
<1>. HIDE DEF b
<1>4. Accounts(u, after)
  <2>1. SUFFICES ASSUME ~u.terminal PROVE Accounts(u, after)
    BY DEF Accounts
  <2>2. Engines(b, u) /\ Balance
    BY <1>2 DEF Kept, SupInv
  <2>3. after.attempt # "none" => u.starting
    BY <1>1, <2>1, <2>2 DEF Engines, Balance, Steady, Alike, Stays
  <2>4. Spare(b) = Spare(r)
    BY <1>1 DEF Spare, Steady, Alike, Stays
  <2>5. Spare(u) = IF after.attempt \in {"ok", "retained", "unproven"} THEN 1 ELSE 0
    BY <2>1, <2>2, <2>4 DEF Engines, Balance
  <2>6. u.state = "dormant" => u.leaseT \/ hostIn' # NoFrame
    BY <1>1, <2>1, <2>2 DEF Engines, SupInv, Steady, Alike, Stays
  <2>. QED  BY <2>3, <2>5, <2>6 DEF Accounts
<1>5. ~u.lease
  BY <1>1, <1>2 DEF Kept, Engines, SupInv, Live, Steady, Alike, Stays
<1>6. b.gen = r.gen /\ b.cur = r.cur
  BY <1>1 DEF Steady, Alike, Stays
<1>7. after.attempt \in {"none", "running"} \cup Outcome
  BY DEF SupInv, Environment
<1>8. EventStep(b, u, H, G, HostSide, after)
  BY <1>1, <1>2, <1>3, <1>4, <1>5, <1>6, <1>7 DEF EventStep
<1>. QED  BY <1>8, EventKeeps, EventSession

\* An event that takes nothing from the engine.
LEMMA QuietFacts ==
  ASSUME SupInv
  PROVE  /\ Quiet.taken = {} /\ Quiet.attempt = attempt /\ Quiet.tasks = kidTasks
         /\ TasksOk(Quiet.tasks) /\ got \ Quiet.taken \subseteq got
BY DEF Quiet, SupInv, Environment

\* An event of which the handler is known to be good.
LEMMA QuietEvent ==
  ASSUME SupInv, Live, NEW fate \in Fates, NEW u,
         Good(WithFate(fate), u, {}, withdrawn, got, HostSide),
         Handled(u, Quiet), hostIn' = hostIn, PeersKeep
  PROVE  SupInv' /\ Session!HSNext
<1>1. UNCHANGED <<sends, withdrawn, hostTasks>>
  BY DEF PeersKeep
<1>. QED  BY <1>1, QuietFacts, PlainEvent

\* The exit of the engine is handled.
LEMMA ChildExitStep ==
  ASSUME SupInv, ChildExit
  PROVE  SupInv' /\ Session!HSNext
<1>1. PICK fate \in Fates : Live /\ Handled(handleChildExit([r EXCEPT !.fate = fate]), Quiet)
  BY DEF ChildExit, Loop
<1>2. Good(WithFate(fate), handleChildExit(WithFate(fate)), {}, withdrawn, got, HostSide)
  BY <1>1, BaseFacts, ChildExitGood
<1>. QED  BY <1>1, <1>2, QuietEvent DEF WithFate, ChildExit

\* The end of the engine's output is handled.
LEMMA ChildOutputStep ==
  ASSUME SupInv, ChildOutput
  PROVE  SupInv' /\ Session!HSNext
<1>1. PICK fate \in Fates : Live /\ Handled(handleChildOutput([r EXCEPT !.fate = fate]), Quiet)
  BY DEF ChildOutput, Loop
<1>2. Good(WithFate(fate), handleChildOutput(WithFate(fate)), {}, withdrawn, got, HostSide)
  BY <1>1, BaseFacts, ChildOutputGood
<1>. QED  BY <1>1, <1>2, QuietEvent DEF WithFate, ChildOutput

\* A mark is taken away and then the engine replaced, or a start begun.
LEMMA MarkThenGood ==
  ASSUME NEW s, NEW t, NEW W, NEW G, NEW A, RunnerOk(s, W, G, A), ~s.terminal, IsRunner(t),
         Same(s, t, RunnerFields \ {"retryT", "replayT", "exitT", "drainT", "leasePassed",
                                    "resolving", "initResp", "initFailed", "dormInvalid", "since",
                                    "output", "evExit", "evOutput", "out"})
  PROVE  /\ Good(s, replaceCurrent(t), {}, W, G, A)
         /\ Good(s, beginStart(t), {}, W, G, A)
         /\ Good(s, t, {}, W, G, A)
<1>1. Good(s, t, {}, W, G, A) /\ Steady(s, t)
  BY MarkGood
<1>2. RunnerOk(t, W, G, A)
  BY <1>1 DEF Good
<1>3. Good(t, replaceCurrent(t), {}, W, G, A) /\ Good(t, beginStart(t), {}, W, G, A)
  BY <1>2, ReplaceGood, BeginStartGood
<1>. QED  BY <1>1, <1>3, SteadyFirst

\* The retry timer fires.
LEMMA RetryTimerStep ==
  ASSUME SupInv, RetryTimer
  PROVE  SupInv' /\ Session!HSNext
<1>1. PICK fate \in Fates :
        Live /\ Handled(beginStart([[r EXCEPT !.fate = fate] EXCEPT !.retryT = FALSE]), Quiet)
  BY DEF RetryTimer, Loop
<1>. DEFINE b == WithFate(fate)
            t == [b EXCEPT !.retryT = FALSE]
<1>2. RunnerOk(b, withdrawn, got, HostSide) /\ ~b.terminal /\ Shape(b)
  BY <1>1, BaseFacts
<1>3. IsRunner(t) /\ Same(b, t, RunnerFields \ {"retryT"})
  <2>. HIDE DEF b
  <2>. QED  BY <1>2 DEF Shape, IsRunner, RunnerFields, Same
<1>4. Good(b, beginStart(t), {}, withdrawn, got, HostSide)
  <2>. HIDE DEF b, t
  <2>. QED  BY <1>2, <1>3, MarkThenGood DEF Same
<1>. QED  BY <1>1, <1>4, QuietEvent DEF WithFate, RetryTimer

\* The deadline of a replay passes.
LEMMA ReplayTimerStep ==
  ASSUME SupInv, ReplayTimer
  PROVE  SupInv' /\ Session!HSNext
<1>1. PICK fate \in Fates :
        Live /\ Handled(replaceCurrent([[r EXCEPT !.fate = fate] EXCEPT !.replayT = FALSE]), Quiet)
  BY DEF ReplayTimer, Loop
<1>. DEFINE b == WithFate(fate)
            t == [b EXCEPT !.replayT = FALSE]
<1>2. RunnerOk(b, withdrawn, got, HostSide) /\ ~b.terminal /\ Shape(b)
  BY <1>1, BaseFacts
<1>3. IsRunner(t) /\ Same(b, t, RunnerFields \ {"replayT"})
  <2>. HIDE DEF b
  <2>. QED  BY <1>2 DEF Shape, IsRunner, RunnerFields, Same
<1>4. Good(b, replaceCurrent(t), {}, withdrawn, got, HostSide)
  <2>. HIDE DEF b, t
  <2>. QED  BY <1>2, <1>3, MarkThenGood DEF Same
<1>. QED  BY <1>1, <1>4, QuietEvent DEF WithFate, ReplayTimer

\* The output of an engine that is gone did not end in time.
LEMMA ChildExitDrainTimerStep ==
  ASSUME SupInv, ChildExitDrainTimer
  PROVE  SupInv' /\ Session!HSNext
<1>1. PICK fate \in Fates :
        Live /\ Handled(replaceCurrent([[r EXCEPT !.fate = fate] EXCEPT !.drainT = FALSE]), Quiet)
  BY DEF ChildExitDrainTimer, Loop
<1>. DEFINE b == WithFate(fate)
            t == [b EXCEPT !.drainT = FALSE]
<1>2. RunnerOk(b, withdrawn, got, HostSide) /\ ~b.terminal /\ Shape(b)
  BY <1>1, BaseFacts
<1>3. IsRunner(t) /\ Same(b, t, RunnerFields \ {"drainT"})
  <2>. HIDE DEF b
  <2>. QED  BY <1>2 DEF Shape, IsRunner, RunnerFields, Same
<1>4. Good(b, replaceCurrent(t), {}, withdrawn, got, HostSide)
  <2>. HIDE DEF b, t
  <2>. QED  BY <1>2, <1>3, MarkThenGood DEF Same
<1>. QED  BY <1>1, <1>4, QuietEvent DEF WithFate, ChildExitDrainTimer

\* An engine that agreed to leave did not do so in time.
LEMMA DormantExitTimerStep ==
  ASSUME SupInv, DormantExitTimer
  PROVE  SupInv' /\ Session!HSNext
<1>1. PICK fate \in Fates :
        Live /\ Handled(replaceCurrent([[r EXCEPT !.fate = fate] EXCEPT !.exitT = FALSE]), Quiet)
  BY DEF DormantExitTimer, Loop
<1>. DEFINE b == WithFate(fate)
            t == [b EXCEPT !.exitT = FALSE]
<1>2. RunnerOk(b, withdrawn, got, HostSide) /\ ~b.terminal /\ Shape(b)
  BY <1>1, BaseFacts
<1>3. IsRunner(t) /\ Same(b, t, RunnerFields \ {"exitT"})
  <2>. HIDE DEF b
  <2>. QED  BY <1>2 DEF Shape, IsRunner, RunnerFields, Same
<1>4. Good(b, replaceCurrent(t), {}, withdrawn, got, HostSide)
  <2>. HIDE DEF b, t
  <2>. QED  BY <1>2, <1>3, MarkThenGood DEF Same
<1>. QED  BY <1>1, <1>4, QuietEvent DEF WithFate, DormantExitTimer

\* The resolution of the engine to run is reported.
LEMMA ResolveReportsStep ==
  ASSUME SupInv, NEW other \in BOOLEAN, ResolveReports(other)
  PROVE  SupInv' /\ Session!HSNext
<1>1. PICK fate \in Fates : Live /\ Handled(handleResolve([r EXCEPT !.fate = fate], other), Quiet)
  BY DEF ResolveReports, Loop
<1>. DEFINE b == WithFate(fate)
            t == [b EXCEPT !.resolving = FALSE]
<1>2. RunnerOk(b, withdrawn, got, HostSide) /\ ~b.terminal /\ Shape(b)
  BY <1>1, BaseFacts
<1>3. IsRunner(t) /\ Same(b, t, RunnerFields \ {"resolving"})
  <2>. HIDE DEF b
  <2>. QED  BY <1>2 DEF Shape, IsRunner, RunnerFields, Same
<1>4. /\ Good(b, replaceCurrent(t), {}, withdrawn, got, HostSide)
      /\ Good(b, t, {}, withdrawn, got, HostSide)
  <2>. HIDE DEF b, t
  <2>. QED  BY <1>2, <1>3, MarkThenGood DEF Same
<1>5. Good(b, handleResolve(b, other), {}, withdrawn, got, HostSide)
  BY <1>4 DEF handleResolve
<1>. QED  BY <1>1, <1>5, QuietEvent DEF WithFate, ResolveReports

\* The host closes the session.
LEMMA SessionEndsStep ==
  ASSUME SupInv, SessionEnds
  PROVE  SupInv' /\ Session!HSNext
<1>1. PICK fate \in Fates : Live /\ Handled(terminate([r EXCEPT !.fate = fate]), Quiet)
  BY DEF SessionEnds, Loop
<1>2. Good(WithFate(fate), terminate(WithFate(fate)), {}, withdrawn, got, HostSide)
  BY <1>1, BaseFacts, TerminateGood
<1>. QED  BY <1>1, <1>2, QuietEvent DEF WithFate, SessionEnds

\* The handling of an event that begins with another runner than the present
\* one, but with the same books.
LEMMA BasedEvent ==
  ASSUME SupInv, Live, NEW fate \in Fates, NEW a, NEW u, NEW G, NEW after,
         Based(WithFate(fate), a), Shape(a), a.live <= 1,
         \/ a.gen = r.gen /\ a.cur = r.cur /\ got \ after.taken \subseteq G
         \/ a.gen = r.gen + 1 /\ a.cur = a.gen,
         Good(a, u, {}, withdrawn, G, HostSide), Handled(u, after), hostIn' = hostIn,
         Accounts(u, after), after.attempt \in {"none", "running"} \cup Outcome,
         TasksOk(after.tasks), UNCHANGED <<sends, withdrawn, hostTasks>>
  PROVE  SupInv' /\ Session!HSNext
<1>. DEFINE b == WithFate(fate)
<1>1. Start(b) /\ Steady(r, b)
  BY BaseFacts
<1>2. Kept(a, u, {}, withdrawn)
  BY DEF Good
<1>3. Based(b, a)
  OBVIOUS
<1>. HIDE DEF b
<1>4. Start(a)
  BY <1>1, <1>3 DEF Start, Based, Emptied
<1>5. Hands(a, u, {}, HostSide)
  BY <1>2 DEF Hands, Kept, Answers
<1>6. ~u.lease
  BY <1>1, <1>2, <1>3 DEF Kept, Engines, SupInv, Live, Steady, Alike, Stays, Based
<1>7. EventStep(a, u, {}, G, HostSide, after)
  BY <1>4, <1>5, <1>6 DEF EventStep
<1>. QED  BY <1>7, EventKeeps, EventSession

\* A start attempt that took too long ends the session.
LEMMA StartTimerStep ==
  ASSUME SupInv, StartTimer
  PROVE  SupInv' /\ Session!HSNext
<1>1. PICK fate \in Fates :
        Live /\ Handled(terminate([[r EXCEPT !.fate = fate] EXCEPT !.starting = FALSE]), Quiet)
  BY DEF StartTimer, Loop
<1>. DEFINE b == WithFate(fate)
            a == [b EXCEPT !.starting = FALSE]
            c == [b EXCEPT !.starting = FALSE, !.live = b.live]
<1>2. /\ RunnerOk(b, withdrawn, got, HostSide) /\ Steady(r, b) /\ Shape(b) /\ Start(b)
  BY <1>1, BaseFacts
<1>3. IsRunner(b) /\ b.live \in Int /\ b.live <= 1
  BY <1>2 DEF Shape, Start
<1>4. a = c
  <2>. HIDE DEF b
  <2>. QED  BY <1>3 DEF IsRunner, RunnerFields
<1>5. /\ RunnerOk(c, withdrawn, got, HostSide) /\ Based(b, c) /\ c.gen = b.gen /\ c.cur = b.cur
      /\ c.live = b.live
  <2>. HIDE DEF b
  <2>. QED  BY <1>2, <1>3, ReportedOk
<1>6. Good(c, terminate(c), {}, withdrawn, got, HostSide) /\ terminate(c).terminal
  <2>. HIDE DEF c
  <2>. QED  BY <1>5, TerminateGood
<1>7. Accounts(terminate(c), Quiet)
  BY <1>6 DEF Accounts
<1>8. Shape(c) /\ c.live <= 1 /\ c.gen = r.gen /\ c.cur = r.cur
  <2>. HIDE DEF c, b
  <2>. QED  BY <1>2, <1>3, <1>5 DEF RunnerOk, Steady, Alike, Stays
<1>9. /\ Quiet.attempt \in {"none", "running"} \cup Outcome /\ TasksOk(Quiet.tasks)
      /\ got \ Quiet.taken \subseteq got
  BY QuietFacts DEF SupInv, Environment
<1>10. hostIn' = hostIn /\ UNCHANGED <<sends, withdrawn, hostTasks>>
  BY DEF StartTimer, PeersKeep
<1>11. Handled(terminate(c), Quiet)
  BY <1>1, <1>4 DEF WithFate
<1>. HIDE DEF c
<1>. QED  BY <1>1, <1>5, <1>6, <1>7, <1>8, <1>9, <1>10, <1>11, BasedEvent

\* The dormant lease is not read by the invariant of a runner.
LEMMA LeaseOk ==
  ASSUME NEW s, NEW a, NEW W, NEW G, NEW A, RunnerOk(s, W, G, A), IsRunner(a),
         Same(s, a, RunnerFields \ {"leaseT", "lease"})
  PROVE  /\ RunnerOk(a, W, G, A) /\ Open(a) = Open(s) /\ a.gen = s.gen /\ a.cur = s.cur
         /\ a.modern = s.modern /\ a.initReq = s.initReq /\ a.awaiting = s.awaiting
         /\ a.pending = s.pending /\ a.told = s.told /\ a.wrote = s.wrote
         /\ a.toHost = s.toHost /\ a.toChild = s.toChild /\ a.live = s.live
         /\ a.exit = s.exit /\ a.starting = s.starting /\ a.state = s.state
         /\ a.terminal = s.terminal /\ a.leasePassed = s.leasePassed
<1>0. Shape(s)
  BY DEF RunnerOk
<1>2. /\ a.state = s.state /\ a.modern = s.modern /\ a.gen = s.gen /\ a.cur = s.cur
      /\ a.starting = s.starting /\ a.live = s.live /\ a.initReq = s.initReq
      /\ a.awaiting = s.awaiting /\ a.initialized = s.initialized /\ a.exit = s.exit
      /\ a.terminal = s.terminal /\ a.leasePassed = s.leasePassed
      /\ a.pending = s.pending /\ a.toHost = s.toHost /\ a.toChild = s.toChild
      /\ a.host = s.host /\ a.child = s.child /\ a.told = s.told /\ a.wrote = s.wrote
      /\ a.fate = s.fate
  BY DEF Same, RunnerFields
<1>3. Shape(a) /\ Engine(a) /\ Registers(a)
  BY <1>0, <1>2 DEF RunnerOk, Shape, Engine, Registers, Open
<1>4. QueuedIds(a) = QueuedIds(s) /\ Open(a) = Open(s)
  BY <1>2 DEF QueuedIds, Open
<1>5. ~s.terminal => Queue(a, W) /\ Lifecycle(a)
  BY <1>2, <1>4 DEF RunnerOk, Queue, HostFrameOk, Lifecycle
<1>6. ~s.terminal => GotOk(a, W, G) /\ HoldersOk(a, A)
  BY <1>2, <1>4 DEF RunnerOk, GotOk, HoldersOk, Due
<1>. QED  BY <1>2, <1>3, <1>4, <1>5, <1>6 DEF RunnerOk

\* The lease ends: a frame that came in time is served first, else the session
\* is over.
LEMMA DormantLeaseStep ==
  ASSUME SupInv, DormantLeaseTimer
  PROVE  SupInv' /\ Session!HSNext
<1>1. PICK fate \in Fates :
        Live /\ Handled(handleDormantLease([r EXCEPT !.fate = fate]), Quiet)
  BY DEF DormantLeaseTimer, Loop
<1>. DEFINE b == WithFate(fate)
            t == [b EXCEPT !.leaseT = FALSE]
            e == [t EXCEPT !.lease = TRUE]
<1>2. /\ RunnerOk(b, withdrawn, got, HostSide) /\ Steady(r, b) /\ Shape(b) /\ Start(b)
  BY <1>1, BaseFacts
<1>3. b.leasePassed /\ b.lease = r.lease /\ b.live = r.live /\ b.gen = r.gen /\ b.cur = r.cur
  <2>1. r.leasePassed /\ IsRunner(r)
    BY DEF DormantLeaseTimer, SupInv, Shape
  <2>2. b.leasePassed = r.leasePassed
    BY <2>1 DEF WithFate, IsRunner, RunnerFields
  <2>. QED  BY <2>1, <2>2, <1>2 DEF Steady, Alike, Stays
<1>4. /\ IsRunner(t) /\ Same(b, t, RunnerFields \ {"leaseT", "lease"}) /\ t.lease = b.lease
      /\ IsRunner(e) /\ Same(b, e, RunnerFields \ {"leaseT", "lease"}) /\ e.lease = TRUE
      /\ [terminate(t) EXCEPT !.lease = terminate(t).terminal] = terminate(e)
  <2>. HIDE DEF b
  <2>. QED  BY <1>2, ZenonT(40) DEF Shape, IsRunner, RunnerFields, Same, terminate
<1>5. /\ RunnerOk(t, withdrawn, got, HostSide) /\ RunnerOk(e, withdrawn, got, HostSide)
      /\ t.leasePassed = b.leasePassed
  <2>. HIDE DEF b, t, e
  <2>. QED  BY <1>2, <1>4, LeaseOk
<1>6. /\ Start(t) /\ Start(e) /\ t.gen = r.gen /\ t.cur = r.cur /\ e.gen = r.gen /\ e.cur = r.cur
      /\ t.state = r.state /\ t.starting = r.starting /\ Spare(t) = Spare(r) /\ ~t.terminal
  <2>. HIDE DEF b, t, e
  <2>1. /\ Start(t) /\ t.gen = r.gen /\ t.cur = r.cur /\ t.state = b.state /\ t.starting = b.starting
        /\ t.live = b.live /\ t.exit = b.exit /\ t.terminal = b.terminal
    BY <1>2, <1>3, <1>4, LeaseOk DEF Start, Emptied, RunnerOk
  <2>2. Start(e) /\ e.gen = r.gen /\ e.cur = r.cur
    BY <1>2, <1>3, <1>4, LeaseOk DEF Start, Emptied, RunnerOk
  <2>3. t.state = r.state /\ t.starting = r.starting /\ t.live = r.live /\ t.exit = r.exit /\ ~t.terminal
    BY <1>1, <1>2, <2>1 DEF Steady, Alike, Stays, Live
  <2>. QED  BY <2>1, <2>2, <2>3 DEF Spare
<1>7. /\ Quiet.attempt \in {"none", "running"} \cup Outcome /\ TasksOk(Quiet.tasks)
      /\ got \ Quiet.taken \subseteq got /\ Quiet.attempt = attempt
  BY QuietFacts DEF SupInv, Environment
<1>8. hostIn' = hostIn /\ UNCHANGED <<sends, withdrawn, hostTasks>>
  BY DEF DormantLeaseTimer, PeersKeep
<1>9. CASE hostIn # NoFrame /\ ~hostIn.late
  <2>1. Handled(t, Quiet)
    BY <1>1, <1>9 DEF WithFate, handleDormantLease
  <2>. HIDE DEF b, t, e
  <2>2. Good(t, t, {}, withdrawn, got, HostSide)
    BY <1>5, KeptItself
  <2>3. Hands(t, t, {}, HostSide)
    BY <1>8, <2>2 DEF Hands, Good, Kept
  <2>4. Accounts(t, Quiet)
    BY <1>1, <1>6, <1>7, <1>8, <1>9 DEF Accounts, SupInv, Balance, Live
  <2>5. ~t.lease
    BY <1>1, <1>3, <1>4 DEF SupInv, Live
  <2>6. EventStep(t, t, {}, got, HostSide, Quiet)
    BY <1>1, <1>6, <1>7, <1>8, <2>1, <2>2, <2>3, <2>4, <2>5 DEF EventStep
  <2>. QED  BY <2>6, EventKeeps, EventSession
<1>10. CASE ~(hostIn # NoFrame /\ ~hostIn.late)
  <2>1. Handled(terminate(e), Quiet)
    <3>1. finishDormantLease(t) = terminate(t)
      BY <1>3, <1>5 DEF finishDormantLease
    <3>2. handleDormantLease(b) = [terminate(t) EXCEPT !.lease = terminate(t).terminal]
      BY <1>10, <3>1 DEF handleDormantLease
    <3>. QED  BY <1>1, <1>4, <3>2 DEF WithFate
  <2>. HIDE DEF b, t, e
  <2>2. Good(e, terminate(e), {}, withdrawn, got, HostSide) /\ terminate(e).terminal
    BY <1>5, TerminateGood
  <2>3. Hands(e, terminate(e), {}, HostSide)
    BY <1>8, <2>2 DEF Hands, Good, Kept
  <2>4. Accounts(terminate(e), Quiet)
    BY <2>2 DEF Accounts
  <2>5. hostIn' = NoFrame \/ hostIn'.late
    BY <1>8, <1>10
  <2>6. EventStep(e, terminate(e), {}, got, HostSide, Quiet)
    BY <1>1, <1>6, <1>7, <1>8, <2>1, <2>2, <2>3, <2>4, <2>5 DEF EventStep
  <2>. QED  BY <2>6, EventKeeps, EventSession
<1>. QED  BY <1>9, <1>10

\* What the host holds is part of what it has, answered or not.
LEMMA FewerHolders ==
  ASSUME NEW s, NEW W, NEW G, NEW A, NEW B \in SUBSET A, RunnerOk(s, W, G, A)
  PROVE  RunnerOk(s, W, G, B)
<1>1. ~s.terminal => HoldersOk(s, B)
  BY DEF RunnerOk, HoldersOk
<1>. QED  BY <1>1 DEF RunnerOk

\* The frame of the host is one that may be handled.
LEMMA HostInOk ==
  ASSUME SupInv, Live
  PROVE  HandFrame(r, hostIn, withdrawn, got, asks)
<1>1. /\ RunnerOk(r, withdrawn, got, HostSide) /\ HandOk /\ hostIn \in FrameSet /\ ~r.terminal
      /\ r.toHost = {} /\ r.toChild = {}
  BY DEF SupInv, Live, Environment
<1>2. hostIn.k = "request" /\ r.cur # 0 =>
        \A g \in got \cup r.toChild : g.k = "request" => g.id # hostIn.id
  BY <1>1 DEF RunnerOk, GotOk, HandOk, OnBooks
<1>3. hostIn.k = "response" =>
        /\ Due(r, hostIn) /\ ~r.modern
        /\ \A j \in DOMAIN r.pending : r.pending[j].f.k = "response" => r.pending[j].f.id # hostIn.id
  BY <1>1 DEF RunnerOk, HoldersOk, HostSide
<1>4. hostIn.k = "response" => \A a \in asks \cup r.toHost : a.id # hostIn.id
  BY <1>1 DEF HandOk
<1>. QED  BY <1>1, <1>2, <1>3, <1>4 DEF HandFrame, HandOk

\* A frame of the host is handled.
LEMMA HostFrameStep ==
  ASSUME SupInv, HostFrame
  PROVE  SupInv' /\ Session!HSNext
<1>1. PICK fate \in Fates :
        Live /\ Handled(handleHostEvent([r EXCEPT !.fate = fate], hostIn), Quiet)
  BY DEF HostFrame, Loop
<1>. DEFINE b == WithFate(fate)
            u == handleHostEvent(b, hostIn)
<1>2. /\ RunnerOk(b, withdrawn, got, HostSide) /\ Steady(r, b) /\ Shape(b) /\ Start(b) /\ ~b.terminal
  BY <1>1, BaseFacts
<1>3. Handled(u, Quiet) /\ hostIn' = NoFrame
  BY <1>1 DEF WithFate, HostFrame
<1>. HIDE DEF b
<1>4. RunnerOk(b, withdrawn, got, asks)
  BY <1>2, FewerHolders DEF HostSide
<1>5. HandFrame(b, hostIn, withdrawn, got, asks)
  BY <1>1, <1>2, HostInOk, HandSteady
<1>6. /\ Good(b, u, HandIds(hostIn), withdrawn, got, asks)
      /\ u.terminal \/ u.state # "dormant" \/ u.leaseT
  BY <1>2, <1>4, <1>5, HostEventGood
<1>. HIDE DEF u
<1>7. /\ Quiet.attempt \in {"none", "running"} \cup Outcome /\ TasksOk(Quiet.tasks)
      /\ got \ Quiet.taken \subseteq got /\ Quiet.attempt = attempt
  BY QuietFacts DEF SupInv, Environment
<1>8. UNCHANGED <<sends, withdrawn, hostTasks>>
  BY DEF HostFrame, PeersKeep
<1>9. Hands(b, u, HandIds(hostIn), asks)
  BY <1>3 DEF Hands
<1>10. Kept(b, u, HandIds(hostIn), withdrawn)
  BY <1>6 DEF Good
<1>11. Accounts(u, Quiet)
  <2>1. SUFFICES ASSUME ~u.terminal PROVE Accounts(u, Quiet)
    BY DEF Accounts
  <2>2. Engines(b, u) /\ Balance
    BY <1>1, <1>10 DEF Kept, SupInv
  <2>3. attempt # "none" => u.starting
    BY <1>2, <2>1, <2>2 DEF Engines, Balance, Steady, Alike, Stays
  <2>4. Spare(b) = Spare(r)
    BY <1>2 DEF Spare, Steady, Alike, Stays
  <2>5. Spare(u) = IF attempt \in {"ok", "retained", "unproven"} THEN 1 ELSE 0
    BY <2>1, <2>2, <2>4 DEF Engines, Balance
  <2>. QED  BY <1>6, <1>7, <2>1, <2>3, <2>5 DEF Accounts
<1>12. ~u.lease
  BY <1>1, <1>2, <1>10 DEF Kept, Engines, SupInv, Live, Steady, Alike, Stays
<1>13. b.gen = r.gen /\ b.cur = r.cur
  BY <1>2 DEF Steady, Alike, Stays
<1>14. EventStep(b, u, HandIds(hostIn), got, asks, Quiet)
  BY <1>1, <1>2, <1>3, <1>6, <1>7, <1>8, <1>9, <1>11, <1>12, <1>13 DEF EventStep
<1>. QED  BY <1>14, EventKeeps, EventSession

\* A start attempt reports.
LEMMA StartReportsStep ==
  ASSUME SupInv, StartReports
  PROVE  SupInv' /\ Session!HSNext
<1>. DEFINE after == [Quiet EXCEPT !.attempt = "none"]
<1>1. PICK fate \in Fates :
        Live /\ Handled(handleStartAttempt([r EXCEPT !.fate = fate], attempt), after)
  BY DEF StartReports, Loop
<1>. DEFINE b == WithFate(fate)
            u == handleStartAttempt(b, attempt)
<1>2. /\ RunnerOk(b, withdrawn, got, HostSide) /\ Steady(r, b) /\ Shape(b) /\ Start(b) /\ ~b.terminal
      /\ b.toChild = {}
  BY <1>1, BaseFacts
<1>3. Handled(u, after) /\ hostIn' = hostIn /\ attempt \in Outcome
  BY <1>1 DEF WithFate, StartReports
<1>4. after.attempt = "none" /\ TasksOk(after.tasks) /\ got \ after.taken \subseteq got
  BY QuietFacts DEF Quiet
<1>5. UNCHANGED <<sends, withdrawn, hostTasks>>
  BY DEF StartReports, PeersKeep
<1>. HIDE DEF after, b, u
<1>6. /\ b.starting /\ b.cur = 0 /\ b.exit = "no" /\ b.state # "dormant"
      /\ b.live = IF attempt \in {"ok", "retained", "unproven"} THEN 1 ELSE 0
  <2>1. attempt # "none"
    BY <1>3 DEF Outcome
  <2>2. /\ r.starting /\ r.cur = 0 /\ r.exit = "no" /\ r.state # "dormant"
    BY <1>1, <2>1 DEF SupInv, Balance, Engine, RunnerOk, Lifecycle, Live
  <2>3. r.live = IF attempt \in {"ok", "retained", "unproven"} THEN 1 ELSE 0
    BY <1>1, <2>2 DEF SupInv, Balance, Spare, Shape
  <2>. QED  BY <1>2, <2>2, <2>3 DEF Steady, Alike, Stays
<1>7. b.gen = r.gen /\ b.cur = r.cur /\ b.gen \in Nat /\ b.live \in Int
  BY <1>2 DEF Steady, Alike, Stays, Shape
<1>8. CASE attempt = "ok"
  <2>1. PICK c : /\ RunnerOk(c, withdrawn, {}, HostSide) /\ Takeover(b, c)
                 /\ Good(c, u, {}, withdrawn, {}, HostSide)
    BY <1>2, <1>6, <1>8, StartOkGood DEF u
  <2>2. Shape(c) /\ Based(b, c) /\ c.gen = r.gen + 1 /\ c.cur = c.gen /\ c.live = 1 /\ c.exit = "no"
        /\ c.cur # 0 /\ c.state # "dormant"
    BY <1>6, <1>7, <1>8, <2>1 DEF Takeover, RunnerOk, Based
  <2>3. Accounts(u, after)
    <3>1. SUFFICES ASSUME ~u.terminal PROVE Accounts(u, after)
      BY DEF Accounts
    <3>2. Engines(c, u)
      BY <2>1 DEF Good, Kept
    <3>3. Spare(c) = 0
      BY <2>2 DEF Spare
    <3>. QED  BY <1>4, <2>2, <3>1, <3>2, <3>3 DEF Accounts, Engines
  <2>. QED  BY <1>1, <1>3, <1>4, <1>5, <2>1, <2>2, <2>3, BasedEvent DEF b
<1>9. CASE attempt # "ok"
  <2>1. PICK c : /\ RunnerOk(c, withdrawn, got, HostSide) /\ Based(b, c) /\ c.gen = b.gen
                 /\ c.cur = b.cur /\ c.exit = b.exit /\ c.live <= b.live
                 /\ Good(c, u, {}, withdrawn, got, HostSide)
                 /\ \/ u.terminal
                    \/ attempt = "failed" /\ c.live = b.live
                    \/ attempt = "retained" /\ c.live = b.live - 1
    BY <1>2, <1>3, <1>6, <1>9, StartFailGood DEF u
  <2>2. Shape(c) /\ c.gen = r.gen /\ c.cur = r.cur /\ c.live <= 1
        /\ c.cur = 0 /\ c.state # "dormant" /\ c.live \in Int
    BY <1>6, <1>7, <1>9, <2>1 DEF RunnerOk, Based, Shape
  <2>3. Accounts(u, after)
    <3>1. SUFFICES ASSUME ~u.terminal PROVE Accounts(u, after)
      BY DEF Accounts
    <3>2. Engines(c, u)
      BY <2>1 DEF Good, Kept
    <3>3. Spare(c) = 0
      BY <1>6, <2>1, <2>2, <3>1 DEF Spare
    <3>. QED  BY <1>4, <2>2, <3>1, <3>2, <3>3 DEF Accounts, Engines
  <2>. QED  BY <1>1, <1>3, <1>4, <1>5, <2>1, <2>2, <2>3, BasedEvent DEF b
<1>. QED  BY <1>8, <1>9
-----------------------------------------------------------------------------
(* Frames of the engine *)

\* The engine sends a frame.
LEMMA EngineFrameStep ==
  ASSUME SupInv, NEW f, NEW cost, NEW after, EngineSends(f, cost, after),
         after.attempt = attempt, TasksOk(after.tasks),
         FromEngine(r, f, withdrawn, got \ after.taken)
  PROVE  SupInv' /\ Session!HSNext
<1>1. PICK fate \in Fates : Live /\ Handled(handleChildFrame([r EXCEPT !.fate = fate], f), after)
  BY DEF EngineSends, Loop
<1>. DEFINE b == WithFate(fate)
            u == handleChildFrame(b, f)
            G == got \ after.taken
            H == LateIds(b, f)
<1>2. /\ RunnerOk(b, withdrawn, got, HostSide) /\ Steady(r, b) /\ Shape(b) /\ Start(b) /\ ~b.terminal
  BY <1>1, BaseFacts
<1>3. Handled(u, after) /\ hostIn' = hostIn /\ UNCHANGED <<sends, withdrawn, hostTasks>>
  BY <1>1 DEF WithFate, EngineSends
<1>. HIDE DEF b, u
<1>4. RunnerOk(b, withdrawn, G, HostSide)
  BY <1>2, LessHeld
<1>5. FromEngine(b, f, withdrawn, G)
  <2>1. /\ b.cur = r.cur /\ b.modern = r.modern /\ b.state = r.state /\ b.awaiting = r.awaiting
        /\ b.toChild = r.toChild /\ b.pending = r.pending /\ Open(b) = Open(r)
    BY <1>2 DEF Steady, Alike, Stays, Open
  <2>2. QueuedIds(b) = QueuedIds(r)
    BY <2>1 DEF QueuedIds
  <2>. QED  BY <2>1, <2>2 DEF FromEngine, Unheld, NoInit
<1>6. Lates(b, u, f, withdrawn, G, HostSide)
  BY <1>2, <1>4, <1>5, ChildFrameGood DEF u
<1>7. H \subseteq withdrawn
  BY <1>5 DEF LateIds, FromEngine
<1>8. /\ Good(b, u, H, withdrawn, G, HostSide) /\ Writes(b, u, {})
      /\ u.terminal \/ OnBooks(u) \subseteq OnBooks(b)
  BY <1>6 DEF Lates
<1>. HIDE DEF G, H
<1>9. got \ after.taken \subseteq G
  BY DEF G
<1>. QED  BY <1>1, <1>3, <1>7, <1>8, <1>9, PlainEvent DEF b

\* What a peer answers, and its tasks after that.
LEMMA RepliesOk ==
  ASSUME NEW f, NEW tasks, TasksOk(tasks), NEW reply \in Replies(f, tasks)
  PROVE  /\ reply.kind \in {"result", "error"} /\ reply.status \in Statuses
         /\ reply.task \in Task \cup {NoTask}
         /\ TasksOk(TasksAfter(tasks, reply))
<1>. DEFINE Say(k, t, st) == [kind |-> k, task |-> t, status |-> st]
<1>1. \/ reply = Say("error", NoTask, "none")
      \/ \E t \in Task \ DOMAIN tasks : reply = Say("result", t, "working")
      \/ \E t \in {f.task} \cap DOMAIN tasks : reply = Say("result", f.task, tasks[t])
      \/ \E t \in {f.task} \cap DOMAIN tasks : reply = Say("result", f.task, "cancelled")
      \/ reply = Say("result", NoTask, "none")
  <2>1. CASE f.method = "task"
    BY <2>1 DEF Replies
  <2>2. CASE f.method = "tasks/get"
    BY <2>2 DEF Replies
  <2>3. CASE f.method = "tasks/cancel"
    BY <2>3 DEF Replies
  <2>4. CASE f.method \notin {"task", "tasks/get", "tasks/cancel"}
    BY <2>4 DEF Replies
  <2>. QED  BY <2>1, <2>2, <2>3, <2>4
<1>2. /\ reply.kind \in {"result", "error"} /\ reply.status \in Statuses
      /\ reply.task \in Task \cup {NoTask}
  BY <1>1 DEF TasksOk, Statuses
<1>3. TasksOk(TasksAfter(tasks, reply))
  <2>1. CASE reply.task = NoTask
    BY <2>1 DEF TasksAfter
  <2>2. CASE reply.task # NoTask
    <3>1. reply.task \in Task
      BY <1>2, <2>2
    <3>. QED  BY <1>2, <2>2, <3>1 DEF TasksAfter, TasksOk, Put
  <2>. QED  BY <2>1, <2>2
<1>. QED  BY <1>2, <1>3

\* The engine answers a request.
LEMMA EngineAnswersStep ==
  ASSUME SupInv, NEW g \in got, NEW reply \in Replies(g, kidTasks), EngineAnswers(g, reply)
  PROVE  SupInv' /\ Session!HSNext
<1>. DEFINE f == [Frame("answer", g.id) EXCEPT !.kind = reply.kind, !.task = reply.task,
                                               !.status = reply.status]
            after == [Quiet EXCEPT !.taken = {g}, !.tasks = TasksAfter(Quiet.tasks, reply)]
<1>1. g.k = "request" /\ EngineSends(f, 0, after)
  BY DEF EngineAnswers
<1>2. /\ f.k = "answer" /\ f.id = g.id /\ after.taken = {g} /\ after.attempt = attempt
      /\ after.tasks = TasksAfter(kidTasks, reply)
  BY DEF Frame, Quiet
<1>3. TasksOk(after.tasks)
  BY <1>2, RepliesOk DEF SupInv, Environment
<1>4. r.cur # 0 /\ Live /\ RunnerOk(r, withdrawn, got, HostSide) /\ r.toChild = {}
      /\ withdrawn \subseteq HostReq
  BY <1>1 DEF EngineSends, Loop, SupInv, Environment
<1>. HIDE DEF f, after
<1>5. FromEngine(r, f, withdrawn, got \ after.taken)
  <2>1. /\ g.id \in Open(r) \cup withdrawn /\ g.id \notin QueuedIds(r)
        /\ \A h \in got : h.k = "request" /\ h.id = g.id => h = g \/ h.id \in withdrawn
    BY <1>1, <1>4 DEF RunnerOk, GotOk, Live
  <2>2. g.id \in HostReq
    BY <1>4, <2>1 DEF RunnerOk, Registers
  <2>3. Unheld(r, g.id, withdrawn, got \ after.taken)
    BY <1>2, <1>4, <2>1 DEF Unheld
  <2>. QED  BY <1>2, <1>4, <2>1, <2>2, <2>3 DEF FromEngine
<1>. QED  BY <1>1, <1>2, <1>3, <1>5, EngineFrameStep

\* An event that takes one frame from the engine.
LEMMA TookFacts ==
  ASSUME SupInv, NEW g
  PROVE  /\ Took(g).taken = {g} /\ Took(g).attempt = attempt
         /\ TasksOk(Took(g).tasks)
BY DEF Took, Quiet, SupInv, Environment

\* The engine answers the initialize it was given.
LEMMA EngineInitializesStep ==
  ASSUME SupInv, NEW g \in got, EngineInitializes(g)
  PROVE  SupInv' /\ Session!HSNext
<1>1. PICK kind \in {"result", "error"}, contract \in {"same", "other"} :
        EngineSends([Frame("init", InitId) EXCEPT !.kind = kind, !.status = contract],
                    IF kind = "result" /\ contract = "same" THEN 0 ELSE 1, Took(g))
  BY DEF EngineInitializes
<1>. DEFINE f == [Frame("init", InitId) EXCEPT !.kind = kind, !.status = contract]
            cost == IF kind = "result" /\ contract = "same" THEN 0 ELSE 1
<1>2. f.k = "init" /\ g.k = "initialize"
  BY DEF Frame, EngineInitializes
<1>3. EngineSends(f, cost, Took(g))
  BY <1>1
<1>. HIDE DEF f, cost
<1>4. r.cur # 0 /\ Live /\ RunnerOk(r, withdrawn, got, HostSide) /\ r.toChild = {}
  BY <1>3 DEF EngineSends, Loop, SupInv
<1>5. FromEngine(r, f, withdrawn, got \ Took(g).taken)
  <2>1. /\ \A h \in got : h.k = "initialize" => h = Frame("initialize", InitId)
        /\ \/ r.state \in {"replaying", "finalizing"}
           \/ r.state = "active" /\ r.awaiting
    BY <1>2, <1>4 DEF RunnerOk, GotOk, Live
  <2>2. NoInit(r, got \ Took(g).taken)
    BY <1>2, <1>4, <2>1, TookFacts DEF NoInit
  <2>. QED  BY <1>2, <1>4, <2>1, <2>2 DEF FromEngine
<1>. QED  BY <1>3, <1>5, TookFacts, EngineFrameStep

\* Frames that settle nothing.
LEMMA PlainFrameStep ==
  ASSUME SupInv, NEW f, NEW cost, NEW after, EngineSends(f, cost, after),
         after.attempt = attempt, TasksOk(after.tasks),
         f.k \notin {"answer", "unlisten", "init"}, f.k = "ask" => f \in FrameSet
  PROVE  SupInv' /\ Session!HSNext
<1>1. FromEngine(r, f, withdrawn, got \ after.taken)
  BY DEF FromEngine, EngineSends
<1>. QED  BY <1>1, EngineFrameStep

\* The methods of the peers' requests.
LEMMA MethodsHave ==
  /\ \A i \in ChildReq : ChildMethod[i] \subseteq Methods
  /\ \A i \in HostReq : HostMethod[i] \subseteq Methods
<1>1. \A i \in ChildReq : ChildMethod[i] \subseteq ChildMethods
  BY DEF ChildMethods
<1>2. \A i \in HostReq : HostMethod[i] \subseteq HostMethods
  BY DEF HostMethods
<1>. QED  BY <1>1, <1>2 DEF Methods

\* A request frame of either peer.
RequestFrame(k, i, m, t) ==
  [Frame(k, i) EXCEPT !.method = m, !.task = t, !.aug = m = "task", !.tok = m \in {"plain", "task"}]

\* The fields of a request.
LEMMA RequestFrameOk ==
  ASSUME NEW k \in Kinds, NEW i \in Ids \cup ChildReq, NEW m \in Methods,
         NEW t \in Task \cup {NoTask}
  PROVE  /\ RequestFrame(k, i, m, t) \in FrameSet
         /\ RequestFrame(k, i, m, t).k = k /\ RequestFrame(k, i, m, t).id = i
         /\ RequestFrame(k, i, m, t).method = m
<1>. DEFINE f == RequestFrame(k, i, m, t)
            a == m = "task"
            p == m \in {"plain", "task"}
            h == [Frame(k, i) EXCEPT !.method = m, !.task = t, !.aug = a, !.tok = p]
<1>1. Frame(k, i) \in FrameSet /\ Frame(k, i).k = k /\ Frame(k, i).id = i
  BY FrameFacts
<1>2. a \in BOOLEAN /\ p \in BOOLEAN
  OBVIOUS
<1>3. f = h
  BY DEF RequestFrame
<1>. HIDE DEF a, p
<1>4. h \in FrameSet /\ h.k = k /\ h.id = i /\ h.method = m
  BY <1>1, <1>2 DEF FrameSet
<1>. HIDE DEF h
<1>5. f \in FrameSet /\ f.k = k /\ f.id = i /\ f.method = m
  BY <1>3, <1>4
<1>. QED  BY <1>5

\* The engine asks something of the host.
LEMMA EngineAsksStep ==
  ASSUME SupInv, NEW i \in ChildReq, NEW m \in ChildMethod[i], EngineAsks(i, m)
  PROVE  SupInv' /\ Session!HSNext
<1>1. PICK t \in IF m \in {"tasks/get", "tasks/result", "tasks/cancel"}
                 THEN DOMAIN hostTasks ELSE {NoTask} :
        EngineSends([Frame("ask", i) EXCEPT !.method = m, !.task = t,
                       !.aug = m = "task", !.tok = m \in {"plain", "task"}], 0, Quiet)
  BY DEF EngineAsks
<1>. DEFINE f == RequestFrame("ask", i, m, t)
<1>2. m \in Methods
  BY MethodsHave
<1>3. t \in Task \cup {NoTask}
  BY <1>1 DEF SupInv, Environment, TasksOk
<1>4. f \in FrameSet /\ f.k = "ask"
  <2>2. "ask" \in Kinds
    BY DEF Kinds
  <2>3. i \in Ids \cup ChildReq
    OBVIOUS
  <2>. QED  BY <1>2, <1>3, <2>2, <2>3, RequestFrameOk
<1>. HIDE DEF f
<1>5. EngineSends(f, 0, Quiet)
  BY <1>1 DEF f, RequestFrame
<1>. QED  BY <1>4, <1>5, QuietFacts, PlainFrameStep

\* The engine cancels one of its requests.
LEMMA EngineCancelsStep ==
  ASSUME SupInv, NEW a \in asks, EngineCancels(a)
  PROVE  SupInv' /\ Session!HSNext
<1>1. EngineSends(Frame("cancel", a.id), 0, Quiet) /\ Frame("cancel", a.id).k = "cancel"
  BY DEF EngineCancels, Frame
<1>. QED  BY <1>1, QuietFacts, PlainFrameStep

\* The engine reports progress, ends a subscription or logs.
LEMMA EngineNotifiesStep ==
  ASSUME SupInv, EngineNotifies
  PROVE  SupInv' /\ Session!HSNext
<1>1. CASE \E g \in got : g.tok /\ EngineSends(Frame("progress", g.id), 0, Quiet)
  <2>1. PICK g \in got : EngineSends(Frame("progress", g.id), 0, Quiet)
    BY <1>1
  <2>2. Frame("progress", g.id).k = "progress"
    BY DEF Frame
  <2>. QED  BY <2>1, <2>2, QuietFacts, PlainFrameStep
<1>2. CASE \E g \in got : /\ g.k = "request" /\ g.method = "listen"
                          /\ EngineSends(Frame("unlisten", g.id), 0, Took(g))
  <2>1. PICK g \in got : /\ g.k = "request" /\ g.method = "listen"
                         /\ EngineSends(Frame("unlisten", g.id), 0, Took(g))
    BY <1>2
  <2>. DEFINE f == Frame("unlisten", g.id)
  <2>2. f.k = "unlisten" /\ f.id = g.id
    BY DEF Frame
  <2>3. r.cur # 0 /\ Live /\ RunnerOk(r, withdrawn, got, HostSide) /\ r.toChild = {}
    BY <2>1 DEF EngineSends, Loop, SupInv
  <2>4. FromEngine(r, f, withdrawn, got \ Took(g).taken)
    <3>. HIDE DEF f
    <3>1. /\ r.modern
          /\ \A h \in got : h.k = "request" /\ h.id = g.id => h = g \/ h.id \in withdrawn
      BY <2>1, <2>3 DEF RunnerOk, GotOk, Live
    <3>2. Unheld(r, g.id, withdrawn, got \ Took(g).taken)
      BY <2>3, <3>1, TookFacts DEF Unheld
    <3>. QED  BY <2>2, <2>3, <3>1, <3>2 DEF FromEngine
  <2>. QED  BY <2>1, <2>4, TookFacts, EngineFrameStep
<1>3. CASE EngineSends(Frame("log", InitId), 0, Quiet)
  <2>2. Frame("log", InitId).k = "log"
    BY DEF Frame
  <2>. QED  BY <1>3, <2>2, QuietFacts, PlainFrameStep
<1>. QED  BY <1>1, <1>2, <1>3 DEF EngineNotifies

\* A task of the engine ends.
LEMMA EngineReportsStep ==
  ASSUME SupInv, NEW t \in DOMAIN kidTasks, EngineReports(t)
  PROVE  SupInv' /\ Session!HSNext
<1>. DEFINE f == [Frame("status", InitId) EXCEPT !.task = t, !.status = "completed"]
            after == [Quiet EXCEPT !.tasks[t] = "completed"]
<1>1. EngineSends(f, 0, after) /\ f.k = "status"
  BY DEF EngineReports, Frame
<1>2. after.attempt = attempt /\ after.tasks = [kidTasks EXCEPT ![t] = "completed"]
  BY DEF Quiet
<1>3. TasksOk([kidTasks EXCEPT ![t] = "completed"])
  BY DEF SupInv, Environment, TasksOk, Statuses
<1>. HIDE DEF f, after
<1>. QED  BY <1>1, <1>2, <1>3, PlainFrameStep

\* The engine offers to leave.
LEMMA EngineOffersStep ==
  ASSUME SupInv, EngineOffers
  PROVE  SupInv' /\ Session!HSNext
<1>. DEFINE f == [Frame("control", InitId) EXCEPT !.method = "ready"]
<1>1. EngineSends(f, 1, Quiet) /\ f.k = "control"
  BY DEF EngineOffers, Frame
<1>. HIDE DEF f
<1>. QED  BY <1>1, QuietFacts, PlainFrameStep

\* The engine agrees to leave, or not.
LEMMA EngineDecidesStep ==
  ASSUME SupInv, NEW g \in got, NEW m, EngineDecides(g, m)
  PROVE  SupInv' /\ Session!HSNext
<1>. DEFINE f == [Frame("control", InitId) EXCEPT !.method = m]
<1>1. EngineSends(f, 0, Took(g)) /\ f.k = "control"
  BY DEF EngineDecides, Frame
<1>. HIDE DEF f
<1>. QED  BY <1>1, TookFacts, PlainFrameStep
-----------------------------------------------------------------------------
(* Steps of the host and of the processes around the loop *)

\* Requests may be withdrawn, and what the host has may change.
LEMMA RewrapOk ==
  ASSUME NEW s, NEW W, NEW G, NEW A, NEW V, NEW B, RunnerOk(s, W, G, A), W \subseteq V, HoldersOk(s, B)
  PROVE  RunnerOk(s, V, G, B)
<1>1. ~s.terminal => Queue(s, V)
  BY DEF RunnerOk, Queue, HostFrameOk
<1>2. ~s.terminal => GotOk(s, V, G)
  BY DEF RunnerOk, GotOk
<1>. QED  BY <1>1, <1>2 DEF RunnerOk

\* An engine's request with the host is replaced by another under its name.
LEMMA SwapHolders ==
  ASSUME NEW s, NEW A, HoldersOk(s, A), s.toHost = {}, NEW a \in A, NEW c, c.id = a.id, c.from = a.from
  PROVE  /\ HoldersOk(s, (A \ {a}) \cup {c})
         /\ \A d \in A \ {a} : d.id # c.id
<1>. DEFINE B == (A \ {a}) \cup {c}
<1>1. \A d \in A \ {a} : d.id # c.id
  BY DEF HoldersOk
<1>2. \A d \in B : Due(s, d) /\ ~s.modern
  BY DEF HoldersOk, Due
<1>3. \A d, e \in B : d.id = e.id => d = e
  BY <1>1 DEF HoldersOk
<1>4. \A d \in B : \E e \in A : d.id = e.id
  OBVIOUS
<1>5. B \cup s.toHost = B /\ A \cup s.toHost = A
  OBVIOUS
<1>. HIDE DEF B
<1>6. HoldersOk(s, B)
  BY <1>2, <1>3, <1>4, <1>5 DEF HoldersOk
<1>. QED  BY <1>1, <1>6 DEF B

\* The runner after a frame of the host was read.
LEMMA SinceFacts ==
  ASSUME SupInv
  PROVE  LET t == [r EXCEPT !.since = TRUE]
         IN  Shape(t) /\ Steady(r, t) /\ t.host = r.host /\ t.child = r.child
<1>. DEFINE t == [r EXCEPT !.since = TRUE]
<1>1. Shape(r)
  BY DEF SupInv
<1>2. IsRunner(t) /\ Same(r, t, RunnerFields \ {"since"})
  BY <1>1 DEF Shape, IsRunner, RunnerFields, Same
<1>. HIDE DEF t
<1>3. Shape(t) /\ Steady(r, t) /\ t.host = r.host /\ t.child = r.child
  BY <1>1, <1>2 DEF Same, RunnerFields, Shape, Steady, Alike, Stays
<1>. QED  BY <1>3 DEF t

\* A frame may be marked as late.
LEMMA LateFacts ==
  ASSUME SupInv, NEW f \in FrameSet, HostReads(f)
  PROVE  /\ hostIn' \in FrameSet /\ hostIn'.k = f.k /\ hostIn'.id = f.id
         /\ hostIn'.method = f.method /\ hostIn'.from = f.from
<1>1. hostIn' = f \/ hostIn' = [f EXCEPT !.late = TRUE]
  BY DEF HostReads
<1>. QED  BY <1>1 DEF FrameSet

\* Conditions under which reading a frame keeps the invariant.
ReadOk(f) ==
  /\ f \in FrameSet /\ HostReads(f)
  /\ asks' \in SUBSET AskFrames /\ TasksOk(hostTasks')
  /\ sends' \in [Ids -> Nat] /\ carried' \in [Ids -> Nat]
  /\ withdrawn' \subseteq HostReq /\ withdrawn \subseteq withdrawn'
  /\ HoldersOk(r, HostSide')
  /\ HostFrameOk(r, f, withdrawn')
  /\ f.k = "request" => f.id \notin OnBooks(r) \cup withdrawn' /\ carried'[f.id] = 0
  /\ f.k = "initialize" => f.id = InitId /\ ~r.initReq
  /\ f.k = "response" => \A a \in asks' : a.id # f.id
  /\ \A i \in HostReq : carried'[i] <= 1
  /\ \A i \in Ids : sends[i] <= sends'[i]
  /\ \A i \in HandIds(f) : sends'[i] > answers[i]
  /\ \A i \in QueuedIds(r) : carried'[i] = 0

\* A frame read from the host keeps the invariant and enters the books.
LEMMA ReadKeeps ==
  ASSUME SupInv, NEW f, ReadOk(f)
  PROVE  /\ SupInv' /\ Live /\ Live' /\ answers' = answers
         /\ Books = OnBooks(r) /\ Books' = OnBooks(r) \cup HandIds(f)
<1>0. /\ HostReads(f) /\ f \in FrameSet /\ Live /\ hostIn = NoFrame
      /\ UNCHANGED <<attempt, got, kidTasks, answers, strayed, trouble>>
  BY DEF ReadOk, HostReads
<1>1. /\ hostIn' \in FrameSet /\ hostIn'.k = f.k /\ hostIn'.id = f.id
      /\ hostIn'.method = f.method /\ hostIn'.from = f.from
  BY <1>0, LateFacts
<1>2. /\ Shape(r') /\ Steady(r, r') /\ r'.host = r.host /\ r'.child = r.child
  BY <1>0, SinceFacts DEF HostReads
<1>3. RunnerOk(r, withdrawn, got, HostSide) /\ ~r.terminal
  BY <1>0 DEF SupInv, Live
<1>4. RunnerOk(r, withdrawn', got, HostSide')
  BY <1>3, RewrapOk DEF ReadOk
<1>5. /\ RunnerOk(r', withdrawn', got', HostSide')
      /\ QueuedIds(r') = QueuedIds(r) /\ OnBooks(r') = OnBooks(r)
  BY <1>0, <1>2, <1>4, AlikeOk DEF Steady
<1>6. /\ Stays(r, r') /\ Emptied(r') /\ r'.pending = r.pending
  BY <1>2 DEF Steady, Alike, SupInv, Emptied
<1>7. Live' /\ ~r'.lease /\ r'.live <= 1
  BY <1>0, <1>6 DEF Live, Stays, SupInv
<1>8. Environment'
  BY <1>0, <1>1 DEF Environment, SupInv, ReadOk
<1>9. HandIds(hostIn') = HandIds(f) /\ HandIds(hostIn) = {}
  BY <1>0, <1>1, NoFrameType DEF HandIds
<1>10. HandOk'
  BY <1>1, <1>5, <1>6 DEF HandOk, ReadOk, HostFrameOk, Stays
<1>11. Balance'
  <2>1. Spare(r') = Spare(r)
    BY <1>6 DEF Spare, Stays
  <2>. QED  BY <1>0, <1>6, <2>1 DEF Balance, SupInv, Stays
<1>12. r'.initReq => sends'[InitId] > 0
  <2>1. InitId \in Ids /\ sends[InitId] \in Nat /\ sends'[InitId] \in Nat /\ sends[InitId] <= sends'[InitId]
    BY DEF Ids, ReadOk, SupInv, Environment
  <2>. QED  BY <1>0, <1>6, <2>1 DEF SupInv, Stays
<1>13. \A i \in OnBooks(r') \cup HandIds(hostIn') : sends'[i] > answers'[i] \/ i \in withdrawn'
  <2>1. SUFFICES ASSUME NEW i \in OnBooks(r)
                 PROVE  sends'[i] > answers[i] \/ i \in withdrawn'
    BY <1>0, <1>5, <1>9 DEF ReadOk
  <2>2. i \in Ids /\ (sends[i] > answers[i] \/ i \in withdrawn)
    BY <1>0, BooksFacts DEF SupInv
  <2>. QED  BY <2>2 DEF ReadOk, SupInv, Environment
<1>14. \A i \in QueuedIds(r') : carried'[i] = 0
  BY <1>5 DEF ReadOk
<1>15. r'.state = "dormant" => r'.leaseT \/ hostIn' # NoFrame
  BY <1>0, <1>6 DEF SupInv, Stays
<1>16. \A i \in Ids : answers'[i] <= sends'[i] \/ i \in withdrawn'
  BY <1>0 DEF ReadOk, SupInv, Environment
<1>17. SupInv'
  <2>1. Engine(r') /\ Registers(r')
    BY <1>5 DEF RunnerOk
  <2>2. ~strayed' /\ \A i \in HostReq : carried'[i] <= 1
    BY <1>0 DEF SupInv, ReadOk
  <2>. QED  BY <1>2, <1>5, <1>6, <1>7, <1>8, <1>10, <1>11, <1>12, <1>13, <1>14, <1>15, <1>16, <2>1, <2>2
             DEF SupInv, Emptied
<1>18. Books = HandIds(hostIn) \cup OnBooks(r)
  BY BooksSplit
<1>19. Books' = HandIds(hostIn') \cup OnBooks(r')
  BY DEF Books, HandIds, OnBooks, QueuedIds, Open
<1>. QED  BY <1>0, <1>5, <1>7, <1>9, <1>17, <1>18, <1>19

\* The books, seen from outside.
LEMMA SessionVars ==
  ASSUME Live, Live'
  PROVE  /\ (IF Live THEN Books ELSE {}) = Books
         /\ (IF Live THEN Books ELSE {})' = Books'
OBVIOUS

\* A frame that is no request is nothing the session's promise is about.
LEMMA ReadQuiet ==
  ASSUME SupInv, NEW f, ReadOk(f), f.k \notin {"request", "initialize"}, withdrawn' = withdrawn
  PROVE  SupInv' /\ UNCHANGED Session!hostSessionVars
<1>1. /\ SupInv' /\ Live /\ Live' /\ answers' = answers /\ Books = OnBooks(r)
      /\ Books' = OnBooks(r) \cup HandIds(f)
  BY ReadKeeps
<1>2. Books' = Books
  BY <1>1 DEF HandIds
<1>. QED  BY <1>1, <1>2 DEF Session!hostSessionVars

\* A request read from the host is a new promise.
LEMMA ReadAsks ==
  ASSUME SupInv, NEW f, ReadOk(f), f.k \in {"request", "initialize"}, withdrawn' = withdrawn,
         f.id \in Ids, f.id \notin OnBooks(r) \cup withdrawn
  PROVE  SupInv' /\ Session!HSNext
<1>1. /\ SupInv' /\ Live /\ Live' /\ answers' = answers /\ Books = OnBooks(r)
      /\ Books' = OnBooks(r) \cup HandIds(f)
  BY ReadKeeps
<1>2. Books' = Books \cup {f.id}
  BY <1>1 DEF HandIds
<1>3. Session!Ask(f.id)
  BY <1>1, <1>2 DEF Session!Ask
<1>. QED  BY <1>1, <1>3 DEF Session!HSNext

\* What the host keeps while it sends something.
LEMMA HostKeeps ==
  ASSUME SupInv, Live, hostIn = NoFrame
  PROVE  /\ asks \in SUBSET AskFrames /\ TasksOk(hostTasks) /\ HostSide = asks
         /\ sends \in [Ids -> Nat] /\ carried \in [Ids -> Nat] /\ answers \in [Ids -> Nat]
         /\ withdrawn \subseteq HostReq /\ HoldersOk(r, asks) /\ r.toHost = {}
         /\ \A i \in HostReq : carried[i] <= 1
         /\ \A i \in QueuedIds(r) : carried[i] = 0
         /\ \A i \in Ids : sends[i] <= sends[i]
<1>1. HostSide = asks
  BY NoFrameType DEF HostSide
<1>2. HoldersOk(r, asks)
  BY <1>1 DEF SupInv, RunnerOk, Live
<1>. QED  BY <1>1, <1>2 DEF SupInv, Environment

\* The holders after a frame that is no answer.
LEMMA NoAnswer ==
  ASSUME SupInv, NEW f \in FrameSet, HostReads(f), f.k # "response"
  PROVE  HostSide' = asks'
BY LateFacts DEF HostSide

\* The host cancels a request.
LEMMA HostCancelsStep ==
  ASSUME SupInv, NEW i \in HostReq, HostCancels(i)
  PROVE  SupInv' /\ Session!HSNext
<1>. DEFINE f == Frame("cancel", i)
<1>1. /\ HostReads(f) /\ Live /\ hostIn = NoFrame /\ withdrawn' = withdrawn \cup {i}
      /\ UNCHANGED <<asks, hostTasks, sends, carried>>
  BY DEF HostCancels, HostReads
<1>2. f \in FrameSet /\ f.k = "cancel" /\ f.id = i /\ f.method = "plain"
  <2>1. "cancel" \in Kinds /\ i \in Ids \cup ChildReq
    BY DEF Kinds, Ids
  <2>. QED  BY <2>1, FrameFacts
<1>. HIDE DEF f
<1>3. HostSide' = asks
  BY <1>1, <1>2, NoAnswer
<1>4. ReadOk(f)
  <2>1. HostFrameOk(r, f, withdrawn')
    BY <1>1, <1>2 DEF HostFrameOk
  <2>2. HandIds(f) = {}
    BY <1>2 DEF HandIds
  <2>. QED  BY <1>1, <1>2, <1>3, <2>1, <2>2, HostKeeps DEF ReadOk
<1>5. /\ SupInv' /\ Live /\ Live' /\ answers' = answers /\ Books = OnBooks(r)
      /\ Books' = OnBooks(r) \cup HandIds(f)
  BY <1>4, ReadKeeps
<1>6. Books' = Books
  BY <1>2, <1>5 DEF HandIds
<1>7. Session!Withdraw(i)
  BY <1>1, <1>5, <1>6 DEF Session!Withdraw
<1>. QED  BY <1>5, <1>7 DEF Session!HSNext, Ids

\* The host sends a request.
LEMMA HostRequestsStep ==
  ASSUME SupInv, NEW i \in HostReq, NEW m \in HostMethod[i], HostRequests(i, m)
  PROVE  SupInv' /\ Session!HSNext
<1>1. PICK t \in IF m \in {"tasks/get", "tasks/result", "tasks/cancel"}
                 THEN DOMAIN kidTasks ELSE {NoTask} :
        HostReads([Frame("request", i) EXCEPT !.method = m, !.task = t,
                    !.aug = m = "task", !.tok = m \in {"plain", "task"}])
  BY DEF HostRequests
<1>. DEFINE f == RequestFrame("request", i, m, t)
<1>2. t \in Task \cup {NoTask}
  BY <1>1 DEF SupInv, Environment, TasksOk
<1>3. f \in FrameSet /\ f.k = "request" /\ f.id = i /\ f.method = m
  <2>1. m \in Methods
    BY MethodsHave
  <2>2. "request" \in Kinds
    BY DEF Kinds
  <2>3. i \in Ids \cup ChildReq
    BY DEF Ids
  <2>. QED  BY <1>2, <2>1, <2>2, <2>3, RequestFrameOk
<1>4. HostReads(f)
  BY <1>1 DEF RequestFrame
<1>. HIDE DEF f
<1>5. /\ Live /\ hostIn = NoFrame /\ withdrawn' = withdrawn /\ i \notin withdrawn
      /\ UNCHANGED <<asks, hostTasks>> /\ sends[i] = answers[i] /\ (m = "listen" => r.modern)
      /\ sends' = [sends EXCEPT ![i] = @ + 1] /\ carried' = [carried EXCEPT ![i] = 0]
  BY <1>4 DEF HostRequests, HostReads
<1>6. HostSide' = asks
  BY <1>3, <1>4, <1>5, NoAnswer
<1>7. i \in Ids /\ sends[i] \in Nat
  BY DEF Ids, SupInv, Environment
<1>8. i \notin OnBooks(r)
  BY <1>5, <1>7 DEF SupInv, Environment
<1>9. ReadOk(f)
  <2>1. HostFrameOk(r, f, withdrawn')
    BY <1>3, <1>5 DEF HostFrameOk
  <2>2. HandIds(f) = {i}
    BY <1>3 DEF HandIds
  <2>3. sends' \in [Ids -> Nat] /\ carried' \in [Ids -> Nat]
    BY <1>5, <1>7, HostKeeps
  <2>4. /\ \A j \in HostReq : carried'[j] <= 1
        /\ \A j \in QueuedIds(r) : carried'[j] = 0
        /\ \A j \in Ids : sends[j] <= sends'[j]
        /\ carried'[i] = 0 /\ sends'[i] > answers[i]
    <3>1. QueuedIds(r) \subseteq Ids
      BY <1>5, BooksFacts
    <3>. QED  BY <1>5, <1>7, <3>1, HostKeeps DEF Ids
  <2>. QED  BY <1>3, <1>4, <1>5, <1>6, <1>8, <2>1, <2>2, <2>3, <2>4, HostKeeps DEF ReadOk
<1>. QED  BY <1>3, <1>5, <1>7, <1>8, <1>9, ReadAsks

\* The host starts the handshake, or ends it.
LEMMA HostInitializesStep ==
  ASSUME SupInv, HostInitializes
  PROVE  SupInv' /\ (Session!HSNext \/ UNCHANGED Session!hostSessionVars)
<1>1. /\ ~r.modern /\ UNCHANGED <<asks, hostTasks, withdrawn, carried>>
      /\ InitId \in Ids /\ InitId \notin HostReq /\ sends[InitId] \in Nat /\ answers[InitId] \in Nat
  BY SupervisorAssumption DEF HostInitializes, Ids, SupInv, Environment
<1>2. CASE /\ sends[InitId] = 0 /\ HostReads(Frame("initialize", InitId))
           /\ sends' = [sends EXCEPT ![InitId] = 1]
  <2>. DEFINE f == Frame("initialize", InitId)
  <2>1. f \in FrameSet /\ f.k = "initialize" /\ f.id = InitId /\ f.method = "plain"
    <3>1. "initialize" \in Kinds /\ InitId \in Ids \cup ChildReq
      BY DEF Kinds, Ids
    <3>. QED  BY <3>1, FrameFacts
  <2>2. HostReads(f) /\ Live /\ hostIn = NoFrame
    BY <1>2 DEF HostReads
  <2>. HIDE DEF f
  <2>3. HostSide' = asks
    BY <1>1, <2>1, <2>2, NoAnswer
  <2>4. ~r.initReq /\ answers[InitId] = 0 /\ InitId \notin withdrawn
    BY <1>1, <1>2, <2>2, HostKeeps DEF SupInv
  <2>5. InitId \notin OnBooks(r)
    BY <1>1, <1>2, <2>2, <2>4 DEF SupInv
  <2>6. ReadOk(f)
    <3>1. HostFrameOk(r, f, withdrawn')
      BY <1>1, <2>1 DEF HostFrameOk
    <3>2. HandIds(f) = {InitId}
      BY <2>1 DEF HandIds
    <3>3. sends' \in [Ids -> Nat] /\ sends'[InitId] = 1 /\ \A j \in Ids : sends[j] <= sends'[j]
      BY <1>1, <1>2, <2>2, HostKeeps
    <3>. QED  BY <1>1, <2>1, <2>2, <2>3, <2>4, <3>1, <3>2, <3>3, HostKeeps DEF ReadOk
  <2>. QED  BY <1>1, <2>1, <2>4, <2>5, <2>6, ReadAsks
<1>3. CASE HostReads(Frame("initialized", InitId)) /\ UNCHANGED sends
  <2>. DEFINE f == Frame("initialized", InitId)
  <2>1. f \in FrameSet /\ f.k = "initialized" /\ f.id = InitId /\ f.method = "plain"
    <3>1. "initialized" \in Kinds /\ InitId \in Ids \cup ChildReq
      BY DEF Kinds, Ids
    <3>. QED  BY <3>1, FrameFacts
  <2>2. HostReads(f) /\ Live /\ hostIn = NoFrame
    BY <1>3 DEF HostReads
  <2>. HIDE DEF f
  <2>3. HostSide' = asks
    BY <1>1, <2>1, <2>2, NoAnswer
  <2>6. ReadOk(f)
    <3>1. HostFrameOk(r, f, withdrawn')
      BY <1>1, <2>1 DEF HostFrameOk
    <3>2. HandIds(f) = {}
      BY <2>1 DEF HandIds
    <3>. QED  BY <1>1, <1>3, <2>1, <2>2, <2>3, <3>1, <3>2, HostKeeps DEF ReadOk
  <2>. QED  BY <1>1, <2>1, <2>6, ReadQuiet
<1>. QED  BY <1>2, <1>3 DEF HostInitializes

\* The host answers a request of an engine.
LEMMA HostRespondsStep ==
  ASSUME SupInv, NEW a \in asks, NEW reply \in Replies(a, hostTasks), HostResponds(a, reply)
  PROVE  SupInv' /\ UNCHANGED Session!hostSessionVars
<1>. DEFINE f == [Frame("response", a.id) EXCEPT !.kind = reply.kind, !.task = reply.task,
                    !.status = reply.status, !.from = a.from]
<1>1. /\ HostReads(f) /\ Live /\ hostIn = NoFrame /\ asks' = asks \ {a}
      /\ hostTasks' = TasksAfter(hostTasks, reply) /\ UNCHANGED <<sends, withdrawn, carried>>
  BY DEF HostResponds, HostReads
<1>2. /\ asks \in SUBSET AskFrames /\ TasksOk(hostTasks) /\ HoldersOk(r, asks) /\ r.toHost = {}
  BY <1>1, HostKeeps
<1>3. /\ reply.kind \in {"result", "error"} /\ reply.status \in Statuses
      /\ reply.task \in Task \cup {NoTask} /\ TasksOk(TasksAfter(hostTasks, reply))
  BY <1>2, RepliesOk
<1>4. a \in FrameSet /\ a.from \in Nat /\ a.id \in Ids \cup ChildReq
  BY <1>2 DEF AskFrames, FrameSet
<1>5. /\ f \in FrameSet /\ f.k = "response" /\ f.id = a.id /\ f.method = "plain" /\ f.from = a.from
  <2>1. "response" \in Kinds
    BY DEF Kinds
  <2>2. /\ Frame("response", a.id) \in FrameSet /\ Frame("response", a.id).k = "response"
        /\ Frame("response", a.id).id = a.id /\ Frame("response", a.id).method = "plain"
    BY <1>4, <2>1, FrameFacts, ZenonT(40)
  <2>. QED  BY <1>3, <1>4, <2>2 DEF FrameSet
<1>. HIDE DEF f
<1>6. HostSide' = (asks \ {a}) \cup {hostIn'} /\ hostIn'.id = a.id /\ hostIn'.from = a.from
  BY <1>1, <1>5, LateFacts DEF HostSide
<1>7. HoldersOk(r, HostSide') /\ \A d \in asks \ {a} : d.id # a.id
  BY <1>2, <1>6, SwapHolders
<1>8. ReadOk(f)
  <2>1. HostFrameOk(r, f, withdrawn')
    BY <1>5 DEF HostFrameOk
  <2>2. HandIds(f) = {}
    BY <1>5 DEF HandIds
  <2>. QED  BY <1>1, <1>2, <1>3, <1>5, <1>7, <2>1, <2>2, HostKeeps DEF ReadOk
<1>. QED  BY <1>1, <1>5, <1>8, ReadQuiet

\* A task of the host ends.
LEMMA HostReportsStep ==
  ASSUME SupInv, NEW t \in DOMAIN hostTasks, HostReports(t)
  PROVE  SupInv' /\ UNCHANGED Session!hostSessionVars
<1>. DEFINE f == [Frame("status", InitId) EXCEPT !.task = t, !.status = "completed"]
<1>1. /\ HostReads(f) /\ Live /\ hostIn = NoFrame
      /\ hostTasks' = [hostTasks EXCEPT ![t] = "completed"]
      /\ UNCHANGED <<asks, sends, withdrawn, carried>>
  BY DEF HostReports, HostReads
<1>2. /\ TasksOk(hostTasks) /\ t \in Task /\ "completed" \in Statuses
  BY <1>1, HostKeeps DEF TasksOk, Statuses
<1>3. TasksOk(hostTasks')
  BY <1>1, <1>2 DEF TasksOk
<1>4. f \in FrameSet /\ f.k = "status" /\ f.method = "plain"
  <2>1. "status" \in Kinds /\ InitId \in Ids \cup ChildReq
    BY DEF Kinds, Ids
  <2>2. /\ Frame("status", InitId) \in FrameSet /\ Frame("status", InitId).k = "status"
        /\ Frame("status", InitId).method = "plain"
    BY <2>1, FrameFacts
  <2>. QED  BY <1>2, <2>2 DEF FrameSet
<1>. HIDE DEF f
<1>5. HostSide' = asks
  BY <1>1, <1>4, NoAnswer
<1>6. ReadOk(f)
  <2>1. HostFrameOk(r, f, withdrawn')
    BY <1>4 DEF HostFrameOk
  <2>2. HandIds(f) = {}
    BY <1>4 DEF HandIds
  <2>. QED  BY <1>1, <1>3, <1>4, <1>5, <2>1, <2>2, HostKeeps DEF ReadOk
<1>. QED  BY <1>1, <1>4, <1>6, ReadQuiet

\* The host reports progress.
LEMMA HostProgressesStep ==
  ASSUME SupInv, NEW a \in asks, HostProgresses(a)
  PROVE  SupInv' /\ UNCHANGED Session!hostSessionVars
<1>. DEFINE f == Frame("progress", a.id)
            c == [a EXCEPT !.tok = FALSE]
<1>1. /\ HostReads(f) /\ Live /\ hostIn = NoFrame /\ asks' = (asks \ {a}) \cup {c}
      /\ UNCHANGED <<hostTasks, sends, withdrawn, carried>>
  BY DEF HostProgresses, HostReads
<1>2. /\ asks \in SUBSET AskFrames /\ HoldersOk(r, asks) /\ r.toHost = {}
  BY <1>1, HostKeeps
<1>3. c \in AskFrames /\ c.id = a.id /\ c.from = a.from /\ a.id \in Ids \cup ChildReq
  BY <1>2 DEF AskFrames, FrameSet
<1>4. f \in FrameSet /\ f.k = "progress" /\ f.method = "plain"
  <2>1. "progress" \in Kinds
    BY DEF Kinds
  <2>. QED  BY <1>3, <2>1, FrameFacts
<1>. HIDE DEF f, c
<1>5. HostSide' = (asks \ {a}) \cup {c}
  BY <1>1, <1>4, NoAnswer
<1>6. HoldersOk(r, HostSide') /\ asks' \in SUBSET AskFrames
  BY <1>1, <1>2, <1>3, <1>5, SwapHolders
<1>7. ReadOk(f)
  <2>1. HostFrameOk(r, f, withdrawn')
    BY <1>4 DEF HostFrameOk
  <2>2. HandIds(f) = {}
    BY <1>4 DEF HandIds
  <2>. QED  BY <1>1, <1>4, <1>6, <2>1, <2>2, HostKeeps DEF ReadOk
<1>. QED  BY <1>1, <1>4, <1>7, ReadQuiet

\* A step around the loop: the books are as they were.
AroundOk ==
  /\ Live /\ UNCHANGED <<hostIn, got, kidTasks, asks, hostTasks, sends, answers, withdrawn,
                         carried, strayed>>
  /\ Shape(r') /\ Based(r, r') /\ r'.gen = r.gen /\ r'.cur = r.cur /\ r'.starting = r.starting
  /\ r'.host = r.host /\ r'.child = r.child
  /\ r'.cur = 0 => r'.exit = "no"
  /\ r'.live <= 1
  /\ attempt' \in {"none", "running"} \cup Outcome

\* A step around the runner that leaves what it owes alone.
LEMMA AroundKeeps ==
  ASSUME SupInv, AroundOk, Balance'
  PROVE  SupInv' /\ UNCHANGED Session!hostSessionVars
<1>1. /\ Live /\ Shape(r') /\ RunnerOk(r, withdrawn, got, HostSide) /\ ~r.terminal /\ Emptied(r)
      /\ Shape(r)
  BY DEF AroundOk, SupInv, Live, Emptied
<1>2. /\ r'.state = r.state /\ r'.modern = r.modern /\ r'.gen = r.gen /\ r'.cur = r.cur
      /\ r'.starting = r.starting /\ r'.leaseT = r.leaseT /\ r'.initReq = r.initReq
      /\ r'.awaiting = r.awaiting /\ r'.initialized = r.initialized
      /\ r'.terminal = r.terminal /\ r'.lease = r.lease /\ r'.pending = r.pending
      /\ r'.host = r.host /\ r'.child = r.child /\ r'.told = r.told /\ r'.wrote = r.wrote
      /\ r'.toHost = r.toHost /\ r'.toChild = r.toChild
  BY DEF AroundOk, Based
<1>3. Engine(r') /\ Registers(r')
  BY <1>1, <1>2 DEF AroundOk, RunnerOk, Engine, Registers, Open
<1>4. QueuedIds(r') = QueuedIds(r) /\ Open(r') = Open(r) /\ OnBooks(r') = OnBooks(r)
  BY <1>2 DEF QueuedIds, Open, OnBooks
<1>5. HostSide' = HostSide /\ withdrawn' = withdrawn /\ got' = got /\ hostIn' = hostIn
  BY DEF AroundOk, HostSide
<1>6. Queue(r', withdrawn) /\ Lifecycle(r')
  BY <1>1, <1>2, <1>4 DEF RunnerOk, Queue, HostFrameOk, Lifecycle
<1>7. GotOk(r', withdrawn, got) /\ HoldersOk(r', HostSide)
  BY <1>1, <1>2, <1>4 DEF RunnerOk, GotOk, HoldersOk, Due
<1>8. RunnerOk(r', withdrawn', got', HostSide')
  BY <1>1, <1>3, <1>5, <1>6, <1>7 DEF RunnerOk
<1>9. Environment'
  BY DEF Environment, SupInv, AroundOk
<1>10. HandOk'
  <2>1. HandOk
    BY <1>1 DEF SupInv
  <2>. QED  BY <1>2, <1>4, <1>5, <2>1 DEF HandOk, HostFrameOk, AroundOk
<1>11. Live' /\ ~r'.lease
  BY <1>1, <1>2 DEF Live, SupInv
<1>12. /\ r'.initReq => sends'[InitId] > 0
       /\ \A i \in OnBooks(r') \cup HandIds(hostIn') : sends'[i] > answers'[i] \/ i \in withdrawn'
       /\ \A i \in QueuedIds(r') : carried'[i] = 0
       /\ r'.state = "dormant" => r'.leaseT \/ hostIn' # NoFrame
  BY <1>1, <1>2, <1>4, <1>5 DEF SupInv, AroundOk
<1>13. SupInv'
  <2>1. Emptied(r')
    BY <1>1, <1>2 DEF Emptied
  <2>2. /\ ~strayed' /\ \A i \in HostReq : carried'[i] <= 1
        /\ \A i \in Ids : answers'[i] <= sends'[i] \/ i \in withdrawn'
    BY DEF SupInv, AroundOk
  <2>3. r'.live <= 1
    BY DEF AroundOk
  <2>. QED  BY <1>1, <1>3, <1>8, <1>9, <1>10, <1>11, <1>12, <2>1, <2>2, <2>3 DEF SupInv, Emptied
<1>14. Books' = HandIds(hostIn') \cup OnBooks(r')
  BY DEF Books, HandIds, OnBooks, QueuedIds, Open
<1>15. Books' = Books
  BY <1>4, <1>5, <1>14, BooksSplit
<1>16. answers' = answers
  BY DEF AroundOk
<1>. QED  BY <1>1, <1>5, <1>11, <1>13, <1>15, <1>16 DEF Session!hostSessionVars

\* Only the fields of F differ.
LEMMA AroundMark ==
  ASSUME SupInv, Live, IsRunner(r'),
         Same(r, r', RunnerFields \ {"output", "evOutput", "leasePassed", "resolving", "exit",
                                     "evExit", "live"}),
         r'.live \in Int, r'.live <= 1, r'.cur = 0 => r'.exit = "no",
         UNCHANGED <<hostIn, got, kidTasks, asks, hostTasks, sends, answers, withdrawn,
                     carried, strayed>>,
         attempt' \in {"none", "running"} \cup Outcome
  PROVE  AroundOk
<1>0. Shape(r)
  BY DEF SupInv
<1>1. /\ r'.state = r.state /\ r'.modern = r.modern /\ r'.gen = r.gen /\ r'.cur = r.cur
      /\ r'.starting = r.starting /\ r'.leaseT = r.leaseT /\ r'.initReq = r.initReq
      /\ r'.awaiting = r.awaiting /\ r'.initialized = r.initialized
      /\ r'.terminal = r.terminal /\ r'.lease = r.lease /\ r'.pending = r.pending
      /\ r'.host = r.host /\ r'.child = r.child /\ r'.told = r.told /\ r'.wrote = r.wrote
      /\ r'.toHost = r.toHost /\ r'.toChild = r.toChild /\ r'.fate = r.fate
  BY DEF Same, RunnerFields
<1>2. Shape(r')
  BY <1>0, <1>1 DEF Shape
<1>3. Based(r, r')
  BY <1>1 DEF Based, Open
<1>. QED  BY <1>1, <1>2, <1>3 DEF AroundOk

\* What the invariant says of the runner's engine.
LEMMA RunnerFacts ==
  ASSUME SupInv
  PROVE  /\ IsRunner(r) /\ r.live \in Int /\ r.live <= 1 /\ (r.cur = 0 => r.exit = "no")
         /\ (Live => Balance) /\ attempt \in {"none", "running"} \cup Outcome
         /\ (r.starting => r.cur = 0)
BY DEF SupInv, Shape, Engine, Environment

\* The output of the engine ends.
LEMMA OutputEndsStep ==
  ASSUME SupInv, NEW how, OutputEnds(how)
  PROVE  SupInv' /\ UNCHANGED Session!hostSessionVars
<1>1. r' = [r EXCEPT !.output = how, !.evOutput = TRUE] /\ Live /\ EnvKeeps
  BY DEF OutputEnds
<1>2. IsRunner(r') /\ Same(r, r', RunnerFields \ {"output", "evOutput"})
  BY <1>1, RunnerFacts DEF IsRunner, RunnerFields, Same
<1>3. r'.live = r.live /\ r'.cur = r.cur /\ r'.exit = r.exit /\ r'.starting = r.starting
  BY <1>2 DEF Same, RunnerFields
<1>4. AroundOk
  BY <1>1, <1>2, <1>3, RunnerFacts, AroundMark DEF Same, EnvKeeps
<1>5. Balance'
  BY <1>1, <1>3, RunnerFacts DEF Balance, Spare, EnvKeeps
<1>. QED  BY <1>4, <1>5, AroundKeeps

\* The deadline of the dormant lease passes.
LEMMA DeadlinePassesStep ==
  ASSUME SupInv, DeadlinePasses
  PROVE  SupInv' /\ UNCHANGED Session!hostSessionVars
<1>1. r' = [r EXCEPT !.leasePassed = TRUE] /\ Live /\ EnvKeeps
  BY DEF DeadlinePasses
<1>2. IsRunner(r') /\ Same(r, r', RunnerFields \ {"leasePassed"})
  BY <1>1, RunnerFacts DEF IsRunner, RunnerFields, Same
<1>3. r'.live = r.live /\ r'.cur = r.cur /\ r'.exit = r.exit /\ r'.starting = r.starting
  BY <1>2 DEF Same, RunnerFields
<1>4. AroundOk
  BY <1>1, <1>2, <1>3, RunnerFacts, AroundMark DEF Same, EnvKeeps
<1>5. Balance'
  BY <1>1, <1>3, RunnerFacts DEF Balance, Spare, EnvKeeps
<1>. QED  BY <1>4, <1>5, AroundKeeps

\* The engine to run is looked up again.
LEMMA BeginResolveStep ==
  ASSUME SupInv, beginResolve
  PROVE  SupInv' /\ UNCHANGED Session!hostSessionVars
<1>1. r' = [r EXCEPT !.resolving = TRUE] /\ Live /\ EnvKeeps
  BY DEF beginResolve
<1>2. IsRunner(r') /\ Same(r, r', RunnerFields \ {"resolving"})
  BY <1>1, RunnerFacts DEF IsRunner, RunnerFields, Same
<1>3. r'.live = r.live /\ r'.cur = r.cur /\ r'.exit = r.exit /\ r'.starting = r.starting
  BY <1>2 DEF Same, RunnerFields
<1>4. AroundOk
  BY <1>1, <1>2, <1>3, RunnerFacts, AroundMark DEF Same, EnvKeeps
<1>5. Balance'
  BY <1>1, <1>3, RunnerFacts DEF Balance, Spare, EnvKeeps
<1>. QED  BY <1>4, <1>5, AroundKeeps

\* The engine's process ends; what it leaves is still counted.
LEMMA EngineExitsStep ==
  ASSUME SupInv, NEW how \in {"crash", "dormant", "unproven"}, EngineExits(how)
  PROVE  SupInv' /\ UNCHANGED Session!hostSessionVars
<1>1. /\ r' = [r EXCEPT !.exit = how, !.evExit = TRUE,
                        !.live = IF how = "unproven" THEN @ ELSE @ - 1]
      /\ Live /\ EnvKeeps /\ r.cur # 0 /\ r.exit = "no"
  BY DEF EngineExits
<1>2. /\ IsRunner(r') /\ Same(r, r', RunnerFields \ {"exit", "evExit", "live"})
      /\ r'.exit = how /\ r'.live = IF how = "unproven" THEN r.live ELSE r.live - 1
  BY <1>1, RunnerFacts, ZenonT(40) DEF IsRunner, RunnerFields, Same
<1>3. r'.cur = r.cur /\ r'.starting = r.starting
  BY <1>2 DEF Same, RunnerFields
<1>4. r'.live \in Int /\ r'.live <= 1
  BY <1>2, RunnerFacts
<1>5. AroundOk
  BY <1>1, <1>2, <1>3, <1>4, RunnerFacts, AroundMark DEF Same, EnvKeeps
<1>6. Spare(r') = Spare(r)
  BY <1>1, <1>2, <1>3, RunnerFacts DEF Spare
<1>7. Balance'
  BY <1>1, <1>3, <1>6, RunnerFacts DEF Balance, EnvKeeps
<1>. QED  BY <1>5, <1>7, AroundKeeps

\* A start attempt has an outcome.
LEMMA StartRunsStep ==
  ASSUME SupInv, NEW first \in Outcome, NEW second \in Outcome, StartRuns(first, second)
  PROVE  SupInv' /\ UNCHANGED Session!hostSessionVars
<1>1. /\ r' = [r EXCEPT !.live = @ + Spawned(first, second)] /\ Live /\ attempt = "running"
      /\ attempt' = StartWithFallback(first, second)
      /\ UNCHANGED <<hostIn, got, kidTasks, asks, hostTasks, sends, answers, withdrawn,
                     carried, strayed>>
  BY DEF StartRuns
<1>2. /\ Spawned(first, second) = IF attempt' = "failed" THEN 0 ELSE 1
      /\ attempt' \in Outcome
  BY <1>1 DEF Spawned, StartWithFallback, Outcome
<1>3. r.starting /\ r.cur = 0 /\ r.live = 0
  BY <1>1, RunnerFacts DEF Balance, Spare
<1>4. /\ IsRunner(r') /\ Same(r, r', RunnerFields \ {"live"})
      /\ r'.live = r.live + Spawned(first, second)
  BY <1>1, RunnerFacts DEF IsRunner, RunnerFields, Same
<1>5. r'.cur = r.cur /\ r'.starting = r.starting /\ r'.exit = r.exit
  BY <1>4 DEF Same, RunnerFields
<1>6. r'.live = (IF attempt' = "failed" THEN 0 ELSE 1) /\ r'.live \in Int /\ r'.live <= 1
  BY <1>2, <1>3, <1>4
<1>7. AroundOk
  BY <1>1, <1>2, <1>4, <1>5, <1>6, RunnerFacts, AroundMark DEF Same
<1>8. Balance'
  BY <1>2, <1>3, <1>5, <1>6 DEF Balance, Spare, Outcome
<1>. QED  BY <1>7, <1>8, AroundKeeps

\* After the end of the session only the engines and the runner's end matter.
LEMMA EndedKeeps ==
  ASSUME SupInv, ~Live, r'.terminal, Shape(r'), Engine(r'), Emptied(r'), r'.live <= 1,
         r'.state # "terminal" => Registers(r'), r'.lease = r.lease,
         attempt' \in {"none", "running"} \cup Outcome,
         UNCHANGED <<hostIn, got, kidTasks, asks, hostTasks, sends, answers, withdrawn,
                     carried, strayed>>
  PROVE  SupInv' /\ UNCHANGED Session!hostSessionVars
<1>1. Environment'
  BY DEF SupInv, Environment
<1>2. ~Live'
  BY DEF Live
<1>3. SupInv'
  BY <1>1, <1>2 DEF SupInv, Emptied
<1>. QED  BY <1>2, <1>3 DEF Session!hostSessionVars

\* The start attempt of a session that has ended cleans up.
LEMMA StartAbandonedStep ==
  ASSUME SupInv, StartAbandoned
  PROVE  SupInv' /\ UNCHANGED Session!hostSessionVars
<1>. DEFINE v == IF attempt \in {"ok", "retained"} THEN r.live - 1 ELSE r.live
<1>1. /\ ~Live /\ attempt' = "none" /\ r' = [r EXCEPT !.live = v]
      /\ UNCHANGED <<hostIn, got, kidTasks, asks, hostTasks, sends, answers, withdrawn,
                     carried, strayed>>
  BY DEF StartAbandoned
<1>2. v \in Int /\ v <= 1
  BY RunnerFacts
<1>. HIDE DEF v
<1>3. IsRunner(r') /\ Same(r, r', RunnerFields \ {"live"}) /\ r'.live = v
  BY <1>1, RunnerFacts DEF IsRunner, RunnerFields, Same
<1>4. /\ r'.state = r.state /\ r'.modern = r.modern /\ r'.gen = r.gen /\ r'.cur = r.cur
      /\ r'.starting = r.starting /\ r'.exit = r.exit
      /\ r'.terminal = r.terminal /\ r'.lease = r.lease /\ r'.pending = r.pending
      /\ r'.host = r.host /\ r'.child = r.child /\ r'.told = r.told /\ r'.wrote = r.wrote
      /\ r'.toHost = r.toHost /\ r'.toChild = r.toChild /\ r'.fate = r.fate
  BY <1>3 DEF Same, RunnerFields
<1>5. Shape(r') /\ Engine(r') /\ Emptied(r') /\ (r'.state # "terminal" => Registers(r')) /\ r'.terminal
  BY <1>1, <1>2, <1>3, <1>4 DEF SupInv, Shape, Engine, Emptied, Registers, Open, Live
<1>. QED  BY <1>1, <1>2, <1>3, <1>4, <1>5, EndedKeeps

\* What an engine leaves behind is retired at the end.
LEMMA FinalizeFacts ==
  ASSUME NEW s, IsRunner(s), s.live \in Int, s.gen \in Nat, s.cur \in {0, s.gen}, s.cur = 0 => s.exit = "no",
         s.terminal
  PROVE  LET t == finalizeCurrent(s)
         IN  /\ IsRunner(t) /\ Same(s, t, RunnerFields \ {"cur", "exit", "output", "evExit", "evOutput",
                                                        "live", "terminal"})
             /\ t.live \in Int /\ t.live <= s.live /\ t.cur \in {0, s.gen}
             /\ t.cur = 0 => t.exit = "no"
             /\ t.terminal
<1>. DEFINE t == finalizeCurrent(s)
            x == [s EXCEPT !.cur = 0, !.exit = "no", !.output = "open", !.evExit = FALSE,
                           !.evOutput = FALSE, !.live = IF s.exit = "no" THEN s.live - 1 ELSE s.live]
<1>1. CASE s.cur = 0
  <2>1. t = s
    BY <1>1 DEF finalizeCurrent
  <2>. QED  BY <1>1, <2>1 DEF Same
<1>2. CASE s.cur # 0 /\ (s.exit = "unproven" \/ ~s.fate.proof)
  <2>1. t = terminate(s)
    BY <1>2 DEF finalizeCurrent
  <2>2. /\ IsRunner(terminate(s)) /\ Same(s, terminate(s), RunnerFields \ {"terminal"})
        /\ terminate(s).terminal /\ terminate(s).live = s.live /\ terminate(s).cur = s.cur
    BY DEF terminate, IsRunner, RunnerFields, Same
  <2>. QED  BY <1>2, <2>1, <2>2 DEF Same
<1>3. CASE s.cur # 0 /\ ~(s.exit = "unproven" \/ ~s.fate.proof)
  <2>1. t = x
    BY <1>3 DEF finalizeCurrent
  <2>2. /\ IsRunner(x) /\ Same(s, x, RunnerFields \ {"cur", "exit", "output", "evExit", "evOutput", "live"})
        /\ x.cur = 0 /\ x.exit = "no" /\ x.terminal = s.terminal
        /\ x.live = IF s.exit = "no" THEN s.live - 1 ELSE s.live
    BY ZenonT(40) DEF IsRunner, RunnerFields, Same
  <2>. HIDE DEF x, t
  <2>. QED  BY <2>1, <2>2 DEF Same, t
<1>. QED  BY <1>1, <1>2, <1>3

\* The end of the loop.
LEMMA ShutdownStep ==
  ASSUME SupInv, Shutdown
  PROVE  SupInv' /\ UNCHANGED Session!hostSessionVars
<1>. DEFINE a == IF r.cur = 0 THEN r
                 ELSE [r EXCEPT !.host = retireGenerationChecked(r.host, r.cur),
                                !.child = retireGenerationChecked(r.child, r.cur)]
            b == finalizeCurrent(a)
            u == [b EXCEPT !.state = "terminal", !.pending = <<>>, !.starting = FALSE,
                           !.retryT = FALSE, !.replayT = FALSE, !.exitT = FALSE,
                           !.drainT = FALSE, !.leaseT = FALSE, !.resolving = FALSE,
                           !.host.err = r.host.err, !.child.err = r.child.err]
<1>1. ~Live /\ EnvKeeps /\ r' = u
  BY DEF Shutdown, shutdown
<1>2. Shape(r) /\ Engine(r) /\ Emptied(r) /\ r.terminal /\ r.live <= 1
  BY <1>1 DEF SupInv, Emptied, Live
<1>3. /\ IsRunner(a) /\ Same(r, a, RunnerFields \ {"host", "child"})
      /\ IsRegistry(a.host) /\ IsRegistry(a.child)
  <2>1. IsRegistry(r.host) /\ IsRegistry(r.child) /\ IsRunner(r)
    BY <1>2 DEF Shape
  <2>2. CASE r.cur = 0
    BY <2>1, <2>2 DEF Same
  <2>3. CASE r.cur # 0
    <3>. DEFINE g == retireGenerationChecked(r.host, r.cur)
                h == retireGenerationChecked(r.child, r.cur)
                e == [r EXCEPT !.host = g, !.child = h]
    <3>1. IsRegistry(g) /\ IsRegistry(h)
      BY <2>1, RetireGenerationFacts
    <3>2. a = e
      BY <2>3
    <3>. HIDE DEF g, h, a
    <3>3. /\ IsRunner(e) /\ Same(r, e, RunnerFields \ {"host", "child"}) /\ e.host = g /\ e.child = h
      BY <2>1 DEF IsRunner, RunnerFields, Same
    <3>. HIDE DEF e
    <3>. QED  BY <3>1, <3>2, <3>3
  <2>. HIDE DEF a
  <2>. QED  BY <2>2, <2>3
<1>. HIDE DEF a
<1>4. /\ a.live = r.live /\ a.gen = r.gen /\ a.cur = r.cur /\ a.exit = r.exit /\ a.terminal = r.terminal
      /\ a.told = r.told /\ a.wrote = r.wrote /\ a.toHost = r.toHost /\ a.toChild = r.toChild
      /\ a.fate = r.fate /\ a.lease = r.lease
  BY <1>3 DEF Same, RunnerFields
<1>5. /\ IsRunner(b) /\ Same(a, b, RunnerFields \ {"cur", "exit", "output", "evExit", "evOutput",
                                                  "live", "terminal"})
      /\ b.live \in Int /\ b.live <= a.live /\ b.cur \in {0, a.gen}
      /\ b.cur = 0 => b.exit = "no"
      /\ b.terminal
  <2>1. a.live \in Int /\ a.gen \in Nat /\ a.cur \in {0, a.gen} /\ (a.cur = 0 => a.exit = "no") /\ a.terminal
    BY <1>2, <1>4 DEF Shape, Engine
  <2>. QED  BY <1>3, <2>1, FinalizeFacts
<1>. HIDE DEF b
<1>6. /\ b.gen = a.gen /\ b.host = a.host /\ b.child = a.child
      /\ b.told = a.told /\ b.wrote = a.wrote /\ b.toHost = a.toHost /\ b.toChild = a.toChild
      /\ b.fate = a.fate /\ b.lease = a.lease
  BY <1>5 DEF Same, RunnerFields
<1>7. /\ IsRunner(u) /\ u.state = "terminal" /\ u.pending = <<>> /\ u.starting = FALSE
      /\ u.host = [b.host EXCEPT !.err = r.host.err] /\ u.child = [b.child EXCEPT !.err = r.child.err]
      /\ u.gen = b.gen /\ u.cur = b.cur /\ u.exit = b.exit /\ u.live = b.live
      /\ u.terminal = b.terminal /\ u.lease = b.lease /\ u.fate = b.fate
      /\ u.told = b.told /\ u.wrote = b.wrote /\ u.toHost = b.toHost /\ u.toChild = b.toChild
  <2>. DEFINE c == [b EXCEPT !.state = "terminal", !.pending = <<>>, !.starting = FALSE,
                             !.retryT = FALSE, !.replayT = FALSE, !.exitT = FALSE,
                             !.drainT = FALSE, !.leaseT = FALSE, !.resolving = FALSE]
              d == [c EXCEPT !.host.err = r.host.err, !.child.err = r.child.err]
  <2>1. u = d
    OBVIOUS
  <2>2. /\ IsRunner(c) /\ c.state = "terminal" /\ c.pending = <<>> /\ c.starting = FALSE
        /\ Same(b, c, {"host", "child", "gen", "cur", "exit", "live", "terminal", "lease", "fate",
                       "told", "wrote", "toHost", "toChild"})
    <3>. DEFINE x == [b EXCEPT !.state = "terminal", !.pending = <<>>, !.starting = FALSE]
                y == [x EXCEPT !.retryT = FALSE, !.replayT = FALSE, !.exitT = FALSE,
                               !.drainT = FALSE, !.leaseT = FALSE, !.resolving = FALSE]
    <3>1. /\ IsRunner(x) /\ x.state = "terminal" /\ x.pending = <<>> /\ x.starting = FALSE
          /\ Same(b, x, {"host", "child", "gen", "cur", "exit", "live", "terminal", "lease", "fate",
                         "told", "wrote", "toHost", "toChild"})
      BY <1>5, ZenonT(40) DEF IsRunner, RunnerFields, Same
    <3>2. c = y
      OBVIOUS
    <3>. HIDE DEF x
    <3>3. IsRunner(y)
      BY <3>1, ZenonT(40) DEF IsRunner, RunnerFields
    <3>4. /\ y.state = x.state /\ y.pending = x.pending /\ y.starting = x.starting
          /\ Same(x, y, {"host", "child", "gen", "cur", "exit", "live", "terminal", "lease", "fate",
                         "told", "wrote", "toHost", "toChild"})
      BY <3>1 DEF IsRunner, RunnerFields, Same
    <3>. HIDE DEF y, c
    <3>. QED  BY <3>1, <3>2, <3>3, <3>4 DEF Same
  <2>. HIDE DEF c
  <2>3. /\ IsRunner(d) /\ d.state = c.state /\ d.pending = c.pending /\ d.starting = c.starting
        /\ d.host = [c.host EXCEPT !.err = r.host.err] /\ d.child = [c.child EXCEPT !.err = r.child.err]
        /\ Same(c, d, {"gen", "cur", "exit", "live", "terminal", "lease", "fate",
                       "told", "wrote", "toHost", "toChild"})
    BY <2>2, ZenonT(40) DEF IsRunner, RunnerFields, Same
  <2>. HIDE DEF d, u
  <2>4. b.host = c.host /\ b.child = c.child
    BY <2>2 DEF Same
  <2>. QED  BY <2>1, <2>2, <2>3, <2>4 DEF Same
<1>. HIDE DEF u
<1>8. IsRegistry(u.host) /\ IsRegistry(u.child)
  BY <1>3, <1>6, <1>7 DEF IsRegistry, RegistryFields
<1>9. Shape(u)
  <2>1. u.pending \in Seq(Entry) /\ Len(u.pending) <= QueueCap
    BY <1>7, SupervisorAssumption
  <2>2. u.state \in States
    BY <1>7 DEF States
  <2>. QED  BY <1>2, <1>4, <1>5, <1>6, <1>7, <1>8, <2>1, <2>2 DEF Shape
<1>10. Engine(u) /\ Emptied(u) /\ u.live <= 1 /\ u.terminal /\ u.lease = r.lease
  <2>1. u.live <= 1
    BY <1>2, <1>4, <1>5, <1>7 DEF Shape
  <2>2. Engine(u)
    BY <1>5, <1>7 DEF Engine, Serving
  <2>. QED  BY <1>2, <1>4, <1>5, <1>6, <1>7, <2>1, <2>2 DEF Emptied
<1>. QED  BY <1>1, <1>7, <1>9, <1>10, RunnerFacts, EndedKeeps DEF EnvKeeps
-----------------------------------------------------------------------------
(* The theorems *)

\* The invariant holds at first, and so does the session's.
LEMMA InitKeeps ==
  ASSUME Init
  PROVE  SupInv /\ Session!HSInit
<1>1. PICK era \in Era :
       r = [state |-> "starting", modern |-> era = "modern", gen |-> 0, cur |-> 0,
            starting |-> TRUE, retryT |-> FALSE, replayT |-> FALSE, exitT |-> FALSE,
            drainT |-> FALSE, leaseT |-> FALSE, leasePassed |-> FALSE,
            resolving |-> FALSE, pending |-> <<>>,
            host |-> newDirectionRegistry, child |-> newDirectionRegistry,
            initReq |-> FALSE, awaiting |-> FALSE, initResp |-> FALSE,
            initFailed |-> FALSE, initialized |-> FALSE, dormInvalid |-> FALSE,
            since |-> FALSE, exit |-> "no", output |-> "open", evExit |-> FALSE,
            evOutput |-> FALSE, live |-> 0, terminal |-> FALSE, lease |-> FALSE,
            told |-> Nothing, wrote |-> Nothing, toHost |-> {}, toChild |-> {},
            out |-> "none", fate |-> Calm]
  BY DEF Init
<1>2. IsRunner(r)
  BY <1>1 DEF IsRunner, RunnerFields
<1>3. /\ r.state = "starting" /\ r.gen = 0 /\ r.cur = 0 /\ r.starting = TRUE /\ r.pending = <<>>
      /\ r.leaseT = FALSE /\ r.initReq = FALSE /\ r.awaiting = FALSE /\ r.initialized = FALSE
      /\ r.exit = "no" /\ r.live = 0 /\ r.terminal = FALSE /\ r.lease = FALSE
      /\ r.host = newDirectionRegistry /\ r.child = newDirectionRegistry
      /\ r.fate = Calm /\ Emptied(r)
  BY <1>1 DEF Emptied
<1>4. /\ hostIn = NoFrame /\ attempt = "running" /\ got = {} /\ asks = {}
      /\ kidTasks = None /\ hostTasks = None /\ sends = Nothing /\ answers = Nothing
      /\ carried = Nothing /\ withdrawn = {} /\ ~strayed
  BY DEF Init
<1>5. IsRegistry(newDirectionRegistry) /\ DOMAIN newDirectionRegistry.requests = {}
      /\ DOMAIN newDirectionRegistry.retiredRequests = {}
  BY DEF newDirectionRegistry, IsRegistry, RegistryFields, None
<1>6. Shape(r)
  <2>1. r.pending \in Seq(Entry) /\ Len(r.pending) <= QueueCap
    BY <1>3, SupervisorAssumption
  <2>2. r.state \in States
    BY <1>3 DEF States
  <2>. QED  BY <1>2, <1>3, <1>5, <2>1, <2>2, NothingType DEF Shape, Emptied
<1>7. Open(r) = {} /\ QueuedIds(r) = {} /\ OnBooks(r) = {} /\ HandIds(hostIn) = {} /\ HostSide = {}
  BY <1>3, <1>4, <1>5, NoFrameType DEF Open, QueuedIds, OnBooks, HostSide
<1>8. Engine(r) /\ Registers(r)
  BY <1>3, <1>5, <1>7 DEF Engine, Registers, Serving
<1>9. RunnerOk(r, withdrawn, got, HostSide)
  <2>1. Queue(r, withdrawn)
    BY <1>3 DEF Queue
  <2>2. Lifecycle(r)
    BY <1>3 DEF Lifecycle
  <2>3. GotOk(r, withdrawn, got)
    BY <1>3 DEF GotOk
  <2>4. HoldersOk(r, HostSide)
    BY <1>3, <1>7 DEF HoldersOk, Emptied
  <2>. QED  BY <1>6, <1>8, <2>1, <2>2, <2>3, <2>4 DEF RunnerOk
<1>10. Environment
  <2>1. TasksOk(None)
    BY DEF TasksOk, None
  <2>. QED  BY <1>4, <2>1, NoFrameType, NothingType DEF Environment
<1>11. HandOk
  BY <1>4, NoFrameType DEF HandOk, HostFrameOk
<1>12. Balance
  BY <1>3, <1>4 DEF Balance, Spare
<1>13. Live /\ Books = {}
  BY <1>3, <1>7, BooksSplit DEF Live
<1>14. SupInv
  <2>1. /\ \A i \in HostReq : carried[i] <= 1
        /\ \A i \in Ids : answers[i] <= sends[i] \/ i \in withdrawn
    BY <1>4, NothingType DEF Ids
  <2>. QED  BY <1>3, <1>4, <1>6, <1>7, <1>8, <1>9, <1>10, <1>11, <1>12, <2>1 DEF SupInv, Emptied
<1>15. Session!HSInit
  BY <1>4, <1>13 DEF Session!HSInit, Nothing
<1>. QED  BY <1>14, <1>15

\* Every step keeps the invariant, and is a step of the promise to the host or
\* nothing the host can see.
LEMMA NextKeeps ==
  ASSUME SupInv, [Next]_vars
  PROVE  SupInv' /\ (Session!HSNext \/ UNCHANGED Session!hostSessionVars)
<1>1. CASE HostMoves
  <2>1. CASE \E i \in HostReq : HostCancels(i)
    BY <2>1, HostCancelsStep
  <2>2. CASE \E i \in HostReq : \E m \in HostMethod[i] : HostRequests(i, m)
    BY <2>2, HostRequestsStep
  <2>3. CASE HostInitializes
    BY <2>3, HostInitializesStep
  <2>4. CASE \E a \in asks : HostProgresses(a)
    BY <2>4, HostProgressesStep
  <2>5. CASE \E a \in asks : \E reply \in Replies(a, hostTasks) : HostResponds(a, reply)
    BY <2>5, HostRespondsStep
  <2>6. CASE \E t \in DOMAIN hostTasks : HostReports(t)
    BY <2>6, HostReportsStep
  <2>. QED  BY <1>1, <2>1, <2>2, <2>3, <2>4, <2>5, <2>6 DEF HostMoves
<1>2. CASE EngineMoves
  <2>1. CASE \E g \in got : \E reply \in Replies(g, kidTasks) : EngineAnswers(g, reply)
    BY <2>1, EngineAnswersStep
  <2>2. CASE \E g \in got : EngineInitializes(g)
    BY <2>2, EngineInitializesStep
  <2>3. CASE \E g \in got : \E m \in {"ack", "nack"} : EngineDecides(g, m)
    BY <2>3, EngineDecidesStep
  <2>4. CASE \E i \in ChildReq : \E m \in ChildMethod[i] : EngineAsks(i, m)
    BY <2>4, EngineAsksStep
  <2>5. CASE \E a \in asks : EngineCancels(a)
    BY <2>5, EngineCancelsStep
  <2>6. CASE EngineNotifies
    BY <2>6, EngineNotifiesStep
  <2>7. CASE \E t \in DOMAIN kidTasks : EngineReports(t)
    BY <2>7, EngineReportsStep
  <2>8. CASE EngineOffers
    BY <2>8, EngineOffersStep
  <2>9. CASE \E how \in {"crash", "dormant", "unproven"} : EngineExits(how)
    BY <2>9, EngineExitsStep
  <2>10. CASE \E how \in {"eof", "error"} : OutputEnds(how)
    BY <2>10, OutputEndsStep
  <2>. QED  BY <1>2, <2>1, <2>2, <2>3, <2>4, <2>5, <2>6, <2>7, <2>8, <2>9, <2>10 DEF EngineMoves
<1>3. CASE RunnerMoves
  BY <1>3, HostFrameStep, StartReportsStep, ChildExitStep, ChildOutputStep, RetryTimerStep,
     ChildExitDrainTimerStep, DormantLeaseStep, ShutdownStep DEF RunnerMoves
<1>4. CASE \E first, second \in Outcome : StartRuns(first, second)
  BY <1>4, StartRunsStep
<1>5. CASE \E other \in BOOLEAN : ResolveReports(other)
  BY <1>5, ResolveReportsStep
<1>6. CASE \/ StartAbandoned \/ StartTimer \/ ReplayTimer \/ DormantExitTimer \/ DeadlinePasses
           \/ beginResolve \/ SessionEnds
  BY <1>6, StartAbandonedStep, StartTimerStep, ReplayTimerStep, DormantExitTimerStep,
     DeadlinePassesStep, BeginResolveStep, SessionEndsStep
<1>7. CASE UNCHANGED vars
  <2>1. /\ r' = r /\ hostIn' = hostIn /\ attempt' = attempt /\ got' = got /\ kidTasks' = kidTasks
        /\ asks' = asks /\ hostTasks' = hostTasks /\ sends' = sends /\ answers' = answers
        /\ withdrawn' = withdrawn /\ carried' = carried /\ strayed' = strayed
    BY <1>7 DEF vars
  <2>2. SupInv'
    <3>1. Environment' /\ HostSide' = HostSide
      BY <2>1 DEF SupInv, Environment, HostSide
    <3>2. HandOk => HandOk'
      BY <2>1 DEF HandOk
    <3>3. Balance => Balance'
      BY <2>1 DEF Balance
    <3>4. Live' = Live
      BY <2>1 DEF Live
    <3>. QED  BY <2>1, <3>1, <3>2, <3>3, <3>4 DEF SupInv
  <2>3. Books' = Books /\ Live' = Live
    BY <2>1 DEF Books, Live
  <2>. QED  BY <2>1, <2>2, <2>3 DEF Session!hostSessionVars
<1>. QED  BY <1>1, <1>2, <1>3, <1>4, <1>5, <1>6, <1>7 DEF Next

\* The inductive invariant of the supervisor.
THEOREM SupervisorInvariant == Spec => []SupInv
BY InitKeeps, NextKeeps, PTL DEF Spec

\* At most one engine process tree exists, whatever fails and in which order,
\* and the open requests are those of the current engine.
THEOREM AtMostOneEngine == Spec => []OneEngine
<1>1. SupInv => OneEngine
  BY DEF SupInv, OneEngine, SupTypeOK, Shape, Engine, Registers, Open, States, Serving
<1>. QED  BY <1>1, SupervisorInvariant, PTL

\* A request that may have reached an engine is not written to another one, and
\* no answer of the host to one generation is written to another.
THEOREM EnginesStayApart == Spec => []EnginesApart
<1>1. SupInv => EnginesApart
  BY DEF SupInv, EnginesApart
<1>. QED  BY <1>1, SupervisorInvariant, PTL

\* A dormant supervisor owes the host nothing but a frame it has not handled,
\* and its lease does not end the session over a frame that came in time.
THEOREM DormancyOwesNothing == Spec => []DormantOwesNothing
<1>1. ASSUME SupInv PROVE DormantOwesNothing
  <2>1. ASSUME r.state = "dormant", Live
        PROVE  /\ r.cur = 0 /\ r.pending = <<>> /\ Books \ {hostIn.id} = {}
               /\ r.leaseT \/ hostIn # NoFrame
    <3>1. RunnerOk(r, withdrawn, got, HostSide) /\ ~r.terminal
      BY <1>1, <2>1 DEF SupInv, Live
    <3>2. r.cur = 0 /\ r.pending = <<>> /\ ~r.awaiting
      BY <2>1, <3>1 DEF RunnerOk, Lifecycle
    <3>3. Open(r) = {} /\ QueuedIds(r) = {}
      BY <3>1, <3>2 DEF RunnerOk, Registers, QueuedIds
    <3>4. Books \ {hostIn.id} = {}
      BY <3>2, <3>3, BooksSplit DEF OnBooks, HandIds
    <3>. QED  BY <1>1, <2>1, <3>2, <3>4 DEF SupInv
  <2>2. r.lease => hostIn = NoFrame \/ hostIn.late
    BY <1>1 DEF SupInv
  <2>. QED  BY <2>1, <2>2 DEF DormantOwesNothing
<1>. QED  BY <1>1, SupervisorInvariant, PTL

\* The supervisor implements the promise to the host: every request is settled
\* once, by one answer or because it was withdrawn, until the session ends.
THEOREM SupervisorKeepsSession == Spec => KeepsSession
<1>1. Init => Session!HSInit
  BY InitKeeps
<1>2. SupInv /\ [Next]_vars => [Session!HSNext]_Session!hostSessionVars
  BY NextKeeps
<1>. QED  BY <1>1, <1>2, SupervisorInvariant, PTL DEF Spec, KeepsSession, Session!HSSpec
=============================================================================
