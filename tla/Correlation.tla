----------------------------- MODULE Correlation -----------------------------
(***************************************************************************)
(* The correlation registry of the engine supervisor, one per direction    *)
(* (muxcore/supervisor/correlation.go): which requests, progress tokens    *)
(* and tasks are open, which belong to an engine generation that was       *)
(* retired, and which are fenced so that they cannot be used again.        *)
(*                                                                         *)
(* A registry is a record and a method an operator that returns the new    *)
(* record; "err" is set where the method returns an error.  A progress     *)
(* token is named by the request that carries it, and the ring of          *)
(* transition tombstones is taken as long enough not to wrap.  The status  *)
(* "input_required" behaves as "working" everywhere and is not kept apart. *)
(***************************************************************************)
EXTENDS Naturals, FiniteSets, Functions

CONSTANTS
  NoTask,         \* the empty taskId of a request that names no task
  FenceLimit,     \* persistentFenceLimit
  ActiveLimit,    \* activeCorrelationLimit
  RetainedLimit,  \* retainedCorrelationLimit
  TerminalLimit   \* terminalTaskLimit

None == [x \in {} |-> x]
Over(f, g) == [x \in DOMAIN f \cup DOMAIN g |-> IF x \in DOMAIN f THEN f[x] ELSE g[x]]
Put(f, k, v) == [x \in DOMAIN f \cup {k} |-> IF x = k THEN v ELSE f[x]]
Drop(f, K) == Restrict(f, DOMAIN f \ K)
OfGeneration(f, g) == {k \in DOMAIN f : f[k].gen = g}

newDirectionRegistry ==
  [requests |-> None, tokens |-> None, tasks |-> None, terminalTasks |-> None,
   tombstones |-> {}, fences |-> {}, retiredRequests |-> None,
   retiredTokens |-> {}, retiredTasks |-> None, finalized |-> None,
   err |-> FALSE]

Failed(reg) == [reg EXCEPT !.err = TRUE]

\* A method that fails half way leaves the registry as it was.
IfDone(done, reg, next(_)) == IF done.err THEN Failed(reg) ELSE next(done)

\* persistentFence.addMany: all the entries or, at the limit, none.
addMany(reg, entries) ==
  LET all == reg.fences \cup entries
  IN  IF \E role \in {"request", "token", "task"} :
           Cardinality({e \in all : e[1] = role}) > FenceLimit
      THEN Failed(reg)
      ELSE [reg EXCEPT !.fences = all]

\* The fence entries of a request and of the token it carries.
RequestKeys(id, rec) ==
  {<<"request", id>>} \cup (IF rec.tok THEN {<<"token", id>>} ELSE {})

TaskKeys(t, task) ==
  {<<"task", t>>} \cup (IF task.tok THEN {<<"token", task.req>>} ELSE {})

taskRelated(rec) == rec.aug \/ rec.task # NoTask

hasTaskLifecycle(reg) ==
  \/ DOMAIN reg.tasks # {}
  \/ DOMAIN reg.terminalTasks # {}
  \/ \E id \in DOMAIN reg.requests : reg.requests[id].aug

Size(f) == Cardinality(DOMAIN f)

canRegister(reg, id, rec) ==
  /\ id \notin DOMAIN reg.retiredRequests
  /\ <<"request", id>> \notin reg.tombstones \cup reg.fences
  /\ id \notin DOMAIN reg.requests
  /\ Size(reg.requests) + Size(reg.tasks) <
       IF rec.task = NoTask /\ (rec.aug \/ hasTaskLifecycle(reg))
       THEN ActiveLimit - 1 ELSE ActiveLimit
  /\ Size(reg.requests) + Size(reg.retiredRequests) < RetainedLimit
  /\ rec.aug => Size(reg.tasks) + Size(reg.terminalTasks)
                  + Size(reg.retiredTasks) < RetainedLimit
  /\ rec.tok => /\ id \notin reg.retiredTokens
                /\ <<"token", id>> \notin reg.tombstones \cup reg.fences
                /\ id \notin DOMAIN reg.tokens
                /\ Size(reg.tokens) + Cardinality(reg.retiredTokens)
                     < RetainedLimit

register(reg, id, rec) ==
  [reg EXCEPT !.requests = Put(@, id, rec),
              !.tokens = IF rec.tok THEN Put(@, id, [gen |-> rec.gen, last |-> 0])
                         ELSE @]

canBindTask(reg, t) ==
  /\ t \notin DOMAIN reg.tasks \cup DOMAIN reg.terminalTasks
  /\ t \notin DOMAIN reg.retiredTasks
  /\ <<"task", t>> \notin reg.tombstones \cup reg.fences
  /\ Size(reg.tasks) + Size(reg.terminalTasks) + Size(reg.retiredTasks)
       < RetainedLimit

\* taskOperationResponse: the answer to tasks/get, tasks/cancel or
\* tasks/result names the task of its request, and a cancellation cancels it.
OperationRefused(rec, resp) ==
  /\ resp.kind = "result"
  /\ rec.method # "tasks/result"
  /\ \/ resp.task # rec.task
     \/ rec.method = "tasks/cancel" /\ resp.status # "cancelled"

OperationStatus(rec, resp) ==
  IF rec.method = "tasks/result" THEN "completed" ELSE resp.status

currentTaskForOperation(reg, rec) ==
  LET t == rec.task
      gone == t \in DOMAIN reg.retiredTasks \/ <<"task", t>> \in reg.tombstones
      fenced == <<"task", t>> \in reg.fences
  IN  CASE t \in DOMAIN reg.tasks ->
             IF reg.tasks[t].gen # rec.gen \/ gone \/ fenced
                  \/ t \in DOMAIN reg.terminalTasks
             THEN "error" ELSE "active"
        [] t \notin DOMAIN reg.tasks /\ t \in DOMAIN reg.terminalTasks ->
             IF reg.terminalTasks[t].gen # rec.gen \/ gone \/ fenced
             THEN "error" ELSE "terminal"
        [] OTHER -> IF ~gone /\ fenced THEN "finalized" ELSE "error"

\* validateFinalizedTaskStatus: a finalized task keeps its terminal status.
FinalizedStatusOk(reg, t, status) ==
  /\ status # "working"
  /\ t \in DOMAIN reg.finalized => reg.finalized[t] = status

canComplete(reg, id, resp) ==
  LET rec == reg.requests[id]
      state == currentTaskForOperation(reg, rec)
      status == OperationStatus(rec, resp)
  IN  IF rec.task # NoTask
      THEN /\ ~OperationRefused(rec, resp)
           /\ state # "error"
           /\ resp.kind = "result" =>
                /\ status = "working" => state = "active"
                /\ rec.method # "tasks/result" /\ status # "working" =>
                     CASE state = "active" ->
                            Size(reg.terminalTasks) < TerminalLimit
                       [] state = "terminal" ->
                            reg.terminalTasks[rec.task].status = status
                       [] OTHER -> FinalizedStatusOk(reg, rec.task, status)
      ELSE rec.aug /\ resp.kind = "result" =>
             /\ resp.task # NoTask
             /\ resp.status = "working"
             /\ canBindTask(reg, resp.task)

fenceRequest(reg, id, rec, includeToken) ==
  LET keys == IF includeToken THEN RequestKeys(id, rec) ELSE {<<"request", id>>}
  IN  IF taskRelated(rec) THEN addMany(reg, keys)
      ELSE [reg EXCEPT !.tombstones = @ \cup keys]

\* updateTask as a status message or a tasks/get answer moves a task; "handled"
\* tells whether the task is known to this generation.
updateHandled(reg, t, gen) ==
  IF t \in DOMAIN reg.tasks THEN reg.tasks[t].gen = gen
  ELSE IF t \in DOMAIN reg.terminalTasks THEN reg.terminalTasks[t].gen = gen
  ELSE <<"task", t>> \in reg.fences

\* Variant: a task that has ended stays among the active ones.
updateTaskKept(reg, t, status, gen) ==
  IF t \in DOMAIN reg.tasks /\ t \in DOMAIN reg.terminalTasks THEN Failed(reg)
  ELSE IF ~updateHandled(reg, t, gen) THEN reg
  ELSE [reg EXCEPT !.terminalTasks = Put(@, t, [reg.tasks[t] EXCEPT !.status = status])]

updateTask(reg, t, status, gen) ==
  LET active == t \in DOMAIN reg.tasks
      terminal == t \in DOMAIN reg.terminalTasks
      task == reg.tasks[t]
      fenced == IF task.tok THEN addMany(reg, {<<"token", task.req>>}) ELSE reg
  IN  CASE active /\ terminal -> Failed(reg)
        [] ~updateHandled(reg, t, gen) -> reg
        [] active /\ ~terminal /\ status = "working" ->
             [reg EXCEPT !.tasks[t].status = status]
        [] active /\ ~terminal /\ status # "working" ->
             IF Size(reg.terminalTasks) >= TerminalLimit \/ fenced.err
             THEN Failed(reg)
             ELSE [fenced EXCEPT
                     !.tasks = Drop(@, {t}),
                     !.tokens = IF task.tok THEN Drop(@, {task.req}) ELSE @,
                     !.terminalTasks = Put(@, t, [task EXCEPT !.status = status])]
        [] ~active /\ terminal ->
             IF status = reg.terminalTasks[t].status THEN reg ELSE Failed(reg)
        [] OTHER -> IF FinalizedStatusOk(reg, t, status)
                    THEN [reg EXCEPT !.finalized = Put(@, t, status)]
                    ELSE Failed(reg)

\* The result of a task was delivered: the task is over and fenced.
finalizeTask(reg, t, gen) ==
  LET terminal == t \in DOMAIN reg.terminalTasks
      task == IF t \in DOMAIN reg.tasks THEN reg.tasks[t] ELSE reg.terminalTasks[t]
      fenced == addMany(reg, TaskKeys(t, task))
  IN  CASE t \in DOMAIN reg.tasks /\ terminal -> Failed(reg)
        [] t \in DOMAIN reg.retiredTasks -> Failed(reg)
        [] OTHER ->
             IF t \notin DOMAIN reg.tasks /\ ~terminal
             THEN IF <<"task", t>> \in reg.fences THEN reg ELSE Failed(reg)
             ELSE IF task.gen # gen \/ fenced.err THEN Failed(reg)
             ELSE [fenced EXCEPT
                     !.finalized = IF terminal THEN Put(@, t, task.status) ELSE @,
                     !.tasks = Drop(@, {t}),
                     !.terminalTasks = Drop(@, {t}),
                     !.tokens = IF task.tok THEN Drop(@, {task.req}) ELSE @]

removeToken(reg, id, rec) ==
  [reg EXCEPT !.tokens = IF rec.tok THEN Drop(@, {id}) ELSE @]

TaskOf(id, rec, resp) ==
  [req |-> id, gen |-> rec.gen, tok |-> rec.tok, status |-> resp.status]

complete(reg, id, resp) ==
  LET rec == reg.requests[id]
      operation == rec.task # NoTask
      bind == ~operation /\ rec.aug /\ resp.kind = "result"
      Moved(a) == IF ~operation \/ resp.kind = "error" THEN a
                  ELSE IF rec.method = "tasks/result"
                       THEN finalizeTask(a, rec.task, rec.gen)
                  ELSE IF ~updateHandled(a, rec.task, rec.gen) THEN Failed(a)
                       ELSE updateTask(a, rec.task, OperationStatus(rec, resp), rec.gen)
      Closed(b) == [b EXCEPT !.requests = Drop(@, {id}),
                             !.tasks = IF bind THEN Put(@, resp.task, TaskOf(id, rec, resp))
                                       ELSE @,
                             !.tokens = IF rec.tok /\ ~bind THEN Drop(@, {id}) ELSE @]
  IN  IF operation /\ OperationRefused(rec, resp) THEN Failed(reg)
      ELSE IfDone(fenceRequest(reg, id, rec, ~bind), reg,
                  LAMBDA a : IfDone(Moved(a), reg, Closed))

cancel(reg, id) ==
  LET rec == reg.requests[id]
      a == fenceRequest(reg, id, rec, TRUE)
  IN  IF a.err THEN a
      ELSE removeToken([a EXCEPT !.requests = Drop(@, {id})], id, rec)

retireRequest(reg, id) ==
  LET rec == reg.requests[id]
  IN  [reg EXCEPT !.requests = Drop(@, {id}),
                  !.retiredRequests = Put(@, id, rec),
                  !.tokens = IF rec.tok THEN Drop(@, {id}) ELSE @,
                  !.retiredTokens = IF rec.tok THEN @ \cup {id} ELSE @]

acceptsProgress(reg, id, value, gen) ==
  /\ id \in DOMAIN reg.tokens
  /\ reg.tokens[id].gen = gen
  /\ value > reg.tokens[id].last

acceptProgress(reg, id, value) == [reg EXCEPT !.tokens[id].last = value]

\* Every correlation of the generation is set aside: open requests and tasks
\* are retired, tasks that had already ended are fenced.
retireGenerationChecked(reg, gen) ==
  LET R == OfGeneration(reg.requests, gen)
      T == OfGeneration(reg.tasks, gen)
      E == OfGeneration(reg.terminalTasks, gen)
      tokens == {id \in R : reg.requests[id].tok}
                  \cup {reg.tasks[t].req : t \in {u \in T : reg.tasks[u].tok}}
      fenced == addMany(reg, {<<"request", reg.tasks[t].req>> : t \in T}
                               \cup UNION {TaskKeys(t, reg.terminalTasks[t]) : t \in E})
  IN  IF \/ R \cap DOMAIN reg.retiredRequests # {}
         \/ (T \cup E) \cap DOMAIN reg.retiredTasks # {}
         \/ T \cap DOMAIN reg.terminalTasks # {}
         \/ \E t \in E : \/ t \in DOMAIN reg.tasks
                         \/ <<"task", t>> \in reg.tombstones \cup reg.fences
         \/ Size(reg.requests) + Size(reg.retiredRequests) > RetainedLimit
         \/ Size(reg.tokens) + Cardinality(reg.retiredTokens) > RetainedLimit
         \/ Size(reg.tasks) + Size(reg.terminalTasks) + Size(reg.retiredTasks)
              > RetainedLimit
         \/ Size(reg.terminalTasks) > TerminalLimit
         \/ fenced.err
      THEN Failed(reg)
      ELSE [fenced EXCEPT
              !.requests = Drop(@, R),
              !.retiredRequests = Over(Restrict(reg.requests, R), @),
              !.tokens = Drop(@, tokens),
              !.retiredTokens = @ \cup tokens,
              !.tasks = Drop(@, T),
              !.retiredTasks = Over(Restrict(reg.tasks, T), @),
              !.terminalTasks = Drop(@, E),
              !.finalized = Over([t \in E |-> reg.terminalTasks[t].status], @)]

releaseRetiredRequest(reg, id) ==
  LET rec == reg.retiredRequests[id]
      a == IF taskRelated(rec) THEN addMany(reg, RequestKeys(id, rec))
           ELSE [reg EXCEPT !.tombstones = @ \cup RequestKeys(id, rec)]
  IN  IF a.err THEN a
      ELSE [a EXCEPT !.retiredRequests = Drop(@, {id}),
                     !.retiredTokens = IF rec.tok THEN @ \ {id} ELSE @]

\* Where the task of a retired operation stands: still retired, fenced, or in
\* a state that contradicts the retirement.
retiredTaskForOperation(reg, rec) ==
  LET t == rec.task
      current == t \in DOMAIN reg.tasks \cup DOMAIN reg.terminalTasks
                   \/ <<"task", t>> \in reg.tombstones
      fenced == <<"task", t>> \in reg.fences
  IN  CASE t \in DOMAIN reg.retiredTasks /\ ~current /\ ~fenced -> "retired"
        [] t \notin DOMAIN reg.retiredTasks /\ ~current /\ fenced -> "fenced"
        [] OTHER -> "error"

releaseRetiredTaskOperation(reg, id, status) ==
  LET rec == reg.retiredRequests[id]
      task == reg.retiredTasks[rec.task]
      a == addMany(reg, RequestKeys(id, rec) \cup TaskKeys(rec.task, task))
  IN  IF a.err THEN a
      ELSE [a EXCEPT
              !.finalized = IF rec.method = "tasks/result" THEN @
                            ELSE Put(@, rec.task, status),
              !.retiredRequests = Drop(@, {id}),
              !.retiredTasks = Drop(@, {rec.task}),
              !.retiredTokens = @ \ ((IF rec.tok THEN {id} ELSE {})
                                       \cup (IF task.tok THEN {task.req} ELSE {}))]

\* The answer to a request of a retired generation: it goes nowhere, and what
\* it says of a task is kept so that later messages are recognised too.
consumeRetiredResponse(reg, id, resp) ==
  LET rec == reg.retiredRequests[id]
      where == retiredTaskForOperation(reg, rec)
      status == OperationStatus(rec, resp)
      released == releaseRetiredRequest(reg, id)
      bound == addMany(reg, {<<"request", id>>})
  IN  IF rec.task # NoTask
      THEN CASE OperationRefused(rec, resp) \/ where = "error" -> Failed(reg)
             [] resp.kind = "error" /\ where # "error" -> released
             [] resp.kind = "result" /\ status = "working" /\ where # "error" ->
                  IF where = "fenced" \/ released.err THEN Failed(reg)
                  ELSE [released EXCEPT !.retiredTasks[rec.task].status = status]
             [] OTHER ->
                  IF where = "fenced"
                  THEN IF rec.method = "tasks/result" THEN released
                       ELSE IF ~FinalizedStatusOk(reg, rec.task, status) \/ released.err
                       THEN Failed(reg)
                       ELSE [released EXCEPT !.finalized = Put(@, rec.task, status)]
                  ELSE releaseRetiredTaskOperation(reg, id, status)
      ELSE IF ~rec.aug \/ resp.kind = "error" THEN released
      ELSE IF \/ resp.task = NoTask \/ resp.status # "working"
              \/ ~canBindTask(reg, resp.task) \/ bound.err
      THEN Failed(reg)
      ELSE [bound EXCEPT !.retiredRequests = Drop(@, {id}),
                         !.retiredTasks = Put(@, resp.task, TaskOf(id, rec, resp))]

knowsRetiredTask(reg, t) ==
  t \in DOMAIN reg.retiredTasks \/ <<"task", t>> \in reg.fences

consumeRetiredTaskStatus(reg, t, status) ==
  LET task == reg.retiredTasks[t]
      fenced == addMany(reg, TaskKeys(t, task))
  IN  CASE t \in DOMAIN reg.tasks \cup DOMAIN reg.terminalTasks -> Failed(reg)
        [] t \notin DOMAIN reg.tasks \cup DOMAIN reg.terminalTasks
             /\ t \notin DOMAIN reg.retiredTasks ->
             IF FinalizedStatusOk(reg, t, status)
             THEN [reg EXCEPT !.finalized = Put(@, t, status)] ELSE Failed(reg)
        [] OTHER ->
             IF <<"task", t>> \in reg.tombstones \cup reg.fences \/ fenced.err
             THEN Failed(reg)
             ELSE IF status = "working"
             THEN [reg EXCEPT !.retiredTasks[t].status = status]
             ELSE [fenced EXCEPT
                     !.finalized = Put(@, t, status),
                     !.retiredTasks = Drop(@, {t}),
                     !.retiredTokens = IF task.tok THEN @ \ {task.req} ELSE @]

clearTransitionTombstones(reg) == [reg EXCEPT !.tombstones = {}]

clearRetiredCorrelations(reg) ==
  [reg EXCEPT !.retiredRequests = None, !.retiredTokens = {},
              !.retiredTasks = None, !.finalized = None, !.fences = {}]

registryIdle(reg) ==
  /\ DOMAIN reg.requests = {} /\ DOMAIN reg.tokens = {}
  /\ DOMAIN reg.tasks = {} /\ DOMAIN reg.terminalTasks = {}
=============================================================================
