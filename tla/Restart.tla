------------------------------ MODULE Restart ------------------------------
(***************************************************************************)
(* A graceful restart of the daemon (muxcore/daemon: daemon.go, handoff.go,*)
(* snapshot.go; muxcore/owner/handoff.go; muxcore/upstream).               *)
(*                                                                         *)
(* The predecessor P writes a snapshot of its owners, starts a successor   *)
(* "h", and after the successor's hello detaches its upstream process      *)
(* trees and hands them over, one message at a time.  A tree is committed  *)
(* only if the successor's final acknowledgement names it, and is killed   *)
(* otherwise.  If the protocol fails after the hello, P stops "h",         *)
(* rewrites the snapshot and starts a clean successor "s".  A successor    *)
(* starts trees of its own only once it has bound the control socket,      *)
(* which P releases last.                                                  *)
(*                                                                         *)
(* Process trees are those of Unix: they outlive the daemons, and closing  *)
(* a handle does not stop one.                                             *)
(***************************************************************************)
EXTENDS Integers, Sequences, FiniteSets

CONSTANTS
  Server,     \* the servers that have an owner
  MaxTrouble  \* how many unlikely events one behaviour may contain

ASSUME RestartAssumption == MaxTrouble \in Nat

VARIABLES
  backed,  \* the servers whose owner has an upstream process, to begin with
  ppc,     \* where the predecessor stands
  fence,   \* P.shuttingDown: no new owner is admitted
  pinned,  \* the owners that the restart lease pins
  own,     \* P's owner of each server
  tree,    \* the server's original process tree
  ho,      \* the hand-over, as P sees it
  todo,    \* the servers that the current loop of P has left
  open,    \* the hand-over connection
  toP, toH,\* the messages on their way
  refs,    \* the trees that "h" was told of
  dpc,     \* where each successor stands
  st,      \* what each successor has of each server
  snap,    \* the servers in the snapshot file, {} for no file
  ctl,     \* who holds the control socket
  trouble

pvars == <<ppc, fence, pinned, own, ho, todo>>
wire == <<open, toP, toH>>
svars == <<refs, dpc, st>>
vars == <<backed, pvars, tree, wire, svars, snap, ctl, trouble>>

Daemon == {"h", "s"}

Untouched(s) == IF s \in backed THEN "up" ELSE "cache"

\* orphans is a ghost: the trees whose predecessor died and that it still answered for.
NoHandoff == [ready |-> {}, receipted |-> {}, accepted |-> {}, orphans |-> {},
              failed |-> FALSE, told |-> FALSE]

\* Bounds the failures, late answers and crashes of one behaviour.  No step
\* changes which servers had a process to begin with.
Spent == /\ trouble < MaxTrouble
         /\ trouble' = trouble + 1
         /\ UNCHANGED backed
Easy == UNCHANGED <<backed, trouble>>

Live(d) == dpc[d] \notin {"none", "gone", "failed", "lost"}

RestartInit ==
  /\ backed \in SUBSET Server
  /\ ppc = "serving" /\ fence = FALSE /\ pinned = {}
  /\ own = [s \in Server |-> Untouched(s)]
  /\ tree = [s \in Server |-> IF s \in backed THEN "alive" ELSE "none"]
  /\ ho = NoHandoff /\ todo = {}
  /\ open = FALSE /\ toP = <<>> /\ toH = <<>>
  /\ refs = {}
  /\ dpc = [d \in Daemon |-> "none"]
  /\ st = [d \in Daemon |-> [s \in Server |-> "none"]]
  /\ snap = {} /\ ctl = "p" /\ trouble = 0

----------------------------------------------------------------------------
(* The predecessor, up to the hello                                        *)

\* The restart request, admitted by the maintenance gate.
HandleGracefulRestart ==
  /\ ppc = "serving"
  /\ \A d \in Daemon : ~Live(d)
  /\ ppc' = "snapshot" /\ fence' = TRUE
  /\ dpc' = [d \in Daemon |-> "none"]
  /\ toP' = <<>> /\ toH' = <<>> /\ refs' = {} /\ ho' = NoHandoff
  /\ UNCHANGED <<pinned, own, todo, tree, open, st, snap, ctl>>
  /\ Easy

\* The file is replaced as a whole, and read once.
Serialize == snap' = Server
Deserialize == snap' = {}

\* Every owner is pinned and exported, then the file is written.  An owner
\* being removed, one that does not settle, and a failed write all fail it.
serializeSnapshotPinned ==
  /\ ppc = "snapshot"
  /\ \/ /\ pinned' = Server /\ Serialize /\ ppc' = "attempt"
        /\ UNCHANGED fence /\ Easy
     \/ /\ ppc' = "serving" /\ fence' = FALSE
        /\ UNCHANGED <<pinned, snap>> /\ Spent
  /\ UNCHANGED <<own, ho, todo, tree, wire, svars, ctl>>

\* What an abort undoes: pins, fence and file.  The owners were not touched.
abortGracefulRestart ==
  /\ pinned' = {} /\ fence' = FALSE /\ snap' = {} /\ ppc' = "serving"
  /\ UNCHANGED <<own, ho, todo>>

Started(d) == /\ dpc[d] = "none"
              /\ dpc' = [dpc EXCEPT ![d] = "load"]

\* With a process to hand over: token, listener and the successor's process.
attemptHandoff ==
  /\ ppc = "attempt"
  /\ \E s \in Server : own[s] = "up"
  /\ \/ /\ Started("h")
        /\ ppc' = "accept"
        /\ UNCHANGED <<fence, pinned, snap, own, ho, todo>> /\ Easy
     \/ /\ abortGracefulRestart
        /\ UNCHANGED dpc /\ Spent
  /\ UNCHANGED <<tree, wire, refs, st, ctl>>

\* Without one, a clean successor restores everything from the file.
snapshotOnlyRestart ==
  /\ ppc = "attempt"
  /\ \A s \in Server : own[s] # "up"
  /\ \/ /\ Started("s")
        /\ ppc' = "respond" /\ ho' = [ho EXCEPT !.told = TRUE]
        /\ UNCHANGED <<fence, pinned, snap, own, todo>> /\ Easy
     \/ /\ abortGracefulRestart
        /\ UNCHANGED dpc /\ Spent
  /\ UNCHANGED <<tree, wire, refs, st, ctl>>

\* A killed process loses what it had; the trees it had attached live on.
Killed(d) ==
  /\ dpc' = [dpc EXCEPT ![d] = "gone"]
  /\ st' = [st EXCEPT ![d] = [s \in Server |-> "none"]]

\* successor.Stop(): a kill that is waited for, and may not be seen to end.
StopSeen == Killed("h")
StopUnseen == Live("h") /\ UNCHANGED <<dpc, st>>

\* The exact hello.
acceptHandoffHello ==
  /\ ppc = "accept"
  /\ toP # <<>> /\ Head(toP).t = "hello"
  /\ toP' = Tail(toP)
  /\ ppc' = "collect" /\ todo' = Server
  /\ UNCHANGED <<fence, pinned, own, ho, tree, open, toH, svars, snap, ctl>>
  /\ Easy

\* Nobody dialled in time, or the hello was not the right one.  Whether the
\* successor was seen to stop does not matter here.
helloFails ==
  /\ ppc = "accept"
  /\ \/ (~Live("h") \/ dpc["h"] = "bind") /\ Easy
     \/ Spent
  /\ abortGracefulRestart
  /\ StopSeen \/ StopUnseen
  /\ open' = FALSE /\ toP' = <<>>
  /\ UNCHANGED <<toH, refs, tree, ctl>>

----------------------------------------------------------------------------
(* The predecessor, from the hello to the settlement                       *)

\* The tree is quiesced and detached, but not released.
DetachWithAuthority(s) == own' = [own EXCEPT ![s] = "prepared"] /\ UNCHANGED tree

\* A tree that is killed and proven dead ends its owner; one whose end is not
\* proven keeps it, blocked.
TreeKilled(s) == /\ own' = [own EXCEPT ![s] = "done"]
                 /\ tree' = [tree EXCEPT ![s] = "dead"]
KillUnproven(s) == own' = [own EXCEPT ![s] = "stuck"] /\ UNCHANGED tree

\* Prepares one owner: its listener and sessions are closed, then its tree is
\* detached.  On an error the tree is killed; an owner that does not become
\* quiet, with or without a tree, is kept, blocked.
ShutdownForHandoff(s) ==
  \/ own[s] = "up" /\ DetachWithAuthority(s) /\ Easy
  \/ own[s] = "up" /\ (TreeKilled(s) \/ KillUnproven(s)) /\ Spent
  \/ own[s] = "cache" /\ KillUnproven(s) /\ Spent
  \/ own[s] = "cache" /\ own' = [own EXCEPT ![s] = "done"] /\ UNCHANGED tree /\ Easy

\* Mutant: the trees are detached before the successor has said hello.
CollectEarly(s) ==
  /\ ppc \in {"accept", "collect"} /\ s \in todo \cup backed
  /\ ShutdownForHandoff(s)
  /\ todo' = todo \ {s}
  /\ UNCHANGED <<ppc, fence, pinned, ho, wire, svars, snap, ctl>>

\* collectHandoffUpstreams: every legacy owner, in the order of a map.
collectHandoffUpstreams(s) ==
  /\ ppc = "collect" /\ s \in todo
  /\ ShutdownForHandoff(s)
  /\ todo' = todo \ {s}
  /\ UNCHANGED <<ppc, fence, pinned, ho, wire, svars, snap, ctl>>

Send(m) == open /\ toH' = Append(toH, m)

SendReady ==
  LET ready == {s \in Server : own[s] = "prepared"}
  IN  /\ ppc = "collect" /\ todo = {}
      /\ Send([t |-> "ready", ids |-> ready])
      /\ ho' = [ho EXCEPT !.ready = ready]
      /\ todo' = ready
      /\ ppc' = "transfer"
      /\ UNCHANGED <<fence, pinned, own, tree, open, toP, svars, snap, ctl>>
      /\ Easy

\* Sends one tree's handles and waits for its receipt.
Transfer(s) ==
  /\ ppc = "transfer" /\ s \in todo
  /\ Send([t |-> "fd", id |-> s])
  /\ ppc' = "receipt"
  /\ UNCHANGED <<fence, pinned, own, ho, todo, tree, open, toP, svars, snap, ctl>>
  /\ Easy

Receipt ==
  /\ ppc = "receipt"
  /\ toP # <<>>
  /\ LET m == Head(toP)
     IN  /\ m.id \in todo
         /\ ho' = IF m.ok THEN [ho EXCEPT !.receipted = @ \cup {m.id}] ELSE ho
         /\ todo' = todo \ {m.id}
  /\ toP' = Tail(toP)
  /\ ppc' = "transfer"
  /\ UNCHANGED <<fence, pinned, own, tree, open, toH, svars, snap, ctl>>
  /\ Easy

SendDone ==
  /\ ppc = "transfer" /\ todo = {}
  /\ Send([t |-> "done", ok |-> ho.receipted, no |-> ho.ready \ ho.receipted])
  /\ ppc' = "ack"
  /\ UNCHANGED <<fence, pinned, own, ho, todo, tree, open, toP, svars, snap, ctl>>
  /\ Easy

Prepared == {s \in Server : own[s] = "prepared"}

\* The accepted and the aborted servers must be exactly the ready ones, and
\* only one that was receipted can be accepted.
validateFinalPartition(m) ==
  /\ m.acc \subseteq ho.receipted
  /\ m.acc \cap m.no = {}
  /\ m.acc \cup m.no = ho.ready

FinalAck ==
  /\ ppc = "ack"
  /\ toP # <<>>
  /\ LET m == Head(toP)
     IN  ho' = IF validateFinalPartition(m) THEN [ho EXCEPT !.accepted = m.acc]
                                            ELSE [ho EXCEPT !.failed = TRUE]
  /\ toP' = Tail(toP)
  /\ ppc' = "settle" /\ todo' = Prepared
  /\ UNCHANGED <<fence, pinned, own, tree, open, toH, svars, snap, ctl>>
  /\ Easy

\* A write to, or a read from, a connection the successor closed; or the
\* deadline of the whole exchange, even with an answer in the socket.
protocolFails ==
  /\ \/ ppc = "collect" /\ todo = {}
     \/ ppc \in {"transfer", "receipt", "ack"}
  /\ \/ ~open /\ toP = <<>> /\ Easy
     \/ Spent
  /\ ho' = [ho EXCEPT !.failed = TRUE]
  /\ open' = FALSE
  /\ ppc' = "settle" /\ todo' = Prepared
  /\ UNCHANGED <<fence, pinned, own, tree, toP, toH, svars, snap, ctl>>

\* Mutant: a receipt is taken for the acknowledgement.
SettleReceipted(s) ==
  /\ ppc = "settle" /\ s \in todo
  /\ todo' = todo \ {s}
  /\ IF s \in ho.receipted
     THEN own' = [own EXCEPT ![s] = "sent"] /\ UNCHANGED <<tree, ho>> /\ Easy
     ELSE /\ own' = [own EXCEPT ![s] = "done"]
          /\ tree' = [tree EXCEPT ![s] = "dead"] /\ UNCHANGED ho /\ Easy
  /\ UNCHANGED <<ppc, fence, pinned, wire, svars, snap, ctl>>

commitPreparedHandoff(s) ==
  own' = [own EXCEPT ![s] = "sent"] /\ UNCHANGED <<tree, ho>> /\ Easy

abortPreparedHandoff(s) ==
  \/ TreeKilled(s) /\ UNCHANGED ho /\ Easy
  \/ KillUnproven(s) /\ ho' = [ho EXCEPT !.failed = TRUE] /\ Spent

\* An accepted tree is released; any other is killed.  A kill whose end is
\* not proven fails the settlement, whatever was released before.
settleHandoffUpstreams(s) ==
  /\ ppc = "settle" /\ s \in todo
  /\ todo' = todo \ {s}
  /\ \/ s \in ho.accepted /\ commitPreparedHandoff(s)
     \/ s \notin ho.accepted /\ abortPreparedHandoff(s)
  /\ UNCHANGED <<ppc, fence, pinned, wire, svars, snap, ctl>>

----------------------------------------------------------------------------
(* The predecessor, after the settlement                                   *)

handoffComplete ==
  /\ ppc = "settle" /\ todo = {} /\ ~ho.failed
  /\ ppc' = "respond" /\ ho' = [ho EXCEPT !.told = TRUE]
  /\ open' = FALSE
  /\ UNCHANGED <<fence, pinned, own, todo, tree, toP, toH, svars, snap, ctl>>
  /\ Easy

\* The pins go, the fence stays: the predecessor serves no more.
blockPostDetachRestart ==
  /\ pinned' = {} /\ ppc' = "blocked"
  /\ UNCHANGED <<fence, own, ho, todo>>

\* Only a successor that was seen to end makes the fallback safe.
stopFailedSuccessor ==
  /\ ppc = "settle" /\ todo = {} /\ ho.failed
  /\ open' = FALSE
  /\ \/ /\ StopSeen
        /\ ppc' = "rewrite"
        /\ UNCHANGED <<fence, pinned, own, ho, todo>> /\ Easy
     \/ /\ StopUnseen
        /\ blockPostDetachRestart /\ Spent
  /\ UNCHANGED <<toP, toH, refs, tree, snap, ctl>>

\* Mutant: the file is taken to be still there.
RewriteNothing ==
  /\ ppc = "rewrite"
  /\ ppc' = "backup"
  /\ UNCHANGED <<fence, pinned, own, ho, todo, snap>> /\ Easy
  /\ UNCHANGED <<tree, wire, svars, ctl>>

\* The failed successor consumed the file: it is written again from the lease.
RewriteSnapshot ==
  /\ ppc = "rewrite"
  /\ \/ /\ Serialize /\ ppc' = "backup"
        /\ UNCHANGED <<fence, pinned, own, ho, todo>> /\ Easy
     \/ /\ blockPostDetachRestart
        /\ UNCHANGED snap /\ Spent
  /\ UNCHANGED <<tree, wire, svars, ctl>>

prepareSnapshotRestart ==
  /\ ppc = "backup"
  /\ \/ /\ Started("s")
        /\ ppc' = "respond" /\ ho' = [ho EXCEPT !.told = TRUE]
        /\ UNCHANGED <<fence, pinned, own, todo>> /\ Easy
     \/ /\ blockPostDetachRestart
        /\ UNCHANGED dpc /\ Spent
  /\ UNCHANGED <<tree, wire, refs, st, snap, ctl>>

\* After the answer to the caller, Shutdown; the owner pins outlive it.
afterGracefulRestart ==
  /\ ppc = "respond"
  /\ ppc' = "shutdown"
  /\ UNCHANGED <<fence, pinned, own, ho, todo, tree, wire, svars, snap, ctl>>
  /\ Easy

\* An operator stops the daemon outright.
HandleShutdown ==
  /\ ppc \in {"serving", "blocked"}
  /\ ppc' = "shutdown" /\ fence' = TRUE
  /\ UNCHANGED <<pinned, own, ho, todo, tree, wire, svars, snap, ctl>>
  /\ Easy

\* Removes one owner once it is quiet and its tree is proven dead.  The shutdown
\* tries every owner that is left again and again; a pass that proves nothing
\* leaves the owner, blocked, and no bound ends the trying.
finalizeAndRemoveOwner(s) ==
  /\ ppc = "shutdown" /\ own[s] # "gone"
  /\ \/ /\ own' = [own EXCEPT ![s] = "gone"]
        /\ tree' = [tree EXCEPT ![s] = IF own[s] \in {"up", "stuck"} /\ @ = "alive"
                                       THEN "dead" ELSE @]
        /\ Easy
     \/ own[s] = "up" /\ KillUnproven(s) /\ Spent
  /\ UNCHANGED <<ppc, fence, pinned, ho, todo, wire, svars, snap, ctl>>

\* Mutant: the socket waits for the restart pins, which only its release drops.
CloseUnpinned ==
  /\ ppc = "shutdown" /\ pinned = {} /\ \A s \in Server : own[s] = "gone"
  /\ ctl' = "free" /\ ppc' = "gone"
  /\ UNCHANGED <<fence, pinned, own, ho, todo, tree, wire, svars, snap>>
  /\ Easy

\* The control socket is the last thing to go.
CloseControl ==
  /\ ppc = "shutdown" /\ \A s \in Server : own[s] = "gone"
  /\ ctl' = "free" /\ ppc' = "gone" /\ pinned' = {}
  /\ UNCHANGED <<fence, own, ho, todo, tree, wire, svars, snap>>
  /\ Easy

Held == {s \in Server : own[s] \in {"up", "prepared", "stuck"}}

\* The predecessor dies on its own, at any time: the socket and the connection go
\* with it, what it wrote can still be read, and the trees it had live on.
PredecessorCrashes ==
  /\ ppc # "gone"
  /\ ppc' = "gone" /\ pinned' = {} /\ ctl' = "free" /\ open' = FALSE
  /\ own' = [s \in Server |-> "gone"]
  /\ ho' = [ho EXCEPT !.orphans = @ \cup Held]
  /\ UNCHANGED <<fence, todo, tree, toP, toH, svars, snap>>
  /\ Spent

----------------------------------------------------------------------------
(* The successors                                                          *)

Stage(d, S) == [s \in Server |-> IF s \in S THEN "staged" ELSE st[d][s]]

\* loadSnapshot consumes the file.  "h" then dials; "s" stages everything.
loadSnapshot(d) ==
  /\ dpc[d] = "load"
  /\ Deserialize
  /\ st' = [st EXCEPT ![d] = [s \in Server |-> IF s \in snap THEN "staged" ELSE "none"]]
  /\ dpc' = [dpc EXCEPT ![d] = IF d = "h" /\ snap # {} THEN "dial" ELSE "bind"]
  /\ UNCHANGED <<pvars, tree, wire, refs, ctl>>
  /\ Easy

\* tryHandoffReceive: the token is read, the socket dialled, the hello sent.
dialHandoff ==
  /\ dpc["h"] = "dial"
  /\ \/ /\ ppc = "accept"
        /\ open' = TRUE /\ toP' = <<[t |-> "hello"]>>
        /\ dpc' = [dpc EXCEPT !["h"] = "ready"] /\ Easy
     \/ /\ dpc' = [dpc EXCEPT !["h"] = "bind"]
        /\ UNCHANGED <<open, toP>>
        /\ IF ppc = "accept" THEN Spent ELSE Easy
  /\ UNCHANGED <<pvars, tree, toH, refs, st, snap, ctl>>

Arrived(kind) == toH # <<>> /\ Head(toH).t = kind

receiveReady ==
  /\ dpc["h"] = "ready"
  /\ Arrived("ready")
  /\ refs' = Head(toH).ids
  /\ toH' = Tail(toH)
  /\ dpc' = [dpc EXCEPT !["h"] = "receive"]
  /\ UNCHANGED <<pvars, tree, open, toP, st, snap, ctl>>
  /\ Easy

\* One transfer: complete handles are owned and receipted, others refused.
receiveTransfer ==
  /\ dpc["h"] = "receive"
  /\ Arrived("fd") /\ open
  /\ LET s == Head(toH).id
     IN  \/ /\ st' = [st EXCEPT !["h"][s] = "owned"]
            /\ toP' = Append(toP, [t |-> "ack", id |-> s, ok |-> TRUE]) /\ Easy
         \/ /\ st' = [st EXCEPT !["h"][s] = "nacked"]
            /\ toP' = Append(toP, [t |-> "ack", id |-> s, ok |-> FALSE]) /\ Spent
  /\ toH' = Tail(toH)
  /\ UNCHANGED <<pvars, tree, open, refs, dpc, snap, ctl>>

Received == {s \in Server : st["h"][s] = "owned"}

\* The predecessor's account of the transfers must be the successor's own.
receiveDone ==
  /\ dpc["h"] = "receive"
  /\ Arrived("done")
  /\ LET m == Head(toH)
     IN  m.ok = Received /\ m.ok \cup m.no = refs
  /\ toH' = Tail(toH)
  /\ dpc' = [dpc EXCEPT !["h"] = "adopt"]
  /\ UNCHANGED <<pvars, tree, open, toP, refs, st, snap, ctl>>
  /\ Easy

\* An error before the end of the transfers: the handles are closed, and
\* everything is left to the snapshot.
receiveFails ==
  /\ dpc["h"] \in {"ready", "receive"}
  /\ \/ ~open /\ (toH = <<>> \/ Arrived("fd")) /\ Easy
     \/ Spent
  /\ open' = FALSE /\ toH' = <<>>
  /\ st' = [st EXCEPT !["h"] = Stage("h", {s \in Server : st["h"][s] # "none"})]
  /\ dpc' = [dpc EXCEPT !["h"] = "bind"]
  /\ UNCHANGED <<pvars, tree, toP, refs, snap, ctl>>

NewOwnerFromHandoff(s) == st' = [st EXCEPT !["h"][s] = "adopted"] /\ UNCHANGED tree

\* What fails closes the handles, or stops the tree it had attached.
AttachFails(s) == /\ st' = [st EXCEPT !["h"][s] = "staged"]
                  /\ \/ UNCHANGED tree
                     \/ tree' = [tree EXCEPT ![s] = "dead"]

\* The handles of one server are taken, and an owner is built on them and
\* registered.
restoreSnapshotPlan(s) ==
  /\ dpc["h"] = "adopt" /\ st["h"][s] = "owned"
  /\ \/ NewOwnerFromHandoff(s) /\ Easy
     \/ AttachFails(s) /\ Spent
  /\ UNCHANGED <<pvars, wire, refs, dpc, snap, ctl>>

Adopted == {s \in Server : st["h"][s] = "adopted"}

\* The final acknowledgement.  If it cannot be sent, the adopted owners are
\* removed again and are all that is kept for later.
finalizeReceipt ==
  /\ dpc["h"] = "adopt" /\ Received = {}
  /\ dpc' = [dpc EXCEPT !["h"] = "bind"]
  /\ IF open
     THEN /\ toP' = Append(toP, [t |-> "final", acc |-> Adopted, no |-> refs \ Adopted])
          /\ open' = FALSE
          /\ st' = [st EXCEPT !["h"] = Stage("h", {s \in Server : st["h"][s] = "nacked"})]
     ELSE /\ st' = [st EXCEPT !["h"] =
                      [s \in Server |-> IF s \in Adopted THEN "rolling" ELSE "dropped"]]
          /\ UNCHANGED <<toP, open>>
  /\ UNCHANGED <<pvars, tree, toH, refs, snap, ctl>>
  /\ Easy

\* The removal of an adopted owner is proven: its tree is dead.
rollbackAdopted(s) ==
  /\ dpc["h"] \in {"bind", "activate"} /\ st["h"][s] = "rolling"
  /\ st' = [st EXCEPT !["h"][s] = "staged"]
  /\ tree' = [tree EXCEPT ![s] = "dead"]
  /\ UNCHANGED <<pvars, wire, refs, dpc, snap, ctl>>
  /\ Easy

\* A successor dies on its own, at any time.  From its bind on it is the only
\* one that has what it read: the file is consumed, and the predecessor, if it
\* was acknowledged, has let go.
SuccessorCrashes(d) ==
  /\ Live(d)
  /\ dpc' = [dpc EXCEPT ![d] = IF @ \in {"bind", "activate", "serving"} THEN "lost" ELSE "gone"]
  /\ st' = [st EXCEPT ![d] = [s \in Server |-> "none"]]
  /\ open' = FALSE
  /\ ctl' = IF ctl = d THEN "free" ELSE ctl
  /\ UNCHANGED <<pvars, tree, toP, toH, refs, snap>>
  /\ Spent

retryControlBind(d) ==
  /\ dpc[d] = "bind" /\ ctl = "free"
  /\ ctl' = d
  /\ dpc' = [dpc EXCEPT ![d] = "activate"]
  /\ UNCHANGED <<pvars, tree, wire, refs, st, snap>>
  /\ Easy

\* What a successor that gives up does to the trees it had attached.
ShutDown(d) ==
  /\ tree' = [s \in Server |-> IF st[d][s] \in {"adopted", "rolling"} THEN "dead"
                               ELSE tree[s]]
  /\ dpc' = [dpc EXCEPT ![d] = "failed"]
  /\ st' = [st EXCEPT ![d] = [s \in Server |-> "none"]]

\* The socket stayed taken through all the attempts.
bindGivesUp(d) ==
  /\ dpc[d] = "bind" /\ ctl # "free"
  /\ ShutDown(d)
  /\ UNCHANGED <<pvars, wire, refs, snap, ctl>>
  /\ Spent

\* Every staged owner is registered, then each starts a process of its own.
\* Owners still being rolled back are awaited first.
activateRestartStaging(d) ==
  /\ dpc[d] = "activate"
  /\ \A s \in Server : st[d][s] # "rolling"
  /\ st' = [st EXCEPT ![d] = [s \in Server |->
              IF st[d][s] = "staged" THEN "fresh" ELSE st[d][s]]]
  /\ dpc' = [dpc EXCEPT ![d] = "serving"]
  /\ UNCHANGED <<pvars, tree, wire, refs, snap, ctl>>
  /\ Easy

\* One could not be registered: those that were are removed, the recovery
\* snapshot is written for the next daemon, and this one ends.
activationFails(d) ==
  /\ dpc[d] = "activate"
  /\ snap' = {s \in Server : st[d][s] \in {"staged", "adopted", "rolling"}}
  /\ ShutDown(d)
  /\ ctl' = "free"
  /\ UNCHANGED <<pvars, wire, refs>>
  /\ Spent

----------------------------------------------------------------------------
Predecessor ==
  \/ serializeSnapshotPinned \/ attemptHandoff \/ snapshotOnlyRestart
  \/ acceptHandoffHello \/ helloFails
  \/ SendReady \/ Receipt \/ SendDone \/ FinalAck \/ protocolFails
  \/ handoffComplete \/ stopFailedSuccessor \/ RewriteSnapshot
  \/ prepareSnapshotRestart \/ afterGracefulRestart \/ CloseControl
  \/ \E s \in Server : \/ collectHandoffUpstreams(s) \/ Transfer(s)
                       \/ settleHandoffUpstreams(s)

Finalizer == \E s \in Server : finalizeAndRemoveOwner(s)

Successor(d) ==
  \/ loadSnapshot(d) \/ retryControlBind(d) \/ bindGivesUp(d)
  \/ activateRestartStaging(d) \/ activationFails(d)

Receiver ==
  \/ dialHandoff \/ receiveReady \/ receiveTransfer \/ receiveDone
  \/ receiveFails \/ finalizeReceipt
  \/ \E s \in Server : restoreSnapshotPlan(s) \/ rollbackAdopted(s)

Operator == HandleGracefulRestart \/ HandleShutdown

Next == \/ Predecessor \/ Finalizer \/ PredecessorCrashes \/ Receiver \/ Operator
        \/ \E d \in Daemon : Successor(d) \/ SuccessorCrashes(d)

RestartSpec == RestartInit /\ [][Next]_vars

\* Every process that runs keeps running; nothing is asked of the operator, and
\* no finalization is assumed to be proven.
FairRestartSpec ==
  /\ RestartSpec
  /\ WF_vars(Predecessor)
  /\ WF_vars(Receiver \/ Successor("h"))
  /\ WF_vars(Successor("s"))

----------------------------------------------------------------------------
(* What a restart promises                                                 *)

\* Every variable has a value of its kind, and the connection carries at
\* most the two messages that the hand-over can have under way at once.
RestartTypeOK ==
  /\ ppc \in {"serving", "snapshot", "attempt", "accept", "collect", "transfer",
              "receipt", "ack", "settle", "rewrite", "backup", "respond",
              "shutdown", "gone", "blocked"}
  /\ fence \in BOOLEAN /\ open \in BOOLEAN
  /\ backed \subseteq Server
  /\ pinned \subseteq Server /\ todo \subseteq Server
  /\ refs \subseteq Server /\ snap \subseteq Server
  /\ own \in [Server -> {"up", "cache", "prepared", "stuck", "sent", "done", "gone"}]
  /\ tree \in [Server -> {"none", "alive", "dead"}]
  /\ ho \in [ready : SUBSET Server, receipted : SUBSET Server,
             accepted : SUBSET Server, orphans : SUBSET Server,
             failed : BOOLEAN, told : BOOLEAN]
  /\ ho.accepted \subseteq ho.receipted /\ ho.receipted \subseteq ho.ready
  /\ dpc \in [Daemon -> {"none", "load", "dial", "ready", "receive", "adopt", "bind",
                         "activate", "serving", "gone", "failed", "lost"}]
  /\ st \in [Daemon -> [Server -> {"none", "staged", "owned", "nacked", "adopted",
                                   "rolling", "dropped", "fresh"}]]
  /\ ctl \in Daemon \cup {"p", "free"}
  /\ Len(toP) <= 1 /\ Len(toH) <= 2
  /\ trouble \in 0..MaxTrouble

\* A tree whose daemon is no more: the predecessor died with it; or it was released,
\* and the successor was stopped since the settlement failed for another tree, or
\* died after its acknowledgement.
Stranded(s) == \/ s \in ho.orphans
               \/ s \in ho.accepted /\ (ho.failed \/ dpc["h"] = "lost")

\* The daemons whose process of this server lives, "p" for the original tree.
LiveTrees(s) == {d \in Daemon : st[d][s] = "fresh"}
                  \cup (IF tree[s] = "alive" THEN {"p"} ELSE {})

\* Without an exception for half-failed settlements: once the failed successor
\* has exited, a fresh snapshot successor is safe, unless a daemon died.
FallbackSafe ==
  dpc["h"] # "lost" => \A s \in Server \ ho.orphans : Cardinality(LiveTrees(s)) <= 1

\* A live process tree always has a daemon that answers for it: the
\* predecessor until it commits, and from then on the successor whose
\* acknowledgement made it commit.  And no server ever runs twice: no successor
\* starts a process of its own while the tree of the predecessor, or one of
\* another successor, still lives.  The exceptions are a settlement that failed
\* half way, and a tree whose daemon died: P before it committed, or the
\* successor after it acknowledged.
OneKeeper ==
  /\ RestartTypeOK
  /\ \A s \in Server : Stranded(s) \/
       /\ tree[s] = "alive" => \/ s \in Held
                               \/ st["h"][s] \in {"adopted", "rolling"}
       /\ Cardinality(LiveTrees(s)) <= 1

\* A restart that is given up before the hello leaves the predecessor as it
\* was: admitting owners, nothing pinned, every owner and tree untouched,
\* the control socket its own.
PredecessorKept ==
  ppc = "serving" =>
    /\ ~fence /\ pinned = {} /\ ctl = "p"
    /\ \A s \in Server : /\ own[s] = Untouched(s)
                         /\ s \in backed => tree[s] = "alive"

\* Once the caller was told that the restart is under way, every server is
\* in the file or in a successor that runs, whatever died or failed before, and
\* until the successor that has consumed the file, or has acknowledged the trees,
\* gives up or dies: between that and its own shutdown there is no other copy.
StateKept ==
  (ho.told /\ \A d \in Daemon : dpc[d] \notin {"failed", "lost"}) =>
    \A s \in Server :
      \/ s \in snap
      \/ \E d \in Daemon : Live(d) /\ st[d][s] \notin {"none", "dropped"}

Settled ==
  \/ ppc \in {"serving", "blocked"}
  \/ ppc = "gone" /\ \/ \E d \in Daemon : dpc[d] = "serving"
                     \/ \A d \in Daemon : ~Live(d)

\* A restart comes to an end: the predecessor serves again, or is blocked
\* for the operator, or is gone and a successor serves, has given up or died.
\* Neither daemon waits for the other forever, unless an owner's finalization is
\* never proven: then the predecessor stays, with the control socket.
RestartSettles ==
  (\A s \in Server : []<>(ppc # "shutdown" \/ own[s] = "gone"))
    => ((ppc = "snapshot") ~> Settled)
============================================================================
