---------------------------- MODULE RestartProofs ----------------------------
(***************************************************************************)
(* Proofs about the graceful restart, for any number of servers and any    *)
(* number of failures: a tree is never without a keeper and no server runs *)
(* twice unless a settlement failed half way or a daemon died that had the *)
(* tree, an aborted restart leaves the predecessor as it was, and a        *)
(* restart that was announced loses no server until a successor gives up   *)
(* or dies.                                                                *)
(***************************************************************************)
EXTENDS Restart, FiniteSetTheorems, TLAPS

ToSuccessor == [t : {"ready"}, ids : SUBSET Server] \cup [t : {"fd"}, id : Server]
                 \cup [t : {"done"}, ok : SUBSET Server, no : SUBSET Server]
ToPredecessor == [t : {"hello"}] \cup [t : {"ack"}, id : Server, ok : BOOLEAN]
                   \cup [t : {"final"}, acc : SUBSET Server, no : SUBSET Server]

Places == {"none", "load", "dial", "ready", "receive", "adopt", "bind", "activate", "serving",
           "gone", "failed", "lost"}
Holdings == {"none", "staged", "owned", "nacked", "adopted", "rolling", "dropped", "fresh"}
Handoff == [ready : SUBSET Server, receipted : SUBSET Server, accepted : SUBSET Server,
            orphans : SUBSET Server, failed : BOOLEAN, told : BOOLEAN]

\* The connection carries messages of the protocol.
Messages == toP \in Seq(ToPredecessor) /\ toH \in Seq(ToSuccessor)

\* Until the hello the predecessor has done nothing that an abort must undo but
\* to pin, to fence and to write the file, and the successor has no tree.
Undisturbed ==
  /\ ppc \in {"serving", "snapshot", "attempt", "accept"} =>
       /\ \A s \in Server : own[s] = Untouched(s) /\ (s \in backed => tree[s] = "alive")
       /\ toH = <<>> /\ dpc["h"] \notin {"receive", "adopt"}
       /\ \A s \in Server : st["h"][s] \in {"none", "staged"}
  /\ ppc \in {"serving", "snapshot", "attempt", "accept", "collect"} => ho = NoHandoff
  /\ ppc = "serving" => ~fence
  /\ ppc \in {"serving", "snapshot"} => pinned = {}

\* The predecessor keeps the control socket until it is gone with its owners; who
\* has it afterwards is active.
Socket ==
  /\ ctl = "p" <=> ppc # "gone"
  /\ \A d \in Daemon : ctl = d <=> dpc[d] \in {"activate", "serving"}
  /\ ppc = "gone" => \A s \in Server : own[s] = "gone"

\* The clean successor is started last, when the other one is no more, and a
\* successor that does not run has nothing.
OneSuccessor ==
  /\ dpc["s"] # "none" => ~Live("h") /\ ppc \in {"respond", "shutdown", "gone"}
  /\ ppc \in {"snapshot", "attempt", "rewrite", "backup"} => ~Live("h")
  /\ dpc["s"] \notin {"dial", "ready", "receive", "adopt"}
  /\ \A d \in Daemon : ~Live(d) \/ dpc[d] = "load" => \A s \in Server : st[d][s] = "none"

\* Whether the successor has not yet read the list of trees.
Unread == IF dpc["h"] = "ready" THEN 1 ELSE 0

\* While the connection is open the two daemons are in step.
InStep ==
  /\ open =>
       /\ dpc["h"] \in {"ready", "receive", "adopt"}
       /\ ppc \in {"accept", "collect", "transfer", "receipt", "ack"}
       /\ dpc["h"] = "adopt" => ppc = "ack" /\ toH = <<>>
       /\ ppc \in {"accept", "collect"} => dpc["h"] = "ready" /\ toH = <<>>
       /\ ppc = "transfer" => Len(toH) = Unread
       /\ ppc = "receipt" =>
            \/ toP = <<>> /\ Len(toH) = Unread + 1 /\ toH[Unread + 1].t = "fd"
            \/ toP # <<>> /\ Len(toH) = 0 /\ dpc["h"] = "receive"
       /\ ppc = "ack" => toP = <<>>
       /\ ppc = "ack" /\ dpc["h"] # "adopt" => Len(toH) = Unread + 1 /\ toH[Unread + 1].t = "done"
       /\ dpc["h"] = "ready" /\ toH # <<>> => toH[1].t = "ready"
  /\ ppc \in {"collect", "transfer"} => toP = <<>>
  /\ ppc \in {"transfer", "receipt"} => todo \subseteq ho.ready
  /\ ppc \in {"transfer", "receipt", "ack"} => ho.accepted = {}

\* Nothing of this successor's is lost.
Complete(d) == \A s \in Server : st[d][s] \notin {"none", "dropped"}

\* The final acknowledgement is for trees that the successor has adopted.
Acknowledged ==
  ppc = "ack" /\ toP # <<>> =>
    /\ toP[1].t = "final" /\ dpc["h"] \in {"bind", "failed", "lost"}
    /\ dpc["h"] = "bind" => Complete("h")
    /\ \A s \in toP[1].acc : tree[s] # "alive" \/ st["h"][s] = "adopted" \/ dpc["h"] = "lost"

\* What an owner of the predecessor says of its tree.
Owners ==
  \A s \in Server :
    /\ own[s] = "prepared" => \/ ppc \in {"collect", "transfer", "receipt", "ack"}
                              \/ ppc = "settle" /\ s \in todo
    /\ own[s] \in {"done", "cache"} => tree[s] # "alive"
    /\ own[s] \in {"sent", "gone"} /\ tree[s] = "alive" => s \in ho.accepted \/ s \in ho.orphans
    /\ s \in ho.accepted =>
         /\ dpc["h"] \in {"bind", "activate", "serving", "gone", "failed", "lost"}
         /\ ho.failed \/ dpc["h"] = "lost" \/ tree[s] # "alive" \/ st["h"][s] = "adopted"

\* A process that a successor has started is the only one, but for a tree that a
\* dead daemon, or a settlement which failed half way, left behind.
OneProcess ==
  \A d \in Daemon, s \in Server : st[d][s] = "fresh" => tree[s] # "alive" \/ Stranded(s)

\* Where the servers are, from the successor's dialling on.
Kept ==
  /\ ctl = "p" \/ Live("h") => snap \in {{}, Server}
  /\ ppc \in {"attempt", "backup"} => snap = Server
  /\ dpc["h"] \in {"dial", "ready", "receive", "adopt"} => Complete("h")
  /\ ppc = "settle" /\ ~ho.failed =>
       dpc["h"] \in {"failed", "lost"} \/ (dpc["h"] = "bind" /\ Complete("h"))
  /\ ho.told => ppc \in {"respond", "shutdown", "gone"}
  /\ ho.told => \E d \in Daemon :
       \/ dpc[d] \in {"failed", "lost"}
       \/ d = "s" /\ dpc[d] \in {"load", "gone"} /\ snap = Server
       \/ dpc[d] \in {"bind", "activate", "serving"} /\ Complete(d)

RestartInv ==
  /\ RestartTypeOK
  /\ Messages
  /\ Undisturbed
  /\ Socket
  /\ OneSuccessor
  /\ InStep
  /\ Acknowledged
  /\ Owners
  /\ OneProcess
  /\ Kept
-----------------------------------------------------------------------------
(* What every step does with the bound.                                    *)

\* A step counts at most one unlikely event.
LEMMA Spending ==
  ASSUME RestartTypeOK, Easy \/ Spent
  PROVE  trouble' \in 0..MaxTrouble /\ backed' = backed
  BY RestartAssumption DEF RestartTypeOK, Easy, Spent

\* A restart is asked for.
LEMMA Requesting == ASSUME RestartInv, HandleGracefulRestart PROVE RestartInv'
  <1> USE DEF RestartInv, HandleGracefulRestart
  <1>0. trouble' \in 0..MaxTrouble /\ backed' = backed
    BY Spending
  <1>1. RestartTypeOK'
    BY <1>0 DEF RestartTypeOK, Undisturbed, Untouched, NoHandoff, Daemon
  <1>2. Messages'
    BY DEF RestartTypeOK, Messages, ToPredecessor, ToSuccessor, Daemon
  <1>3. Undisturbed'
    BY <1>0 DEF RestartTypeOK, Undisturbed, OneSuccessor, Untouched, NoHandoff, Live, Daemon
  <1>4. Socket'
    BY DEF RestartTypeOK, Socket, Daemon
  <1>5. OneSuccessor'
    BY DEF RestartTypeOK, OneSuccessor, Live, Daemon
  <1>6. InStep'
    BY DEF RestartTypeOK, InStep, Unread, ToPredecessor, ToSuccessor, Daemon
  <1>7. Acknowledged'
    BY DEF RestartTypeOK, Acknowledged, Complete, ToPredecessor, Daemon
  <1>8. Owners'
    BY <1>0 DEF RestartTypeOK, Owners, Undisturbed, Untouched, NoHandoff, Daemon
  <1>9. OneProcess'
    BY <1>0 DEF RestartTypeOK, OneProcess, Undisturbed, OneSuccessor, Stranded, Daemon,
                Untouched, NoHandoff, Live
  <1>10. Kept'
    BY DEF RestartTypeOK, Kept, Complete, NoHandoff, Daemon, Live
  <1> QED
    BY <1>1, <1>2, <1>3, <1>4, <1>5, <1>6, <1>7, <1>8, <1>9, <1>10

\* The snapshot is written, or the restart given up.
LEMMA Snapshotting == ASSUME RestartInv, serializeSnapshotPinned PROVE RestartInv'
  <1> USE DEF RestartInv, serializeSnapshotPinned, Serialize, wire, svars
  <1>0. trouble' \in 0..MaxTrouble /\ backed' = backed
    BY Spending
  <1>1. RestartTypeOK'
    BY <1>0 DEF RestartTypeOK
  <1>2. Messages' /\ OneProcess'
    BY DEF Messages, OneProcess, Stranded, Daemon
  <1>3. Undisturbed'
    BY <1>0 DEF RestartTypeOK, Undisturbed, Untouched, NoHandoff
  <1>4. Socket'
    BY DEF RestartTypeOK, Socket, Daemon
  <1>5. OneSuccessor'
    BY DEF RestartTypeOK, OneSuccessor, Live, Daemon
  <1>6. InStep'
    BY DEF RestartTypeOK, InStep, Unread, ToPredecessor, ToSuccessor
  <1>7. Acknowledged'
    BY DEF RestartTypeOK, Acknowledged, Complete, ToPredecessor
  <1>8. Owners'
    BY DEF RestartTypeOK, Owners
  <1>9. Kept'
    BY DEF RestartTypeOK, Kept, Complete, NoHandoff, Daemon, Live
  <1> QED
    BY <1>1, <1>2, <1>3, <1>4, <1>5, <1>6, <1>7, <1>8, <1>9

\* A successor is started for the trees, or the restart given up.
LEMMA Attempting == ASSUME RestartInv, attemptHandoff PROVE RestartInv'
  <1> USE DEF RestartInv, attemptHandoff, Started, abortGracefulRestart, wire
  <1>0. trouble' \in 0..MaxTrouble /\ backed' = backed
    BY Spending
  <1>1. RestartTypeOK'
    <2>1. dpc' \in [Daemon -> Places]
      BY DEF RestartTypeOK, Places, Daemon
    <2>2. snap' \subseteq Server /\ fence' \in BOOLEAN /\ pinned' \subseteq Server
      BY DEF RestartTypeOK
    <2> QED
      BY <1>0, <2>1, <2>2 DEF RestartTypeOK, Places, Holdings, Handoff
  <1>2. Messages' /\ OneProcess'
    BY DEF Messages, OneProcess, Stranded, Daemon
  <1>3. Undisturbed'
    BY <1>0 DEF RestartTypeOK, Undisturbed, Untouched, NoHandoff, Daemon
  <1>4. Socket'
    BY DEF RestartTypeOK, Socket, Daemon
  <1>5. OneSuccessor'
    BY DEF RestartTypeOK, OneSuccessor, Live, Daemon
  <1>6. InStep'
    BY DEF RestartTypeOK, InStep, Unread, ToPredecessor, ToSuccessor, Daemon
  <1>7. Acknowledged'
    BY DEF RestartTypeOK, Acknowledged, Complete, ToPredecessor, Daemon
  <1>8. Owners'
    BY DEF RestartTypeOK, Owners, Daemon
  <1>9. Kept'
    BY DEF RestartTypeOK, Kept, Complete, NoHandoff, Daemon, Live
  <1> QED
    BY <1>1, <1>2, <1>3, <1>4, <1>5, <1>6, <1>7, <1>8, <1>9

\* A clean successor is started, or the restart given up.
LEMMA WithoutTrees == ASSUME RestartInv, snapshotOnlyRestart PROVE RestartInv'
  <1> USE DEF RestartInv, snapshotOnlyRestart, Started, abortGracefulRestart, wire
  <1>0. trouble' \in 0..MaxTrouble /\ backed' = backed
    BY Spending
  <1>1. RestartTypeOK'
    <2>1. dpc' \in [Daemon -> Places]
      BY DEF RestartTypeOK, Places, Daemon
    <2>2. snap' \subseteq Server /\ fence' \in BOOLEAN /\ pinned' \subseteq Server
      BY DEF RestartTypeOK
    <2>3. ho' \in Handoff /\ ho'.accepted \subseteq ho'.receipted /\ ho'.receipted \subseteq ho'.ready
      BY DEF RestartTypeOK, Handoff
    <2> QED
      BY <1>0, <2>1, <2>2, <2>3 DEF RestartTypeOK, Places, Holdings, Handoff
  <1>2. Messages'
    BY DEF RestartTypeOK, Messages, ToPredecessor, ToSuccessor, Daemon
  <1>3. Undisturbed'
    BY <1>0 DEF RestartTypeOK, Undisturbed, Untouched, NoHandoff, Daemon
  <1>4. Socket'
    BY DEF RestartTypeOK, Socket, Daemon
  <1>5. OneSuccessor'
    BY DEF RestartTypeOK, OneSuccessor, Live, Daemon
  <1>6. InStep'
    BY DEF RestartTypeOK, InStep, Unread, ToPredecessor, ToSuccessor, Daemon
  <1>7. Acknowledged'
    BY DEF RestartTypeOK, Acknowledged, Complete, ToPredecessor, Daemon
  <1>8. Owners'
    BY DEF RestartTypeOK, Owners, Daemon
  <1>9. OneProcess'
    BY DEF RestartTypeOK, OneProcess, Stranded, Daemon
  <1>10. Kept'
    BY DEF RestartTypeOK, Kept, Complete, NoHandoff, Daemon, Live
  <1> QED
    BY <1>1, <1>2, <1>3, <1>4, <1>5, <1>6, <1>7, <1>8, <1>9, <1>10

\* The hello arrives.
LEMMA Greeted == ASSUME RestartInv, acceptHandoffHello PROVE RestartInv'
  <1> USE DEF RestartInv, acceptHandoffHello, svars
  <1>0. trouble' \in 0..MaxTrouble /\ backed' = backed
    BY Spending
  <1>1. RestartTypeOK'
    BY <1>0 DEF RestartTypeOK
  <1>2. Messages'
    BY DEF RestartTypeOK, Messages, ToPredecessor, ToSuccessor
  <1>3. Undisturbed'
    BY <1>0 DEF RestartTypeOK, Undisturbed, Untouched, NoHandoff
  <1>4. Socket'
    BY DEF RestartTypeOK, Socket, Daemon
  <1>5. OneSuccessor'
    BY DEF RestartTypeOK, OneSuccessor, Live, Daemon
  <1>6. InStep'
    BY DEF RestartTypeOK, InStep, Unread, ToPredecessor, ToSuccessor
  <1>7. Acknowledged'
    BY DEF RestartTypeOK, Acknowledged, Complete, ToPredecessor
  <1>8. Owners'
    BY DEF RestartTypeOK, Owners
  <1>9. OneProcess'
    BY DEF RestartTypeOK, OneProcess, Stranded, Daemon
  <1>10. Kept'
    BY DEF RestartTypeOK, Kept, Complete, NoHandoff, Daemon, Live
  <1> QED
    BY <1>1, <1>2, <1>3, <1>4, <1>5, <1>6, <1>7, <1>8, <1>9, <1>10

\* No hello arrives, and the restart is given up.
LEMMA NotGreeted == ASSUME RestartInv, helloFails PROVE RestartInv'
  <1> USE DEF RestartInv, helloFails, abortGracefulRestart, StopSeen, StopUnseen, Killed
  <1>0. trouble' \in 0..MaxTrouble /\ backed' = backed
    BY Spending
  <1>1. RestartTypeOK'
    <2>1. dpc' \in [Daemon -> Places]
      BY DEF RestartTypeOK, Places, Daemon
    <2>2. st' \in [Daemon -> [Server -> Holdings]]
      BY DEF RestartTypeOK, Holdings, Daemon
    <2>3. snap' \subseteq Server /\ fence' \in BOOLEAN /\ pinned' \subseteq Server
      BY DEF RestartTypeOK
    <2>4. Len(toP') <= 1
      OBVIOUS
    <2> QED
      BY <1>0, <2>1, <2>2, <2>3, <2>4 DEF RestartTypeOK, Places, Holdings, Handoff
  <1>2. Messages'
    BY DEF RestartTypeOK, Messages, ToPredecessor, ToSuccessor, Daemon
  <1>3. Undisturbed'
    BY <1>0 DEF RestartTypeOK, Undisturbed, Untouched, NoHandoff, Daemon
  <1>4. Socket'
    BY DEF RestartTypeOK, Socket, Daemon
  <1>5. OneSuccessor'
    BY DEF RestartTypeOK, OneSuccessor, Live, Daemon
  <1>6. InStep'
    BY DEF RestartTypeOK, InStep, Unread, ToPredecessor, ToSuccessor, Daemon
  <1>7. Acknowledged'
    BY DEF RestartTypeOK, Acknowledged, Complete, ToPredecessor, Daemon
  <1>8. Owners'
    BY <1>0 DEF RestartTypeOK, Owners, Undisturbed, Untouched, NoHandoff, Daemon
  <1>9. OneProcess'
    BY DEF RestartTypeOK, OneProcess, Undisturbed, NoHandoff, Stranded, Daemon
  <1>10. Kept'
    BY DEF RestartTypeOK, Kept, Complete, NoHandoff, Daemon, Live
  <1> QED
    BY <1>1, <1>2, <1>3, <1>4, <1>5, <1>6, <1>7, <1>8, <1>9, <1>10

\* A tree is detached, or killed.
LEMMA Collecting == ASSUME RestartInv, NEW s \in Server, collectHandoffUpstreams(s) PROVE RestartInv'
  <1> USE DEF RestartInv, collectHandoffUpstreams, ShutdownForHandoff, DetachWithAuthority,
              TreeKilled, KillUnproven, wire, svars
  <1>0. trouble' \in 0..MaxTrouble /\ backed' = backed
    BY Spending
  <1>1. RestartTypeOK'
    BY <1>0 DEF RestartTypeOK
  <1>2. Messages' /\ OneSuccessor' /\ Kept'
    BY DEF Messages, OneSuccessor, Kept, Live, Daemon, Complete, NoHandoff
  <1>3. Undisturbed'
    BY <1>0 DEF RestartTypeOK, Undisturbed, Untouched, NoHandoff
  <1>4. Socket'
    BY DEF RestartTypeOK, Socket, Daemon
  <1>5. InStep'
    BY DEF RestartTypeOK, InStep, Unread, ToPredecessor, ToSuccessor
  <1>6. Acknowledged'
    BY DEF RestartTypeOK, Acknowledged, Complete, ToPredecessor
  <1>7. Owners'
    BY DEF RestartTypeOK, Owners
  <1>8. OneProcess'
    BY DEF RestartTypeOK, OneProcess, Stranded, Daemon
  <1> QED
    BY <1>1, <1>2, <1>3, <1>4, <1>5, <1>6, <1>7, <1>8

\* The list of trees is sent.
LEMMA Announcing == ASSUME RestartInv, SendReady PROVE RestartInv'
  <1> USE DEF RestartInv, SendReady, Send, svars
  <1>0. trouble' \in 0..MaxTrouble /\ backed' = backed
    BY Spending
  <1>1. RestartTypeOK'
    BY <1>0 DEF RestartTypeOK, InStep, Messages, Undisturbed, Unread, ToPredecessor,
                ToSuccessor, Untouched, NoHandoff
  <1>2. Messages'
    BY DEF RestartTypeOK, Messages, ToPredecessor, ToSuccessor
  <1>3. Undisturbed'
    BY <1>0 DEF RestartTypeOK, Undisturbed, Untouched, NoHandoff
  <1>4. Socket'
    BY DEF RestartTypeOK, Socket, Daemon
  <1>5. OneSuccessor'
    BY DEF RestartTypeOK, OneSuccessor, Live, Daemon
  <1>6. InStep'
    <2>1. /\ open /\ Len(toH) = 0 /\ dpc["h"] = "ready" /\ toP = <<>> /\ Unread' = 1
          /\ UNCHANGED <<open, toP, dpc>>
      BY DEF InStep, Messages, Unread
    <2>2. Len(toH') = 1 /\ toH'[1].t = "ready"
      BY <2>1 DEF Messages
    <2>3. todo' = ho'.ready /\ ho'.accepted = {}
      BY DEF RestartTypeOK, Undisturbed, NoHandoff
    <2> QED
      BY <2>1, <2>2, <2>3 DEF InStep
  <1>7. Acknowledged'
    BY DEF RestartTypeOK, Acknowledged, Complete, ToPredecessor
  <1>8. Owners'
    BY DEF RestartTypeOK, Owners
  <1>9. OneProcess'
    BY DEF RestartTypeOK, OneProcess, Stranded, Daemon
  <1>10. Kept'
    BY DEF RestartTypeOK, Kept, Complete, NoHandoff, Daemon, Live
  <1> QED
    BY <1>1, <1>2, <1>3, <1>4, <1>5, <1>6, <1>7, <1>8, <1>9, <1>10

\* The handles of a tree are sent.
LEMMA Transferring == ASSUME RestartInv, NEW s \in Server, Transfer(s) PROVE RestartInv'
  <1> USE DEF RestartInv, Transfer, Send, svars
  <1>0. trouble' \in 0..MaxTrouble /\ backed' = backed
    BY Spending
  <1>1. RestartTypeOK'
    <2>1. Len(toH) \in {0, 1} /\ toH' = Append(toH, [t |-> "fd", id |-> s])
      BY DEF InStep, Unread
    <2>2. Len(toH') <= 2
      BY <2>1 DEF Messages
    <2> QED
      BY <1>0, <2>2 DEF RestartTypeOK
  <1>2. Messages'
    BY DEF RestartTypeOK, Messages, ToPredecessor, ToSuccessor
  <1>3. Undisturbed'
    BY <1>0 DEF RestartTypeOK, Undisturbed, Untouched, NoHandoff
  <1>4. Socket'
    BY DEF RestartTypeOK, Socket, Daemon
  <1>5. OneSuccessor'
    BY DEF RestartTypeOK, OneSuccessor, Live, Daemon
  <1>6. InStep'
    <2>1. /\ Unread' = Unread /\ Unread \in {0, 1} /\ toH' = Append(toH, [t |-> "fd", id |-> s])
          /\ open /\ Len(toH) = Unread /\ UNCHANGED <<open, toP, dpc, ho, todo>> /\ toP = <<>>
          /\ dpc["h"] \in {"ready", "receive"}
      BY DEF Unread, InStep
    <2>2. /\ Len(toH') = Unread + 1 /\ toH'[Unread + 1].t = "fd"
          /\ Unread = 1 => toH'[1].t = "ready"
      BY <2>1 DEF Messages, InStep, Unread
    <2>3. dpc["h"] = "ready" => Unread = 1
      BY DEF Unread
    <2> QED
      BY <2>1, <2>2, <2>3 DEF InStep
  <1>7. Acknowledged'
    BY DEF RestartTypeOK, Acknowledged, Complete, ToPredecessor
  <1>8. Owners'
    BY DEF RestartTypeOK, Owners
  <1>9. OneProcess'
    BY DEF RestartTypeOK, OneProcess, Stranded, Daemon
  <1>10. Kept'
    BY DEF RestartTypeOK, Kept, Complete, NoHandoff, Daemon, Live
  <1> QED
    BY <1>1, <1>2, <1>3, <1>4, <1>5, <1>6, <1>7, <1>8, <1>9, <1>10

\* The receipt of a tree arrives.
LEMMA Receipted == ASSUME RestartInv, Receipt PROVE RestartInv'
  <1> USE DEF RestartInv, Receipt, svars
  <1>0. trouble' \in 0..MaxTrouble /\ backed' = backed
    BY Spending
  <1>1. RestartTypeOK'
    <2>1. ho' \in Handoff /\ ho'.accepted \subseteq ho'.receipted /\ ho'.receipted \subseteq ho'.ready
      <3>1. ho \in Handoff /\ ho.accepted \subseteq ho.receipted /\ ho.receipted \subseteq ho.ready
        BY DEF RestartTypeOK, Handoff
      <3>2. PICK x \in ho.ready : ho' = [ho EXCEPT !.receipted = ho.receipted \cup {x}] \/ ho' = ho
        BY DEF InStep
      <3> HIDE DEF RestartInv, Receipt
      <3> QED
        BY <3>1, <3>2 DEF Handoff
    <2>2. todo' \subseteq Server
      BY DEF RestartTypeOK
    <2>3. Len(toP') <= 1
      BY DEF RestartTypeOK, InStep, Messages, Unread
    <2> QED
      BY <1>0, <2>1, <2>2, <2>3 DEF RestartTypeOK, Places, Holdings, Handoff
  <1>2. Messages'
    BY DEF RestartTypeOK, Messages, ToPredecessor, ToSuccessor
  <1>3. Undisturbed'
    BY <1>0 DEF RestartTypeOK, Undisturbed, Untouched, NoHandoff
  <1>4. Socket'
    BY DEF RestartTypeOK, Socket, Daemon
  <1>5. OneSuccessor'
    BY DEF RestartTypeOK, OneSuccessor, Live, Daemon
  <1>6. InStep'
    BY DEF RestartTypeOK, InStep, Unread, ToPredecessor, ToSuccessor
  <1>7. Acknowledged'
    BY DEF RestartTypeOK, Acknowledged, Complete, ToPredecessor
  <1>8. Owners'
    BY DEF RestartTypeOK, Owners
  <1>9. OneProcess'
    BY DEF RestartTypeOK, OneProcess, Stranded, Daemon
  <1>10. Kept'
    BY DEF RestartTypeOK, Kept, Complete, NoHandoff, Daemon, Live
  <1> QED
    BY <1>1, <1>2, <1>3, <1>4, <1>5, <1>6, <1>7, <1>8, <1>9, <1>10

\* The end of the transfers is sent.
LEMMA Concluding == ASSUME RestartInv, SendDone PROVE RestartInv'
  <1> USE DEF RestartInv, SendDone, Send, svars
  <1>0. trouble' \in 0..MaxTrouble /\ backed' = backed
    BY Spending
  <1>1. RestartTypeOK'
    BY <1>0 DEF RestartTypeOK, InStep, Messages, Unread, ToPredecessor, ToSuccessor
  <1>2. Messages'
    BY DEF RestartTypeOK, Messages, ToPredecessor, ToSuccessor
  <1>3. Undisturbed'
    BY <1>0 DEF RestartTypeOK, Undisturbed, Untouched, NoHandoff
  <1>4. Socket'
    BY DEF RestartTypeOK, Socket, Daemon
  <1>5. OneSuccessor'
    BY DEF RestartTypeOK, OneSuccessor, Live, Daemon
  <1>6. InStep'
    <2>1. /\ Unread' = Unread /\ Unread \in {0, 1}
          /\ toH' = Append(toH, [t |-> "done", ok |-> ho.receipted, no |-> ho.ready \ ho.receipted])
          /\ open /\ Len(toH) = Unread /\ UNCHANGED <<open, toP, dpc, ho, todo>> /\ toP = <<>>
          /\ dpc["h"] \in {"ready", "receive"}
      BY DEF Unread, InStep
    <2>2. /\ Len(toH') = Unread + 1 /\ toH'[Unread + 1].t = "done"
          /\ Unread = 1 => toH'[1].t = "ready"
      BY <2>1 DEF Messages, InStep, Unread
    <2>3. dpc["h"] = "ready" => Unread = 1
      BY DEF Unread
    <2> QED
      BY <2>1, <2>2, <2>3 DEF InStep
  <1>7. Acknowledged'
    BY DEF RestartTypeOK, Acknowledged, InStep, Complete, ToPredecessor, Unread, ToSuccessor
  <1>8. Owners'
    BY DEF RestartTypeOK, Owners
  <1>9. OneProcess'
    BY DEF RestartTypeOK, OneProcess, Stranded, Daemon
  <1>10. Kept'
    BY DEF RestartTypeOK, Kept, Complete, NoHandoff, Daemon, Live
  <1> QED
    BY <1>1, <1>2, <1>3, <1>4, <1>5, <1>6, <1>7, <1>8, <1>9, <1>10

\* The final acknowledgement arrives.
LEMMA Acknowledging == ASSUME RestartInv, FinalAck PROVE RestartInv'
  <1> USE DEF RestartInv, FinalAck, validateFinalPartition, Prepared, svars
  <1>0. trouble' \in 0..MaxTrouble /\ backed' = backed
    BY Spending
  <1>1. RestartTypeOK'
    <2>1. ho' \in Handoff /\ ho'.accepted \subseteq ho'.receipted /\ ho'.receipted \subseteq ho'.ready
      BY DEF RestartTypeOK, Handoff
    <2>2. todo' \subseteq Server
      BY DEF RestartTypeOK
    <2>3. Len(toP') <= 1
      BY DEF RestartTypeOK, InStep, Messages, Unread
    <2> QED
      BY <1>0, <2>1, <2>2, <2>3 DEF RestartTypeOK, Places, Holdings, Handoff
  <1>2. Messages'
    BY DEF RestartTypeOK, Messages, ToPredecessor, ToSuccessor
  <1>3. Undisturbed'
    BY <1>0 DEF RestartTypeOK, Undisturbed, Untouched, NoHandoff
  <1>4. Socket'
    BY DEF RestartTypeOK, Socket, Daemon
  <1>5. OneSuccessor'
    BY DEF RestartTypeOK, OneSuccessor, Live, Daemon
  <1>6. InStep'
    BY DEF RestartTypeOK, InStep, Unread, ToPredecessor, ToSuccessor
  <1>7. Acknowledged'
    BY DEF RestartTypeOK, Acknowledged, Complete, ToPredecessor
  <1>8. Owners'
    <2>1. toP[1] = Head(toP) /\ ho.accepted = {} /\ ho'.accepted \subseteq Head(toP).acc
      BY DEF RestartTypeOK, InStep, Messages
    <2>2. /\ ho'.accepted # {} => dpc["h"] \in {"bind", "failed", "lost"}
          /\ \A x \in ho'.accepted :
               tree[x] # "alive" \/ st["h"][x] = "adopted" \/ dpc["h"] = "lost"
      BY <2>1 DEF Acknowledged
    <2>3. \A x \in Server : own[x] = "prepared" => x \in todo'
      OBVIOUS
    <2> QED
      BY <2>1, <2>2, <2>3 DEF Owners
  <1>9. OneProcess'
    <2>1. ho.accepted = {}
      BY DEF InStep
    <2> QED
      BY <2>1 DEF OneProcess, Stranded
  <1>10. Kept'
    BY DEF RestartTypeOK, Kept, Acknowledged, Complete, NoHandoff, Daemon, Live, ToPredecessor
  <1> QED
    BY <1>1, <1>2, <1>3, <1>4, <1>5, <1>6, <1>7, <1>8, <1>9, <1>10

\* The protocol fails.
LEMMA Breaking == ASSUME RestartInv, protocolFails PROVE RestartInv'
  <1> USE DEF RestartInv, protocolFails, Prepared, svars
  <1>0. trouble' \in 0..MaxTrouble /\ backed' = backed
    BY Spending
  <1>1. RestartTypeOK'
    <2>1. ho' \in Handoff /\ ho'.accepted \subseteq ho'.receipted /\ ho'.receipted \subseteq ho'.ready
      BY DEF RestartTypeOK, Handoff
    <2>2. todo' \subseteq Server
      BY DEF RestartTypeOK
    <2> QED
      BY <1>0, <2>1, <2>2 DEF RestartTypeOK, Places, Holdings, Handoff
  <1>2. Messages'
    BY DEF RestartTypeOK, Messages, ToPredecessor, ToSuccessor
  <1>3. Undisturbed'
    BY <1>0 DEF RestartTypeOK, Undisturbed, Untouched, NoHandoff
  <1>4. Socket'
    BY DEF RestartTypeOK, Socket, Daemon
  <1>5. OneSuccessor'
    BY DEF RestartTypeOK, OneSuccessor, Live, Daemon
  <1>6. InStep'
    BY DEF RestartTypeOK, InStep, Unread, ToPredecessor, ToSuccessor
  <1>7. Acknowledged'
    BY DEF RestartTypeOK, Acknowledged, Complete, ToPredecessor
  <1>8. Owners'
    BY DEF RestartTypeOK, Owners
  <1>9. OneProcess'
    BY DEF RestartTypeOK, OneProcess, Stranded, Daemon
  <1>10. Kept'
    BY DEF RestartTypeOK, Kept, Complete, NoHandoff, Daemon, Live
  <1> QED
    BY <1>1, <1>2, <1>3, <1>4, <1>5, <1>6, <1>7, <1>8, <1>9, <1>10

\* A tree is released to the successor, or killed.
LEMMA Settling == ASSUME RestartInv, NEW s \in Server, settleHandoffUpstreams(s) PROVE RestartInv'
  <1> USE DEF RestartInv, settleHandoffUpstreams, commitPreparedHandoff, abortPreparedHandoff,
              TreeKilled, KillUnproven, wire, svars
  <1>0. trouble' \in 0..MaxTrouble /\ backed' = backed
    BY Spending
  <1>1. RestartTypeOK'
    BY <1>0 DEF RestartTypeOK
  <1>2. Messages' /\ OneSuccessor'
    BY DEF Messages, OneSuccessor, Live, Daemon
  <1>3. Undisturbed'
    BY <1>0 DEF RestartTypeOK, Undisturbed, Untouched, NoHandoff
  <1>4. Socket'
    BY DEF RestartTypeOK, Socket, Daemon
  <1>5. InStep'
    BY DEF RestartTypeOK, InStep, Unread, ToPredecessor, ToSuccessor
  <1>6. Acknowledged'
    BY DEF RestartTypeOK, Acknowledged, Complete, ToPredecessor
  <1>7. Owners'
    BY DEF RestartTypeOK, Owners
  <1>8. OneProcess'
    BY DEF RestartTypeOK, OneProcess, Stranded, Daemon
  <1>9. Kept'
    BY DEF RestartTypeOK, Kept, Complete, NoHandoff, Daemon, Live
  <1> QED
    BY <1>1, <1>2, <1>3, <1>4, <1>5, <1>6, <1>7, <1>8, <1>9

\* The settlement has succeeded.
LEMMA Completing == ASSUME RestartInv, handoffComplete PROVE RestartInv'
  <1> USE DEF RestartInv, handoffComplete, svars
  <1>0. trouble' \in 0..MaxTrouble /\ backed' = backed
    BY Spending
  <1>1. RestartTypeOK'
    BY <1>0 DEF RestartTypeOK
  <1>2. Messages'
    BY DEF RestartTypeOK, Messages, ToPredecessor, ToSuccessor
  <1>3. Undisturbed'
    BY <1>0 DEF RestartTypeOK, Undisturbed, Untouched, NoHandoff
  <1>4. Socket'
    BY DEF RestartTypeOK, Socket, Daemon
  <1>5. OneSuccessor'
    BY DEF RestartTypeOK, OneSuccessor, Live, Daemon
  <1>6. InStep'
    BY DEF RestartTypeOK, InStep, Unread, ToPredecessor, ToSuccessor
  <1>7. Acknowledged'
    BY DEF RestartTypeOK, Acknowledged, Complete, ToPredecessor
  <1>8. Owners'
    BY DEF RestartTypeOK, Owners
  <1>9. OneProcess'
    BY DEF RestartTypeOK, OneProcess, Stranded, Daemon
  <1>10. Kept'
    BY DEF RestartTypeOK, Kept, Complete, NoHandoff, Daemon, Live
  <1> QED
    BY <1>1, <1>2, <1>3, <1>4, <1>5, <1>6, <1>7, <1>8, <1>9, <1>10

\* The settlement has failed, and the successor is stopped.
LEMMA Stopping == ASSUME RestartInv, stopFailedSuccessor PROVE RestartInv'
  <1> USE DEF RestartInv, stopFailedSuccessor, StopSeen, StopUnseen, Killed,
              blockPostDetachRestart
  <1>0. trouble' \in 0..MaxTrouble /\ backed' = backed
    BY Spending
  <1>1. RestartTypeOK'
    <2>1. dpc' \in [Daemon -> Places]
      BY DEF RestartTypeOK, Places, Daemon
    <2>2. st' \in [Daemon -> [Server -> Holdings]]
      BY DEF RestartTypeOK, Holdings, Daemon
    <2>3. pinned' \subseteq Server
      BY DEF RestartTypeOK
    <2> QED
      BY <1>0, <2>1, <2>2, <2>3 DEF RestartTypeOK, Places, Holdings, Handoff
  <1>2. Messages'
    BY DEF RestartTypeOK, Messages, ToPredecessor, ToSuccessor, Daemon
  <1>3. Undisturbed'
    BY <1>0 DEF RestartTypeOK, Undisturbed, Untouched, NoHandoff, Daemon
  <1>4. Socket'
    BY DEF RestartTypeOK, Socket, Daemon
  <1>5. OneSuccessor'
    BY DEF RestartTypeOK, OneSuccessor, Socket, Live, Daemon
  <1>6. InStep'
    BY DEF RestartTypeOK, InStep, Unread, ToPredecessor, ToSuccessor, Daemon
  <1>7. Acknowledged'
    BY DEF RestartTypeOK, Acknowledged, Complete, ToPredecessor, Daemon
  <1>8. Owners'
    BY DEF RestartTypeOK, Owners, Daemon
  <1>9. OneProcess'
    BY DEF RestartTypeOK, OneProcess, Stranded, Daemon
  <1>10. Kept'
    BY DEF RestartTypeOK, Kept, Complete, NoHandoff, Daemon, Live
  <1> QED
    BY <1>1, <1>2, <1>3, <1>4, <1>5, <1>6, <1>7, <1>8, <1>9, <1>10

\* The snapshot is written again, or the predecessor blocked.
LEMMA Rewriting == ASSUME RestartInv, RewriteSnapshot PROVE RestartInv'
  <1> USE DEF RestartInv, RewriteSnapshot, Serialize, blockPostDetachRestart, wire, svars
  <1>0. trouble' \in 0..MaxTrouble /\ backed' = backed
    BY Spending
  <1>1. RestartTypeOK'
    BY <1>0 DEF RestartTypeOK
  <1>2. Messages' /\ OneProcess'
    BY DEF Messages, OneProcess, Stranded, Daemon
  <1>3. Undisturbed'
    BY <1>0 DEF RestartTypeOK, Undisturbed, Untouched, NoHandoff
  <1>4. Socket'
    BY DEF RestartTypeOK, Socket, Daemon
  <1>5. OneSuccessor'
    BY DEF RestartTypeOK, OneSuccessor, Live, Daemon
  <1>6. InStep'
    BY DEF RestartTypeOK, InStep, Unread, ToPredecessor, ToSuccessor
  <1>7. Acknowledged'
    BY DEF RestartTypeOK, Acknowledged, Complete, ToPredecessor
  <1>8. Owners'
    BY DEF RestartTypeOK, Owners
  <1>9. Kept'
    BY DEF RestartTypeOK, Kept, Complete, NoHandoff, Daemon, Live
  <1> QED
    BY <1>1, <1>2, <1>3, <1>4, <1>5, <1>6, <1>7, <1>8, <1>9

\* A clean successor is started after a failed settlement.
LEMMA FallingBack == ASSUME RestartInv, prepareSnapshotRestart PROVE RestartInv'
  <1> USE DEF RestartInv, prepareSnapshotRestart, Started, blockPostDetachRestart, wire
  <1>0. trouble' \in 0..MaxTrouble /\ backed' = backed
    BY Spending
  <1>1. RestartTypeOK'
    <2>1. dpc' \in [Daemon -> Places]
      BY DEF RestartTypeOK, Places, Daemon
    <2>2. pinned' \subseteq Server
      BY DEF RestartTypeOK
    <2>3. ho' \in Handoff /\ ho'.accepted \subseteq ho'.receipted /\ ho'.receipted \subseteq ho'.ready
      BY DEF RestartTypeOK, Handoff
    <2> QED
      BY <1>0, <2>1, <2>2, <2>3 DEF RestartTypeOK, Places, Holdings, Handoff
  <1>2. Messages'
    BY DEF RestartTypeOK, Messages, ToPredecessor, ToSuccessor, Daemon
  <1>3. Undisturbed'
    BY <1>0 DEF RestartTypeOK, Undisturbed, Untouched, NoHandoff, Daemon
  <1>4. Socket'
    BY DEF RestartTypeOK, Socket, Daemon
  <1>5. OneSuccessor'
    BY DEF RestartTypeOK, OneSuccessor, Live, Daemon
  <1>6. InStep'
    BY DEF RestartTypeOK, InStep, Unread, ToPredecessor, ToSuccessor, Daemon
  <1>7. Acknowledged'
    BY DEF RestartTypeOK, Acknowledged, Complete, ToPredecessor, Daemon
  <1>8. Owners'
    BY DEF RestartTypeOK, Owners, Daemon
  <1>9. OneProcess'
    BY DEF RestartTypeOK, OneProcess, Stranded, Daemon
  <1>10. Kept'
    BY DEF RestartTypeOK, Kept, Complete, NoHandoff, Daemon, Live
  <1> QED
    BY <1>1, <1>2, <1>3, <1>4, <1>5, <1>6, <1>7, <1>8, <1>9, <1>10

\* The predecessor has answered and shuts down.
LEMMA Leaving == ASSUME RestartInv, afterGracefulRestart PROVE RestartInv'
  <1> USE DEF RestartInv, afterGracefulRestart, wire, svars
  <1>0. trouble' \in 0..MaxTrouble /\ backed' = backed
    BY Spending
  <1>1. RestartTypeOK'
    BY <1>0 DEF RestartTypeOK
  <1>2. Messages' /\ OneProcess'
    BY DEF Messages, OneProcess, Stranded, Daemon
  <1>3. Undisturbed'
    BY <1>0 DEF RestartTypeOK, Undisturbed, Untouched, NoHandoff
  <1>4. Socket'
    BY DEF RestartTypeOK, Socket, Daemon
  <1>5. OneSuccessor'
    BY DEF RestartTypeOK, OneSuccessor, Live, Daemon
  <1>6. InStep'
    BY DEF RestartTypeOK, InStep, Unread, ToPredecessor, ToSuccessor
  <1>7. Acknowledged'
    BY DEF RestartTypeOK, Acknowledged, Complete, ToPredecessor
  <1>8. Owners'
    BY DEF RestartTypeOK, Owners
  <1>9. Kept'
    BY DEF RestartTypeOK, Kept, Complete, NoHandoff, Daemon, Live
  <1> QED
    BY <1>1, <1>2, <1>3, <1>4, <1>5, <1>6, <1>7, <1>8, <1>9

\* An operator shuts the predecessor down.
LEMMA Ordered == ASSUME RestartInv, HandleShutdown PROVE RestartInv'
  <1> USE DEF RestartInv, HandleShutdown, wire, svars
  <1>0. trouble' \in 0..MaxTrouble /\ backed' = backed
    BY Spending
  <1>1. RestartTypeOK'
    BY <1>0 DEF RestartTypeOK
  <1>2. Messages' /\ OneProcess'
    BY DEF Messages, OneProcess, Stranded, Daemon
  <1>3. Undisturbed'
    BY <1>0 DEF RestartTypeOK, Undisturbed, Untouched, NoHandoff
  <1>4. Socket'
    BY DEF RestartTypeOK, Socket, Daemon
  <1>5. OneSuccessor'
    BY DEF RestartTypeOK, OneSuccessor, Live, Daemon
  <1>6. InStep'
    BY DEF RestartTypeOK, InStep, Unread, ToPredecessor, ToSuccessor
  <1>7. Acknowledged'
    BY DEF RestartTypeOK, Acknowledged, Complete, ToPredecessor
  <1>8. Owners'
    BY DEF RestartTypeOK, Owners
  <1>9. Kept'
    BY DEF RestartTypeOK, Kept, Complete, NoHandoff, Daemon, Live
  <1> QED
    BY <1>1, <1>2, <1>3, <1>4, <1>5, <1>6, <1>7, <1>8, <1>9

\* The predecessor removes an owner, or cannot prove that it may.
LEMMA Removing == ASSUME RestartInv, NEW s \in Server, finalizeAndRemoveOwner(s) PROVE RestartInv'
  <1> USE DEF RestartInv, finalizeAndRemoveOwner, KillUnproven, wire, svars
  <1>0. trouble' \in 0..MaxTrouble /\ backed' = backed
    BY Spending
  <1>1. RestartTypeOK'
    BY <1>0 DEF RestartTypeOK
  <1>2. Messages' /\ OneSuccessor' /\ InStep' /\ Kept'
    BY DEF Messages, OneSuccessor, InStep, Kept, Live, Daemon, Unread, Complete, NoHandoff
  <1>3. Undisturbed'
    BY <1>0 DEF RestartTypeOK, Undisturbed, Untouched, NoHandoff
  <1>4. Socket'
    BY DEF RestartTypeOK, Socket, Daemon
  <1>5. Acknowledged'
    BY DEF RestartTypeOK, Acknowledged, Complete, ToPredecessor
  <1>6. Owners'
    BY DEF RestartTypeOK, Owners
  <1>7. OneProcess'
    BY DEF RestartTypeOK, OneProcess, Stranded, Daemon
  <1> QED
    BY <1>1, <1>2, <1>3, <1>4, <1>5, <1>6, <1>7

\* The predecessor is gone.
LEMMA Closing == ASSUME RestartInv, CloseControl PROVE RestartInv'
  <1> USE DEF RestartInv, CloseControl, wire, svars
  <1>0. trouble' \in 0..MaxTrouble /\ backed' = backed
    BY Spending
  <1>1. RestartTypeOK'
    BY <1>0 DEF RestartTypeOK
  <1>2. Messages' /\ OneProcess'
    BY DEF Messages, OneProcess, Stranded, Daemon
  <1>3. Undisturbed'
    BY <1>0 DEF RestartTypeOK, Undisturbed, Untouched, NoHandoff
  <1>4. Socket'
    BY DEF RestartTypeOK, Socket, Daemon
  <1>5. OneSuccessor'
    BY DEF RestartTypeOK, OneSuccessor, Live, Daemon
  <1>6. InStep'
    BY DEF RestartTypeOK, InStep, Unread, ToPredecessor, ToSuccessor
  <1>7. Acknowledged'
    BY DEF RestartTypeOK, Acknowledged, Complete, ToPredecessor
  <1>8. Owners'
    BY DEF RestartTypeOK, Owners
  <1>9. Kept'
    BY DEF RestartTypeOK, Kept, Complete, NoHandoff, Daemon, Live
  <1> QED
    BY <1>1, <1>2, <1>3, <1>4, <1>5, <1>6, <1>7, <1>8, <1>9

\* The predecessor dies: what it had is left behind.
LEMMA Dying == ASSUME RestartInv, PredecessorCrashes PROVE RestartInv'
  <1> USE DEF RestartInv, PredecessorCrashes, svars
  <1>0. trouble' \in 0..MaxTrouble /\ backed' = backed
    BY Spending
  <1>1. /\ ho' \in Handoff /\ ho'.orphans = ho.orphans \cup Held
        /\ ho'.accepted = ho.accepted /\ ho'.receipted = ho.receipted /\ ho'.ready = ho.ready
        /\ ho'.failed = ho.failed /\ ho'.told = ho.told
    BY DEF RestartTypeOK, Handoff, Held
  <1>2. /\ ppc # "gone" /\ ppc' = "gone" /\ pinned' = {} /\ ctl' = "free" /\ open' = FALSE
        /\ own' = [s \in Server |-> "gone"]
        /\ UNCHANGED <<fence, todo, tree, toP, toH, refs, dpc, st, snap>>
    OBVIOUS
  <1> HIDE DEF PredecessorCrashes
  <1>3. RestartTypeOK'
    BY <1>0, <1>1, <1>2 DEF RestartTypeOK, Handoff
  <1>4. Messages' /\ Undisturbed' /\ Acknowledged'
    BY <1>2 DEF Messages, Undisturbed, Acknowledged
  <1>5. Socket'
    BY <1>2 DEF Socket, Daemon
  <1>6. OneSuccessor' /\ InStep'
    BY <1>2 DEF OneSuccessor, InStep, Live, Daemon
  <1>7. Owners'
    BY <1>1, <1>2 DEF Owners, Held, RestartTypeOK
  <1>8. OneProcess'
    BY <1>1, <1>2 DEF OneProcess, Stranded
  <1>9. Kept'
    BY <1>1, <1>2 DEF Kept, Complete, Live
  <1> QED
    BY <1>3, <1>4, <1>5, <1>6, <1>7, <1>8, <1>9

\* A successor reads the snapshot.
LEMMA Loading == ASSUME RestartInv, NEW d \in Daemon, loadSnapshot(d) PROVE RestartInv'
  <1> USE DEF RestartInv, loadSnapshot, Deserialize, pvars, wire
  <1>0. trouble' \in 0..MaxTrouble /\ backed' = backed
    BY Spending
  <1>1. RestartTypeOK'
    BY <1>0 DEF RestartTypeOK, Daemon
  <1>2. Messages'
    BY DEF RestartTypeOK, Messages, ToPredecessor, ToSuccessor, Daemon
  <1>3. Undisturbed'
    BY <1>0 DEF RestartTypeOK, Undisturbed, Untouched, NoHandoff, Daemon
  <1>4. Socket'
    BY DEF RestartTypeOK, Socket, Daemon
  <1>5. OneSuccessor'
    BY DEF RestartTypeOK, OneSuccessor, Live, Daemon
  <1>6. InStep'
    BY DEF RestartTypeOK, InStep, Unread, ToPredecessor, ToSuccessor, Daemon
  <1>7. Acknowledged'
    BY DEF RestartTypeOK, Acknowledged, Complete, ToPredecessor, Daemon
  <1>8. Owners'
    BY DEF RestartTypeOK, Owners, Daemon
  <1>9. OneProcess'
    BY DEF RestartTypeOK, OneProcess, Stranded, Daemon
  <1>10. Kept'
    <2>1. dpc[d] = "load" /\ \A g \in Daemon : g # d => dpc'[g] = dpc[g] /\ st'[g] = st[g]
      BY DEF RestartTypeOK
    <2>2. snap = Server => Complete(d)'
      BY DEF Complete, RestartTypeOK
    <2>3. dpc'["h"] \in {"dial", "ready", "receive", "adopt"} => Complete("h")'
      BY <2>1, <2>2 DEF Kept, Complete, RestartTypeOK, Daemon, Live
    <2>4. ppc \notin {"attempt", "backup"} /\ (ppc = "settle" /\ ~ho.failed => d # "h")
      BY DEF OneSuccessor, Daemon, Live, Kept
    <2>5. ho.told => \E g \in Daemon :
            \/ dpc'[g] \in {"failed", "lost"}
            \/ dpc'[g] \in {"bind", "activate", "serving"} /\ Complete(g)'
      <3>1. CASE d = "s"
        BY <2>1, <2>2, <3>1 DEF Kept, OneSuccessor, Live, Daemon, Complete, RestartTypeOK
      <3>2. CASE d = "h"
        BY <2>1, <3>2 DEF Kept, OneSuccessor, Live, Daemon
      <3> QED
        BY <3>1, <3>2 DEF Daemon
    <2> QED
      BY <2>1, <2>3, <2>4, <2>5 DEF Kept, Complete, Daemon
  <1> QED
    BY <1>1, <1>2, <1>3, <1>4, <1>5, <1>6, <1>7, <1>8, <1>9, <1>10

\* The successor dials, or leaves it.
LEMMA Dialling == ASSUME RestartInv, dialHandoff PROVE RestartInv'
  <1> USE DEF RestartInv, dialHandoff, pvars
  <1>0. trouble' \in 0..MaxTrouble /\ backed' = backed
    BY Spending
  <1>1. RestartTypeOK'
    <2>1. dpc' \in [Daemon -> Places]
      BY DEF RestartTypeOK, Places, Daemon
    <2>2. Len(toP') <= 1
      <3>1. Len(<<[t |-> "hello"]>>) = 1 /\ Len(toP) <= 1
        BY DEF RestartTypeOK
      <3>2. CASE toP' = <<[t |-> "hello"]>>
        BY <3>1, <3>2
      <3>3. CASE toP' = toP
        <4> HIDE DEF dialHandoff
        <4> QED
          BY <3>1, <3>3
      <3> QED
        BY <3>2, <3>3
    <2> QED
      BY <1>0, <2>1, <2>2 DEF RestartTypeOK, Places, Holdings, Handoff
  <1>2. Messages'
    <2>1. <<[t |-> "hello"]>> \in Seq(ToPredecessor)
      BY DEF ToPredecessor
    <2> QED
      BY <2>1 DEF Messages
  <1>3. Undisturbed'
    BY <1>0 DEF RestartTypeOK, Undisturbed, Untouched, NoHandoff, Daemon
  <1>4. Socket'
    BY DEF RestartTypeOK, Socket, Daemon
  <1>5. OneSuccessor'
    BY DEF RestartTypeOK, OneSuccessor, Live, Daemon
  <1>6. InStep'
    BY <1>0 DEF RestartTypeOK, InStep, Undisturbed, Unread, ToPredecessor, ToSuccessor,
                Untouched, NoHandoff, Daemon
  <1>7. Acknowledged'
    BY DEF RestartTypeOK, Acknowledged, Complete, ToPredecessor, Daemon
  <1>8. Owners'
    BY DEF RestartTypeOK, Owners, Daemon
  <1>9. OneProcess'
    BY DEF RestartTypeOK, OneProcess, Stranded, Daemon
  <1>10. Kept'
    BY DEF RestartTypeOK, Kept, Complete, NoHandoff, Daemon, Live
  <1> QED
    BY <1>1, <1>2, <1>3, <1>4, <1>5, <1>6, <1>7, <1>8, <1>9, <1>10

\* The list of trees arrives.
LEMMA Listed == ASSUME RestartInv, receiveReady PROVE RestartInv'
  <1> USE DEF RestartInv, receiveReady, Arrived, pvars
  <1>0. trouble' \in 0..MaxTrouble /\ backed' = backed
    BY Spending
  <1>1. RestartTypeOK'
    <2>1. dpc' \in [Daemon -> Places]
      BY DEF RestartTypeOK, Places, Daemon
    <2>2. refs' \subseteq Server
      BY DEF RestartTypeOK, Messages, ToSuccessor
    <2>3. Len(toH') <= 2
      BY DEF RestartTypeOK, InStep, Messages, Unread
    <2> QED
      BY <1>0, <2>1, <2>2, <2>3 DEF RestartTypeOK, Places, Holdings, Handoff
  <1>2. Messages'
    BY DEF RestartTypeOK, Messages, ToPredecessor, ToSuccessor, Daemon
  <1>3. Undisturbed'
    BY <1>0 DEF RestartTypeOK, Undisturbed, Untouched, NoHandoff, Daemon
  <1>4. Socket'
    BY DEF RestartTypeOK, Socket, Daemon
  <1>5. OneSuccessor'
    BY DEF RestartTypeOK, OneSuccessor, Live, Daemon
  <1>6. InStep'
    BY DEF RestartTypeOK, InStep, Unread, ToPredecessor, ToSuccessor, Daemon
  <1>7. Acknowledged'
    BY DEF RestartTypeOK, Acknowledged, Complete, ToPredecessor, Daemon
  <1>8. Owners'
    BY DEF RestartTypeOK, Owners, Daemon
  <1>9. OneProcess'
    BY DEF RestartTypeOK, OneProcess, Stranded, Daemon
  <1>10. Kept'
    BY DEF RestartTypeOK, Kept, Complete, NoHandoff, Daemon, Live
  <1> QED
    BY <1>1, <1>2, <1>3, <1>4, <1>5, <1>6, <1>7, <1>8, <1>9, <1>10

\* The handles of a tree arrive.
LEMMA Taking == ASSUME RestartInv, receiveTransfer PROVE RestartInv'
  <1> USE DEF RestartInv, receiveTransfer, Arrived, pvars
  <1>0. trouble' \in 0..MaxTrouble /\ backed' = backed
    BY Spending
  <1>1. RestartTypeOK'
    <2>1. st' \in [Daemon -> [Server -> Holdings]]
      BY SMTT(30) DEF RestartTypeOK, Holdings, Daemon
    <2>2. Len(toP') <= 1
      BY DEF RestartTypeOK, InStep, Messages, Unread
    <2>3. Len(toH') <= 2
      BY DEF RestartTypeOK, InStep, Messages, Unread
    <2> QED
      BY <1>0, <2>1, <2>2, <2>3 DEF RestartTypeOK, Places, Holdings, Handoff
  <1>2. Messages'
    <2>1. Head(toH) \in ToSuccessor /\ Head(toH).t = "fd" /\ Tail(toH) \in Seq(ToSuccessor)
      BY DEF Messages
    <2>2. Head(toH).id \in Server
      BY <2>1 DEF ToSuccessor
    <2>3. \A ok \in BOOLEAN : [t |-> "ack", id |-> Head(toH).id, ok |-> ok] \in ToPredecessor
      BY <2>2 DEF ToPredecessor
    <2>4. PICK ok \in BOOLEAN : toP' = Append(toP, [t |-> "ack", id |-> Head(toH).id, ok |-> ok])
      OBVIOUS
    <2> QED
      BY <2>1, <2>3, <2>4 DEF Messages
  <1>3. Undisturbed'
    BY <1>0 DEF RestartTypeOK, Undisturbed, Untouched, NoHandoff, Daemon
  <1>4. Socket'
    BY DEF RestartTypeOK, Socket, Daemon
  <1>5. OneSuccessor'
    <2>1. st'["s"] = st["s"]
      BY DEF RestartTypeOK, Daemon
    <2> QED
      BY <2>1 DEF OneSuccessor, Live, Daemon
  <1>6. InStep'
    BY DEF RestartTypeOK, InStep, Unread, ToPredecessor, ToSuccessor, Daemon
  <1>7. Acknowledged'
    BY DEF RestartTypeOK, Acknowledged, InStep, Messages, Complete, ToPredecessor, Unread,
           ToSuccessor, Daemon
  <1>8. Owners'
    BY DEF RestartTypeOK, Owners, Daemon
  <1>9. OneProcess'
    BY DEF RestartTypeOK, OneProcess, Stranded, Daemon
  <1>10. Kept'
    <2>1. /\ st'["s"] = st["s"] /\ dpc["h"] = "receive" /\ UNCHANGED <<dpc, ppc, ho, snap, ctl>>
          /\ \A x \in Server : st'["h"][x] \in {st["h"][x], "owned", "nacked"}
      BY DEF RestartTypeOK, Daemon
    <2> HIDE DEF receiveTransfer
    <2> QED
      BY <2>1 DEF Kept, Complete, Live, Daemon
  <1> QED
    BY <1>1, <1>2, <1>3, <1>4, <1>5, <1>6, <1>7, <1>8, <1>9, <1>10

\* The end of the transfers arrives.
LEMMA Concluded == ASSUME RestartInv, receiveDone PROVE RestartInv'
  <1> USE DEF RestartInv, receiveDone, Arrived, Received, pvars
  <1>0. trouble' \in 0..MaxTrouble /\ backed' = backed
    BY Spending
  <1>1. RestartTypeOK'
    BY <1>0 DEF RestartTypeOK, Daemon
  <1>2. Messages'
    BY DEF RestartTypeOK, Messages, ToPredecessor, ToSuccessor, Daemon
  <1>3. Undisturbed'
    BY <1>0 DEF RestartTypeOK, Undisturbed, Untouched, NoHandoff, Daemon
  <1>4. Socket'
    BY DEF RestartTypeOK, Socket, Daemon
  <1>5. OneSuccessor'
    BY DEF RestartTypeOK, OneSuccessor, Live, Daemon
  <1>6. InStep'
    BY DEF RestartTypeOK, InStep, Unread, ToPredecessor, ToSuccessor, Daemon
  <1>7. Acknowledged'
    BY DEF RestartTypeOK, Acknowledged, Complete, ToPredecessor, Daemon
  <1>8. Owners'
    BY DEF RestartTypeOK, Owners, Daemon
  <1>9. OneProcess'
    BY DEF RestartTypeOK, OneProcess, Stranded, Daemon
  <1>10. Kept'
    BY DEF RestartTypeOK, Kept, Complete, NoHandoff, Daemon, Live
  <1> QED
    BY <1>1, <1>2, <1>3, <1>4, <1>5, <1>6, <1>7, <1>8, <1>9, <1>10

\* The successor fails to receive, and keeps what the snapshot has.
LEMMA Missing == ASSUME RestartInv, receiveFails PROVE RestartInv'
  <1> USE DEF RestartInv, receiveFails, Arrived, Stage, pvars
  <1>0. trouble' \in 0..MaxTrouble /\ backed' = backed
    BY Spending
  <1>1. RestartTypeOK'
    <2>1. dpc' \in [Daemon -> Places]
      BY DEF RestartTypeOK, Places, Daemon
    <2>2. st' \in [Daemon -> [Server -> Holdings]]
      BY DEF RestartTypeOK, Holdings, Daemon
    <2>3. Len(toH') <= 2
      BY DEF RestartTypeOK, InStep, Messages, Unread
    <2> QED
      BY <1>0, <2>1, <2>2, <2>3 DEF RestartTypeOK, Places, Holdings, Handoff
  <1>2. Messages'
    BY DEF RestartTypeOK, Messages, ToPredecessor, ToSuccessor, Daemon
  <1>3. Undisturbed'
    BY <1>0 DEF RestartTypeOK, Undisturbed, Untouched, NoHandoff, Daemon
  <1>4. Socket'
    BY DEF RestartTypeOK, Socket, Daemon
  <1>5. OneSuccessor'
    BY DEF RestartTypeOK, OneSuccessor, Live, Daemon
  <1>6. InStep'
    BY DEF RestartTypeOK, InStep, Unread, ToPredecessor, ToSuccessor, Daemon
  <1>7. Acknowledged'
    BY DEF RestartTypeOK, Acknowledged, Complete, ToPredecessor, Daemon
  <1>8. Owners'
    BY DEF RestartTypeOK, Owners, Daemon
  <1>9. OneProcess'
    BY DEF RestartTypeOK, OneProcess, Stranded, Daemon
  <1>10. Kept'
    BY DEF RestartTypeOK, Kept, Complete, NoHandoff, Daemon, Live
  <1> QED
    BY <1>1, <1>2, <1>3, <1>4, <1>5, <1>6, <1>7, <1>8, <1>9, <1>10

\* The successor adopts a tree, or fails to.
LEMMA Adopting == ASSUME RestartInv, NEW s \in Server, restoreSnapshotPlan(s) PROVE RestartInv'
  <1> USE DEF RestartInv, restoreSnapshotPlan, NewOwnerFromHandoff, AttachFails, pvars, wire
  <1>0. trouble' \in 0..MaxTrouble /\ backed' = backed
    BY Spending
  <1>1. RestartTypeOK'
    BY <1>0 DEF RestartTypeOK, Daemon
  <1>2. Messages' /\ Socket' /\ InStep'
    BY DEF Messages, Socket, InStep, Daemon, Unread
  <1>3. Undisturbed'
    BY <1>0 DEF RestartTypeOK, Undisturbed, Untouched, NoHandoff, Daemon
  <1>4. OneSuccessor'
    BY DEF RestartTypeOK, OneSuccessor, Live, Daemon
  <1>5. Acknowledged'
    BY DEF RestartTypeOK, Acknowledged, Complete, ToPredecessor, Daemon
  <1>6. Owners'
    BY DEF RestartTypeOK, Owners, Daemon
  <1>7. OneProcess'
    BY DEF RestartTypeOK, OneProcess, Stranded, Daemon
  <1>8. Kept'
    BY DEF RestartTypeOK, Kept, Complete, NoHandoff, Daemon, Live
  <1> QED
    BY <1>1, <1>2, <1>3, <1>4, <1>5, <1>6, <1>7, <1>8

\* The successor acknowledges what it has adopted, or takes it back.
LEMMA Answering == ASSUME RestartInv, finalizeReceipt PROVE RestartInv'
  <1> USE DEF RestartInv, finalizeReceipt, Received, Adopted, Stage, pvars
  <1>0. trouble' \in 0..MaxTrouble /\ backed' = backed
    BY Spending
  <1>1. RestartTypeOK'
    <2>1. dpc' \in [Daemon -> Places]
      BY DEF RestartTypeOK, Places, Daemon
    <2>2. st' \in [Daemon -> [Server -> Holdings]]
      BY DEF RestartTypeOK, Holdings, Daemon
    <2>3. Len(toP') <= 1
      BY DEF RestartTypeOK, InStep, Messages, Unread
    <2> QED
      BY <1>0, <2>1, <2>2, <2>3 DEF RestartTypeOK, Places, Holdings, Handoff
  <1>2. Messages'
    <2>1. [t |-> "final", acc |-> Adopted, no |-> refs \ Adopted] \in ToPredecessor
      BY DEF ToPredecessor, RestartTypeOK
    <2>2. toP' = toP \/ toP' = Append(toP, [t |-> "final", acc |-> Adopted, no |-> refs \ Adopted])
      OBVIOUS
    <2> HIDE DEF Adopted, finalizeReceipt
    <2>3. UNCHANGED toH
      BY DEF finalizeReceipt
    <2> QED
      BY <2>1, <2>2, <2>3 DEF Messages
  <1>3. Undisturbed'
    BY <1>0 DEF RestartTypeOK, Undisturbed, Untouched, NoHandoff, Daemon
  <1>4. Socket'
    BY DEF RestartTypeOK, Socket, Daemon
  <1>5. OneSuccessor'
    BY DEF RestartTypeOK, OneSuccessor, Live, Daemon
  <1>6. InStep'
    BY DEF RestartTypeOK, InStep, Unread, ToPredecessor, ToSuccessor, Daemon
  <1>7. Acknowledged'
    BY DEF RestartTypeOK, Acknowledged, InStep, Messages, Kept, Complete, ToPredecessor, Unread,
           ToSuccessor, NoHandoff, Daemon, Live
  <1>8. Owners'
    BY DEF RestartTypeOK, Owners, Daemon
  <1>9. OneProcess'
    BY DEF RestartTypeOK, OneProcess, Stranded, Daemon
  <1>10. Kept'
    BY DEF RestartTypeOK, Kept, Complete, NoHandoff, Daemon, Live
  <1> QED
    BY <1>1, <1>2, <1>3, <1>4, <1>5, <1>6, <1>7, <1>8, <1>9, <1>10

\* An adopted owner is removed.
LEMMA RollingBack == ASSUME RestartInv, NEW s \in Server, rollbackAdopted(s) PROVE RestartInv'
  <1> USE DEF RestartInv, rollbackAdopted, pvars, wire
  <1>0. trouble' \in 0..MaxTrouble /\ backed' = backed
    BY Spending
  <1>1. RestartTypeOK'
    BY <1>0 DEF RestartTypeOK, Daemon
  <1>2. Messages' /\ Socket' /\ InStep'
    BY DEF Messages, Socket, InStep, Daemon, Unread
  <1>3. Undisturbed'
    BY <1>0 DEF RestartTypeOK, Undisturbed, Untouched, NoHandoff, Daemon
  <1>4. OneSuccessor'
    BY DEF RestartTypeOK, OneSuccessor, Live, Daemon
  <1>5. Acknowledged'
    BY DEF RestartTypeOK, Acknowledged, Complete, ToPredecessor, Daemon
  <1>6. Owners'
    BY DEF RestartTypeOK, Owners, Daemon
  <1>7. OneProcess'
    BY DEF RestartTypeOK, OneProcess, Stranded, Daemon
  <1>8. Kept'
    BY DEF RestartTypeOK, Kept, Complete, NoHandoff, Daemon, Live
  <1> QED
    BY <1>1, <1>2, <1>3, <1>4, <1>5, <1>6, <1>7, <1>8

\* A successor dies.
LEMMA Crashing == ASSUME RestartInv, NEW d \in Daemon, SuccessorCrashes(d) PROVE RestartInv'
  <1> USE DEF RestartInv, SuccessorCrashes, pvars
  <1>0. trouble' \in 0..MaxTrouble /\ backed' = backed
    BY Spending
  <1>1. RestartTypeOK'
    <2>1. dpc' \in [Daemon -> Places]
      BY DEF RestartTypeOK, Places, Daemon
    <2>2. st' \in [Daemon -> [Server -> Holdings]]
      BY DEF RestartTypeOK, Holdings, Daemon
    <2> QED
      BY <1>0, <2>1, <2>2 DEF RestartTypeOK, Places, Holdings, Handoff
  <1> DEFINE end == IF dpc[d] \in {"bind", "activate", "serving"} THEN "lost" ELSE "gone"
  <1>11. /\ dpc' = [dpc EXCEPT ![d] = end] /\ dpc'[d] = end /\ \A s \in Server : st'[d][s] = "none"
         /\ \A g \in Daemon : g # d => dpc'[g] = dpc[g] /\ st'[g] = st[g]
    BY DEF RestartTypeOK
  <1>2. Messages'
    BY DEF RestartTypeOK, Messages, ToPredecessor, ToSuccessor, Daemon
  <1>3. Undisturbed'
    BY <1>0 DEF RestartTypeOK, Undisturbed, Untouched, NoHandoff, Daemon
  <1>4. Socket'
    BY DEF RestartTypeOK, Socket, Daemon
  <1>5. OneSuccessor'
    BY DEF RestartTypeOK, OneSuccessor, Live, Daemon
  <1>6. InStep'
    BY DEF RestartTypeOK, InStep, Unread, ToPredecessor, ToSuccessor, Daemon
  <1>7. Acknowledged'
    <2>1. CASE d = "h"
      BY <2>1, <1>11 DEF Acknowledged, Complete, Live, Daemon
    <2>2. CASE d = "s"
      BY <2>2, <1>11 DEF Acknowledged, Complete, Daemon
    <2> QED
      BY <2>1, <2>2 DEF Daemon
  <1>8. Owners'
    <2>1. CASE d = "h"
      BY <2>1, <1>11 DEF Owners, Live, Daemon
    <2>2. CASE d = "s"
      BY <2>2, <1>11 DEF Owners, Daemon
    <2> QED
      BY <2>1, <2>2 DEF Daemon
  <1>9. OneProcess'
    <2>1. \A s \in Server : Stranded(s) => Stranded(s)'
      BY <1>11 DEF Stranded, Daemon, Live
    <2> QED
      BY <1>11, <2>1 DEF OneProcess
  <1>10. Kept'
    BY DEF RestartTypeOK, Kept, Complete, NoHandoff, Daemon, Live
  <1> QED
    BY <1>1, <1>2, <1>3, <1>4, <1>5, <1>6, <1>7, <1>8, <1>9, <1>10

\* A successor gets the control socket.
LEMMA Binding == ASSUME RestartInv, NEW d \in Daemon, retryControlBind(d) PROVE RestartInv'
  <1> USE DEF RestartInv, retryControlBind, pvars, wire
  <1>0. trouble' \in 0..MaxTrouble /\ backed' = backed
    BY Spending
  <1>1. RestartTypeOK'
    BY <1>0 DEF RestartTypeOK, Daemon
  <1>2. Messages' /\ OneProcess'
    BY DEF Messages, OneProcess, Stranded, Daemon
  <1>3. Undisturbed'
    BY <1>0 DEF RestartTypeOK, Undisturbed, Untouched, NoHandoff, Daemon
  <1>4. Socket'
    BY DEF RestartTypeOK, Socket, Daemon
  <1>5. OneSuccessor'
    BY DEF RestartTypeOK, OneSuccessor, Live, Daemon
  <1>6. InStep'
    BY DEF RestartTypeOK, InStep, Unread, ToPredecessor, ToSuccessor, Daemon
  <1>7. Acknowledged'
    BY DEF RestartTypeOK, Acknowledged, Socket, OneSuccessor, Complete, ToPredecessor, Daemon,
           Live
  <1>8. Owners'
    BY DEF RestartTypeOK, Owners, Daemon
  <1>9. Kept'
    BY DEF RestartTypeOK, Kept, Socket, Complete, NoHandoff, Daemon, Live
  <1> QED
    BY <1>1, <1>2, <1>3, <1>4, <1>5, <1>6, <1>7, <1>8, <1>9

\* A successor does not get the control socket.
LEMMA GivingUp == ASSUME RestartInv, NEW d \in Daemon, bindGivesUp(d) PROVE RestartInv'
  <1> USE DEF RestartInv, bindGivesUp, ShutDown, pvars, wire
  <1>0. trouble' \in 0..MaxTrouble /\ backed' = backed
    BY Spending
  <1>1. RestartTypeOK'
    BY <1>0 DEF RestartTypeOK, Daemon
  <1>2. Messages'
    BY DEF RestartTypeOK, Messages, ToPredecessor, ToSuccessor, Daemon
  <1>3. Undisturbed'
    BY <1>0 DEF RestartTypeOK, Undisturbed, OneSuccessor, Untouched, NoHandoff, Live, Daemon
  <1>4. Socket'
    BY DEF RestartTypeOK, Socket, Daemon
  <1>5. OneSuccessor'
    BY DEF RestartTypeOK, OneSuccessor, Live, Daemon
  <1>6. InStep'
    BY DEF RestartTypeOK, InStep, Unread, ToPredecessor, ToSuccessor, Daemon
  <1>7. Acknowledged'
    BY DEF RestartTypeOK, Acknowledged, Messages, OneSuccessor, Complete, ToPredecessor,
           ToSuccessor, Live, Daemon
  <1>8. Owners'
    BY DEF RestartTypeOK, Owners, Daemon
  <1>9. OneProcess'
    BY DEF RestartTypeOK, OneProcess, Stranded, Daemon
  <1>10. Kept'
    BY DEF RestartTypeOK, Kept, Complete, NoHandoff, Daemon, Live
  <1> QED
    BY <1>1, <1>2, <1>3, <1>4, <1>5, <1>6, <1>7, <1>8, <1>9, <1>10

\* A successor starts its processes: the predecessor is gone, so a tree that is
\* alive is one it adopted, or one that a failed settlement left.
LEMMA Activating == ASSUME RestartInv, NEW d \in Daemon, activateRestartStaging(d) PROVE RestartInv'
  <1> USE DEF RestartInv, activateRestartStaging, pvars, wire
  <1>0. trouble' \in 0..MaxTrouble /\ backed' = backed
    BY Spending
  <1>1. RestartTypeOK'
    BY <1>0 DEF RestartTypeOK, Daemon
  <1>2. Messages'
    BY DEF RestartTypeOK, Messages, ToPredecessor, ToSuccessor, Daemon
  <1>3. Undisturbed'
    BY <1>0 DEF RestartTypeOK, Undisturbed, Socket, Untouched, NoHandoff, Daemon
  <1>4. Socket'
    BY DEF RestartTypeOK, Socket, Daemon
  <1>5. OneSuccessor'
    BY DEF RestartTypeOK, OneSuccessor, Live, Daemon
  <1>6. InStep'
    BY DEF RestartTypeOK, InStep, Unread, ToPredecessor, ToSuccessor, Daemon
  <1>7. Acknowledged'
    BY DEF RestartTypeOK, Acknowledged, Complete, ToPredecessor, Daemon
  <1>8. Owners'
    BY DEF RestartTypeOK, Owners, Daemon
  <1>9. OneProcess'
    BY DEF RestartTypeOK, OneProcess, Owners, Socket, OneSuccessor, Stranded, Daemon, Live
  <1>10. Kept'
    BY DEF RestartTypeOK, Kept, Complete, NoHandoff, Daemon, Live
  <1> QED
    BY <1>1, <1>2, <1>3, <1>4, <1>5, <1>6, <1>7, <1>8, <1>9, <1>10

\* A successor cannot register its owners, and ends.
LEMMA Deactivating == ASSUME RestartInv, NEW d \in Daemon, activationFails(d) PROVE RestartInv'
  <1> USE DEF RestartInv, activationFails, ShutDown, pvars, wire
  <1>0. trouble' \in 0..MaxTrouble /\ backed' = backed
    BY Spending
  <1>1. RestartTypeOK'
    BY <1>0 DEF RestartTypeOK, Daemon
  <1>2. Messages'
    BY DEF RestartTypeOK, Messages, ToPredecessor, ToSuccessor, Daemon
  <1>3. Undisturbed'
    BY <1>0 DEF RestartTypeOK, Undisturbed, Socket, Untouched, NoHandoff, Daemon
  <1>4. Socket'
    BY DEF RestartTypeOK, Socket, Daemon
  <1>5. OneSuccessor'
    BY DEF RestartTypeOK, OneSuccessor, Socket, Live, Daemon
  <1>6. InStep'
    BY DEF RestartTypeOK, InStep, Unread, ToPredecessor, ToSuccessor, Daemon
  <1>7. Acknowledged'
    BY DEF RestartTypeOK, Acknowledged, Socket, Complete, ToPredecessor, Daemon
  <1>8. Owners'
    BY DEF RestartTypeOK, Owners, Daemon
  <1>9. OneProcess'
    BY DEF RestartTypeOK, OneProcess, Stranded, Daemon
  <1>10. Kept'
    BY DEF RestartTypeOK, Kept, Socket, OneSuccessor, Complete, NoHandoff, Daemon, Live
  <1> QED
    BY <1>1, <1>2, <1>3, <1>4, <1>5, <1>6, <1>7, <1>8, <1>9, <1>10

-----------------------------------------------------------------------------
(* The theorems                                                            *)

\* A daemon that serves, and no successor yet.
LEMMA Starts == RestartInit => RestartInv
  <1> SUFFICES ASSUME RestartInit PROVE RestartInv
    OBVIOUS
  <1> USE DEF RestartInit
  <1>1. RestartTypeOK
    <2>1. NoHandoff \in Handoff /\ NoHandoff.accepted = {} /\ NoHandoff.receipted = {}
      BY DEF NoHandoff, Handoff
    <2>2. /\ own \in [Server -> {"up", "cache", "prepared", "stuck", "sent", "done", "gone"}]
          /\ tree \in [Server -> {"none", "alive", "dead"}]
      BY DEF Untouched
    <2>3. dpc \in [Daemon -> Places] /\ st \in [Daemon -> [Server -> Holdings]]
      BY DEF Places, Holdings
    <2>4. Len(toP) = 0 /\ Len(toH) = 0 /\ trouble \in 0..MaxTrouble
      BY RestartAssumption
    <2>5. /\ ppc = "serving" /\ fence = FALSE /\ open = FALSE /\ backed \subseteq Server /\ pinned = {}
          /\ todo = {} /\ refs = {} /\ snap = {} /\ ctl = "p" /\ ho = NoHandoff
      OBVIOUS
    <2> HIDE DEF NoHandoff, RestartInit
    <2> QED
      <3>1. Len(toP) <= 1 /\ Len(toH) <= 2
        BY <2>4
      <3>2. ho \in Handoff /\ ho.accepted \subseteq ho.receipted /\ ho.receipted \subseteq ho.ready
        BY <2>1, <2>5
      <3>3. ctl \in Daemon \cup {"p", "free"} /\ fence \in BOOLEAN /\ open \in BOOLEAN
        BY <2>5
      <3> QED
        BY <2>2, <2>3, <2>4, <2>5, <3>1, <3>2, <3>3 DEF RestartTypeOK, Handoff, Places, Holdings
  <1>2. Messages /\ Acknowledged /\ InStep
    BY DEF Messages, Acknowledged, InStep
  <1>5. Undisturbed
    BY DEF Undisturbed, NoHandoff, Daemon, Untouched
  <1>3. Socket /\ OneSuccessor
    BY DEF Socket, OneSuccessor, Live, Daemon
  <1>4. Owners /\ OneProcess /\ Kept
    BY DEF Owners, OneProcess, Kept, NoHandoff, Untouched, Daemon
  <1> QED
    BY <1>1, <1>2, <1>3, <1>4, <1>5 DEF RestartInv

\* Nothing changes in a step that leaves every variable as it is.
LEMMA Stutters == ASSUME RestartInv, UNCHANGED vars PROVE RestartInv'
  <1> USE DEF RestartInv, vars, pvars, wire, svars
  <1>1. RestartTypeOK' /\ Messages'
    BY DEF RestartTypeOK, Messages
  <1>2. Undisturbed' /\ Socket' /\ OneSuccessor'
    BY DEF Undisturbed, Socket, OneSuccessor, Untouched, Live
  <1>3. InStep'
    BY DEF InStep, Unread
  <1>4. Acknowledged' /\ Owners'
    BY DEF Acknowledged, Owners, Complete
  <1>5. OneProcess' /\ Kept'
    BY DEF OneProcess, Kept, Complete, Stranded, Live
  <1> QED
    BY <1>1, <1>2, <1>3, <1>4, <1>5

\* Every step of every daemon, and every failure, preserves the invariant.
LEMMA Steps == ASSUME RestartInv, [Next]_vars PROVE RestartInv'
  <1>1. ASSUME Predecessor PROVE RestartInv'
    BY <1>1, Snapshotting, Attempting, WithoutTrees, Greeted, NotGreeted, Announcing, Receipted, Concluding,
       Acknowledging, Breaking, Completing, Stopping, Rewriting, FallingBack, Leaving, Closing, Collecting,
       Transferring, Settling DEF Predecessor
  <1>2. ASSUME Receiver PROVE RestartInv'
    BY <1>2, Dialling, Listed, Taking, Concluded, Missing, Answering, Adopting, RollingBack DEF Receiver
  <1>3. ASSUME NEW d \in Daemon, Successor(d) PROVE RestartInv'
    BY <1>3, Loading, Binding, GivingUp, Activating, Deactivating DEF Successor
  <1>4. ASSUME Finalizer \/ PredecessorCrashes PROVE RestartInv'
    BY <1>4, Removing, Dying DEF Finalizer
  <1> QED
    BY <1>1, <1>2, <1>3, <1>4, Requesting, Ordered, Crashing, Stutters DEF Next, Operator

\* The two daemons, their connection, the trees and the snapshot agree in every
\* reachable state: the invariant the other theorems rest on.
THEOREM RestartInvariant == RestartSpec => []RestartInv
  BY Starts, Steps, PTL DEF RestartSpec

\* At most one process of a server lives, unless its tree was left behind.
LEMMA OneLiveTree ==
  ASSUME RestartInv, NEW s \in Server, ~Stranded(s)
  PROVE  Cardinality(LiveTrees(s)) <= 1
  <1>1. PICK d : LiveTrees(s) \subseteq {d}
    <2>1. CASE tree[s] = "alive"
      BY <2>1 DEF RestartInv, OneProcess, LiveTrees
    <2>2. CASE tree[s] # "alive" /\ st["h"][s] # "fresh"
      BY <2>2 DEF LiveTrees, Daemon
    <2>3. CASE tree[s] # "alive" /\ st["h"][s] = "fresh"
      <3>1. Live("h") /\ dpc["s"] = "none"
        BY <2>3 DEF RestartInv, OneSuccessor, Daemon
      <3>2. st["s"][s] = "none"
        BY <3>1 DEF RestartInv, OneSuccessor, Live, Daemon
      <3> QED
        BY <2>3, <3>2 DEF LiveTrees, Daemon
    <2> QED
      BY <2>1, <2>2, <2>3
  <1>2. LiveTrees(s) = {} \/ LiveTrees(s) = {d}
    BY <1>1
  <1>3. Cardinality({}) = 0 /\ Cardinality({d}) = 1
    BY FS_EmptySet, FS_Singleton
  <1> QED
    BY <1>2, <1>3

\* A live tree always has a daemon that answers for it, and no server runs twice,
\* whatever messages, daemons and settlements fail, short of a settlement that
\* fails half way and of the death of the daemon that has the tree.
THEOREM KeptByOne == RestartSpec => []OneKeeper
  <1>1. RestartInv => OneKeeper
    <2> SUFFICES ASSUME RestartInv PROVE OneKeeper
      OBVIOUS
    <2>1. ASSUME NEW s \in Server, ~Stranded(s), tree[s] = "alive"
          PROVE  s \in Held \/ st["h"][s] \in {"adopted", "rolling"}
      BY <2>1 DEF RestartInv, RestartTypeOK, Owners, Stranded, Held
    <2> QED
      BY <2>1, OneLiveTree DEF OneKeeper, RestartInv
  <1> QED
    BY <1>1, RestartInvariant, PTL

\* A restart given up before the hello leaves the predecessor as it was.
THEOREM AbortKeepsAll == RestartSpec => []PredecessorKept
  <1>1. RestartInv => PredecessorKept
    BY DEF RestartInv, Undisturbed, Socket, PredecessorKept
  <1> QED
    BY <1>1, RestartInvariant, PTL

\* A restart that was announced has lost no server until the successor that has
\* consumed the file gives up or dies.
THEOREM AnnouncedKeepsAll == RestartSpec => []StateKept
  <1>1. RestartInv => StateKept
    BY DEF RestartInv, Kept, Complete, Live, StateKept
  <1> QED
    BY <1>1, RestartInvariant, PTL
==============================================================================
