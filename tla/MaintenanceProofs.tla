--------------------------- MODULE MaintenanceProofs ---------------------------
(***************************************************************************)
(* Proofs about maintenance leases, for any number of holds, owners and    *)
(* contexts, and any number of failed commits and killed daemons: a hold   *)
(* that was acknowledged HELD is quiet, in force and durable, a released   *)
(* one does not come back, and no tree is started behind a hold.           *)
(***************************************************************************)
EXTENDS Maintenance, TLAPS

Lease == [state : States, keys : SUBSET Key, past : BOOLEAN, pins : SUBSET Entry,
          server : Range(Sid) \cup {None}, recovered : BOOLEAN, timer : {"none", "expiry", "retry"}]
Stored == [state : States, keys : SUBSET Key, past : BOOLEAN]
Ledger == disk.ledger.leases
Running == phase \in {"up", "stopping"}

DiskType(d) ==
  /\ d \in [dir : BOOLEAN, journal : [txn : Txn, state : {"none", "prepared", "committed"}],
            ledger : [txn : Txn, leases : {d.ledger.leases}, written : BOOLEAN]]
  /\ DOMAIN d.ledger.leases \subseteq Hold
  /\ d.ledger.leases \in [DOMAIN d.ledger.leases -> Stored]

EntryType == [st : {"gone", "placeholder", "live"}, ctx : SUBSET Key, served : SUBSET Key,
              whole : BOOLEAN, tree : {"none", "running"}, work : BOOLEAN,
              retrying : BOOLEAN, notify : BOOLEAN]

\* The types of the records.
MaintenanceTypes ==
  /\ phase \in {"up", "stopping", "down", "refused"}
  /\ DiskType(disk)
  /\ DOMAIN leases \subseteq Hold /\ leases \in [DOMAIN leases -> Lease]
  /\ failed \in {"no", "store", "acquire"}
  /\ entry \in [Entry -> EntryType]
  /\ lock \in {"free", "call", "outside", "checked"}
  /\ public \in [Hold -> States \cup {"none", "lapsed", "released", "doubt"}]
  /\ covers \in [Hold -> SUBSET Key]

\* An entry serves at least its contexts, and has some while it is registered;
\* work is done only by registered owners.
Entries ==
  \A e \in Entry :
    /\ entry[e].ctx \subseteq entry[e].served
    /\ Registered(e) => Running /\ entry[e].ctx # {}
    /\ Registered(e) /\ entry[e].whole => entry[e].ctx = entry[e].served
    /\ entry[e].work => Registered(e)

\* The call works on a lease that is not HELD, which nobody else moves.
CallHolds ==
  /\ call \in [pc : {"idle", "wait", "remove"}, hold : Hold \cup {None}, todo : SUBSET Entry,
               blocked : BOOLEAN]
  /\ lock = "call" <=> call.pc # "idle"
  /\ call.pc # "idle" => Up /\ call.hold \in DOMAIN leases /\ leases[call.hold].state = "HOLDING"

Governed(h) == h \in DOMAIN leases \/ h \in DOMAIN Ledger

\* A lease, in memory and on disk, is for the contexts of its hold, and no other
\* lease is for one of them.
Contexts ==
  /\ \A h \in DOMAIN leases : leases[h].keys = covers[h] /\ covers[h] # {}
  /\ \A h \in DOMAIN Ledger : Ledger[h].keys = covers[h] /\ covers[h] # {}
  /\ \A g, h \in Hold : Governed(g) /\ Governed(h) /\ g # h => covers[g] \cap covers[h] = {}

\* Memory has what the files have, but for a seed that could not be made durable;
\* a daemon that is down has no leases, and one that stops has none either.
Memory ==
  /\ Running => \A h \in DOMAIN Ledger :
       h \in DOMAIN leases \/ (failed = "acquire" /\ Ledger[h].state = "HOLDING")
  /\ ~Up => DOMAIN leases = {}
  /\ phase = "stopping" => failed = "no"

\* An owner that serves a context of a hold serves no other context, and the lease
\* in memory pins it.
Fence ==
  \A h \in Hold, e \in Entry :
    /\ Governed(h) /\ Registered(e) => entry[e].whole
    /\ Governed(h) /\ Registered(e) /\ entry[e].served \cap covers[h] # {}
         => entry[e].served \subseteq covers[h]
    /\ h \in DOMAIN leases /\ Registered(e) /\ entry[e].served \cap covers[h] # {}
         => e \in leases[h].pins

\* A tree that no registered owner has was left by a killed daemon, and is behind
\* a hold that stays blocked for good.
Orphans ==
  \A e \in Entry : entry[e].tree = "running" /\ ~Registered(e) =>
    \E h \in DOMAIN Ledger :
      /\ entry[e].served \subseteq covers[h] /\ entry[e].served # {}
      /\ Running => h \in DOMAIN leases /\ leases[h].recovered /\ leases[h].state = "BLOCKED"

\* No tree and no work serves a context of h.
Quiet(h) ==
  \A e \in Entry : covers[h] \cap entry[e].served # {}
                     => entry[e].tree # "running" /\ ~entry[e].work

\* What is HELD, in memory or on disk, is quiet.
HeldIsQuiet ==
  /\ \A h \in DOMAIN leases : leases[h].state = "HELD" => Quiet(h)
  /\ \A h \in DOMAIN Ledger : Ledger[h].state = "HELD" => Quiet(h)

\* What was acknowledged is in memory and in the files, readable or not.
Promises ==
  /\ \A h \in Hold : public[h] \in States =>
       h \in DOMAIN Ledger /\ (Running => h \in DOMAIN leases)
  /\ \A h \in Hold : public[h] = "HELD" =>
       Ledger[h].state = "HELD" /\ (Running => leases[h].state = "HELD")
  /\ \A h \in Hold : public[h] = "released" => ~Governed(h)
  /\ lock = "checked" => \A h \in Hold : public[h] \notin States

MaintenanceInv ==
  /\ MaintenanceTypes
  /\ Entries
  /\ CallHolds
  /\ Contexts
  /\ Memory
  /\ Fence
  /\ Orphans
  /\ HeldIsQuiet
  /\ Promises
-----------------------------------------------------------------------------
(* The files.                                                              *)

\* There is a transaction number that neither file has.
LEMMA TxnIsFresh == ASSUME NEW d, DiskType(d) PROVE FreshTxn(d) \in Txn
  <1>1. \E t \in Txn : t # d.ledger.txn /\ t # d.journal.txn
    BY DEF Txn
  <1> QED
    BY <1>1 DEF FreshTxn

\* The certificate is for the leases that were published.
LEMMA Certificate ==
  ASSUME NEW d, DiskType(d), NEW recs, DOMAIN recs \subseteq Hold, recs \in [DOMAIN recs -> Stored]
  PROVE  /\ DiskType(Published(d, recs)) /\ Published(d, recs).ledger.leases = recs
         /\ DiskType(Certified(d, recs)) /\ Certified(d, recs).ledger.leases = recs
  <1>1. DiskType(Prepared(d)) /\ FreshTxn(d) \in Txn
    BY TxnIsFresh DEF DiskType, Prepared
  <1>2. DiskType(Published(d, recs)) /\ Published(d, recs).ledger.leases = recs
    BY <1>1 DEF DiskType, Published
  <1>3. DiskType(Certified(d, recs)) /\ Certified(d, recs).ledger.leases = recs
    BY <1>2 DEF DiskType, Certified
  <1> QED
    BY <1>2, <1>3

\* A commit, acknowledged or not, leaves the leases there were or the ones to store.
LEMMA DiskCommits ==
  ASSUME NEW d, DiskType(d), NEW recs, DOMAIN recs \subseteq Hold, recs \in [DOMAIN recs -> Stored],
         NEW ok, NEW d2 \in commitMaintenanceStore(d, recs, ok)
  PROVE  /\ DiskType(d2)
         /\ d2.ledger.leases \in {d.ledger.leases, recs}
         /\ ok => d2.ledger.leases = recs
  <1>1. FreshTxn(d) \in Txn
    BY TxnIsFresh
  <1>2. DiskType([d EXCEPT !.dir = TRUE]) /\ [d EXCEPT !.dir = TRUE].ledger.leases = d.ledger.leases
    BY DEF DiskType
  <1>3. DiskType(Prepared(d)) /\ Prepared(d).ledger.leases = d.ledger.leases
    BY <1>1 DEF DiskType, Prepared
  <1>4. /\ DiskType(Published(d, recs)) /\ Published(d, recs).ledger.leases = recs
        /\ DiskType(Certified(d, recs)) /\ Certified(d, recs).ledger.leases = recs
    BY Certificate
  <1> QED
    BY <1>2, <1>3, <1>4 DEF commitMaintenanceStore, Interrupted

IsLeases(ls) == DOMAIN ls \subseteq Hold /\ ls \in [DOMAIN ls -> Lease]

\* What is stored of the leases.
LEMMA RecordsOf ==
  ASSUME NEW ls, IsLeases(ls)
  PROVE  LET recs == maintenanceRecords(ls) IN
         /\ DOMAIN recs = DOMAIN ls /\ recs \in [DOMAIN recs -> Stored]
         /\ \A h \in DOMAIN ls : recs[h].state = ls[h].state /\ recs[h].keys = ls[h].keys
  BY DEF IsLeases, maintenanceRecords, Record, Stored, Lease

\* What a commit of the daemon leaves in the files.
LEMMA Persists ==
  ASSUME NEW d, DiskType(d), NEW ls, IsLeases(ls), NEW ok, Persist(d, ls, ok)
  PROVE  /\ DiskType(disk')
         /\ Ledger' \in {d.ledger.leases, maintenanceRecords(ls)}
         /\ ok => Ledger' = maintenanceRecords(ls)
  <1> DEFINE recs == maintenanceRecords(ls)
  <1>1. DOMAIN recs \subseteq Hold /\ recs \in [DOMAIN recs -> Stored]
    BY RecordsOf DEF IsLeases
  <1>2. disk' \in commitMaintenanceStore(d, recs, ok)
    BY DEF Persist
  <1> HIDE DEF recs
  <1> QED
    BY <1>1, <1>2, DiskCommits DEF Ledger, recs
-----------------------------------------------------------------------------
(* How the daemon moves its leases.                                        *)

\* Leases keep their contexts and pins, become HELD when they are quiet and stay
\* it, and are dropped unless a killed daemon left them blocked.
Evolves(ls) ==
  /\ IsLeases(ls) /\ DOMAIN ls \subseteq DOMAIN leases
  /\ \A h \in DOMAIN ls :
       /\ ls[h].keys = leases[h].keys /\ ls[h].pins = leases[h].pins
       /\ ls[h].recovered = leases[h].recovered
       /\ leases[h].state = "HELD" => ls[h].state = "HELD"
       /\ ls[h].state = "HELD" => Quiet(h)
       /\ leases[h].recovered /\ leases[h].state = "BLOCKED" => ls[h].state = "BLOCKED"
  /\ \A h \in DOMAIN leases \ DOMAIN ls : ~(leases[h].recovered /\ leases[h].state = "BLOCKED")

\* Leases that stay as they are.
LEMMA Stays == ASSUME MaintenanceInv PROVE Evolves(leases)
  BY DEF MaintenanceInv, MaintenanceTypes, Evolves, IsLeases, HeldIsQuiet

\* Leases that are dropped.
LEMMA Dropping ==
  ASSUME MaintenanceInv, NEW S,
         \A h \in S \cap DOMAIN leases : leases[h].state = "HELD" \/ ~leases[h].recovered
  PROVE  Evolves(Drop(leases, S)) /\ DOMAIN Drop(leases, S) = DOMAIN leases \ S
  BY DEF MaintenanceInv, MaintenanceTypes, Evolves, IsLeases, HeldIsQuiet, Drop, Restrict

\* A lease that is replaced.
LEMMA Updating ==
  ASSUME MaintenanceInv, NEW h \in DOMAIN leases, NEW lease \in Lease,
         lease.keys = leases[h].keys, lease.pins = leases[h].pins,
         lease.recovered = leases[h].recovered,
         leases[h].state = "HELD" => lease.state = "HELD",
         lease.state = "HELD" => Quiet(h),
         leases[h].recovered /\ leases[h].state = "BLOCKED" => lease.state = "BLOCKED"
  PROVE  Evolves(Updated(h, lease)) /\ DOMAIN Updated(h, lease) = DOMAIN leases
  <1> DEFINE new == Rescheduled(leases[h], lease)
             ls == Updated(h, lease)
  <1>1. /\ new \in Lease /\ new.keys = lease.keys /\ new.pins = lease.pins
        /\ new.recovered = lease.recovered /\ new.state = lease.state
    BY DEF Rescheduled, Lease
  <1>2. DOMAIN ls = DOMAIN leases /\ ls[h] = new /\ \A g \in DOMAIN leases : g # h => ls[g] = leases[g]
    BY DEF Updated, Put
  <1>3. IsLeases(leases) /\ HeldIsQuiet
    BY DEF MaintenanceInv, MaintenanceTypes, IsLeases
  <1>4. IsLeases(ls)
    <2>1. ls = [g \in DOMAIN ls |-> ls[g]]
      BY DEF Updated, Put
    <2> HIDE DEF ls, new
    <2> QED
      BY <1>1, <1>2, <1>3, <2>1 DEF IsLeases
  <1> HIDE DEF ls, new
  <1>5. Evolves(ls)
    BY <1>1, <1>2, <1>3, <1>4 DEF Evolves, HeldIsQuiet
  <1> QED
    BY <1>2, <1>5 DEF ls

\* A lease whose trees have retired is quiet: an owner that served its contexts
\* would be pinned, and a tree left by a killed daemon is behind another hold.
LEMMA RetiredIsQuiet ==
  ASSUME MaintenanceInv, Up, NEW h \in DOMAIN leases, maintenanceTreesRetiredLocked(leases[h])
  PROVE  Quiet(h) /\ (leases[h].state = "HELD" \/ ~leases[h].recovered)
  <1>0. /\ MaintenanceTypes /\ Entries /\ Contexts /\ Fence /\ Orphans /\ HeldIsQuiet /\ h \in Hold
    BY DEF MaintenanceInv, MaintenanceTypes
  <1>1. CASE leases[h].recovered
    BY <1>0, <1>1 DEF maintenanceTreesRetiredLocked, HeldIsQuiet
  <1>2. CASE ~leases[h].recovered
    <2> SUFFICES ASSUME NEW e \in Entry, covers[h] \cap entry[e].served # {}
                 PROVE  entry[e].tree # "running" /\ ~entry[e].work
      BY <1>2 DEF Quiet
    <2>1. \A x \in leases[h].pins : Retired(x)
      BY <1>2 DEF maintenanceTreesRetiredLocked
    <2>2. ~Registered(e)
      BY <1>0, <2>1 DEF Fence, Registered, Retired
    <2>3. ASSUME entry[e].tree = "running" PROVE FALSE
      <3>1. PICK g \in DOMAIN Ledger : /\ entry[e].served \subseteq covers[g]
                                       /\ g \in DOMAIN leases /\ leases[g].recovered
        BY <1>0, <2>2, <2>3 DEF Orphans, Running, Up
      <3>2. g # h /\ g \in Hold
        BY <1>0, <1>2, <3>1 DEF MaintenanceTypes
      <3> QED
        BY <1>0, <3>1, <3>2 DEF Contexts, Governed
    <2> QED
      BY <1>0, <2>2, <2>3 DEF Entries
  <1> QED
    BY <1>1, <1>2

\* The retirement of a lease is published, or the lease released if it is past.
LEMMA Finishing ==
  ASSUME MaintenanceInv, Up, NEW h \in DOMAIN leases, maintenanceTreesRetiredLocked(leases[h])
  PROVE  Evolves(finishMaintenanceRetirementLocked(h))
  <1>1. Quiet(h) /\ (leases[h].state = "HELD" \/ ~leases[h].recovered)
    BY RetiredIsQuiet
  <1>2. CASE leases[h].past
    BY <1>1, <1>2, Dropping DEF finishMaintenanceRetirementLocked, Released
  <1>3. CASE ~leases[h].past
    <2> DEFINE lease == [leases[h] EXCEPT !.state = "HELD"]
    <2>1. leases[h] \in Lease
      BY DEF MaintenanceInv, MaintenanceTypes
    <2>2. /\ lease \in Lease /\ lease.keys = leases[h].keys /\ lease.pins = leases[h].pins
          /\ lease.recovered = leases[h].recovered /\ lease.state = "HELD"
      BY <2>1 DEF Lease, States
    <2> HIDE DEF lease
    <2>3. Evolves(Updated(h, lease))
      BY <1>1, <2>1, <2>2, Updating
    <2> QED
      BY <1>3, <2>3 DEF finishMaintenanceRetirementLocked, lease
  <1> QED
    BY <1>2, <1>3
-----------------------------------------------------------------------------
(* A commit of the daemon.                                                 *)

\* Owners keep everything but the notification they owe.
SameOwners ==
  /\ entry' \in [Entry -> EntryType]
  /\ \A e \in Entry :
       /\ entry'[e].st = entry[e].st /\ entry'[e].ctx = entry[e].ctx
       /\ entry'[e].served = entry[e].served /\ entry'[e].whole = entry[e].whole
       /\ entry'[e].tree = entry[e].tree /\ entry'[e].work = entry[e].work

\* What is acknowledged after the step is in memory and in the files.
Truthful ==
  /\ public' \in [Hold -> States \cup {"none", "lapsed", "released", "doubt"}]
  /\ \A h \in Hold : public'[h] \in States => h \in DOMAIN Ledger' /\ h \in DOMAIN leases'
  /\ \A h \in Hold : public'[h] = "HELD" => Ledger'[h].state = "HELD" /\ leases'[h].state = "HELD"
  /\ \A h \in Hold : public'[h] = "released" => h \notin DOMAIN Ledger' /\ h \notin DOMAIN leases'

\* Memory becomes A, the files keep their leases or store A or B.
LEMMA Commits ==
  ASSUME MaintenanceInv, Up, UNCHANGED <<phase, covers>>, SameOwners,
         NEW A, Evolves(A), leases' = A, NEW B, Evolves(B), DOMAIN B \subseteq DOMAIN A,
         DiskType(disk'),
         \/ Ledger' = maintenanceRecords(A)
         \/ Ledger' = maintenanceRecords(B)
         \/ Ledger' = Ledger /\ DOMAIN A = DOMAIN leases,
         failed' \in {"no", "store", "acquire"}, failed' = failed \/ failed = "no",
         Truthful, CallHolds', lock' \in {"free", "call", "outside", "checked"},
         lock' = "checked" => \A h \in Hold : public'[h] \notin States
  PROVE  MaintenanceInv'
  <1>0. /\ MaintenanceTypes /\ Entries /\ Contexts /\ Memory /\ Fence /\ Orphans /\ HeldIsQuiet
        /\ IsLeases(A) /\ IsLeases(B) /\ DOMAIN A \subseteq DOMAIN leases /\ DOMAIN B \subseteq DOMAIN leases
    BY DEF MaintenanceInv, Evolves
  <1>1. /\ \A e \in Entry : Registered(e)' = Registered(e)
        /\ Running /\ Running' /\ Up'
        /\ \A h \in Hold : Quiet(h)' <=> Quiet(h)
    BY DEF SameOwners, Registered, Running, Up, Quiet
  <1>2. /\ DOMAIN Ledger' \subseteq Hold
        /\ \A h \in DOMAIN Ledger' : h \in DOMAIN Ledger \/ h \in DOMAIN leases
        /\ \A h \in DOMAIN Ledger' : Ledger'[h].keys = covers[h] /\ covers[h] # {}
        /\ \A h \in DOMAIN Ledger' : Ledger'[h].state = "HELD" => Quiet(h)
        /\ \A h \in DOMAIN leases : leases[h].recovered /\ leases[h].state = "BLOCKED"
                                      => (h \in DOMAIN Ledger => h \in DOMAIN Ledger')
        /\ \A h \in DOMAIN Ledger' : h \in DOMAIN A \/ (failed' = "acquire" /\ Ledger'[h].state = "HOLDING")
    <2>1. CASE Ledger' = maintenanceRecords(A)
      BY <1>0, <2>1, RecordsOf DEF Evolves, Contexts, IsLeases
    <2>2. CASE Ledger' = maintenanceRecords(B)
      BY <1>0, <2>2, RecordsOf DEF Evolves, Contexts, IsLeases
    <2>3. CASE Ledger' = Ledger /\ DOMAIN A = DOMAIN leases
      BY <1>0, <1>1, <2>3 DEF Contexts, HeldIsQuiet, Memory, MaintenanceTypes, DiskType, Ledger
    <2> QED
      BY <2>1, <2>2, <2>3
  <1>3. \A h \in Hold : Governed(h)' => Governed(h)
    BY <1>0, <1>2 DEF Governed
  <1>4. MaintenanceTypes'
    BY <1>0 DEF MaintenanceTypes, SameOwners, Truthful, IsLeases
  <1>5. Entries'
    BY <1>0, <1>1 DEF Entries, SameOwners
  <1>6. Contexts'
    <2>1. \A h \in DOMAIN leases' : leases'[h].keys = covers'[h] /\ covers'[h] # {}
      BY <1>0 DEF Contexts, Evolves
    <2> QED
      BY <1>0, <1>2, <1>3, <2>1 DEF Contexts
  <1>7. Memory'
    BY <1>0, <1>1, <1>2 DEF Memory, Up
  <1>8. Fence'
    <2> SUFFICES ASSUME NEW h \in Hold, NEW e \in Entry
                 PROVE  /\ Governed(h)' /\ Registered(e) => entry[e].whole
                        /\ Governed(h)' /\ Registered(e) /\ entry[e].served \cap covers[h] # {}
                             => entry[e].served \subseteq covers[h]
                        /\ h \in DOMAIN A /\ Registered(e) /\ entry[e].served \cap covers[h] # {}
                             => e \in A[h].pins
      BY <1>1 DEF Fence, SameOwners
    <2> QED
      BY <1>0, <1>3 DEF Fence, Evolves
  <1>9. Orphans'
    <2> SUFFICES ASSUME NEW e \in Entry, entry[e].tree = "running", ~Registered(e)
                 PROVE  \E h \in DOMAIN Ledger' :
                          /\ entry[e].served \subseteq covers[h] /\ entry[e].served # {}
                          /\ h \in DOMAIN A /\ A[h].recovered /\ A[h].state = "BLOCKED"
      BY <1>1 DEF Orphans, SameOwners
    <2>1. PICK h \in DOMAIN Ledger :
             /\ entry[e].served \subseteq covers[h] /\ entry[e].served # {}
             /\ h \in DOMAIN leases /\ leases[h].recovered /\ leases[h].state = "BLOCKED"
      BY <1>0, <1>1 DEF Orphans
    <2>2. h \in DOMAIN A /\ A[h].recovered /\ A[h].state = "BLOCKED"
      BY <2>1 DEF Evolves
    <2> QED
      BY <1>2, <2>1, <2>2
  <1>10. HeldIsQuiet'
    BY <1>0, <1>1, <1>2 DEF HeldIsQuiet, Evolves, IsLeases
  <1>11. Promises'
    BY <1>1 DEF Promises, Truthful, Governed
  <1> QED
    BY <1>4, <1>5, <1>6, <1>7, <1>8, <1>9, <1>10, <1>11 DEF MaintenanceInv

\* What is acknowledged with a commit.
LEMMA Acknowledges ==
  ASSUME MaintenanceInv, Up, NEW ls, Evolves(ls), public' = Acknowledged(ls), leases' = ls,
         Ledger' = maintenanceRecords(ls)
  PROVE  Truthful
  <1>0. /\ MaintenanceTypes /\ Promises /\ Running /\ IsLeases(ls)
        /\ DOMAIN Ledger' = DOMAIN ls /\ \A h \in DOMAIN ls : Ledger'[h].state = ls[h].state
    BY RecordsOf DEF MaintenanceInv, Evolves, Running, Up
  <1>1. ASSUME NEW h \in Hold
        PROVE  /\ public'[h] \in States \cup {"none", "lapsed", "released", "doubt"}
               /\ public'[h] \in States => h \in DOMAIN ls
               /\ public'[h] = "HELD" => ls[h].state = "HELD"
               /\ public'[h] = "released" => h \notin DOMAIN ls
    <2>1. CASE h \in DOMAIN ls
      <3>1. public'[h] \in {ls[h].state, "lapsed"} /\ ls[h].state \in States
        BY <1>0, <2>1 DEF Acknowledged, IsLeases, Lease
      <3> QED
        BY <2>1, <3>1 DEF States
    <2>2. CASE h \notin DOMAIN ls /\ h \in DOMAIN leases
      BY <2>2 DEF Acknowledged, States
    <2>3. CASE h \notin DOMAIN ls /\ h \notin DOMAIN leases
      <3>1. public'[h] = public[h]
        BY <2>3 DEF Acknowledged
      <3> QED
        BY <1>0, <2>3, <3>1 DEF MaintenanceTypes, Promises, States
    <2> QED
      BY <2>1, <2>2, <2>3
  <1>2. public' = [h \in Hold |-> public'[h]]
    BY DEF Acknowledged
  <1> QED
    BY <1>0, <1>1, <1>2 DEF Truthful, States

\* A commit that was acknowledged, and one that failed.
Succeeds(ls) ==
  Persist(disk, ls, TRUE) /\ leases' = ls /\ public' = Acknowledged(ls) /\ failed' = failed
Fails(ls) ==
  /\ Persist(disk, ls, FALSE) /\ public' = Doubted(public, leases, ls)
  /\ Evolves(leases') /\ DOMAIN leases' = DOMAIN leases
  /\ failed' = failed \/ (failed = "no" /\ failed' = "store")

\* Either way the invariant holds.
LEMMA Committed ==
  ASSUME MaintenanceInv, Up, UNCHANGED <<phase, covers>>, SameOwners, NEW ls, Evolves(ls),
         Succeeds(ls) \/ Fails(ls), CallHolds', lock' \in {"free", "call", "outside"}
  PROVE  MaintenanceInv'
  <1>0. /\ MaintenanceTypes /\ Promises /\ DiskType(disk) /\ IsLeases(ls)
        /\ failed \in {"no", "store", "acquire"} /\ Running /\ DOMAIN ls \subseteq DOMAIN leases
    BY DEF MaintenanceInv, MaintenanceTypes, Evolves, Running, Up
  <1>1. CASE Succeeds(ls)
    <2>1. DiskType(disk') /\ Ledger' = maintenanceRecords(ls)
      BY <1>0, <1>1, Persists DEF Succeeds
    <2>2. Truthful
      BY <1>1, <2>1, Acknowledges DEF Succeeds
    <2> QED
      BY <1>0, <1>1, <2>1, <2>2, Commits DEF Succeeds
  <1>2. CASE Fails(ls)
    <2>1. /\ DiskType(disk')
          /\ Ledger' = maintenanceRecords(ls) \/ Ledger' = Ledger
      BY <1>0, <1>2, Persists DEF Ledger, Fails
    <2>2. \A h \in Hold : \/ public'[h] = "doubt"
                          \/ public'[h] = public[h] /\ (h \in DOMAIN leases => h \in DOMAIN ls)
      BY <1>2 DEF Doubted, Fails
    <2>3. public' \in [Hold -> States \cup {"none", "lapsed", "released", "doubt"}]
      BY <1>0, <1>2 DEF Doubted, MaintenanceTypes, Fails
    <2>4. /\ DOMAIN leases' = DOMAIN leases
          /\ \A h \in DOMAIN leases : leases[h].state = "HELD" => leases'[h].state = "HELD"
      BY <1>2 DEF Fails, Evolves
    <2>5. Truthful
      <3>1. ASSUME NEW h \in Hold, public'[h] # "doubt"
            PROVE  /\ public[h] \in States => h \in DOMAIN Ledger' /\ h \in DOMAIN leases
                   /\ public[h] = "HELD" => Ledger'[h].state = "HELD" /\ leases[h].state = "HELD"
                   /\ public[h] = "released" => h \notin DOMAIN Ledger' /\ h \notin DOMAIN leases
        <4>1. CASE Ledger' = Ledger
          BY <1>0, <4>1 DEF Promises, Governed, States
        <4>2. CASE Ledger' = maintenanceRecords(ls)
          <5>1. DOMAIN Ledger' = DOMAIN ls /\ \A g \in DOMAIN ls : Ledger'[g].state = ls[g].state
            BY <1>0, <4>2, RecordsOf
          <5> QED
            BY <1>0, <2>2, <3>1, <5>1 DEF Promises, Governed, Evolves, States
        <4> QED
          BY <2>1, <4>1, <4>2
      <3> QED
        BY <2>2, <2>3, <2>4, <3>1 DEF Truthful, States
    <2>6. Evolves(leases') /\ failed' \in {"no", "store", "acquire"} /\ (failed' = failed \/ failed = "no")
      BY <1>0, <1>2 DEF Fails
    <2> QED
      BY <1>0, <2>1, <2>4, <2>5, <2>6, Commits
  <1> QED
    BY <1>1, <1>2

\* The commits of the model are of these kinds.
LEMMA CommitKinds ==
  ASSUME MaintenanceInv, NEW ls
  PROVE  /\ CommitOk(ls) => Succeeds(ls)
         /\ CommitError(ls, failed) => Fails(ls)
         /\ failed = "no" /\ CommitError(ls, "store") => Fails(ls)
  <1>1. Evolves(leases)
    BY Stays
  <1>2. ASSUME UNCHANGED leases PROVE Evolves(leases') /\ DOMAIN leases' = DOMAIN leases
    BY <1>1, <1>2
  <1> QED
    BY <1>2 DEF CommitOk, CommitError, Succeeds, Fails

\* A step that sets timers, or does nothing to the leases.
LEMMA TimersOnly ==
  ASSUME MaintenanceInv, Up, UNCHANGED <<phase, covers, disk, failed, public>>, SameOwners,
         Evolves(leases'), DOMAIN leases' = DOMAIN leases,
         CallHolds', UNCHANGED lock
  PROVE  MaintenanceInv'
  <1>0. /\ MaintenanceTypes /\ Promises /\ DiskType(disk) /\ failed \in {"no", "store", "acquire"} /\ Running
    BY DEF MaintenanceInv, MaintenanceTypes, Running, Up
  <1>1. Ledger' = Ledger /\ DiskType(disk')
    BY <1>0 DEF Ledger
  <1>2. Truthful
    BY <1>0, <1>1 DEF Truthful, Promises, Evolves, MaintenanceTypes, Governed, States
  <1>3. lock' \in {"free", "call", "outside", "checked"}
        /\ (lock' = "checked" => \A h \in Hold : public'[h] \notin States)
    BY <1>0 DEF Promises, MaintenanceTypes
  <1> QED
    BY <1>0, <1>1, <1>2, <1>3, Commits

\* Leases that moved with a lock that stays as it is, and no call in the way.
LEMMA CallStays ==
  ASSUME MaintenanceInv, UNCHANGED <<phase, lock, call>>,
         lock = "free" \/ \A h \in DOMAIN leases : h \in DOMAIN leases' /\ leases'[h].state = leases[h].state
  PROVE  CallHolds'
  BY DEF MaintenanceInv, CallHolds, Up

\* Expired leases are released one after the other, up to the first that fails.
LEMMA Expiring ==
  ASSUME MaintenanceInv, Up, failed = "no", lock = "free", LeaseOnly,
         NEW f \in {"no", "store"}, expireMaintenanceLocked(f)
  PROVE  MaintenanceInv'
  <1>0. /\ MaintenanceTypes /\ DiskType(disk) /\ Promises /\ Running
        /\ UNCHANGED <<phase, covers, lock, call>> /\ CallHolds' /\ SameOwners
    BY CallStays DEF MaintenanceInv, MaintenanceTypes, LeaseOnly, SameOwners, Running, Up
  <1>1. \A S \in SUBSET Expired :
           Evolves(Drop(leases, S)) /\ DOMAIN Drop(leases, S) = DOMAIN leases \ S
    BY Dropping DEF Expired
  <1>2. CASE CommitOk(Drop(leases, Expired))
    BY <1>0, <1>1, <1>2, CommitKinds, Committed
  <1>3. ASSUME NEW done \in SUBSET Expired, NEW h \in Expired \ done,
               IF done = {} THEN CommitError(Released(h), f)
               ELSE /\ \E d1 \in commitMaintenanceStore(disk, maintenanceRecords(Drop(leases, done)), TRUE) :
                         Persist(d1, Drop(leases, done \cup {h}), FALSE)
                    /\ leases' = Drop(leases, done)
                    /\ public' = [Acknowledged(Drop(leases, done)) EXCEPT ![h] = "doubt"]
                    /\ failed' = f
                    /\ Trouble
        PROVE  MaintenanceInv'
    <2>1. CASE done = {}
      <3>1. Evolves(Released(h))
        BY <1>1, <1>3 DEF Released
      <3>2. Fails(Released(h))
        BY <1>3, <2>1, CommitKinds
      <3> QED
        BY <1>0, <3>1, <3>2, Committed
    <2>2. CASE done # {}
      <3> DEFINE A == Drop(leases, done)
                 B == Drop(leases, done \cup {h})
      <3>1. /\ Evolves(A) /\ DOMAIN A = DOMAIN leases \ done
            /\ Evolves(B) /\ DOMAIN B = DOMAIN leases \ (done \cup {h})
            /\ \A g \in DOMAIN B : B[g] = A[g]
        <4>1. done \cup {h} \in SUBSET Expired
          BY <1>3
        <4>2. \A g \in DOMAIN leases \ (done \cup {h}) : B[g] = A[g]
          BY DEF Drop, Restrict
        <4> QED
          BY <1>1, <4>1, <4>2
      <3>2. IsLeases(A) /\ IsLeases(B)
        BY <3>1 DEF Evolves
      <3>3. PICK d1 \in commitMaintenanceStore(disk, maintenanceRecords(A), TRUE) : Persist(d1, B, FALSE)
        BY <1>3, <2>2
      <3>4. leases' = A /\ public' = [Acknowledged(A) EXCEPT ![h] = "doubt"] /\ failed' = f
        BY <1>3, <2>2
      <3> HIDE DEF A, B
      <3>5. DiskType(d1) /\ d1.ledger.leases = maintenanceRecords(A)
        <4> DEFINE recs == maintenanceRecords(A)
        <4>1. DOMAIN recs \subseteq Hold /\ recs \in [DOMAIN recs -> Stored]
          BY <3>2, RecordsOf DEF IsLeases
        <4>2. d1 = Certified(disk, recs)
          BY <3>3 DEF commitMaintenanceStore
        <4> HIDE DEF recs
        <4>3. DiskType(d1) /\ d1.ledger.leases = recs
          BY <1>0, <4>1, <4>2, Certificate
        <4> QED
          BY <4>3 DEF recs
      <3>6. DiskType(disk') /\ Ledger' \in {maintenanceRecords(A), maintenanceRecords(B)}
        BY <3>2, <3>3, <3>5, Persists
      <3>7. /\ DOMAIN Ledger' \in {DOMAIN A, DOMAIN B}
            /\ \A g \in DOMAIN Ledger' : Ledger'[g].state = A[g].state
        BY <3>1, <3>2, <3>6, RecordsOf
      <3>8. Truthful
        <4>1. h \in Hold /\ h \in DOMAIN A
          BY <1>0, <1>3, <3>1 DEF Expired, MaintenanceTypes
        <4>2. public'[h] = "doubt" /\ \A g \in Hold : g # h => public'[g] = Acknowledged(A)[g]
          BY <3>4, <4>1 DEF Acknowledged
        <4>3. ASSUME NEW g \in Hold, g # h
              PROVE  /\ public'[g] \in States \cup {"none", "lapsed", "released", "doubt"}
                     /\ public'[g] \in States => g \in DOMAIN A
                     /\ public'[g] = "HELD" => A[g].state = "HELD"
                     /\ public'[g] = "released" => g \notin DOMAIN A
          <5>1. CASE g \in DOMAIN A
            <6>1. public'[g] \in {A[g].state, "lapsed"} /\ A[g].state \in States
              BY <3>2, <4>2, <4>3, <5>1 DEF Acknowledged, IsLeases, Lease
            <6> QED
              BY <5>1, <6>1 DEF States
          <5>2. CASE g \notin DOMAIN A /\ g \in DOMAIN leases
            BY <4>2, <4>3, <5>2 DEF Acknowledged, States
          <5>3. CASE g \notin DOMAIN A /\ g \notin DOMAIN leases
            <6>1. public'[g] = public[g]
              BY <4>2, <4>3, <5>3 DEF Acknowledged
            <6> QED
              BY <1>0, <5>3, <6>1 DEF MaintenanceTypes, Promises, States
          <5> QED
            BY <5>1, <5>2, <5>3
        <4>4. public' = [g \in Hold |-> public'[g]]
          BY <3>4 DEF Acknowledged
        <4>5. \A g \in DOMAIN A : g # h => g \in DOMAIN Ledger'
          BY <3>1, <3>7
        <4>6. DOMAIN Ledger' \subseteq DOMAIN A
          BY <3>1, <3>7
        <4> QED
          BY <3>4, <3>7, <4>2, <4>3, <4>4, <4>5, <4>6 DEF Truthful, States
      <3>9. DOMAIN B \subseteq DOMAIN A
        BY <3>1
      <3> QED
        BY <1>0, <3>1, <3>4, <3>6, <3>8, <3>9, Commits
    <2> QED
      BY <2>1, <2>2
  <1> QED
    BY <1>2, <1>3 DEF expireMaintenanceLocked

-----------------------------------------------------------------------------
(* The steps that move leases.                                             *)

\* Another timer for some leases.
LEMMA Timing ==
  ASSUME MaintenanceInv, NEW ls, DOMAIN ls = DOMAIN leases, ls = [h \in DOMAIN ls |-> ls[h]],
         \A h \in DOMAIN leases : \E timer \in {"none", "expiry", "retry"} :
           ls[h] = [leases[h] EXCEPT !.timer = timer]
  PROVE  Evolves(ls) /\ \A h \in DOMAIN leases : ls[h].state = leases[h].state
  <1>1. /\ IsLeases(leases) /\ HeldIsQuiet
    BY DEF MaintenanceInv, MaintenanceTypes, IsLeases
  <1>2. ASSUME NEW h \in DOMAIN leases
        PROVE  /\ ls[h] \in Lease /\ ls[h].keys = leases[h].keys /\ ls[h].pins = leases[h].pins
               /\ ls[h].recovered = leases[h].recovered /\ ls[h].state = leases[h].state
    BY <1>1, <1>2 DEF IsLeases, Lease
  <1>3. IsLeases(ls)
    BY <1>1, <1>2 DEF IsLeases
  <1> QED
    BY <1>1, <1>2, <1>3 DEF Evolves, HeldIsQuiet

\* One timer is set.
LEMMA SettingTimer ==
  ASSUME MaintenanceInv, NEW h \in DOMAIN leases, NEW timer \in {"none", "expiry", "retry"},
         SetTimer(h, timer)
  PROVE  /\ Evolves(leases') /\ DOMAIN leases' = DOMAIN leases
         /\ \A g \in DOMAIN leases : leases'[g].state = leases[g].state
  <1> DEFINE ls == [leases EXCEPT ![h].timer = timer]
  <1>1. leases \in [DOMAIN leases -> Lease]
    BY DEF MaintenanceInv, MaintenanceTypes
  <1>2. /\ DOMAIN ls = DOMAIN leases /\ ls = [g \in DOMAIN ls |-> ls[g]]
        /\ \A g \in DOMAIN leases : \E x \in {"none", "expiry", "retry"} :
             ls[g] = [leases[g] EXCEPT !.timer = x]
    <2>1. \A g \in DOMAIN leases : leases[g].timer \in {"none", "expiry", "retry"}
                                    /\ leases[g] = [leases[g] EXCEPT !.timer = leases[g].timer]
      BY <1>1 DEF Lease
    <2>2. DOMAIN ls = DOMAIN leases /\ ls = [g \in DOMAIN ls |-> ls[g]]
      BY <1>1
    <2>3. ls[h] = [leases[h] EXCEPT !.timer = timer] /\ \A g \in DOMAIN leases : g # h => ls[g] = leases[g]
      BY <1>1
    <2> QED
      BY <2>1, <2>2, <2>3
  <1>3. leases' = ls
    BY DEF SetTimer
  <1> HIDE DEF ls
  <1> QED
    BY <1>2, <1>3, Timing

\* Timers, requests and the reaper, with the file lock free.
LEMMA LeaseSteps ==
  ASSUME MaintenanceInv,
         (\E h \in Hold : Publish(h) \/ resume(h) \/ renew(h)) \/ reconcileMaintenance
  PROVE  MaintenanceInv'
  <1>0. /\ MaintenanceTypes /\ UNCHANGED <<phase, entry, lock, call, covers>> /\ Up /\ failed = "no"
        /\ SameOwners /\ lock \in {"free", "call", "outside", "checked"}
    BY DEF Publish, ExpiryTimer, RetryTimer, TimerRuns, resume, renew, reconcileMaintenance,
           LeaseOnly, MaintenanceInv, MaintenanceTypes, SameOwners
  <1>1. ASSUME lock = "free", NEW ls, Evolves(ls), Succeeds(ls) \/ Fails(ls) PROVE MaintenanceInv'
    <2>1. CallHolds'
      BY <1>0, <1>1, CallStays
    <2> QED
      BY <1>0, <1>1, <2>1, Committed
  <1>2. ASSUME lock = "free", NEW ls, Evolves(ls),
               CommitOk(ls) \/ CommitError(ls, failed) \/ CommitError(ls, "store")
        PROVE  MaintenanceInv'
    BY <1>0, <1>1, <1>2, CommitKinds
  <1>3. ASSUME NEW h \in DOMAIN leases, NEW timer \in {"none", "expiry", "retry"}, SetTimer(h, timer),
               UNCHANGED <<disk, failed, public>>
        PROVE  MaintenanceInv'
    <2>1. /\ Evolves(leases') /\ DOMAIN leases' = DOMAIN leases
          /\ \A g \in DOMAIN leases : leases'[g].state = leases[g].state
      BY <1>3, SettingTimer
    <2>2. CallHolds'
      BY <1>0, <2>1, CallStays
    <2> QED
      BY <1>0, <1>3, <2>1, <2>2, TimersOnly
  <1>4. ASSUME NEW h \in Hold, ExpiryTimer(h) PROVE MaintenanceInv'
    <2>1. CASE h \in Expired
      BY <1>0, <1>4, <2>1, Expiring DEF ExpiryTimer
    <2>2. CASE h \notin Expired
      BY <1>3, <1>4, <2>2 DEF ExpiryTimer, TimerRuns
    <2> QED
      BY <2>1, <2>2
  <1>5. ASSUME NEW h \in Hold, RetryTimer(h) PROVE MaintenanceInv'
    <2> DEFINE due == leases[h].state = "BLOCKED" /\ maintenanceTreesRetiredLocked(leases[h])
               next == finishMaintenanceRetirementLocked(h)
    <2>0. h \in DOMAIN leases
      BY <1>5 DEF RetryTimer, TimerRuns
    <2>1. CASE ~due
      <3>1. SetTimer(h, "expiry") /\ UNCHANGED <<disk, failed, public>>
        BY <1>5, <2>1 DEF RetryTimer
      <3> QED
        BY <1>3, <2>0, <3>1
    <2>2. CASE due
      <3>1. Evolves(next) /\ lock = "free"
        BY <1>0, <1>5, <2>0, <2>2, Finishing DEF RetryTimer
      <3>2. CASE CommitOk(next)
        BY <1>2, <3>1, <3>2
      <3>3. CASE /\ Persist(disk, next, FALSE) /\ failed' = "store" /\ SetTimer(h, "expiry")
                 /\ public' = Doubted(public, leases, next)
        <4>1. Evolves(leases') /\ DOMAIN leases' = DOMAIN leases
          BY <2>0, <3>3, SettingTimer
        <4>2. Fails(next)
          BY <1>0, <3>3, <4>1 DEF Fails
        <4> QED
          BY <1>1, <3>1, <4>2
      <3> QED
        BY <1>5, <2>2, <3>2, <3>3 DEF RetryTimer
    <2> QED
      BY <2>1, <2>2
  <1>6. ASSUME NEW h \in Hold, resume(h) PROVE MaintenanceInv'
    <2>1. Evolves(Released(h))
      BY <1>6, Dropping DEF resume, Released
    <2> QED
      BY <1>2, <1>6, <2>1 DEF resume
  <1>7. ASSUME NEW h \in Hold, renew(h) PROVE MaintenanceInv'
    <2> DEFINE lease == [leases[h] EXCEPT !.past = FALSE]
               next == Updated(h, lease)
    <2>1. h \in DOMAIN leases /\ lock = "free" /\ leases[h] \in Lease /\ HeldIsQuiet
      BY <1>7 DEF renew, MaintenanceInv, MaintenanceTypes
    <2>2. /\ lease \in Lease /\ lease.keys = leases[h].keys /\ lease.pins = leases[h].pins
          /\ lease.recovered = leases[h].recovered /\ lease.state = leases[h].state
      BY <2>1 DEF Lease
    <2>3. \/ /\ Persist(disk, next, TRUE) /\ leases' = next
             /\ public' = Acknowledged(next) /\ failed' = failed
          \/ CommitError(next, failed)
      BY <1>7 DEF renew
    <2> HIDE DEF lease
    <2>4. Evolves(next)
      BY <2>1, <2>2, Updating DEF HeldIsQuiet
    <2> HIDE DEF next
    <2> QED
      BY <1>1, <1>2, <2>1, <2>3, <2>4 DEF Succeeds
  <1>8. ASSUME reconcileMaintenance PROVE MaintenanceInv'
    <2>1. ASSUME NEW h \in Unpublished,
                 CommitOk(finishMaintenanceRetirementLocked(h))
                   \/ CommitError(finishMaintenanceRetirementLocked(h), failed)
          PROVE  MaintenanceInv'
      <3>1. Evolves(finishMaintenanceRetirementLocked(h))
        BY <1>0, <2>1, Finishing DEF Unpublished
      <3> QED
        BY <1>2, <1>8, <2>1, <3>1 DEF reconcileMaintenance
    <2>2. ASSUME expireMaintenanceLocked(failed) PROVE MaintenanceInv'
      BY <1>0, <1>8, <2>2, Expiring DEF reconcileMaintenance
    <2> QED
      BY <1>8, <2>1, <2>2 DEF reconcileMaintenance
  <1> QED
    BY <1>4, <1>5, <1>6, <1>7, <1>8 DEF Publish

\* The call ends, with its lease retired, blocked or as it was.
LEMMA CallFinishes == ASSUME MaintenanceInv, FinishCall PROVE MaintenanceInv'
  <1> DEFINE h == call.hold
             retired == maintenanceTreesRetiredLocked(leases[h])
             lease == [leases[h] EXCEPT !.state = "BLOCKED"]
             next == IF retired THEN finishMaintenanceRetirementLocked(h) ELSE Updated(h, lease)
  <1>0. /\ MaintenanceTypes /\ UNCHANGED <<phase, entry, covers>> /\ Up /\ SameOwners
        /\ lock = "call" /\ lock' = "free" /\ call' = NoCall
        /\ h \in DOMAIN leases /\ leases[h].state = "HOLDING" /\ leases[h] \in Lease
    BY DEF FinishCall, Return, MaintenanceInv, MaintenanceTypes, SameOwners, CallHolds
  <1>1. CallHolds'
    BY <1>0 DEF CallHolds, NoCall
  <1>2. CASE UNCHANGED <<disk, leases, failed, public>>
    <2>1. Evolves(leases') /\ DOMAIN leases' = DOMAIN leases
      BY <1>2, Stays
    <2>2. /\ Promises /\ DiskType(disk) /\ failed \in {"no", "store", "acquire"} /\ Running
      BY <1>0 DEF MaintenanceInv, MaintenanceTypes, Running, Up
    <2>3. Ledger' = Ledger /\ DiskType(disk')
      BY <1>2, <2>2 DEF Ledger
    <2>4. Truthful
      BY <1>0, <1>2, <2>2, <2>3 DEF Truthful, Promises, MaintenanceTypes, Governed, States
    <2> QED
      BY <1>0, <1>1, <1>2, <2>1, <2>2, <2>3, <2>4, Commits
  <1>3. CASE CommitOk(next) \/ CommitError(next, failed)
    <2>1. Evolves(next)
      <3>1. CASE retired
        BY <1>0, <3>1, Finishing
      <3>2. CASE ~retired
        <4>1. /\ lease \in Lease /\ lease.keys = leases[h].keys /\ lease.pins = leases[h].pins
              /\ lease.recovered = leases[h].recovered /\ lease.state = "BLOCKED"
          BY <1>0 DEF Lease, States
        <4> HIDE DEF lease
        <4>2. Evolves(Updated(h, lease))
          BY <1>0, <4>1, Updating
        <4> QED
          BY <3>2, <4>2
      <3> QED
        BY <3>1, <3>2
    <2> HIDE DEF next
    <2>2. Succeeds(next) \/ Fails(next)
      BY <1>3, CommitKinds
    <2> QED
      BY <1>0, <1>1, <2>1, <2>2, Committed
  <1>4. UNCHANGED <<disk, leases, failed, public>> \/ CommitOk(next) \/ CommitError(next, failed)
    BY DEF FinishCall
  <1> QED
    BY <1>2, <1>3, <1>4

\* A retirement is noticed: published, left to a timer, or to the call.
LEMMA RetirementNoticed ==
  ASSUME MaintenanceInv, NEW e \in Entry, maintenanceRetirementChanged(e) PROVE MaintenanceInv'
  <1>0. /\ MaintenanceTypes /\ UNCHANGED <<phase, lock, call, covers>> /\ Up
        /\ entry' = [entry EXCEPT ![e].notify = FALSE] /\ entry \in [Entry -> EntryType]
    BY DEF maintenanceRetirementChanged, MaintenanceInv, MaintenanceTypes
  <1>1. SameOwners
    BY ZenonT(40), <1>0 DEF SameOwners, EntryType
  <1>2. CASE UNCHANGED <<disk, leases, failed, public>>
    <2>1. Evolves(leases') /\ DOMAIN leases' = DOMAIN leases /\ CallHolds'
      BY <1>0, <1>2, Stays, CallStays
    <2> QED
      BY <1>0, <1>1, <1>2, <2>1, TimersOnly
  <1>3. CASE leases' = RetryLater(e) /\ UNCHANGED <<disk, failed, public>>
    <2> DEFINE ls == RetryLater(e)
    <2>1. /\ DOMAIN ls = DOMAIN leases /\ ls = [h \in DOMAIN ls |-> ls[h]]
          /\ \A h \in DOMAIN leases : \E x \in {"none", "expiry", "retry"} :
               ls[h] = [leases[h] EXCEPT !.timer = x]
      <3>1. \A h \in DOMAIN leases : leases[h].timer \in {"none", "expiry", "retry"}
                                      /\ leases[h] = [leases[h] EXCEPT !.timer = leases[h].timer]
        BY <1>0 DEF Lease, MaintenanceTypes
      <3>2. DOMAIN ls = DOMAIN leases /\ ls = [h \in DOMAIN ls |-> ls[h]]
        BY DEF RetryLater
      <3>3. \A h \in DOMAIN leases : ls[h] = [leases[h] EXCEPT !.timer = "retry"] \/ ls[h] = leases[h]
        BY DEF RetryLater
      <3> HIDE DEF ls
      <3> QED
        BY <3>1, <3>2, <3>3
    <2>2. leases' = ls
      BY <1>3
    <2> HIDE DEF ls
    <2>3. Evolves(leases') /\ DOMAIN leases' = DOMAIN leases
          /\ \A h \in DOMAIN leases : leases'[h].state = leases[h].state
      BY <2>1, <2>2, Timing
    <2>4. CallHolds'
      BY <1>0, <2>3, CallStays
    <2> QED
      BY <1>0, <1>1, <1>3, <2>3, <2>4, TimersOnly
  <1>4. ASSUME lock = "free", failed = "no",
               NEW h \in Matched(e), maintenanceTreesRetiredLocked(leases[h]),
               CommitOk(finishMaintenanceRetirementLocked(h))
                 \/ CommitError(finishMaintenanceRetirementLocked(h), "store")
        PROVE  MaintenanceInv'
    <2>1. Evolves(finishMaintenanceRetirementLocked(h))
      BY <1>0, <1>4, Finishing DEF Matched
    <2>2. CallHolds'
      BY <1>0, <1>4, CallStays
    <2>3. Succeeds(finishMaintenanceRetirementLocked(h)) \/ Fails(finishMaintenanceRetirementLocked(h))
      BY <1>4, CommitKinds
    <2> QED
      BY <1>0, <1>1, <1>4, <2>1, <2>2, <2>3, Committed
  <1> QED
    BY <1>2, <1>3, <1>4 DEF maintenanceRetirementChanged
-----------------------------------------------------------------------------
(* The steps of one owner.                                                 *)

Enrolled(x) == x.st \in {"placeholder", "live"}

\* What an entry may become: an enrolled owner is pinned by the lease of a context
\* it serves, no tree is left behind, and nothing runs behind what is HELD.
Admissible(e, x) ==
  /\ x \in EntryType
  /\ x.ctx \subseteq x.served
  /\ Enrolled(x) => Running /\ x.ctx # {} /\ (x.whole => x.ctx = x.served)
  /\ x.work => Enrolled(x)
  /\ Enrolled(x) => \A h \in Hold : Governed(h) =>
       /\ x.whole
       /\ x.served \cap covers[h] # {} =>
            x.served \subseteq covers[h] /\ (h \in DOMAIN leases => e \in leases[h].pins)
  /\ x.tree = "running" /\ ~Enrolled(x) =>
       entry[e].tree = "running" /\ ~Registered(e) /\ x.served = entry[e].served
  /\ x.tree = "running" \/ x.work =>
       \/ (entry[e].tree = "running" \/ entry[e].work) /\ x.served = entry[e].served
       \/ \A h \in Hold : Governed(h) => covers[h] \cap x.served = {}

\* One entry moves, and with it at most the progress of the call.
LEMMA OwnerMoves ==
  ASSUME MaintenanceInv, NEW e \in Entry, NEW x, Admissible(e, x), entry' = [entry EXCEPT ![e] = x],
         UNCHANGED <<phase, disk, leases, failed, lock, public, covers>>, CallHolds'
  PROVE  MaintenanceInv'
  <1>0. /\ MaintenanceTypes /\ Entries /\ Contexts /\ Memory /\ Fence /\ Orphans /\ HeldIsQuiet /\ Promises
        /\ x \in EntryType /\ entry \in [Entry -> EntryType]
    BY DEF MaintenanceInv, MaintenanceTypes, Admissible
  <1>1. entry'[e] = x /\ \A f \in Entry : f # e => entry'[f] = entry[f]
    BY <1>0
  <1>2. /\ Ledger' = Ledger /\ DiskType(disk') /\ Running' = Running /\ Up' = Up
        /\ \A h \in Hold : Governed(h)' = Governed(h)
        /\ DOMAIN leases \subseteq Hold /\ DOMAIN Ledger \subseteq Hold
    BY <1>0 DEF Ledger, Running, Up, Governed, MaintenanceTypes, DiskType
  <1>3. Registered(e)' = Enrolled(x) /\ \A f \in Entry : f # e => Registered(f)' = Registered(f)
    BY <1>1 DEF Registered, Enrolled
  <1>4. MaintenanceTypes'
    BY <1>0, <1>2 DEF MaintenanceTypes
  <1>5. Entries'
    BY <1>0, <1>1, <1>2, <1>3 DEF Entries, Admissible
  <1>6. Contexts' /\ Memory'
    BY <1>0, <1>2 DEF Contexts, Memory
  <1>7. Fence'
    <2> SUFFICES ASSUME NEW h \in Hold, NEW f \in Entry, Governed(h), Registered(f)'
                 PROVE  /\ entry'[f].whole
                        /\ entry'[f].served \cap covers[h] # {} =>
                             /\ entry'[f].served \subseteq covers[h]
                             /\ h \in DOMAIN leases => f \in leases[h].pins
      BY <1>2 DEF Fence, Governed
    <2>1. CASE f = e
      BY <1>1, <1>3, <2>1 DEF Admissible
    <2>2. CASE f # e
      BY <1>0, <1>1, <1>3, <2>2 DEF Fence
    <2> QED
      BY <2>1, <2>2
  <1>8. Orphans'
    BY <1>0, <1>1, <1>2, <1>3 DEF Orphans, Admissible
  <1>9. ASSUME NEW h \in Hold, Governed(h), Quiet(h) PROVE Quiet(h)'
    BY <1>0, <1>1, <1>9 DEF Quiet, Admissible
  <1>10. HeldIsQuiet'
    BY <1>0, <1>2, <1>9 DEF HeldIsQuiet, Governed
  <1>11. Promises'
    BY <1>0, <1>2 DEF Promises
  <1> QED
    BY <1>4, <1>5, <1>6, <1>7, <1>8, <1>10, <1>11 DEF MaintenanceInv

\* An owner that does no more than before, or is gone, is admissible.
LEMMA Calming ==
  ASSUME MaintenanceInv, NEW e \in Entry, NEW x \in EntryType,
         \/ /\ x.served = {} /\ x.ctx = {} /\ x.st = "gone" /\ x.tree = "none" /\ ~x.work
         \/ /\ x.served = entry[e].served /\ x.ctx = entry[e].ctx /\ x.whole = entry[e].whole
            /\ x.st = entry[e].st \/ (x.st = "live" /\ Registered(e))
            /\ x.tree = entry[e].tree \/ x.tree = "none"
            /\ x.work => entry[e].work
  PROVE  Admissible(e, x)
  <1>0. Entries /\ Fence /\ entry[e] \in EntryType
    BY DEF MaintenanceInv, MaintenanceTypes
  <1>1. CASE x.served = {} /\ x.ctx = {} /\ x.st = "gone" /\ x.tree = "none" /\ ~x.work
    BY <1>1 DEF Admissible, Enrolled
  <1>2. CASE /\ x.served = entry[e].served /\ x.ctx = entry[e].ctx /\ x.whole = entry[e].whole
             /\ x.st = entry[e].st \/ (x.st = "live" /\ Registered(e))
             /\ x.tree = entry[e].tree \/ x.tree = "none"
             /\ x.work => entry[e].work
    <2>1. Enrolled(x) <=> Registered(e)
      BY <1>2 DEF Enrolled, Registered
    <2> QED
      BY <1>0, <1>2, <2>1 DEF Admissible, Entries, Fence
  <1> QED
    BY <1>1, <1>2

\* Admission is refused for a context of a hold, in every daemon that runs.
LEMMA AdmittedIsFree ==
  ASSUME MaintenanceInv, Running, NEW keys, checkMaintenanceKeyLocked(keys), NEW h \in Hold, Governed(h)
  PROVE  h \in DOMAIN leases /\ keys \cap covers[h] = {}
  <1>1. h \in DOMAIN leases
    BY DEF MaintenanceInv, Memory, Governed, checkMaintenanceKeyLocked
  <1>2. leases[h].keys = covers[h]
    BY <1>1 DEF MaintenanceInv, Contexts
  <1> QED
    BY <1>1, <1>2 DEF checkMaintenanceKeyLocked, maintenanceForKey

\* A finalization, proven or not.
LEMMA Finalizing ==
  ASSUME MaintenanceInv, NEW e \in Entry, NEW told \in BOOLEAN, finalizeOwner(e, told)
  PROVE  \E x : Admissible(e, x) /\ entry' = [entry EXCEPT ![e] = x]
  <1>0. entry[e] \in EntryType
    BY DEF MaintenanceInv, MaintenanceTypes
  <1>1. Admissible(e, Finalized(told))
    <2>1. /\ Finalized(told) \in EntryType /\ Finalized(told).served = {} /\ Finalized(told).ctx = {}
          /\ Finalized(told).st = "gone" /\ Finalized(told).tree = "none" /\ ~Finalized(told).work
      BY DEF Finalized, Unused, EntryType
    <2> QED
      BY <2>1, Calming
  <1>2. Admissible(e, Unproven(e))
    <2>1. /\ Unproven(e) \in EntryType /\ Unproven(e).served = entry[e].served
          /\ Unproven(e).ctx = entry[e].ctx /\ Unproven(e).whole = entry[e].whole
          /\ Unproven(e).st = entry[e].st /\ Unproven(e).tree = entry[e].tree
          /\ Unproven(e).work = entry[e].work
      BY <1>0 DEF Unproven, EntryType
    <2> QED
      BY <2>1, Calming
  <1> QED
    BY <1>1, <1>2 DEF finalizeOwner

\* Owners come, work and go.
LEMMA OwnerSteps ==
  ASSUME MaintenanceInv, NEW e \in Entry,
         \/ \E k \in Key : Reserve(e, k) \/ admitOwner(e, k)
         \/ Promote(e) \/ startAdmittedMaterialization(e)
         \/ reserveNativeWork(e) \/ WorkSettles(e) \/ TreeDies(e)
         \/ IdleRemoval(e) \/ OperatorRemoval(e) \/ finalizationRetry(e)
  PROVE  MaintenanceInv'
  <1>0. /\ Entries /\ Memory /\ Fence /\ entry \in [Entry -> EntryType] /\ entry[e] \in EntryType
        /\ DOMAIN leases \subseteq Hold
    BY DEF MaintenanceInv, MaintenanceTypes
  <1>1. /\ UNCHANGED <<phase, disk, leases, failed, lock, call, public, covers>>
    BY DEF Reserve, admitOwner, Promote, startAdmittedMaterialization, reserveNativeWork, WorkSettles,
           TreeDies, IdleRemoval, OperatorRemoval, finalizationRetry, EntryOnly
  <1>2. CallHolds'
    BY <1>1, CallStays
  <1>3. ASSUME NEW x, Admissible(e, x), entry' = [entry EXCEPT ![e] = x] PROVE MaintenanceInv'
    BY <1>1, <1>2, <1>3, OwnerMoves
  <1>4. ASSUME NEW k \in Key, Reserve(e, k) PROVE MaintenanceInv'
    <2> DEFINE x == [Unused EXCEPT !.st = "placeholder", !.ctx = {k}, !.served = {k}]
    <2>1. /\ x \in EntryType /\ x.st = "placeholder" /\ x.ctx = {k} /\ x.served = {k} /\ x.whole
          /\ x.tree = "none" /\ ~x.work
      BY DEF Unused, EntryType
    <2>2. /\ Running /\ checkMaintenanceKeyLocked({k}) /\ entry' = [entry EXCEPT ![e] = x]
      BY <1>4 DEF Reserve, Running, Up
    <2> HIDE DEF x
    <2>3. \A h \in Hold : Governed(h) => {k} \cap covers[h] = {}
      BY <2>2, AdmittedIsFree
    <2>4. Admissible(e, x)
      BY <2>1, <2>2, <2>3 DEF Admissible, Enrolled
    <2> QED
      BY <1>3, <2>2, <2>4
  <1>5. ASSUME NEW k \in Key, admitOwner(e, k) PROVE MaintenanceInv'
    <2> DEFINE x == [entry[e] EXCEPT !.ctx = @ \cup {k}, !.served = @ \cup {k}]
    <2>1. /\ x \in EntryType /\ x.st = entry[e].st /\ x.ctx = entry[e].ctx \cup {k}
          /\ x.served = entry[e].served \cup {k} /\ x.whole = entry[e].whole
          /\ x.tree = entry[e].tree /\ x.work = entry[e].work
      BY <1>0 DEF EntryType
    <2>2. /\ Running /\ checkMaintenanceKeyLocked({k} \cup entry[e].ctx) /\ entry' = [entry EXCEPT ![e] = x]
          /\ Registered(e)
      BY <1>0, <1>5 DEF admitOwner, Open, Running, Registered
    <2> HIDE DEF x
    <2>3. \A h \in Hold : Governed(h) => ({k} \cup entry[e].ctx) \cap covers[h] = {}
      BY <2>2, AdmittedIsFree
    <2>4. \A h \in Hold : Governed(h) => x.whole /\ x.ctx = x.served /\ x.served \cap covers[h] = {}
      BY <1>0, <2>1, <2>2, <2>3 DEF Fence, Entries
    <2>5. Admissible(e, x)
      BY <1>0, <2>1, <2>2, <2>4 DEF Admissible, Enrolled, Registered, Entries
    <2> QED
      BY <1>3, <2>2, <2>5
  <1>6. ASSUME Promote(e) PROVE MaintenanceInv'
    <2> DEFINE x == [entry[e] EXCEPT !.st = "live"]
    <2>1. /\ x \in EntryType /\ x.st = "live" /\ x.ctx = entry[e].ctx /\ x.served = entry[e].served
          /\ x.whole = entry[e].whole /\ x.tree = entry[e].tree /\ x.work = entry[e].work
      BY <1>0 DEF EntryType
    <2>2. /\ Unused \in EntryType /\ Unused.served = {} /\ Unused.ctx = {} /\ Unused.st = "gone"
          /\ Unused.tree = "none" /\ ~Unused.work
      BY DEF Unused, EntryType
    <2>3. Registered(e) /\ (entry' = [entry EXCEPT ![e] = x] \/ entry' = [entry EXCEPT ![e] = Unused])
      BY <1>6 DEF Promote, Registered
    <2> HIDE DEF x
    <2>4. Admissible(e, x) /\ Admissible(e, Unused)
      BY <2>1, <2>2, <2>3, Calming
    <2> QED
      BY <1>3, <2>3, <2>4
  <1>7. ASSUME startAdmittedMaterialization(e) PROVE MaintenanceInv'
    <2> DEFINE x == [entry[e] EXCEPT !.tree = "running"]
    <2>1. /\ x \in EntryType /\ x.st = entry[e].st /\ x.ctx = entry[e].ctx /\ x.served = entry[e].served
          /\ x.whole = entry[e].whole /\ x.tree = "running" /\ x.work = entry[e].work
      BY <1>0 DEF EntryType
    <2>2. /\ Running /\ checkMaintenanceKeyLocked(entry[e].ctx) /\ entry' = [entry EXCEPT ![e] = x]
          /\ Registered(e)
      BY <1>0, <1>7 DEF startAdmittedMaterialization, admitMaterialization, Open, Running, Registered
    <2> HIDE DEF x
    <2>3. \A h \in Hold : Governed(h) => entry[e].ctx \cap covers[h] = {}
      BY <2>2, AdmittedIsFree
    <2>4. \A h \in Hold : Governed(h) => x.whole /\ x.ctx = x.served /\ x.served \cap covers[h] = {}
      BY <1>0, <2>1, <2>2, <2>3 DEF Fence, Entries
    <2>5. Admissible(e, x)
      BY <1>0, <2>1, <2>2, <2>4 DEF Admissible, Enrolled, Registered, Entries
    <2> QED
      BY <1>3, <2>2, <2>5
  <1>8. ASSUME reserveNativeWork(e) PROVE MaintenanceInv'
    <2> DEFINE x == [entry[e] EXCEPT !.work = TRUE]
    <2>1. /\ x \in EntryType /\ x.st = entry[e].st /\ x.ctx = entry[e].ctx /\ x.served = entry[e].served
          /\ x.whole = entry[e].whole /\ x.tree = entry[e].tree /\ x.work
      BY <1>0 DEF EntryType
    <2>2. /\ Running /\ failed # "acquire" /\ ~Pinned(e) /\ entry' = [entry EXCEPT ![e] = x]
          /\ Registered(e)
      BY <1>0, <1>8 DEF reserveNativeWork, SetMaintenance, Open, Running, Registered
    <2> HIDE DEF x
    <2>3. \A h \in Hold : Governed(h) => x.whole /\ x.served \cap covers[h] = {}
      BY <1>0, <2>1, <2>2 DEF Fence, Memory, Pinned, Governed
    <2>4. Admissible(e, x)
      BY <1>0, <2>1, <2>2, <2>3 DEF Admissible, Enrolled, Registered, Entries
    <2> QED
      BY <1>3, <2>2, <2>4
  <1>9. ASSUME WorkSettles(e) PROVE MaintenanceInv'
    <2> DEFINE x == [entry[e] EXCEPT !.work = FALSE]
    <2>1. /\ x \in EntryType /\ x.st = entry[e].st /\ x.ctx = entry[e].ctx /\ x.served = entry[e].served
          /\ x.whole = entry[e].whole /\ x.tree = entry[e].tree /\ ~x.work
          /\ entry' = [entry EXCEPT ![e] = x]
      BY <1>0, <1>9 DEF EntryType, WorkSettles
    <2> HIDE DEF x
    <2> QED
      BY <1>3, <2>1, Calming
  <1>10. ASSUME TreeDies(e) PROVE MaintenanceInv'
    <2> DEFINE x == [entry[e] EXCEPT !.tree = "none"]
    <2>1. /\ x \in EntryType /\ x.st = entry[e].st /\ x.ctx = entry[e].ctx /\ x.served = entry[e].served
          /\ x.whole = entry[e].whole /\ x.tree = "none" /\ x.work = entry[e].work
          /\ entry' = [entry EXCEPT ![e] = x]
      BY <1>0, <1>10 DEF EntryType, TreeDies
    <2> HIDE DEF x
    <2> QED
      BY <1>3, <2>1, Calming
  <1>11. ASSUME finalizeOwner(e, TRUE) PROVE MaintenanceInv'
    BY <1>3, <1>11, Finalizing
  <1> QED
    BY <1>4, <1>5, <1>6, <1>7, <1>8, <1>9, <1>10, <1>11 DEF IdleRemoval, OperatorRemoval, finalizationRetry

\* The call waits for placeholders, and removes the pinned owners one by one.
LEMMA CallSteps ==
  ASSUME MaintenanceInv, AwaitPlaceholders \/ \E e \in Entry : RemovePinned(e)
  PROVE  MaintenanceInv'
  <1>0. /\ UNCHANGED <<phase, disk, leases, failed, lock, public, covers>> /\ Up /\ call.pc # "idle"
    BY DEF AwaitPlaceholders, RemovePinned, CallOnly
  <1>1. /\ MaintenanceTypes /\ CallHolds /\ lock = "call" /\ call.hold \in DOMAIN leases
        /\ leases[call.hold].state = "HOLDING"
    BY <1>0 DEF MaintenanceInv, CallHolds
  <1>2. ASSUME NEW settled \in BOOLEAN, call' = [call EXCEPT !.pc = "remove", !.blocked = ~settled],
               UNCHANGED entry
        PROVE  MaintenanceInv'
    <2>1. CallHolds'
      BY <1>0, <1>1, <1>2 DEF CallHolds, Up
    <2>2. Evolves(leases') /\ DOMAIN leases' = DOMAIN leases
      BY <1>0, Stays
    <2>3. SameOwners
      BY <1>1, <1>2 DEF SameOwners, MaintenanceTypes
    <2> QED
      BY <1>0, <2>1, <2>2, <2>3, TimersOnly
  <1>3. ASSUME NEW e \in Entry, RemovePinned(e) PROVE MaintenanceInv'
    <2>0. call.pc = "remove"
      BY <1>3 DEF RemovePinned
    <2>1. CASE entry[e].st = "live"
      <3>1. /\ finalizeOwner(e, FALSE)
            /\ call' = [call EXCEPT !.todo = @ \ {e}, !.blocked = @ \/ entry'[e].st = "live"]
        BY <1>3, <2>1 DEF RemovePinned
      <3>2. CallHolds'
        BY <1>0, <1>1, <2>0, <3>1 DEF CallHolds, Up
      <3> QED
        BY <1>0, <3>1, <3>2, Finalizing, OwnerMoves
    <2>2. CASE entry[e].st # "live"
      <3>1. UNCHANGED entry /\ call' = [call EXCEPT !.todo = @ \ {e}]
        BY <1>3, <2>2 DEF RemovePinned
      <3>2. CallHolds'
        BY <1>0, <1>1, <2>0, <3>1 DEF CallHolds, Up
      <3>3. Evolves(leases') /\ DOMAIN leases' = DOMAIN leases
        BY <1>0, Stays
      <3>4. SameOwners
        BY <1>1, <3>1 DEF SameOwners, MaintenanceTypes
      <3> QED
        BY <1>0, <3>2, <3>3, <3>4, TimersOnly
    <2> QED
      BY <2>1, <2>2
  <1> QED
    BY <1>2, <1>3 DEF AwaitPlaceholders
-----------------------------------------------------------------------------
(* A new lease.                                                            *)

\* Memory and files get the seed, one of them or both; if only the files did, the
\* daemon has failed closed.
LEMMA Seeded ==
  ASSUME MaintenanceInv, Up, failed = "no", UNCHANGED <<phase, entry>>,
         NEW h \in Hold, covers[h] = {}, NEW e \in Entry, Selectable(e),
         covers' = [covers EXCEPT ![h] = entry[e].ctx],
         NEW s \in Lease, s.state = "HOLDING", s.keys = entry[e].ctx, s.pins = Pins(e), ~s.recovered,
         leases' = leases \/ leases' = Put(leases, h, s),
         DiskType(disk'), Ledger' = Ledger \/ Ledger' = maintenanceRecords(Put(leases, h, Seed(e))),
         failed' = "acquire" \/ (failed' = "no" /\ leases' = Put(leases, h, s)),
         Truthful, CallHolds', lock' \in {"free", "call"}
  PROVE  MaintenanceInv'
  <1> DEFINE K == entry[e].ctx
  <1>0. /\ MaintenanceTypes /\ Entries /\ Contexts /\ Memory /\ Fence /\ Orphans /\ HeldIsQuiet /\ Running
        /\ IsLeases(leases) /\ DOMAIN Ledger \subseteq Hold /\ K \in SUBSET Key /\ K # {}
    BY DEF MaintenanceInv, MaintenanceTypes, DiskType, Ledger, IsLeases, Running, Up, EntryType,
           Entries, Selectable
  <1>1. DOMAIN Ledger \subseteq DOMAIN leases /\ h \notin DOMAIN leases
    BY <1>0 DEF Memory, Contexts
  <1>2. /\ \A g \in Hold : covers'[g] = IF g = h THEN K ELSE covers[g]
        /\ covers' \in [Hold -> SUBSET Key]
    BY <1>0 DEF MaintenanceTypes
  <1>3. /\ IsLeases(leases') /\ DOMAIN leases \subseteq DOMAIN leases'
        /\ DOMAIN leases' \subseteq DOMAIN leases \cup {h}
        /\ h \in DOMAIN leases' => leases'[h] = s
        /\ \A g \in DOMAIN leases : leases'[g] = leases[g]
    BY <1>0, <1>1 DEF Put, IsLeases
  <1>4. /\ DOMAIN Ledger' \subseteq DOMAIN leases \cup {h} /\ DOMAIN Ledger \subseteq DOMAIN Ledger'
        /\ h \in DOMAIN Ledger' => Ledger'[h].state = "HOLDING" /\ Ledger'[h].keys = K
        /\ \A g \in DOMAIN Ledger' : g # h =>
             Ledger'[g].keys = covers[g] /\ (Ledger'[g].state = "HELD" => Quiet(g))
    <2>1. CASE Ledger' = Ledger
      BY <1>0, <1>1, <2>1 DEF Contexts, HeldIsQuiet
    <2>2. CASE Ledger' = maintenanceRecords(Put(leases, h, Seed(e)))
      <3>1. /\ DOMAIN Ledger' = DOMAIN leases \cup {h}
            /\ Ledger'[h].state = "HOLDING" /\ Ledger'[h].keys = K
            /\ \A g \in DOMAIN leases : Ledger'[g].state = leases[g].state /\ Ledger'[g].keys = leases[g].keys
        BY <1>1, <2>2 DEF Put, Seed, maintenanceRecords, Record
      <3> QED
        BY <1>0, <1>1, <3>1 DEF Contexts, HeldIsQuiet
    <2> QED
      BY <2>1, <2>2
  <1>5. /\ \A f \in Entry : Registered(f)' = Registered(f)
        /\ Running' /\ Up'
        /\ \A g \in Hold : Governed(g)' => g = h \/ (Governed(g) /\ g \in DOMAIN leases)
        /\ \A g \in DOMAIN leases : covers[g] \cap K = {}
        /\ \A g \in Hold : g # h => (Quiet(g)' <=> Quiet(g))
    <2>1. \A f \in Entry : Registered(f)' = Registered(f)
      BY DEF Registered
    <2>2. \A g \in DOMAIN leases : covers[g] \cap K = {}
      BY <1>0 DEF Selectable, maintenanceForKey, Contexts
    <2>3. \A g \in Hold : Governed(g)' => g = h \/ (Governed(g) /\ g \in DOMAIN leases)
      BY <1>1, <1>3, <1>4 DEF Governed
    <2>4. \A g \in Hold : g # h => (Quiet(g)' <=> Quiet(g))
      BY <1>2 DEF Quiet
    <2>5. Running' /\ Up'
      BY <1>0 DEF Running, Up
    <2> QED
      BY <2>1, <2>2, <2>3, <2>4, <2>5
  <1> HIDE DEF K
  <1>6. MaintenanceTypes'
    BY <1>0, <1>2, <1>3 DEF MaintenanceTypes, Truthful, IsLeases
  <1>7. Entries'
    BY <1>0, <1>5 DEF Entries
  <1>8. Contexts'
    <2>1. \A g \in DOMAIN leases' : leases'[g].keys = covers'[g] /\ covers'[g] # {}
      BY <1>0, <1>1, <1>2, <1>3 DEF Contexts, IsLeases, K
    <2>2. \A g \in DOMAIN Ledger' : Ledger'[g].keys = covers'[g] /\ covers'[g] # {}
      BY <1>0, <1>1, <1>2, <1>4 DEF Contexts, IsLeases
    <2>3. \A g, x \in Hold : Governed(g)' /\ Governed(x)' /\ g # x => covers'[g] \cap covers'[x] = {}
      BY <1>0, <1>2, <1>5 DEF Contexts
    <2> QED
      BY <2>1, <2>2, <2>3 DEF Contexts
  <1>9. Memory'
    <2>1. h \in DOMAIN leases' \/ failed' = "acquire"
      BY DEF Put
    <2> QED
      BY <1>3, <1>4, <1>5, <2>1 DEF Memory, Up
  <1>10. Fence'
    <2> SUFFICES ASSUME NEW g \in Hold, NEW f \in Entry, Governed(g)', Registered(f)
                 PROVE  /\ entry[f].whole
                        /\ entry[f].served \cap covers'[g] # {} =>
                             /\ entry[f].served \subseteq covers'[g]
                             /\ g \in DOMAIN leases' => f \in leases'[g].pins
      BY <1>5 DEF Fence, Governed
    <2>1. CASE g = h
      <3>1. /\ entry[f].whole /\ entry[f].ctx = entry[f].served
            /\ entry[f].ctx \cap K # {} => entry[f].ctx \subseteq K /\ f \in Pins(e)
        BY <1>0 DEF Selectable, Pins, contextsOverlap, Entries, K
      <3> QED
        BY <1>2, <1>3, <2>1, <3>1
    <2>2. CASE g # h
      BY <1>0, <1>2, <1>3, <1>5, <2>2 DEF Fence
    <2> QED
      BY <2>1, <2>2
  <1>11. Orphans'
    <2> SUFFICES ASSUME NEW f \in Entry, entry[f].tree = "running", ~Registered(f)
                 PROVE  \E g \in DOMAIN Ledger' :
                          /\ entry[f].served \subseteq covers'[g] /\ entry[f].served # {}
                          /\ g \in DOMAIN leases' /\ leases'[g].recovered /\ leases'[g].state = "BLOCKED"
      BY <1>5 DEF Orphans
    <2>1. PICK g \in DOMAIN Ledger :
             /\ entry[f].served \subseteq covers[g] /\ entry[f].served # {}
             /\ g \in DOMAIN leases /\ leases[g].recovered /\ leases[g].state = "BLOCKED"
      BY <1>0 DEF Orphans
    <2> QED
      BY <1>0, <1>1, <1>2, <1>3, <1>4, <2>1
  <1>12. HeldIsQuiet'
    BY <1>0, <1>1, <1>3, <1>4, <1>5 DEF HeldIsQuiet, IsLeases
  <1>13. Promises'
    BY <1>5 DEF Promises, Truthful, Governed
  <1> QED
    BY <1>6, <1>7, <1>8, <1>9, <1>10, <1>11, <1>12, <1>13 DEF MaintenanceInv

\* A hold is acquired, or the daemon fails closed.
LEMMA Acquiring ==
  ASSUME MaintenanceInv, NEW h \in Hold, NEW e \in Entry, acquireMaintenance(h, e)
  PROVE  MaintenanceInv'
  <1> DEFINE seeded == Put(leases, h, Seed(e))
             unclocked == [Seed(e) EXCEPT !.timer = "none"]
  <1>0. /\ MaintenanceTypes /\ CallHolds /\ Contexts /\ Memory /\ Promises /\ HeldIsQuiet /\ Running
        /\ DiskType(disk) /\ IsLeases(leases)
        /\ Up /\ lock = "free" /\ failed = "no" /\ public[h] = "none" /\ covers[h] = {} /\ Selectable(e)
        /\ UNCHANGED <<phase, entry>> /\ covers' = [covers EXCEPT ![h] = entry[e].ctx] /\ Acquire(h, e)
    BY DEF acquireMaintenance, Acquire, MaintenanceInv, MaintenanceTypes, IsLeases, Running, Up
  <1>1. DOMAIN Ledger \subseteq DOMAIN leases /\ h \notin DOMAIN leases
    BY <1>0 DEF Memory, Contexts
  <1>2. /\ Seed(e) \in Lease /\ Seed(e).state = "HOLDING" /\ Seed(e).keys = entry[e].ctx
        /\ Seed(e).pins = Pins(e) /\ ~Seed(e).recovered /\ ~Seed(e).past
    BY <1>0, MaintenanceAssumption DEF Seed, Lease, States, Pins, MaintenanceTypes, EntryType, Range
  <1>3. /\ unclocked \in Lease /\ unclocked.state = "HOLDING" /\ unclocked.keys = entry[e].ctx
        /\ unclocked.pins = Pins(e) /\ ~unclocked.recovered
    BY <1>2 DEF Lease
  <1>4. /\ IsLeases(seeded) /\ DOMAIN seeded = DOMAIN leases \cup {h} /\ seeded[h] = Seed(e)
        /\ \A g \in DOMAIN leases : seeded[g] = leases[g]
    BY <1>0, <1>1, <1>2 DEF Put, IsLeases
  <1>5. LET recs == maintenanceRecords(seeded) IN
        /\ DOMAIN recs = DOMAIN seeded /\ recs \in [DOMAIN recs -> Stored]
        /\ \A g \in DOMAIN seeded : recs[g].state = seeded[g].state
    BY <1>4, RecordsOf
  <1>6. ASSUME public' = Acknowledged(seeded), DOMAIN leases' = DOMAIN seeded,
               \A g \in DOMAIN seeded : leases'[g].state = seeded[g].state,
               Ledger' = maintenanceRecords(seeded)
        PROVE  Truthful
    <2>1. ASSUME NEW g \in Hold
          PROVE  /\ public'[g] \in States \cup {"none", "lapsed", "released", "doubt"}
                 /\ public'[g] \in States => g \in DOMAIN seeded
                 /\ public'[g] = "HELD" => seeded[g].state = "HELD"
                 /\ public'[g] = "released" => g \notin DOMAIN seeded
      <3>1. CASE g \in DOMAIN seeded
        <4>1. public'[g] \in {seeded[g].state, "lapsed"} /\ seeded[g].state \in States
          BY <1>4, <1>6, <3>1 DEF Acknowledged, IsLeases, Lease
        <4> QED
          BY <3>1, <4>1 DEF States
      <3>2. CASE g \notin DOMAIN seeded
        <4>1. public'[g] = public[g] /\ g \notin DOMAIN leases
          BY <1>4, <1>6, <3>2 DEF Acknowledged
        <4> QED
          BY <1>0, <3>2, <4>1 DEF MaintenanceTypes, Promises, States
      <3> QED
        BY <3>1, <3>2
    <2>2. public' = [g \in Hold |-> public'[g]]
      BY <1>6 DEF Acknowledged
    <2> HIDE DEF seeded
    <2> QED
      BY <1>5, <1>6, <2>1, <2>2 DEF Truthful, States
  <1>7. CASE /\ CommitOk(seeded) /\ lock' = "call"
             /\ call' = [NoCall EXCEPT !.pc = "wait", !.hold = h,
                                       !.todo = {f \in Pins(e) : entry[f].st = "live"}]
    <2>1. DiskType(disk') /\ Ledger' = maintenanceRecords(seeded)
      BY <1>0, <1>4, <1>7, Persists DEF CommitOk
    <2>2. leases' = seeded /\ public' = Acknowledged(seeded) /\ failed' = "no"
      BY <1>0, <1>7 DEF CommitOk
    <2>3. CallHolds'
      BY <1>0, <1>2, <1>4, <1>7, <2>2 DEF CallHolds, NoCall, Pins, Up
    <2>4. Truthful
      BY <1>6, <2>1, <2>2
    <2> QED
      BY <1>0, <1>2, <1>7, <2>1, <2>2, <2>3, <2>4, Seeded
  <1>8. CASE CommitError(seeded, "acquire") /\ UNCHANGED <<lock, call>>
    <2>1. DiskType(disk') /\ Ledger' \in {Ledger, maintenanceRecords(seeded)}
      BY <1>0, <1>4, <1>8, Persists DEF CommitError, Ledger
    <2>2. leases' = leases /\ public' = Doubted(public, leases, seeded) /\ failed' = "acquire"
      BY <1>8 DEF CommitError
    <2>3. CallHolds'
      BY <1>0, <1>8 DEF CallHolds
    <2>4. public' = public
      BY <1>0, <1>4, <2>2 DEF Doubted, MaintenanceTypes
    <2>5. Truthful
      <3>1. CASE Ledger' = Ledger
        BY <1>0, <2>2, <2>4, <3>1 DEF Truthful, Promises, MaintenanceTypes, Governed
      <3>2. CASE Ledger' = maintenanceRecords(seeded)
        <4> HIDE DEF seeded
        <4> QED
          BY <1>0, <1>4, <1>5, <2>2, <2>4, <3>2 DEF Truthful, Promises, MaintenanceTypes, Governed, States
      <3> QED
        BY <2>1, <3>1, <3>2
    <2> QED
      BY <1>0, <1>2, <1>8, <2>1, <2>2, <2>3, <2>5, Seeded
  <1>9. CASE /\ \E d1 \in commitMaintenanceStore(disk, maintenanceRecords(seeded), TRUE) :
                  Persist(d1, seeded, FALSE)
             /\ leases' = Put(leases, h, unclocked) /\ public' = Acknowledged(seeded)
             /\ failed' = "acquire" /\ UNCHANGED <<lock, call>>
    <2>1. DiskType(disk') /\ Ledger' = maintenanceRecords(seeded)
      <3> DEFINE recs == maintenanceRecords(seeded)
      <3>1. PICK d1 : d1 = Certified(disk, recs) /\ Persist(d1, seeded, FALSE)
        BY <1>9 DEF commitMaintenanceStore
      <3>2. DOMAIN recs \subseteq Hold /\ recs \in [DOMAIN recs -> Stored]
        BY <1>4, <1>5 DEF IsLeases
      <3> HIDE DEF recs
      <3>3. DiskType(d1) /\ d1.ledger.leases = recs
        BY <1>0, <3>1, <3>2, Certificate
      <3> QED
        BY <1>4, <3>1, <3>3, Persists DEF recs
    <2>2. DOMAIN leases' = DOMAIN seeded /\ \A g \in DOMAIN seeded : leases'[g].state = seeded[g].state
      BY <1>2, <1>3, <1>9 DEF Put
    <2>3. CallHolds'
      BY <1>0, <1>9 DEF CallHolds
    <2>4. Truthful
      BY <1>6, <1>9, <2>1, <2>2
    <2> QED
      BY <1>0, <1>3, <1>9, <2>1, <2>3, <2>4, Seeded
  <1> QED
    BY <1>0, <1>7, <1>8, <1>9 DEF Acquire
-----------------------------------------------------------------------------
(* Time, other processes, and the life of the daemon.                      *)

\* A lease runs out, in memory and on disk.
LEMMA Lapsing == ASSUME MaintenanceInv, NEW h \in Hold, Lapse(h) PROVE MaintenanceInv'
  <1>0. /\ MaintenanceTypes /\ Entries /\ CallHolds /\ Contexts /\ Memory /\ Fence /\ Orphans
        /\ HeldIsQuiet /\ Promises /\ DiskType(disk) /\ IsLeases(leases)
        /\ UNCHANGED <<phase, failed, entry, lock, call, covers>>
    BY DEF MaintenanceInv, MaintenanceTypes, IsLeases, Lapse
  <1>1. /\ DOMAIN leases' = DOMAIN leases /\ IsLeases(leases')
        /\ \A g \in DOMAIN leases :
             /\ leases'[g].state = leases[g].state /\ leases'[g].keys = leases[g].keys
             /\ leases'[g].pins = leases[g].pins /\ leases'[g].recovered = leases[g].recovered
    <2>1. CASE h \in DOMAIN leases
      <3>1. leases' = [leases EXCEPT ![h].past = TRUE]
        BY <2>1 DEF Lapse
      <3> QED
        BY <1>0, <2>1, <3>1 DEF IsLeases, Lease
    <2>2. CASE h \notin DOMAIN leases
      BY <1>0, <2>2 DEF Lapse
    <2> QED
      BY <2>1, <2>2
  <1>2. /\ DOMAIN Ledger' = DOMAIN Ledger /\ DOMAIN Ledger \subseteq Hold /\ DiskType(disk')
        /\ \A g \in DOMAIN Ledger : Ledger'[g].state = Ledger[g].state /\ Ledger'[g].keys = Ledger[g].keys
    <2>1. CASE h \in DOMAIN Ledger
      <3> DEFINE new == [Ledger EXCEPT ![h].past = TRUE]
      <3>1. disk' = [disk EXCEPT !.ledger.leases = new]
        BY <1>0, <2>1 DEF Lapse, Ledger, DiskType
      <3>2. Ledger \in [DOMAIN Ledger -> Stored] /\ DOMAIN Ledger \subseteq Hold
        BY <1>0 DEF DiskType, Ledger
      <3>3. /\ DOMAIN new = DOMAIN Ledger /\ new \in [DOMAIN new -> Stored]
            /\ \A g \in DOMAIN Ledger : new[g].state = Ledger[g].state /\ new[g].keys = Ledger[g].keys
        BY <2>1, <3>2 DEF Stored
      <3> HIDE DEF new
      <3>4. DiskType(disk') /\ Ledger' = new
        BY <1>0, <3>1, <3>2, <3>3 DEF DiskType, Ledger
      <3> QED
        BY <3>2, <3>3, <3>4
    <2>2. CASE h \notin DOMAIN Ledger
      <3>1. disk' = disk
        BY <2>2 DEF Lapse, Ledger
      <3> QED
        BY <1>0, <3>1 DEF DiskType, Ledger
    <2> QED
      BY <2>1, <2>2
  <1>3. /\ public' \in [Hold -> States \cup {"none", "lapsed", "released", "doubt"}]
        /\ \A g \in Hold : public'[g] = public[g] \/ public'[g] = "lapsed"
    BY <1>0 DEF Lapse, MaintenanceTypes
  <1>4. /\ \A e \in Entry : Registered(e)' = Registered(e)
        /\ Running' = Running /\ Up' = Up
        /\ \A g \in Hold : Governed(g)' = Governed(g) /\ (Quiet(g)' <=> Quiet(g))
    BY <1>0, <1>1, <1>2 DEF Registered, Running, Up, Governed, Quiet
  <1>5. MaintenanceTypes'
    BY <1>0, <1>1, <1>2, <1>3 DEF MaintenanceTypes, IsLeases
  <1>6. Entries' /\ CallHolds'
    BY <1>0, <1>1, <1>4 DEF Entries, CallHolds
  <1>7. Contexts' /\ Memory'
    BY <1>0, <1>1, <1>2, <1>4 DEF Contexts, Memory
  <1>8. Fence' /\ Orphans'
    BY <1>0, <1>1, <1>2, <1>4 DEF Fence, Orphans
  <1>9. HeldIsQuiet'
    BY <1>0, <1>1, <1>2, <1>4 DEF HeldIsQuiet, IsLeases
  <1>10. Promises'
    BY <1>0, <1>1, <1>2, <1>3, <1>4 DEF Promises, States
  <1> QED
    BY <1>5, <1>6, <1>7, <1>8, <1>9, <1>10 DEF MaintenanceInv

\* Another process takes the file lock, checks the authority, gives the lock back.
LEMMA OutsideSteps ==
  ASSUME MaintenanceInv, OutsideLock \/ CheckMaintenanceForActivation \/ OutsideUnlock
  PROVE  MaintenanceInv'
  <1>0. /\ MaintenanceTypes /\ Entries /\ CallHolds /\ Contexts /\ Memory /\ Fence /\ Orphans
        /\ HeldIsQuiet /\ Promises
    BY DEF MaintenanceInv
  <1>1. /\ UNCHANGED <<phase, disk, leases, failed, entry, call, public, covers>>
        /\ lock # "call" /\ lock' \in {"free", "outside", "checked"}
        /\ lock' = "checked" => DOMAIN Ledger = {}
    BY <1>0 DEF OutsideLock, CheckMaintenanceForActivation, OutsideUnlock, Ledger
  <1>2. MaintenanceTypes'
    BY <1>0, <1>1 DEF MaintenanceTypes, DiskType
  <1>3. Entries' /\ Contexts' /\ Memory' /\ Fence' /\ Orphans' /\ HeldIsQuiet'
    BY <1>0, <1>1 DEF Entries, Contexts, Memory, Fence, Orphans, HeldIsQuiet, Quiet, Governed, Registered,
                      Running, Up, Ledger
  <1>4. CallHolds'
    BY <1>0, <1>1 DEF CallHolds, Up
  <1>5. Promises'
    BY <1>0, <1>1 DEF Promises, Governed, Running, Ledger
  <1> QED
    BY <1>2, <1>3, <1>4, <1>5 DEF MaintenanceInv

\* The daemon begins to stop: it has no lease, so nor have the files.
LEMMA Stopping == ASSUME MaintenanceInv, beginMaintenanceLifecycle PROVE MaintenanceInv'
  <1>0. /\ MaintenanceTypes /\ Entries /\ CallHolds /\ Contexts /\ Memory /\ Fence /\ Orphans
        /\ HeldIsQuiet /\ Promises
        /\ Up /\ failed = "no" /\ DOMAIN leases = {} /\ phase' = "stopping"
        /\ UNCHANGED <<disk, leases, failed, entry, lock, call, public, covers>>
    BY DEF MaintenanceInv, beginMaintenanceLifecycle
  <1>1. Running /\ Running' /\ Ledger' = Ledger /\ ~Up'
    BY <1>0 DEF Running, Up, Ledger
  <1>2. MaintenanceTypes'
    BY <1>0 DEF MaintenanceTypes, DiskType
  <1>3. Entries' /\ Contexts' /\ Memory' /\ Fence' /\ Orphans' /\ HeldIsQuiet'
    BY <1>0, <1>1 DEF Entries, Contexts, Memory, Fence, Orphans, HeldIsQuiet, Quiet, Governed, Registered
  <1>4. CallHolds'
    BY <1>0 DEF CallHolds
  <1>5. Promises'
    BY <1>0, <1>1 DEF Promises, Governed
  <1> QED
    BY <1>2, <1>3, <1>4, <1>5 DEF MaintenanceInv

\* The daemon is killed.  A tree it leaves behind a hold served only that hold's
\* contexts.
LEMMA Crashing == ASSUME MaintenanceInv, Crash PROVE MaintenanceInv'
  <1>0. /\ MaintenanceTypes /\ Entries /\ CallHolds /\ Contexts /\ Memory /\ Fence /\ Orphans
        /\ HeldIsQuiet /\ Promises
        /\ phase' = "down" /\ failed' = "no" /\ call' = NoCall /\ lock' \in {"free", lock} /\ lock' # "call"
        /\ UNCHANGED <<disk, public, covers>>
    BY DEF MaintenanceInv, Crash
  <1>1. DOMAIN leases' = {} /\ leases' \in [DOMAIN leases' -> Lease]
    BY DEF Crash
  <1>2. /\ Ledger' = Ledger /\ ~Running' /\ ~Up' /\ DOMAIN Ledger \subseteq Hold
    BY <1>0 DEF Ledger, Running, Up, MaintenanceTypes, DiskType
  <1>3. ASSUME NEW e \in Entry
        PROVE  /\ entry'[e] \in EntryType /\ ~Registered(e)' /\ ~entry'[e].work
               /\ entry'[e].ctx = {}
               /\ entry'[e].tree = "running" => Orphan(e) /\ entry'[e].served = entry[e].served
    BY <1>0 DEF Crash, Registered, Unused, EntryType, MaintenanceTypes
  <1>4. entry' = [e \in Entry |-> entry'[e]]
    BY DEF Crash
  <1>5. MaintenanceTypes'
    <2>1. entry' \in [Entry -> EntryType]
      BY <1>3, <1>4
    <2> QED
      BY <1>0, <1>1, <2>1 DEF MaintenanceTypes, DiskType
  <1>6. Entries' /\ Fence' /\ CallHolds'
    <2>1. Entries'
      BY <1>3 DEF Entries
    <2>2. Fence'
      BY <1>3 DEF Fence
    <2>3. CallHolds'
      BY <1>0 DEF CallHolds, NoCall
    <2> QED
      BY <2>1, <2>2, <2>3
  <1>7. Contexts' /\ Memory'
    BY <1>0, <1>1, <1>2 DEF Contexts, Memory, Governed
  <1>8. Orphans'
    <2> SUFFICES ASSUME NEW e \in Entry, entry'[e].tree = "running"
                 PROVE  \E h \in DOMAIN Ledger : entry[e].served \subseteq covers[h] /\ entry[e].served # {}
      BY <1>0, <1>2, <1>3 DEF Orphans
    <2>1. PICK h \in DOMAIN Ledger : covers[h] \cap entry[e].served # {}
      BY <1>3 DEF Orphan, Ledger
    <2>2. entry[e].tree = "running"
      BY <1>3 DEF Orphan
    <2>3. CASE Registered(e)
      BY <1>0, <1>2, <2>1, <2>3 DEF Fence, Governed
    <2>4. CASE ~Registered(e)
      BY <1>0, <2>2, <2>4 DEF Orphans
    <2> QED
      BY <2>3, <2>4
  <1>9. HeldIsQuiet'
    <2>1. \A h \in DOMAIN Ledger : Quiet(h) => Quiet(h)'
      BY <1>0, <1>3 DEF Quiet, Orphan
    <2> QED
      BY <1>0, <1>1, <1>2, <2>1 DEF HeldIsQuiet
  <1>10. Promises'
    BY <1>0, <1>1, <1>2 DEF Promises, Governed
  <1> QED
    BY <1>5, <1>6, <1>7, <1>8, <1>9, <1>10 DEF MaintenanceInv

\* A daemon starts from the files, or refuses to.  A hold with a tree left behind
\* it was not HELD, and becomes a recovered, blocked lease.
LEMMA Loading == ASSUME MaintenanceInv, loadMaintenance PROVE MaintenanceInv'
  <1>0. /\ MaintenanceTypes /\ Entries /\ CallHolds /\ Contexts /\ Memory /\ Fence /\ Orphans
        /\ HeldIsQuiet /\ Promises
        /\ phase = "down" /\ UNCHANGED <<disk, failed, entry, lock, call, public, covers>>
    BY DEF MaintenanceInv, loadMaintenance
  <1>1. /\ Ledger' = Ledger /\ DiskType(disk') /\ DOMAIN Ledger \subseteq Hold
        /\ Ledger \in [DOMAIN Ledger -> Stored] /\ ~Running /\ ~Up /\ DOMAIN leases = {}
    BY <1>0 DEF Ledger, MaintenanceTypes, DiskType, Running, Up, Memory
  <1>2. \A e \in Entry : ~Registered(e) /\ ~Registered(e)'
    BY <1>0, <1>1 DEF Entries, Registered
  <1>3. CallHolds' /\ call.pc = "idle"
    BY <1>0, <1>1 DEF CallHolds
  <1>4. CASE phase' = "up" /\ leases' = [h \in DOMAIN Ledger |-> Recovered(Ledger[h])]
    <2>1. Running' /\ Up'
      BY <1>4 DEF Running, Up
    <2>2. ASSUME NEW h \in DOMAIN Ledger
          PROVE  /\ leases'[h] \in Lease /\ leases'[h].keys = Ledger[h].keys /\ leases'[h].recovered
                 /\ leases'[h].state = IF Ledger[h].state = "HELD" THEN "HELD" ELSE "BLOCKED"
      BY <1>1, <1>4 DEF Recovered, Lease, Stored, States
    <2>3. DOMAIN leases' = DOMAIN Ledger /\ leases' \in [DOMAIN leases' -> Lease]
      BY <1>4, <2>2
    <2>4. \A h \in Hold : (Governed(h)' <=> h \in DOMAIN Ledger) /\ (Quiet(h)' <=> Quiet(h))
      BY <1>0, <1>1, <2>3 DEF Governed, Quiet
    <2>5. MaintenanceTypes'
      BY <1>0, <1>1, <1>4, <2>3 DEF MaintenanceTypes
    <2>6. Entries' /\ Fence'
      BY <1>0, <1>2 DEF Entries, Fence
    <2>7. Contexts' /\ Memory'
      BY <1>0, <1>1, <1>4, <2>1, <2>2, <2>3, <2>4 DEF Contexts, Memory, Governed
    <2>8. Orphans'
      <3> SUFFICES ASSUME NEW e \in Entry, entry[e].tree = "running"
                   PROVE  \E h \in DOMAIN Ledger :
                            /\ entry[e].served \subseteq covers[h] /\ entry[e].served # {}
                            /\ h \in DOMAIN leases' /\ leases'[h].recovered /\ leases'[h].state = "BLOCKED"
        BY <1>0, <1>1 DEF Orphans
      <3>1. PICK h \in DOMAIN Ledger : entry[e].served \subseteq covers[h] /\ entry[e].served # {}
        BY <1>0, <1>2 DEF Orphans
      <3>2. ~Quiet(h)
        BY <3>1 DEF Quiet
      <3>3. Ledger[h].state # "HELD"
        BY <1>0, <3>2 DEF HeldIsQuiet
      <3> QED
        BY <2>2, <2>3, <3>1, <3>3
    <2>9. HeldIsQuiet'
      BY <1>0, <1>1, <2>2, <2>3, <2>4 DEF HeldIsQuiet
    <2>10. Promises'
      <3>1. \A h \in Hold : public[h] \in States => h \in DOMAIN Ledger
        BY <1>0 DEF Promises
      <3>2. \A h \in Hold : public[h] = "HELD" => Ledger[h].state = "HELD" /\ leases'[h].state = "HELD"
        BY <1>0, <2>2, <3>1 DEF Promises, States
      <3>3. \A h \in Hold : public[h] = "released" => ~Governed(h)'
        BY <1>0, <2>4 DEF Promises, Governed
      <3> QED
        BY <1>0, <1>1, <2>3, <3>1, <3>2, <3>3 DEF Promises
    <2> QED
      BY <1>3, <2>5, <2>6, <2>7, <2>8, <2>9, <2>10 DEF MaintenanceInv
  <1>5. CASE phase' = "refused" /\ UNCHANGED leases
    <2>1. ~Running' /\ ~Up'
      BY <1>5 DEF Running, Up
    <2>2. MaintenanceTypes'
      BY <1>0, <1>1, <1>5 DEF MaintenanceTypes
    <2>3. Entries' /\ Fence' /\ Contexts' /\ Memory' /\ Orphans' /\ HeldIsQuiet'
      BY <1>0, <1>1, <1>2, <1>5, <2>1 DEF Entries, Fence, Contexts, Memory, Orphans, HeldIsQuiet, Governed, Quiet
    <2>4. Promises'
      BY <1>0, <1>1, <1>5, <2>1 DEF Promises, Governed
    <2> QED
      BY <1>3, <2>2, <2>3, <2>4 DEF MaintenanceInv
  <1> QED
    BY <1>4, <1>5 DEF loadMaintenance, Ledger

\* A graceful successor starts with no lease at all.
LEMMA Succeeding == ASSUME MaintenanceInv, Successor PROVE MaintenanceInv'
  <1>0. /\ MaintenanceTypes /\ Entries /\ CallHolds /\ Contexts /\ Memory /\ Fence /\ Orphans
        /\ HeldIsQuiet /\ Promises
        /\ phase = "stopping" /\ phase' = "up" /\ UNCHANGED <<disk, leases, failed, lock, call, public, covers>>
        /\ DOMAIN Ledger = {} /\ DOMAIN leases = {}
    BY DEF MaintenanceInv, Successor, Memory, Up, Ledger
  <1>1. /\ Ledger' = Ledger /\ DiskType(disk') /\ Running /\ Running' /\ Up'
        /\ \A h \in Hold : ~Governed(h) /\ ~Governed(h)'
    BY <1>0 DEF Ledger, MaintenanceTypes, Running, Up, Governed
  <1>2. entry' \in [Entry -> UNION {maintenanceRestoreContexts(e) : e \in Entry}]
        /\ \A e \in Entry : entry'[e] \in maintenanceRestoreContexts(e)
    BY DEF Successor
  <1>3. ASSUME NEW e \in Entry
        PROVE  /\ entry'[e] \in EntryType /\ entry'[e].ctx \subseteq entry'[e].served /\ ~entry'[e].work
               /\ Registered(e)' => entry'[e].ctx # {} /\ ~entry'[e].whole
               /\ entry'[e].tree = "running" => Registered(e)'
    <2>1. entry[e] \in EntryType /\ entry[e].ctx \subseteq entry[e].served
      BY <1>0 DEF MaintenanceTypes, Entries
    <2>2. CASE entry'[e] = Unused
      BY <2>2 DEF Unused, EntryType, Registered
    <2>3. ASSUME NEW k \in entry[e].ctx, entry[e].st = "live",
                 entry'[e] = [entry[e] EXCEPT !.ctx = {k}, !.whole = FALSE, !.work = FALSE]
          PROVE  /\ entry'[e] \in EntryType /\ entry'[e].ctx \subseteq entry'[e].served /\ ~entry'[e].work
                 /\ Registered(e)' => entry'[e].ctx # {} /\ ~entry'[e].whole
                 /\ entry'[e].tree = "running" => Registered(e)'
      <3>0. {k} \in SUBSET Key
        BY <2>1, <2>3 DEF EntryType
      <3>1. entry'[e] \in EntryType
        BY <2>1, <2>3, <3>0 DEF EntryType
      <3>2. /\ entry'[e].ctx = {k} /\ entry'[e].served = entry[e].served /\ ~entry'[e].work
            /\ ~entry'[e].whole /\ entry'[e].st = "live"
        BY <2>1, <2>3 DEF EntryType
      <3> QED
        BY <2>1, <2>3, <3>1, <3>2 DEF Registered
    <2> QED
      BY <1>2, <2>2, <2>3 DEF maintenanceRestoreContexts
  <1>4. MaintenanceTypes'
    <2>1. entry' \in [Entry -> EntryType]
      BY <1>2, <1>3
    <2> QED
      BY <1>0, <1>1, <2>1 DEF MaintenanceTypes
  <1>5. Entries' /\ Fence' /\ Orphans'
    <2>1. Entries'
      BY <1>1, <1>3 DEF Entries
    <2>2. Fence'
      BY <1>0, <1>1 DEF Fence, Governed
    <2>3. Orphans'
      BY <1>3 DEF Orphans
    <2> QED
      BY <2>1, <2>2, <2>3
  <1>6. Contexts' /\ Memory' /\ HeldIsQuiet' /\ CallHolds'
    BY <1>0, <1>1 DEF Contexts, Memory, HeldIsQuiet, CallHolds, Up
  <1>7. Promises'
    BY <1>0, <1>1 DEF Promises
  <1> QED
    BY <1>4, <1>5, <1>6, <1>7 DEF MaintenanceInv
-----------------------------------------------------------------------------
(* The theorems.                                                           *)

\* A new daemon, with nothing on disk.
LEMMA Starts == Init => MaintenanceInv
  <1> SUFFICES ASSUME Init PROVE MaintenanceInv
    OBVIOUS
  <1>1. DOMAIN leases = {} /\ DOMAIN Ledger = {} /\ call.pc = "idle" /\ Running
    BY DEF Init, Ledger, NoCall, Running
  <1>2. DiskType(disk)
    <2> DEFINE none == [h \in {} |-> None]
    <2>1. DOMAIN none = {} /\ none \in [DOMAIN none -> Stored]
      OBVIOUS
    <2>2. disk = [dir |-> FALSE, journal |-> [txn |-> 0, state |-> "none"],
                  ledger |-> [txn |-> 0, leases |-> none, written |-> FALSE]]
      BY DEF Init
    <2> HIDE DEF none
    <2>3. disk.ledger.leases = none /\ 0 \in Txn
      BY <2>2 DEF Txn
    <2> QED
      BY <2>1, <2>2, <2>3 DEF DiskType
  <1>3. \A e \in Entry : entry[e] = Unused
    BY DEF Init
  <1>4. Unused \in EntryType /\ Unused.st = "gone" /\ Unused.tree = "none" /\ ~Unused.work /\ Unused.ctx = {}
    BY DEF Unused, EntryType
  <1>5. MaintenanceTypes
    BY <1>2, <1>4 DEF Init, MaintenanceTypes
  <1>6. Entries /\ Fence /\ Orphans
    BY <1>3, <1>4 DEF Entries, Fence, Orphans, Registered
  <1>7. CallHolds
    BY DEF Init, CallHolds, NoCall
  <1>8. Contexts /\ Memory /\ HeldIsQuiet /\ Promises
    BY <1>1 DEF Init, Contexts, Memory, HeldIsQuiet, Promises, Governed, States
  <1> QED
    BY <1>5, <1>6, <1>7, <1>8 DEF MaintenanceInv

\* Every step keeps the invariant.
LEMMA Steps == MaintenanceInv /\ [Next]_vars => MaintenanceInv'
  <1> SUFFICES ASSUME MaintenanceInv, [Next]_vars PROVE MaintenanceInv'
    OBVIOUS
  <1>1. ASSUME UNCHANGED vars PROVE MaintenanceInv'
    BY <1>1 DEF vars, MaintenanceInv, MaintenanceTypes, DiskType, Entries, CallHolds, Contexts, Memory, Fence,
                Orphans, HeldIsQuiet, Promises, Quiet, Governed, Registered, Running, Up, Ledger
  <1>2. ASSUME NEW e \in Entry,
               \/ \E k \in Key : Reserve(e, k) \/ admitOwner(e, k)
               \/ Promote(e) \/ startAdmittedMaterialization(e)
               \/ reserveNativeWork(e) \/ WorkSettles(e) \/ TreeDies(e)
               \/ IdleRemoval(e) \/ OperatorRemoval(e) \/ finalizationRetry(e)
        PROVE  MaintenanceInv'
    BY <1>2, OwnerSteps
  <1>3. ASSUME NEW e \in Entry,
               maintenanceRetirementChanged(e) \/ \E h \in Hold : acquireMaintenance(h, e)
        PROVE  MaintenanceInv'
    BY <1>3, RetirementNoticed, Acquiring
  <1> QED
    BY <1>1, <1>2, <1>3, CallSteps, CallFinishes, LeaseSteps, Lapsing, OutsideSteps, Stopping, Crashing,
       Loading, Succeeding DEF Next

\* The lease state of a daemon agrees with its files, its owners and its fences in
\* every reachable state: the invariant the other theorems rest on.
THEOREM MaintenanceInvariant == Spec => []MaintenanceInv
  BY Starts, Steps, PTL DEF Spec

\* While a hold is acknowledged HELD nothing runs that serves one of its contexts,
\* whatever daemons were killed and whatever commits failed.
THEOREM HeldIsHeld == Spec => []HeldMeansQuiet
  <1>1. MaintenanceInv => HeldMeansQuiet
    <2> SUFFICES ASSUME MaintenanceInv, NEW h \in Hold, NEW e \in Entry, public[h] = "HELD",
                        covers[h] \cap entry[e].served # {}
                 PROVE  entry[e].tree # "running" /\ ~entry[e].work
      BY DEF HeldMeansQuiet
    <2>1. h \in DOMAIN Ledger /\ Ledger[h].state = "HELD"
      BY DEF MaintenanceInv, Promises, States
    <2> QED
      BY <2>1 DEF MaintenanceInv, HeldIsQuiet, Quiet
  <1> QED
    BY <1>1, MaintenanceInvariant, PTL

\* What the daemon has acknowledged stays true: HELD is in force and durable, a
\* release is final, and nobody activates beside an acknowledged hold.
THEOREM AcknowledgedStaysTrue == Spec => []AcknowledgedIsTrue
  <1>1. MaintenanceInv => AcknowledgedIsTrue
    <2> SUFFICES ASSUME MaintenanceInv PROVE AcknowledgedIsTrue
      OBVIOUS
    <2>1. MaintenanceTypeOK
      <3>1. disk.journal.txn \in Txn /\ disk.ledger.txn \in Txn
        BY DEF MaintenanceInv, MaintenanceTypes, DiskType
      <3>2. \A h \in DOMAIN leases : leases[h].state \in States /\ leases[h].keys # {}
                                      /\ leases[h].pins \subseteq Entry
        BY DEF MaintenanceInv, MaintenanceTypes, Contexts, Lease
      <3>3. \A e \in Entry : entry[e].ctx \subseteq entry[e].served
        BY DEF MaintenanceInv, Entries
      <3> QED
        BY <3>1, <3>2, <3>3 DEF MaintenanceInv, MaintenanceTypes, CallHolds, MaintenanceTypeOK
    <2> QED
      BY <2>1 DEF MaintenanceInv, Promises, Governed, Running, States, Ledger, AcknowledgedIsTrue
  <1> QED
    BY <1>1, MaintenanceInvariant, PTL

\* Only the election of a materialization starts a tree.
LEMMA OnlyMaterialization ==
  ASSUME MaintenanceInv, [Next]_vars, NEW e \in Entry,
         entry[e].tree # "running", entry'[e].tree = "running"
  PROVE  startAdmittedMaterialization(e)
  <1>0. entry \in [Entry -> EntryType]
    BY DEF MaintenanceInv, MaintenanceTypes
  <1>1. ASSUME NEW f \in Entry, NEW x, entry' = [entry EXCEPT ![f] = x], x.tree = "none" \/ x.tree = entry[f].tree
        PROVE  FALSE
    BY <1>0, <1>1
  <1>2. ASSUME NEW f \in Entry, NEW told \in BOOLEAN, finalizeOwner(f, told) PROVE FALSE
    BY <1>0, <1>1, <1>2 DEF finalizeOwner, Finalized, Unproven, Unused, EntryType
  <1>3. ~UNCHANGED entry
    OBVIOUS
  <1>4. ASSUME NEW f \in Entry, NEW k \in Key, Reserve(f, k) \/ admitOwner(f, k) PROVE FALSE
    BY <1>0, <1>4 DEF Reserve, admitOwner, Unused, EntryType
  <1>5. ASSUME NEW f \in Entry,
               \/ Promote(f) \/ reserveNativeWork(f) \/ WorkSettles(f) \/ TreeDies(f)
               \/ maintenanceRetirementChanged(f)
        PROVE  FALSE
    BY <1>0, <1>5 DEF Promote, reserveNativeWork, WorkSettles, TreeDies, maintenanceRetirementChanged,
                      Unused, EntryType
  <1>6. ASSUME NEW f \in Entry, startAdmittedMaterialization(f) PROVE startAdmittedMaterialization(e)
    BY <1>0, <1>6 DEF startAdmittedMaterialization
  <1>7. ASSUME NEW f \in Entry,
               \/ IdleRemoval(f) \/ OperatorRemoval(f) \/ finalizationRetry(f) \/ RemovePinned(f)
        PROVE  FALSE
    BY <1>2, <1>3, <1>7 DEF IdleRemoval, OperatorRemoval, finalizationRetry, RemovePinned
  <1>8. ~Crash
    <2> SUFFICES ASSUME Crash PROVE FALSE
      OBVIOUS
    <2>1. ~Orphan(e)
      BY DEF Orphan
    <2>2. entry'[e] = Unused
      BY <2>1 DEF Crash
    <2> QED
      BY <2>2 DEF Unused
  <1>9. ~Successor
    <2> SUFFICES ASSUME Successor PROVE FALSE
      OBVIOUS
    <2>1. entry'[e] \in maintenanceRestoreContexts(e)
      BY DEF Successor
    <2>2. entry[e] \in EntryType
      BY <1>0
    <2> QED
      <3>1. CASE entry'[e] = Unused
        BY <3>1 DEF Unused
      <3>2. ASSUME NEW k \in entry[e].ctx,
                   entry'[e] = [entry[e] EXCEPT !.ctx = {k}, !.whole = FALSE, !.work = FALSE]
            PROVE  FALSE
        BY <2>2, <3>2 DEF EntryType
      <3> QED
        BY <2>1, <3>1, <3>2 DEF maintenanceRestoreContexts
  <1>10. ASSUME NEW h \in Hold, Publish(h) \/ resume(h) \/ renew(h) \/ Lapse(h) PROVE UNCHANGED entry
    BY <1>10 DEF Publish, ExpiryTimer, RetryTimer, resume, renew, Lapse, LeaseOnly
  <1>11. (AwaitPlaceholders \/ FinishCall \/ reconcileMaintenance \/ OutsideLock
          \/ CheckMaintenanceForActivation \/ OutsideUnlock \/ beginMaintenanceLifecycle \/ loadMaintenance
          \/ UNCHANGED vars) => UNCHANGED entry
    BY DEF AwaitPlaceholders, FinishCall, Return, reconcileMaintenance, LeaseOnly, OutsideLock,
           CheckMaintenanceForActivation, OutsideUnlock, beginMaintenanceLifecycle, loadMaintenance, vars
  <1>12. ASSUME NEW f \in Entry, NEW h \in Hold, acquireMaintenance(h, f) PROVE UNCHANGED entry
    BY <1>12 DEF acquireMaintenance
  <1> QED
    BY <1>3, <1>4, <1>5, <1>6, <1>7, <1>8, <1>9, <1>10, <1>11, <1>12 DEF Next

\* From its acknowledged seed on, no tree is started for a context of a hold.
THEOREM NoTreeBehindTheFence == Spec => FenceHolds
  <1>1. ASSUME MaintenanceInv, [Next]_vars, NEW e \in Entry, NEW h \in Hold,
               entry[e].tree # "running", entry'[e].tree = "running", public[h] \in States
        PROVE  covers[h] \cap entry'[e].served = {}
    <2>1. startAdmittedMaterialization(e)
      BY <1>1, OnlyMaterialization
    <2>2. /\ Running /\ Registered(e) /\ checkMaintenanceKeyLocked(entry[e].ctx)
          /\ entry'[e].served = entry[e].served
      BY <1>1, <2>1 DEF startAdmittedMaterialization, admitMaterialization, Open, Running, Registered,
                        MaintenanceInv, MaintenanceTypes, EntryType
    <2>3. Governed(h)
      BY <1>1 DEF MaintenanceInv, Promises, Governed
    <2>4. entry[e].ctx \cap covers[h] = {}
      BY <1>1, <2>2, <2>3, AdmittedIsFree
    <2>5. entry[e].ctx = entry[e].served
      BY <1>1, <2>2, <2>3 DEF MaintenanceInv, Fence, Entries
    <2> QED
      BY <2>2, <2>4, <2>5
  <1>2. MaintenanceInv /\ [Next]_vars =>
          [\A e \in Entry, h \in Hold :
             /\ entry[e].tree # "running" /\ entry'[e].tree = "running"
             /\ public[h] \in States
             => covers[h] \cap entry'[e].served = {}]_vars
    BY <1>1
  <1> QED
    BY <1>2, MaintenanceInvariant, PTL DEF Spec, FenceHolds
=============================================================================
