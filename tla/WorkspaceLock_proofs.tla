------------------------ MODULE WorkspaceLock_proofs ------------------------
(***************************************************************************)
(* The workspace lock excludes, for every set of clients and processes:    *)
(* the directory has at most one owner file, a holder's is in it, and a    *)
(* reclaimer that came as far as its second reading aims at the dead.      *)
(***************************************************************************)
EXTENDS WorkspaceLock, TLAPS

(* The directory names one owner at most.                                  *)
OneOwner == \A c, d \in Clients : Own(c) \in files /\ Own(d) \in files => c = d

(* Only holders renew, and a temporary file about to be swapped in lies    *)
(* beside the owner file it replaces.                                      *)
RenewalInv ==
  \A c \in Clients :
    /\ renewing[c] /= "off" => pc[c] \in {"held", "draining"}
    /\ renewing[c] = "swapping" /\ Renewal(c) \in files => Own(c) \in files

(* Clients die with their process, and reclaimers verified a death.        *)
DeathInv ==
  \A c \in Clients :
    /\ pc[c] = "dead" <=> ProcessOf[c] \notin alive
    /\ pc[c] \in {"reading", "judging", "identifying"} => seen[c] \in Clients
    /\ pc[c] \in {"relisting", "rereading", "reclaiming"} =>
         seen[c] \in Clients /\ pc[seen[c]] = "dead"

(* Unless the directory is swept away, a holder's file is in it.           *)
HolderOnDisk == \A c \in Clients : pc[c] \in Holding => Own(c) \in files

LeaseInv ==
  /\ LockTypeOK
  /\ OneOwner
  /\ NoForgottenLease
  /\ RenewalInv
  /\ DeathInv
  /\ ~Swept => HolderOnDisk

(* Entries of different clients or kinds differ.                           *)
LEMMA EntriesDiffer ==
  /\ \A c, d \in Clients : Own(c) = Own(d) => c = d
  /\ \A c, d \in Clients : Own(c) /= Renewal(d)
  /\ \A c \in Clients : Own(c) \in Files /\ Renewal(c) \in Files
  BY DEF Own, Renewal, Files

(* At first nobody holds, renews, reclaims or is dead.                     *)
LEMMA InitLeaseInv == Init => LeaseInv
  BY LockAssumption
     DEF Init, LeaseInv, LockTypeOK, OneOwner, NoForgottenLease, RenewalInv, DeathInv,
         HolderOnDisk, Holding, Pcs, Renewals

(* Acquiring keeps the invariant: a candidate is published only over an    *)
(* empty directory, and only the files of the dead are unlinked.           *)
LEMMA AcquireKeepsLeaseInv ==
  ASSUME LeaseInv, NEW c \in Clients,
         StartAcquire(c) \/ Cancel(c) \/ TimeOut(c) \/ AcquireStep(c)
  PROVE  LeaseInv'
  <1> USE EntriesDiffer, LockAssumption
      DEF LeaseInv, LockTypeOK, OneOwner, NoForgottenLease, RenewalInv, DeathInv, HolderOnDisk,
          Go, Move, Branch, RemoveDir, Unlink, dirVars, clientVars, beatVars,
          Holding, Contending, Releasing, Pcs, Renewals
  <1>1. CASE StartAcquire(c)
    BY <1>1 DEF StartAcquire
  <1>2. CASE Cancel(c)
    BY <1>2 DEF Cancel
  <1>3. CASE TimeOut(c)
    BY <1>3 DEF TimeOut
  <1>4. CASE Publish(c)
    BY <1>4 DEF Publish
  <1>5. CASE Collide(c)
    BY <1>5 DEF Collide
  <1>6. CASE List(c)
    BY <1>6 DEF List
  <1>7. CASE ReadOwner(c)
    BY <1>7 DEF ReadOwner
  <1>8. CASE Judge(c)
    BY <1>8 DEF Judge
  <1>9. CASE Relist(c)
    BY <1>9 DEF Relist
  <1>10. CASE Reread(c)
    BY <1>10 DEF Reread
  <1>11. CASE UnlinkStale(c)
    BY <1>11 DEF UnlinkStale
  <1>12. CASE StatEmpty(c)
    BY <1>12 DEF StatEmpty
  <1>13. CASE RemoveStaleDir(c)
    <2>1. present' \in BOOLEAN /\ (files' /= {} => present')
      BY <1>13 DEF RemoveStaleDir
    <2>2. LockTypeOK'
      BY <1>13, <2>1 DEF RemoveStaleDir
    <2>3. (OneOwner /\ NoForgottenLease /\ RenewalInv)'
      BY <1>13 DEF RemoveStaleDir
    <2>4. (DeathInv /\ (~Swept => HolderOnDisk))'
      BY <1>13 DEF RemoveStaleDir
    <2> QED
      BY <2>2, <2>3, <2>4
  <1>14. CASE Retry(c)
    BY <1>14 DEF Retry
  <1> QED
    BY <1>1, <1>2, <1>3, <1>4, <1>5, <1>6, <1>7, <1>8, <1>9, <1>10, <1>11, <1>12, <1>13, <1>14
       DEF AcquireStep

(* A heartbeat keeps the types.                                            *)
LEMMA RenewalKeepsTypes ==
  ASSUME LockTypeOK, NEW c \in Clients,
         StartRenewal(c) \/ RenewalStep(c) \/ RenewalFault(c)
  PROVE  LockTypeOK'
  <1> USE EntriesDiffer
      DEF LockTypeOK, StartRenewal, RenewalStep, RenewalFault, WriteRenewal, CheckRenewal,
          SwapRenewal, Beat, Compromise, dirVars, clientVars, beatVars
  <1>1. /\ files' \subseteq Files
        /\ alive' \subseteq Processes
        /\ fresh' \subseteq Clients
        /\ pc' \in [Clients -> Pcs]
        /\ seen' \in [Clients -> Clients \cup {Nobody}]
    OBVIOUS
  <1>2. present' = present /\ (files' /= {} => present')
    BY Zenon
  <1>3. renewing' \in [Clients -> Renewals]
    BY DEF Renewals
  <1>4. compromised' \in [Clients -> BOOLEAN]
    OBVIOUS
  <1> QED
    BY <1>1, <1>2, <1>3, <1>4

(* It adds and removes its own temporary file only, and swaps it for an    *)
(* owner file that is there.                                               *)
LEMMA RenewalKeepsLeaseInv ==
  ASSUME LeaseInv, NEW c \in Clients,
         StartRenewal(c) \/ RenewalStep(c) \/ RenewalFault(c)
  PROVE  LeaseInv'
  <1>1. LockTypeOK'
    BY RenewalKeepsTypes DEF LeaseInv
  <1> USE EntriesDiffer, LockAssumption
      DEF LeaseInv, LockTypeOK, StartRenewal, RenewalStep, RenewalFault, WriteRenewal,
          CheckRenewal, SwapRenewal, Beat, Compromise, dirVars, clientVars, beatVars
  <1>2. OneOwner'
    BY DEF OneOwner, RenewalInv
  <1>3. NoForgottenLease'
    BY DEF NoForgottenLease, RenewalInv, Holding
  <1>4. RenewalInv'
    <2>1. ASSUME NEW d \in Clients, renewing'[d] /= "off"
          PROVE  pc'[d] \in {"held", "draining"}
      BY <2>1 DEF RenewalInv
    <2>2. ASSUME NEW d \in Clients, renewing'[d] = "swapping", Renewal(d) \in files'
          PROVE  Own(d) \in files'
      <3>1. CASE d = c
        BY <2>2, <3>1 DEF RenewalInv, Renewals
      <3>2. CASE d /= c
        BY <2>2, <3>2 DEF RenewalInv, Renewal, Own
      <3> QED
        BY <3>1, <3>2
    <2> QED
      BY <2>1, <2>2 DEF RenewalInv
  <1>5. DeathInv'
    <2>1. UNCHANGED <<alive, pc, seen>>
      OBVIOUS
    <2> QED
      BY <2>1 DEF DeathInv
  <1>6. ~Swept => HolderOnDisk'
    BY DEF HolderOnDisk
  <1> QED
    BY <1>1, <1>2, <1>3, <1>4, <1>5, <1>6

(* So does a release, which unlinks its own file once no renewal runs.     *)
LEMMA ReleaseKeepsLeaseInv ==
  ASSUME LeaseInv, NEW c \in Clients,
         StartRelease(c) \/ Drain(c) \/ ReleaseStep(c) \/ Reopen(c)
  PROVE  LeaseInv'
  <1> USE EntriesDiffer, LockAssumption
      DEF LeaseInv, LockTypeOK, OneOwner, NoForgottenLease, RenewalInv, DeathInv, HolderOnDisk,
          Go, Move, Branch, RemoveDir, Unlink, dirVars, clientVars, beatVars,
          Holding, Contending, Releasing, Pcs, Renewals
  <1>1. CASE StartRelease(c)
    BY <1>1 DEF StartRelease
  <1>2. CASE Drain(c)
    BY <1>2 DEF Drain
  <1>3. CASE Confirm(c)
    BY <1>3 DEF Confirm
  <1>4. CASE UnlinkOwn(c)
    BY <1>4 DEF UnlinkOwn
  <1>5. CASE RemoveOwnDir(c)
    <2>1. present' \in BOOLEAN /\ (files' /= {} => present')
      BY <1>5 DEF RemoveOwnDir
    <2>2. LockTypeOK'
      BY <1>5, <2>1 DEF RemoveOwnDir
    <2>3. (OneOwner /\ NoForgottenLease /\ RenewalInv)'
      BY <1>5 DEF RemoveOwnDir
    <2>4. (DeathInv /\ (~Swept => HolderOnDisk))'
      BY <1>5 DEF RemoveOwnDir
    <2> QED
      BY <2>2, <2>3, <2>4
  <1>6. CASE Survey(c)
    BY <1>6 DEF Survey
  <1>7. CASE Identify(c)
    BY <1>7 DEF Identify
  <1>8. CASE Reopen(c)
    BY <1>8 DEF Reopen
  <1> QED
    BY <1>1, <1>2, <1>3, <1>4, <1>5, <1>6, <1>7, <1>8 DEF ReleaseStep

(* So do time, death and a sweep.                                          *)
LEMMA WorldKeepsLeaseInv ==
  ASSUME LeaseInv,
         (\E c \in Clients : Expire(c)) \/ (\E p \in Processes : Die(p)) \/ Sweep
  PROVE  LeaseInv'
  <1> USE EntriesDiffer, LockAssumption
      DEF LeaseInv, LockTypeOK, OneOwner, NoForgottenLease, RenewalInv, DeathInv, HolderOnDisk,
          dirVars, clientVars, beatVars, Holding, Contending, Releasing, Pcs, Renewals
  <1>1. ASSUME NEW c \in Clients, Expire(c) PROVE LeaseInv'
    BY <1>1 DEF Expire
  <1>2. ASSUME NEW p \in Processes, Die(p) PROVE LeaseInv'
    BY <1>2 DEF Die
  <1>3. CASE Sweep
    BY <1>3 DEF Sweep
  <1> QED
    BY <1>1, <1>2, <1>3

(* Every step keeps it.                                                    *)
LEMMA NextKeepsLeaseInv == LeaseInv /\ [Next]_vars => LeaseInv'
  <1> SUFFICES ASSUME LeaseInv, [Next]_vars PROVE LeaseInv'
    OBVIOUS
  <1>1. CASE UNCHANGED vars
    BY <1>1 DEF vars, dirVars, clientVars, beatVars, LeaseInv, LockTypeOK, OneOwner,
                NoForgottenLease, RenewalInv, DeathInv, HolderOnDisk
  <1>2. CASE Next
    BY <1>2, AcquireKeepsLeaseInv, RenewalKeepsLeaseInv, ReleaseKeepsLeaseInv, WorldKeepsLeaseInv
       DEF Next, ClientStep
  <1> QED
    BY <1>1, <1>2

(* The lock's type invariant and its inductive strengthening.              *)
THEOREM LeaseInvariant == Spec => []LeaseInv
  BY InitLeaseInv, NextKeepsLeaseInv, PTL DEF Spec

(* An owner file of a live client stands for a lease it remembers, even    *)
(* when the directory is deleted from outside (renew, releaseOwner).       *)
THEOREM NoForgottenLeaseAlways == Spec => []NoForgottenLease
  <1>1. LeaseInv => NoForgottenLease
    BY DEF LeaseInv
  <1> QED
    BY <1>1, LeaseInvariant, PTL

(* Two clients never hold the lock together, as long as nobody deletes the *)
(* directory from outside (acquire, reclaimStaleLease, releaseOwner).      *)
THEOREM MutualExclusionAlways ==
  ASSUME ~Swept
  PROVE  Spec => []MutualExclusion
  <1>1. LeaseInv => MutualExclusion
    BY DEF LeaseInv, OneOwner, HolderOnDisk, MutualExclusion
  <1> QED
    BY <1>1, LeaseInvariant, PTL

----------------------------------------------------------------------------
(* A step that leaves every owner file, holder and death as it is.         *)
Quiet ==
  \A d \in Clients :
    /\ Own(d) \in files' <=> Own(d) \in files
    /\ pc'[d] = "dead" <=> pc[d] = "dead"
    /\ pc'[d] \in Holding <=> pc[d] \in Holding

(* What a step may do to owner files and holders: publish one in an empty  *)
(* directory, unlink one's own or that of the dead, refuse, or nothing.    *)
Effect ==
  \/ \E c \in Clients :
       Publish(c) \/ UnlinkOwn(c) \/ UnlinkStale(c) \/ Drain(c) \/ Confirm(c)
  \/ \E p \in Processes : Die(p)
  \/ Sweep
  \/ Quiet

(* Every step has one of these effects.                                    *)
LEMMA StepEffect ==
  ASSUME LeaseInv, Next
  PROVE  Effect
  <1> USE EntriesDiffer
      DEF LeaseInv, LockTypeOK, dirVars, clientVars, beatVars, Quiet,
          Holding, Contending, Releasing, Pcs
  <1>1. ASSUME NEW c \in Clients,
               StartAcquire(c) \/ Cancel(c) \/ TimeOut(c) \/ Collide(c) \/ List(c) \/ ReadOwner(c)
               \/ Judge(c) \/ Relist(c) \/ Reread(c) \/ StatEmpty(c) \/ RemoveStaleDir(c) \/ Retry(c)
        PROVE  Quiet
    <2>1. \E from \in Contending \cup {"idle"}, to \in Contending \cup {"idle"},
             d \in Clients \cup {Nobody} : Go(c, from, to, d)
      BY <1>1 DEF StartAcquire, Cancel, TimeOut, Collide, List, ReadOwner, Judge, Relist, Reread,
                  StatEmpty, RemoveStaleDir, Retry, Go, Move, Branch, RemoveDir
    <2>2. files' = files
      BY <1>1 DEF StartAcquire, Cancel, TimeOut, Collide, List, ReadOwner, Judge, Relist, Reread,
                  StatEmpty, RemoveStaleDir, Retry, Go, Move, Branch, RemoveDir
    <2> QED
      BY <2>1, <2>2 DEF Go
  <1>2. ASSUME NEW c \in Clients, StartRenewal(c) \/ RenewalStep(c) \/ RenewalFault(c)
        PROVE  Quiet
    BY <1>2 DEF StartRenewal, RenewalStep, RenewalFault, WriteRenewal, CheckRenewal, SwapRenewal,
                Beat, Compromise, RenewalInv, Renewals
  <1>3. ASSUME NEW c \in Clients,
               RemoveOwnDir(c) \/ Survey(c) \/ Identify(c) \/ Reopen(c)
        PROVE  Quiet
    <2>1. \E from, to \in {"idle", "refused", "removing", "surveying", "identifying"},
             d \in Clients \cup {Nobody} : Go(c, from, to, d)
      BY <1>3 DEF RemoveOwnDir, Survey, Identify, Reopen, Go, Move, Branch, RemoveDir
    <2>2. files' = files
      BY <1>3 DEF RemoveOwnDir, Survey, Identify, Reopen, Go, Move, Branch, RemoveDir
    <2> QED
      BY <2>1, <2>2 DEF Go
  <1>5. ASSUME NEW c \in Clients, StartRelease(c)
        PROVE  Quiet
    BY <1>5 DEF StartRelease, Move, Go
  <1>4. ASSUME NEW c \in Clients, Expire(c)
        PROVE  Quiet
    BY <1>4 DEF Expire
  <1> QED
    BY <1>1, <1>2, <1>3, <1>4, <1>5 DEF Next, ClientStep, AcquireStep, ReleaseStep, Effect

(* Only its owner, a sweep or its owner's death lets an owner file go, and *)
(* only publication in an empty directory makes one (reclaimStaleLease).   *)
THEOREM LiveLeasesUndisturbedAlways == Spec => LiveLeasesUndisturbed
  <1>1. ASSUME LeaseInv, [Next]_vars, NEW c \in Clients
        PROVE  /\ Own(c) \in files /\ Own(c) \notin files' /\ ProcessOf[c] \in alive
                    => Sweep \/ pc[c] = "unlinking"
               /\ Own(c) \notin files /\ Own(c) \in files' => files = {}
    <2> USE EntriesDiffer DEF LeaseInv
    <2>1. CASE UNCHANGED vars
      BY <1>1, <2>1 DEF vars, dirVars
    <2>2. ASSUME NEW e \in Clients, Publish(e) \/ UnlinkOwn(e) \/ UnlinkStale(e)
          PROVE  /\ Own(c) \in files /\ Own(c) \notin files' /\ ProcessOf[c] \in alive
                      => Sweep \/ pc[c] = "unlinking"
                 /\ Own(c) \notin files /\ Own(c) \in files' => files = {}
      BY <1>1, <2>2 DEF Publish, UnlinkOwn, UnlinkStale, Unlink, Go, Move, DeathInv, dirVars
    <2>3. ASSUME NEW p \in Processes, Die(p)
          PROVE  files' = files
      BY <2>3 DEF Die, dirVars
    <2>6. ASSUME NEW e \in Clients, Drain(e) \/ Confirm(e)
          PROVE  files' = files
      BY <2>6 DEF Drain, Confirm, Branch, Move, dirVars
    <2>4. Sweep => files' = {}
      BY DEF Sweep
    <2>5. CASE Next
      BY <1>1, <2>2, <2>3, <2>4, <2>5, <2>6, StepEffect DEF Effect, Quiet
    <2> QED
      BY <1>1, <2>1, <2>5
  <1>2. LeaseInv /\ [Next]_vars =>
          \A c \in Clients :
            /\ Own(c) \in files /\ Own(c) \notin files' /\ ProcessOf[c] \in alive
                 => Sweep \/ pc[c] = "unlinking"
            /\ Own(c) \notin files /\ Own(c) \in files' => files = {}
    BY <1>1
  <1> QED
    BY <1>2, LeaseInvariant, PTL DEF Spec, LiveLeasesUndisturbed

----------------------------------------------------------------------------
(* The owner of the abstract lease, where the directory names one.         *)
LEMMA OwnerNamed ==
  /\ OneOwner => \A c \in Clients : Own(c) \in files => Owner = c
  /\ (\A c \in Clients : Own(c) \notin files) => Owner = Nobody
  BY DEF OneOwner, Owner

(* The same of the next state.                                             *)
LEMMA OwnerNamedNext ==
  /\ OneOwner' => \A c \in Clients : Own(c) \in files' => Owner' = c
  /\ (\A c \in Clients : Own(c) \notin files') => Owner' = Nobody
  BY DEF OneOwner, Owner

(* A step maps to a step of the lease or to a stutter.                     *)
LEMMA StepImplementsLease ==
  ASSUME ~Swept, LeaseInv, LeaseInv', [Next]_vars
  PROVE  [Lease!Next]_<<Owner, Inside, Gone>>
  <1> USE EntriesDiffer, LockAssumption
  <1>0. OneOwner /\ OneOwner' /\ LockTypeOK /\ DeathInv /\ HolderOnDisk
    BY DEF LeaseInv
  <1>1. CASE Quiet \/ UNCHANGED vars
    <2>1. Quiet
      BY <1>1 DEF vars, dirVars, clientVars, Quiet
    <2>2. Gone' = Gone /\ Inside' = Inside
      BY <2>1 DEF Quiet, Gone, Inside
    <2>3. Owner' = Owner
      BY <1>0, <2>1, OwnerNamed, OwnerNamedNext DEF Quiet
    <2> QED
      BY <2>2, <2>3
  <1>2. ASSUME NEW c \in Clients, Publish(c)
        PROVE  Lease!Grant(c)
    <2>1. Owner = Nobody /\ Owner' = c
      BY <1>0, <1>2, OwnerNamed, OwnerNamedNext DEF Publish
    <2>2. c \notin Gone /\ Gone' = Gone /\ Inside' = Inside \cup {c}
      BY <1>0, <1>2 DEF Publish, Go, Gone, Inside, Holding, LockTypeOK
    <2> QED
      BY <2>1, <2>2 DEF Lease!Grant
  <1>3. ASSUME NEW c \in Clients, UnlinkOwn(c)
        PROVE  Lease!Return(c)
    <2>1. Own(c) \in files /\ files' = files \ {Own(c)} /\ Go(c, "unlinking", "removing", Nobody)
      BY <1>0, <1>3 DEF UnlinkOwn, Unlink, Go, Move, HolderOnDisk, Holding
    <2>2. Owner = c /\ Owner' = Nobody
      BY <1>0, <2>1, OwnerNamed, OwnerNamedNext DEF OneOwner
    <2>3. c \in Inside /\ Gone' = Gone /\ Inside' = Inside \ {c}
      BY <1>0, <2>1 DEF Go, Gone, Inside, Holding, LockTypeOK
    <2> QED
      BY <2>2, <2>3 DEF Lease!Return
  <1>4. ASSUME NEW c \in Clients, UnlinkStale(c), Own(seen[c]) \in files
        PROVE  Lease!Seize
    <2>1. /\ seen[c] \in Clients /\ pc[seen[c]] = "dead" /\ files' = files \ {Own(seen[c])}
          /\ Go(c, "reclaiming", "clearing", Nobody)
      BY <1>0, <1>4 DEF UnlinkStale, Unlink, Go, DeathInv
    <2>2. Owner = seen[c] /\ Owner' = Nobody
      BY <1>0, <1>4, <2>1, OwnerNamed, OwnerNamedNext DEF OneOwner
    <2>3. Gone' = Gone /\ Inside' = Inside
      BY <1>0, <2>1 DEF Go, Gone, Inside, Holding, LockTypeOK
    <2> QED
      BY <2>1, <2>2, <2>3 DEF Lease!Seize, Gone
  <1>5. ASSUME NEW c \in Clients, UnlinkStale(c), Own(seen[c]) \notin files
        PROVE  Quiet
    BY <1>0, <1>5 DEF UnlinkStale, Go, Move, Quiet, Holding, LockTypeOK, dirVars
  <1>6. ASSUME NEW p \in Processes, Die(p)
        PROVE  Lease!Vanish
    <2>1. /\ Gone' = Gone \cup {c \in Clients : ProcessOf[c] = p}
          /\ Inside' = Inside \ {c \in Clients : ProcessOf[c] = p}
      BY <1>0, <1>6 DEF Die, Gone, Inside, Holding, LockTypeOK
    <2>2. Owner' = Owner
      BY <1>0, <1>6, OwnerNamed, OwnerNamedNext DEF Die, dirVars
    <2> QED
      BY <2>1, <2>2 DEF Lease!Vanish
  <1>7. ~Sweep
    BY DEF Sweep
  <1>8. ASSUME NEW c \in Clients, Drain(c) \/ Confirm(c)
        PROVE  Quiet \/ Lease!Forsake(c)
    <2>1. /\ files' = files
          /\ \E from \in {"draining", "confirming"}, to \in {"confirming", "unlinking", "refused"},
                d \in Clients \cup {Nobody} : Go(c, from, to, d)
      BY <1>0, <1>8 DEF Drain, Confirm, Branch, Move, dirVars, LockTypeOK
    <2>2. Gone' = Gone /\ Owner' = Owner
      BY <1>0, <2>1, OwnerNamed, OwnerNamedNext DEF Go, Gone, LockTypeOK
    <2>3. c \in Inside /\ (Quiet \/ Inside' = Inside \ {c})
      BY <1>0, <2>1 DEF Go, Quiet, Inside, Holding, LockTypeOK
    <2> QED
      BY <2>2, <2>3 DEF Lease!Forsake
  <1>9. CASE Next
    BY <1>1, <1>2, <1>3, <1>4, <1>5, <1>6, <1>7, <1>8, <1>9, StepEffect DEF Effect, Lease!Next
  <1> QED
    BY <1>1, <1>9

(* The directory protocol implements the abstract lease, as long as nobody *)
(* deletes the directory from outside: a live owner loses the lock only by *)
(* returning it (acquire, reclaimStaleLease, renew, releaseOwner).         *)
THEOREM ImplementsExclusiveLease ==
  ASSUME ~Swept
  PROVE  Spec => LeaseSpec
  <1>1. Init => Lease!Init
    BY DEF Init, Lease!Init, Owner, Inside, Gone, Holding
  <1>2. LeaseInv /\ LeaseInv' /\ [Next]_vars => [Lease!Next]_<<Owner, Inside, Gone>>
    BY StepImplementsLease
  <1> QED
    BY <1>1, <1>2, LeaseInvariant, PTL DEF Spec, LeaseSpec, Lease!Spec
=============================================================================
