--------------------------- MODULE WorkspaceLock ----------------------------
(***************************************************************************)
(* The cross-process lock of a workspace (src/src/workspace-lock.ts): a    *)
(* directory holding one owner file, published by renaming a private       *)
(* candidate directory over it, kept alive by a heartbeat that writes a    *)
(* temporary file beside it and renames it into place, and removed by its  *)
(* owner or, once the owner's process is dead and its lease expired, by a  *)
(* contender. Every file system call another process can observe is a      *)
(* step of its own.                                                        *)
(*                                                                         *)
(* A client is one caller of acquire and release, an owner file is named   *)
(* by the client that published it (in the code, by its nonce).            *)
(***************************************************************************)
EXTENDS Naturals

CONSTANTS
  Clients,     \* callers of acquire
  Processes,   \* operating system processes
  ProcessOf,   \* the process a client runs in
  Nobody,      \* not a client
  Mortal,      \* processes that may die
  Failing,     \* clients whose renewals may meet an I/O error
  Swept        \* whether someone may delete the directory from outside

ASSUME LockAssumption ==
  /\ ProcessOf \in [Clients -> Processes]
  /\ Nobody \notin Clients
  /\ Mortal \subseteq Processes
  /\ Failing \subseteq Clients
  /\ Swept \in BOOLEAN

VARIABLES
  present,      \* the lock directory exists
  files,        \* its entries
  fresh,        \* clients whose published lease has not expired
  alive,        \* live processes
  pc,           \* where a client stands in acquire or release
  seen,         \* the owner a client read in the directory
  renewing,     \* where a client's heartbeat stands in renew
  compromised   \* a renewal of the current lease failed

dirVars == <<present, files, fresh>>
clientVars == <<pc, seen>>
beatVars == <<renewing, compromised>>
vars == <<dirVars, alive, clientVars, beatVars>>

Own(c) == <<"owner", c>>
Renewal(c) == <<"renew", c>>
Files == {"owner", "renew"} \X Clients

Holding == {"held", "draining", "confirming", "unlinking"}
Contending == {"publishing", "listing", "reading", "judging", "relisting", "rereading",
               "reclaiming", "aging", "clearing", "waiting"}
Releasing == {"draining", "confirming", "unlinking", "removing", "surveying", "identifying"}
Pcs == {"idle", "refused", "dead"} \cup Holding \cup Contending \cup Releasing
Renewals == {"off", "writing", "checking", "swapping"}

Init ==
  /\ present = FALSE /\ files = {} /\ fresh = {}
  /\ alive = Processes
  /\ pc = [c \in Clients |-> "idle"]
  /\ seen = [c \in Clients |-> Nobody]
  /\ renewing = [c \in Clients |-> "off"]
  /\ compromised = [c \in Clients |-> FALSE]

(* A client moves on, having read that d owns the directory.               *)
Go(c, from, to, d) ==
  /\ pc[c] = from
  /\ pc' = [pc EXCEPT ![c] = to]
  /\ seen' = [seen EXCEPT ![c] = d]

(* It does nothing else, and keeps what it read only while a test holds.   *)
Move(c, from, to, d) == Go(c, from, to, d) /\ UNCHANGED <<dirVars, alive, beatVars>>

Branch(c, from, test, yes, no) ==
  /\ pc[c] = from
  /\ \/ test /\ Move(c, from, yes, seen[c])
     \/ ~test /\ Move(c, from, no, Nobody)

Unlink(c) ==
  /\ files' = files \ {Own(c)}
  /\ fresh' = fresh \ {c}
  /\ UNCHANGED <<present, alive, beatVars>>

(* rmdir: an occupied directory stays.                                     *)
RemoveDir(c, from, gone, occupied) ==
  /\ \/ files = {} /\ present' = FALSE /\ Go(c, from, gone, Nobody)
     \/ files /= {} /\ UNCHANGED present /\ Go(c, from, occupied, Nobody)
  /\ UNCHANGED <<files, fresh, alive, beatVars>>

----------------------------------------------------------------------------
(* acquire: publish a candidate, or look at who is in the way.             *)

StartAcquire(c) == Move(c, "idle", "publishing", Nobody)

(* A cancellation is noticed, or the candidate cannot be written.          *)
Cancel(c) == Move(c, "publishing", "idle", Nobody)

(* rename replaces a missing or an empty directory; the lease starts.      *)
Publish(c) ==
  /\ files = {}
  /\ Go(c, "publishing", "held", Nobody)
  /\ present' = TRUE
  /\ files' = {Own(c)}
  /\ fresh' = fresh \cup {c}
  /\ compromised' = [compromised EXCEPT ![c] = FALSE]
  /\ UNCHANGED <<alive, renewing>>

Collide(c) == files /= {} /\ Move(c, "publishing", "listing", Nobody)

(* readdir finds one owner file, nothing, or what no reclaimer touches.    *)
List(c) ==
  \/ \E d \in Clients : files = {Own(d)} /\ Move(c, "listing", "reading", d)
  \/ files = {} /\ Move(c, "listing", "aging", Nobody)
  \/ /\ files /= {} /\ \A d \in Clients : files /= {Own(d)}
     /\ Move(c, "listing", "waiting", Nobody)

(* readFile, and the lease it carries.                                     *)
ReadOwner(c) ==
  Branch(c, "reading", Own(seen[c]) \in files /\ seen[c] \notin fresh, "judging", "waiting")

(* Variant: an expired lease is proof enough.                              *)
JudgeByLease(c) == Move(c, "judging", "relisting", seen[c])

(* The expired owner's process is confirmed dead, or answers a signal.     *)
Judge(c) == Branch(c, "judging", ProcessOf[seen[c]] \notin alive, "relisting", "waiting")

(* Variant: the second reading looks for the reader's own file.            *)
RelistOwn(c) == Branch(c, "relisting", files = {Own(c)}, "rereading", "waiting")

(* The second reading, which compares the name and the nonce only.         *)
Relist(c) == Branch(c, "relisting", files = {Own(seen[c])}, "rereading", "waiting")

Reread(c) == Branch(c, "rereading", Own(seen[c]) \in files, "reclaiming", "waiting")

(* Variant: whatever owner file is there goes, as under a fixed name.      *)
UnlinkWhoever(c) ==
  \/ \E d \in Clients :
       Own(d) \in files /\ Unlink(d) /\ Go(c, "reclaiming", "clearing", Nobody)
  \/ files = {} /\ Move(c, "reclaiming", "waiting", Nobody)

UnlinkStale(c) ==
  \/ Own(seen[c]) \in files /\ Unlink(seen[c]) /\ Go(c, "reclaiming", "clearing", Nobody)
  \/ Own(seen[c]) \notin files /\ Move(c, "reclaiming", "waiting", Nobody)

(* stat of a directory read as empty: gone, or old enough to remove, or    *)
(* not. Its age is not modelled: either answer may come.                   *)
StatEmpty(c) ==
  \/ ~present /\ Move(c, "aging", "publishing", Nobody)
  \/ present /\ \E next \in {"clearing", "waiting"} : Move(c, "aging", next, Nobody)

RemoveStaleDir(c) == RemoveDir(c, "clearing", "publishing", "waiting")

Retry(c) == Move(c, "waiting", "publishing", Nobody)

TimeOut(c) == Move(c, "waiting", "idle", Nobody)

AcquireStep(c) ==
  \/ Publish(c) \/ Collide(c) \/ List(c) \/ ReadOwner(c) \/ Judge(c) \/ Relist(c) \/ Reread(c)
  \/ UnlinkStale(c) \/ StatEmpty(c) \/ RemoveStaleDir(c) \/ Retry(c)

----------------------------------------------------------------------------
(* The heartbeat: check, write a temporary file, check again, swap.        *)

Beat(c, from, to) ==
  /\ renewing[c] = from
  /\ renewing' = [renewing EXCEPT ![c] = to]
  /\ UNCHANGED <<alive, clientVars>>

Compromise(c, from) ==
  /\ Beat(c, from, "off")
  /\ compromised' = [compromised EXCEPT ![c] = TRUE]

(* A tick queued before the release began still runs while it drains.      *)
StartRenewal(c) ==
  /\ pc[c] \in {"held", "draining"} /\ ~compromised[c]
  /\ \/ files = {Own(c)} /\ Beat(c, "off", "writing") /\ UNCHANGED compromised
     \/ files /= {Own(c)} /\ Compromise(c, "off")
  /\ UNCHANGED dirVars

WriteRenewal(c) ==
  /\ \/ /\ present /\ Beat(c, "writing", "checking")
        /\ files' = files \cup {Renewal(c)} /\ UNCHANGED compromised
     \/ ~present /\ Compromise(c, "writing") /\ UNCHANGED files
  /\ UNCHANGED <<present, fresh>>

(* Variant: the owner is not checked again before the swap.                *)
SwapUnchecked(c) ==
  /\ Beat(c, "checking", "swapping")
  /\ UNCHANGED <<present, files, fresh, compromised>>

CheckRenewal(c) ==
  /\ \/ /\ files \ {Renewal(c)} = {Own(c)} /\ Beat(c, "checking", "swapping")
        /\ UNCHANGED <<files, compromised>>
     \/ /\ files \ {Renewal(c)} /= {Own(c)} /\ Compromise(c, "checking")
        /\ files' = files \ {Renewal(c)}
  /\ UNCHANGED <<present, fresh>>

(* rename puts the owner file in place, whether or not one is there.       *)
SwapRenewal(c) ==
  /\ \/ /\ Renewal(c) \in files /\ Beat(c, "swapping", "off")
        /\ files' = (files \ {Renewal(c)}) \cup {Own(c)}
        /\ fresh' = fresh \cup {c} /\ UNCHANGED compromised
     \/ Renewal(c) \notin files /\ Compromise(c, "swapping") /\ UNCHANGED <<files, fresh>>
  /\ UNCHANGED present

(* An I/O error; the temporary file is removed if that works.              *)
RenewalFault(c) ==
  /\ c \in Failing
  /\ \E from \in {"writing", "checking", "swapping"} : Compromise(c, from)
  /\ \E left \in SUBSET {Renewal(c)} : /\ left /= {} => present
                                       /\ files' = (files \ {Renewal(c)}) \cup left
  /\ UNCHANGED <<present, fresh>>

RenewalStep(c) == WriteRenewal(c) \/ CheckRenewal(c) \/ SwapRenewal(c)

----------------------------------------------------------------------------
(* release: stop the heartbeat, await it, then remove file and directory.  *)

StartRelease(c) == Move(c, "held", "draining", Nobody)

(* Variants: a release does not await the renewal under way; it waits for  *)
(* a compromised lease to recover.                                         *)
DrainNothing(c) == Branch(c, "draining", compromised[c], "refused", "confirming")
DrainSound(c) ==
  renewing[c] = "off" /\ ~compromised[c] /\ Move(c, "draining", "confirming", Nobody)

(* A failed renewal refuses the release: the owner file stays.             *)
Drain(c) ==
  renewing[c] = "off" /\ Branch(c, "draining", compromised[c], "refused", "confirming")

Confirm(c) == Branch(c, "confirming", files = {Own(c)}, "unlinking", "refused")

UnlinkOwn(c) ==
  \/ Own(c) \in files /\ Unlink(c) /\ Go(c, "unlinking", "removing", Nobody)
  \/ Own(c) \notin files /\ Move(c, "unlinking", "refused", Nobody)

RemoveOwnDir(c) == RemoveDir(c, "removing", "idle", "surveying")

(* The directory was reused: by one valid owner, or the release throws.    *)
Survey(c) ==
  \/ \E d \in Clients \ {c} : files = {Own(d)} /\ Move(c, "surveying", "identifying", d)
  \/ (\A d \in Clients \ {c} : files /= {Own(d)}) /\ Move(c, "surveying", "refused", Nobody)

Identify(c) ==
  \/ Own(seen[c]) \in files /\ Move(c, "identifying", "idle", Nobody)
  \/ Own(seen[c]) \notin files /\ Move(c, "identifying", "refused", Nobody)

ReleaseStep(c) == Confirm(c) \/ UnlinkOwn(c) \/ RemoveOwnDir(c) \/ Survey(c) \/ Identify(c)

(* A refused client that left nothing behind may acquire again. One whose  *)
(* file is still there meets it as any other contender would.              *)
Reopen(c) == {Own(c), Renewal(c)} \cap files = {} /\ Move(c, "refused", "idle", Nobody)

----------------------------------------------------------------------------
(* Time and death.                                                         *)

Expire(c) ==
  /\ c \in fresh
  /\ fresh' = fresh \ {c}
  /\ UNCHANGED <<present, files, alive, clientVars, beatVars>>

(* A process dies with all its clients; the directory stays as it is.      *)
Die(p) ==
  /\ p \in Mortal \cap alive
  /\ alive' = alive \ {p}
  /\ pc' = [c \in Clients |-> IF ProcessOf[c] = p THEN "dead" ELSE pc[c]]
  /\ seen' = [c \in Clients |-> IF ProcessOf[c] = p THEN Nobody ELSE seen[c]]
  /\ renewing' = [c \in Clients |-> IF ProcessOf[c] = p THEN "off" ELSE renewing[c]]
  /\ UNCHANGED <<dirVars, compromised>>

(* The lock root is a temporary directory: a cleaner, or a user who meets  *)
(* lock_timeout, may remove the lock. What the code calls compromised.     *)
Sweep ==
  /\ Swept /\ present
  /\ present' = FALSE /\ files' = {} /\ fresh' = {}
  /\ UNCHANGED <<alive, clientVars, beatVars>>

ClientStep(c) ==
  \/ StartAcquire(c) \/ Cancel(c) \/ TimeOut(c) \/ AcquireStep(c)
  \/ StartRenewal(c) \/ RenewalStep(c) \/ RenewalFault(c)
  \/ StartRelease(c) \/ Drain(c) \/ ReleaseStep(c) \/ Reopen(c)
  \/ Expire(c)

Next == (\E c \in Clients : ClientStep(c)) \/ (\E p \in Processes : Die(p)) \/ Sweep

Spec == Init /\ [][Next]_vars

(* A live client runs its calls to the end and keeps retrying until it     *)
(* times out or is cancelled; the ticks a release awaits are finitely      *)
(* many; leases expire. Nothing obliges a holder to release.               *)
Fairness ==
  \A c \in Clients :
    /\ WF_vars(AcquireStep(c)) /\ WF_vars(RenewalStep(c)) /\ WF_vars(ReleaseStep(c))
    /\ SF_vars(Drain(c)) /\ WF_vars(Expire(c))

FairSpec == Spec /\ Fairness

----------------------------------------------------------------------------
(* Types, and that entries lie in a directory.                             *)
LockTypeOK ==
  /\ present \in BOOLEAN
  /\ files \subseteq Files
  /\ files /= {} => present
  /\ fresh \subseteq Clients
  /\ alive \subseteq Processes
  /\ pc \in [Clients -> Pcs]
  /\ seen \in [Clients -> Clients \cup {Nobody}]
  /\ renewing \in [Clients -> Renewals]
  /\ compromised \in [Clients -> BOOLEAN]

(* Two clients never hold the lock together, whatever reclaimers, releases *)
(* and heartbeats interleave with publication (withLock, acquire).         *)
MutualExclusion ==
  \A c, d \in Clients : pc[c] \in Holding /\ pc[d] \in Holding => c = d

(* An owner file stands for a client that holds the lock, was refused or   *)
(* is dead: no late renewal or failed release leaves the lock taken by a   *)
(* live client that has forgotten it (renew, releaseOwner).                *)
NoForgottenLease ==
  \A c \in Clients : Own(c) \in files => pc[c] \in Holding \cup {"refused", "dead"}

(* Even when the directory is deleted under its owner, no reclaimer, no    *)
(* late renewal and no release removes the owner file of another live      *)
(* client, and none appears but by publication (reclaimStaleLease, renew). *)
LiveLeasesUndisturbed ==
  [][\A c \in Clients :
       /\ Own(c) \in files /\ Own(c) \notin files' /\ ProcessOf[c] \in alive
            => Sweep \/ pc[c] = "unlinking"
       /\ Own(c) \notin files /\ Own(c) \in files' => files = {}]_vars

(* The client whose owner file lies in the directory.                      *)
Owner ==
  IF \E c \in Clients : Own(c) \in files
    THEN CHOOSE c \in Clients : Own(c) \in files
    ELSE Nobody

Inside == {c \in Clients : pc[c] \in Holding}
Gone == {c \in Clients : pc[c] = "dead"}

Lease == INSTANCE ExclusiveLease WITH owner <- Owner, inside <- Inside, gone <- Gone

(* The directory protocol implements the lease: a live owner is never      *)
(* dispossessed (reclaimStaleLease, renew, releaseOwner).                  *)
LeaseSpec == Lease!Spec

(* A client that never gives up is not kept out for ever by the lease of a *)
(* dead process alone in the directory (reclaimStaleLease).                *)
AbandonedLeaseReclaimed ==
  \A c, d \in Clients :
    <>[](pc[c] \in Contending) => []<>~(files = {Own(d)} /\ pc[d] = "dead")

(* A release ends: by success, by refusal or with its process.             *)
ReleaseEnds ==
  \A c \in Clients : pc[c] \in Releasing ~> pc[c] \notin Releasing
=============================================================================
