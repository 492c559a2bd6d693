------------------------ MODULE CapsuleLifecycleProofs ------------------------
(***************************************************************************)
(* Theorems about CapsuleLifecycle, for every set of packages, every bound *)
(* and every choice of faults.                                             *)
(***************************************************************************)
EXTENDS CapsuleLifecycle, SequenceTheorems, TLAPS

Evidence(ap, p) ==
  \E i \in 1..Len(ap) :
    /\ ap[i].package = p
    /\ ap[i].status = "granted" \/ ap[i].trust = "internal"

Pending(ap, p, i) == ap[i].package = p /\ ap[i].status = "pending"

Types(st, tr, ve, sl, ap, ru) ==
  /\ st \in [Packages -> Statuses] /\ tr \in [Packages -> TrustLevels]
  /\ ve \in [Packages -> 1..MaxVersion] /\ sl \in Packages \cup {Vacant}
  /\ ap \in Seq(ApprovalRecords) /\ ru \in [Packages -> Rulings]

\* A package nobody registered yet is at its first version.
Fresh(st, ve) == \A p \in Packages : st[p] = "absent" => ve[p] = 1

Cleared(st, ve, ru) ==
  \A p \in Packages : st[p] \in Activatable =>
    ru[p].verdict \in {"internal", "granted"} /\ ru[p].version = ve[p]

\* Not only the package in the slot: every one that could be put there.
Warranted(st, sl, ap) ==
  CockpitOperator =>
    \A p \in Packages \ {Core} : sl = p \/ st[p] \in Activatable => Evidence(ap, p)

Out(st, sl) ==
  \A p \in Packages \ {Core} :
    st[p] \in {"absent", "imported", "available", "uninstalled"} => sl # p

\* A package has at most one undecided request, and has one while it waits.
Decidable(st, ap) ==
  /\ \A p \in Packages : \A i, j \in 1..Len(ap) :
       Pending(ap, p, i) /\ Pending(ap, p, j) => i = j
  /\ \A p \in Packages : st[p] = "awaiting_approval" =>
       \E i \in 1..Len(ap) : Pending(ap, p, i)

Sound(st, tr, ve, sl, ap, ru) ==
  /\ Types(st, tr, ve, sl, ap, ru) /\ Fresh(st, ve) /\ Cleared(st, ve, ru)
  /\ Warranted(st, sl, ap) /\ Out(st, sl) /\ Decidable(st, ap)

Memory == Sound(status, trust, version, slot, approvals, ruling)

Saved ==
  Sound(disk.status, disk.trust, disk.version, disk.slot, disk.approvals, disk.ruling)

CapsuleInv == Memory /\ Saved

\* What is saved is what memory is, or what was saved before.
LEMMA PersistSaves ==
  ASSUME CapsuleInv, Memory', Persist
  PROVE  CapsuleInv'
BY DEF CapsuleInv, Memory, Saved, Persist, House

LEMMA InitInv == Init => CapsuleInv
<1> SUFFICES ASSUME Init PROVE CapsuleInv
  OBVIOUS
<1> USE PackageAssumption, CapsuleBoundAssumption DEF Init
<1>1. Types(status, trust, version, slot, approvals, ruling)
  BY DEF Types, Statuses, TrustLevels, Rulings, Ruling
<1>2. Fresh(status, version) /\ Cleared(status, version, ruling) /\ Out(status, slot)
  BY DEF Fresh, Cleared, Out, Activatable
<1>3. Warranted(status, slot, approvals) /\ Decidable(status, approvals)
  BY DEF Warranted, Decidable, Activatable
<1>4. Memory
  BY <1>1, <1>2, <1>3 DEF Memory, Sound
<1> QED
  BY <1>4 DEF CapsuleInv, Memory, Saved, House

-----------------------------------------------------------------------------
(* What rulings and requests do to the approvals.                           *)

LEMMA Resolved ==
  ASSUME Memory, NEW i \in 1..Len(approvals), NEW s \in {"granted", "denied"}, Resolve(i, s)
  PROVE  /\ approvals' \in Seq(ApprovalRecords) /\ Len(approvals') = Len(approvals)
         /\ approvals[i].package \in Packages
         /\ approvals'[i] = Approval(approvals[i].package, approvals[i].trust, s)
         /\ \A j \in 1..Len(approvals) : j # i => approvals'[j] = approvals[j]
<1> DEFINE e == Approval(approvals[i].package, approvals[i].trust, s)
<1>1. approvals \in Seq(ApprovalRecords) /\ approvals[i] \in ApprovalRecords
  BY DEF Memory, Sound, Types
<1>2. e \in ApprovalRecords
  BY <1>1 DEF ApprovalRecords, Approval
<1>3. approvals' = [approvals EXCEPT ![i] = e]
  BY DEF Resolve
<1> HIDE DEF e
<1>4. /\ approvals' \in Seq(ApprovalRecords) /\ Len(approvals') = Len(approvals)
      /\ \A j \in 1..Len(approvals) : approvals'[j] = IF j = i THEN e ELSE approvals[j]
  BY <1>1, <1>2, <1>3, ExceptSeq
<1>5. approvals[i].package \in Packages
  BY <1>1 DEF ApprovalRecords
<1> QED
  BY <1>4, <1>5 DEF e

\* The evidence for another package, and in the cockpit for every package,
\* outlives a ruling; no request becomes pending by one.
LEMMA ResolvedKeeps ==
  ASSUME Memory, NEW i \in 1..Len(approvals), NEW s \in {"granted", "denied"},
         Resolve(i, s), Open(i)
  PROVE  /\ CockpitOperator => \A p \in Packages : Evidence(approvals, p) => Evidence(approvals', p)
         /\ s = "granted" => Evidence(approvals', approvals[i].package)
         /\ \A p \in Packages, j \in 1..Len(approvals) :
              /\ Pending(approvals', p, j) => Pending(approvals, p, j)
              /\ p # approvals[i].package =>
                   (Pending(approvals', p, j) <=> Pending(approvals, p, j))
<1>1. CockpitOperator => approvals[i].status = "pending"
  BY DEF Open
<1>2. /\ approvals'[i].package = approvals[i].package
      /\ approvals'[i].trust = approvals[i].trust /\ approvals'[i].status = s
      /\ Len(approvals') = Len(approvals)
      /\ \A j \in 1..Len(approvals) : j # i => approvals'[j] = approvals[j]
  <2>1. /\ approvals'[i] = Approval(approvals[i].package, approvals[i].trust, s)
        /\ Len(approvals') = Len(approvals)
        /\ \A j \in 1..Len(approvals) : j # i => approvals'[j] = approvals[j]
    BY Resolved
  <2> QED
    BY <2>1 DEF Approval
<1>3. ASSUME CockpitOperator, NEW p \in Packages, Evidence(approvals, p)
      PROVE  Evidence(approvals', p)
  <2>1. PICK j \in 1..Len(approvals) :
          /\ approvals[j].package = p
          /\ approvals[j].status = "granted" \/ approvals[j].trust = "internal"
    BY <1>3 DEF Evidence
  <2>2. CASE j = i
    BY <1>1, <1>2, <1>3, <2>1, <2>2 DEF Evidence
  <2>3. CASE j # i
    BY <1>2, <2>1, <2>3 DEF Evidence
  <2> QED
    BY <2>2, <2>3
<1>4. s = "granted" => Evidence(approvals', approvals[i].package)
  BY <1>2 DEF Evidence
<1>5. ASSUME NEW p \in Packages, NEW j \in 1..Len(approvals)
      PROVE  /\ Pending(approvals', p, j) => Pending(approvals, p, j)
             /\ p # approvals[i].package =>
                  (Pending(approvals', p, j) <=> Pending(approvals, p, j))
  BY <1>2 DEF Pending
<1> QED
  BY <1>3, <1>4, <1>5

LEMMA Requested ==
  ASSUME Memory, NEW p \in Packages, approvals' = Append(approvals, Approval(p, trust[p], "pending"))
  PROVE  /\ approvals' \in Seq(ApprovalRecords) /\ Len(approvals') = Len(approvals) + 1
         /\ Len(approvals) \in Nat
         /\ approvals'[Len(approvals) + 1] = Approval(p, trust[p], "pending")
         /\ \A j \in 1..Len(approvals) : approvals'[j] = approvals[j]
<1> DEFINE e == Approval(p, trust[p], "pending")
<1>1. approvals \in Seq(ApprovalRecords)
  BY DEF Memory, Sound, Types
<1>2. e \in ApprovalRecords
  BY DEF ApprovalRecords, Approval, Memory, Sound, Types
<1> HIDE DEF e
<1>3. /\ approvals' \in Seq(ApprovalRecords) /\ Len(approvals') = Len(approvals) + 1
      /\ Len(approvals) \in Nat /\ approvals'[Len(approvals) + 1] = e
      /\ \A j \in 1..Len(approvals) : approvals'[j] = approvals[j]
  BY <1>1, <1>2 DEF e
<1> QED
  BY <1>3 DEF e

-----------------------------------------------------------------------------
(* One lemma per handler: memory stays sound.                               *)

\* The status of one package changes.
LEMMA StatusTyped ==
  ASSUME Memory, NEW p \in Packages, NEW s \in Statuses, UpdateInstallStatus(p, s)
  PROVE  /\ status' \in [Packages -> Statuses] /\ status'[p] = s
         /\ \A q \in Packages : q # p => status'[q] = status[q]
BY DEF Memory, Sound, Types, UpdateInstallStatus

LEMMA BootstrapKeeps == ASSUME CapsuleInv, BootstrapCoreCapsule PROVE CapsuleInv'
<1> USE PackageAssumption, CapsuleBoundAssumption
<1>0. Memory /\ Sound(status, trust, version, slot, approvals, ruling)
  BY DEF CapsuleInv, Memory
<1>1. /\ status' \in [Packages -> Statuses] /\ trust' \in [Packages -> TrustLevels]
      /\ ruling' \in [Packages -> Rulings]
      /\ \A q \in Packages \ {Core} : status'[q] = status[q] /\ ruling'[q] = ruling[q]
      /\ Registered(Core) => status' = status /\ ruling' = ruling
      /\ ~Registered(Core) =>
           status'[Core] = "installed" /\ ruling'[Core] = Ruling("internal", 1)
  <2>1. Ruling("internal", 1) \in Rulings
    BY DEF Ruling, Rulings
  <2>2. CASE Registered(Core)
    BY <1>0, <2>2 DEF BootstrapCoreCapsule, Sound, Types
  <2>3. CASE ~Registered(Core)
    BY <1>0, <2>1, <2>3 DEF BootstrapCoreCapsule, UpdateInstallStatus, Sound, Types,
       Statuses, TrustLevels
  <2> QED
    BY <2>2, <2>3
<1>2. slot' = Core /\ version' = version /\ approvals' = approvals /\ Persist
  BY DEF BootstrapCoreCapsule
<1>3. Types(status', trust', version', slot', approvals', ruling')
  BY <1>0, <1>1, <1>2 DEF Sound, Types
<1>4. Fresh(status', version')
  BY <1>0, <1>1, <1>2 DEF Sound, Fresh
<1>5. Cleared(status', version', ruling')
  BY <1>0, <1>1, <1>2 DEF Sound, Cleared, Fresh, Registered, Ruling
<1>6. Warranted(status', slot', approvals') /\ Out(status', slot')
  BY <1>0, <1>1, <1>2 DEF Sound, Warranted, Out
<1>7. Decidable(status', approvals')
  BY <1>0, <1>1, <1>2 DEF Sound, Decidable
<1> QED
  BY <1>2, <1>3, <1>4, <1>5, <1>6, <1>7, PersistSaves DEF Sound, Memory

LEMMA ImportKeeps ==
  ASSUME CapsuleInv, NEW p \in Packages, ImportDemoCapsule(p) PROVE CapsuleInv'
<1>0. Memory /\ Sound(status, trust, version, slot, approvals, ruling)
  BY DEF CapsuleInv, Memory
<1>1. /\ status' \in [Packages -> Statuses] /\ trust' \in [Packages -> TrustLevels]
      /\ \A q \in Packages \ {p} : status'[q] = status[q]
      /\ status[p] = "absent" => status'[p] = "imported"
      /\ status[p] # "absent" => status'[p] = status[p]
  BY <1>0 DEF ImportDemoCapsule, UpdateInstallStatus, Registered, Sound, Types, Statuses,
     TrustLevels
<1>2. /\ version' = version /\ slot' = slot /\ approvals' = approvals
      /\ ruling' = ruling /\ Persist
  BY DEF ImportDemoCapsule
<1>3. Types(status', trust', version', slot', approvals', ruling')
  BY <1>0, <1>1, <1>2 DEF Sound, Types
<1>4. Fresh(status', version') /\ Cleared(status', version', ruling')
  BY <1>0, <1>1, <1>2 DEF Sound, Fresh, Cleared, Activatable
<1>5. Warranted(status', slot', approvals') /\ Out(status', slot')
  BY <1>0, <1>1, <1>2 DEF Sound, Warranted, Out, Activatable
<1>6. Decidable(status', approvals')
  BY <1>0, <1>1, <1>2 DEF Sound, Decidable
<1> QED
  BY <1>2, <1>3, <1>4, <1>5, <1>6, PersistSaves DEF Sound, Memory

LEMMA TrustKeeps ==
  ASSUME CapsuleInv, NEW p \in Packages, NEW t \in TrustLevels, UpdateCapsuleTrust(p, t)
  PROVE  CapsuleInv'
<1>0. Memory /\ Sound(status, trust, version, slot, approvals, ruling)
  BY DEF CapsuleInv, Memory
<1>1. trust' \in [Packages -> TrustLevels]
  BY <1>0 DEF UpdateCapsuleTrust, Sound, Types
<1>2. /\ status' = status /\ version' = version /\ slot' = slot
      /\ approvals' = approvals /\ ruling' = ruling /\ Persist
  BY DEF UpdateCapsuleTrust
<1> QED
  BY <1>0, <1>1, <1>2, PersistSaves DEF Sound, Memory, Types

LEMMA RequestKeeps ==
  ASSUME CapsuleInv, NEW p \in Packages, RequestCapsuleInstall(p) PROVE CapsuleInv'
<1>0. Memory /\ Sound(status, trust, version, slot, approvals, ruling)
  BY DEF CapsuleInv, Memory
<1> DEFINE n == Len(approvals) + 1
<1>1. /\ approvals' = Append(approvals, Approval(p, trust[p], "pending"))
      /\ trust' = trust /\ version' = version /\ slot' = slot /\ Persist
      /\ Registered(p) /\ ~HasPending(p)
  BY DEF RequestCapsuleInstall
<1>2. /\ approvals' \in Seq(ApprovalRecords) /\ Len(approvals') = n /\ Len(approvals) \in Nat
      /\ approvals'[n] = Approval(p, trust[p], "pending")
      /\ \A j \in 1..Len(approvals) : approvals'[j] = approvals[j]
  BY <1>0, <1>1, Requested
<1> HIDE DEF n
<1>3. 1..n = 1..Len(approvals) \cup {n} /\ n \notin 1..Len(approvals)
  BY <1>2 DEF n
<1>4. /\ status' \in [Packages -> Statuses] /\ ruling' \in [Packages -> Rulings]
      /\ \A q \in Packages \ {p} : status'[q] = status[q] /\ ruling'[q] = ruling[q]
      /\ \/ /\ trust[p] = "internal" /\ status'[p] = "install_ready"
            /\ ruling'[p] = Ruling("internal", version[p])
         \/ /\ trust[p] # "internal" /\ status'[p] = "awaiting_approval"
  <2>1. Ruling("internal", version[p]) \in Rulings
    BY <1>0, CapsuleBoundAssumption DEF Ruling, Rulings, Sound, Types
  <2>2. CASE trust[p] = "internal"
    BY <1>0, <2>1, <2>2 DEF RequestCapsuleInstall, UpdateInstallStatus, Sound, Types, Statuses
  <2>3. CASE trust[p] # "internal"
    BY <1>0, <2>3 DEF RequestCapsuleInstall, UpdateInstallStatus, Sound, Types, Statuses
  <2> QED
    BY <2>2, <2>3
<1>5. Types(status', trust', version', slot', approvals', ruling')
  BY <1>0, <1>1, <1>2, <1>4 DEF Sound, Types
<1>6. Fresh(status', version') /\ Cleared(status', version', ruling')
  BY <1>0, <1>1, <1>4 DEF Sound, Fresh, Cleared, Activatable, Ruling
<1>7. \A q \in Packages : Evidence(approvals, q) => Evidence(approvals', q)
  BY <1>2, <1>3 DEF Evidence
<1>8. trust[p] = "internal" => Evidence(approvals', p)
  BY <1>2, <1>3 DEF Evidence, Approval
<1>9. Warranted(status', slot', approvals')
  <2>1. trust[p] # "internal" /\ slot = p /\ CockpitOperator /\ p # Core
          => Evidence(approvals', p)
    BY <1>0, <1>7 DEF Sound, Warranted
  <2> QED
    BY <1>0, <1>1, <1>4, <1>7, <1>8, <2>1 DEF Sound, Warranted, Activatable
<1>10. Out(status', slot')
  BY <1>0, <1>1, <1>4 DEF Sound, Out
<1>11. Decidable(status', approvals')
  <2>1. \A q \in Packages, j \in 1..Len(approvals) :
          Pending(approvals', q, j) <=> Pending(approvals, q, j)
    BY <1>2 DEF Pending
  <2>2. \A q \in Packages : Pending(approvals', q, n) <=> q = p
    BY <1>2 DEF Pending, Approval
  <2>3. \A j \in 1..Len(approvals) : ~Pending(approvals, p, j)
    BY <1>1 DEF HasPending, Pending
  <2>4. \A q \in Packages : \A i, j \in 1..Len(approvals') :
          Pending(approvals', q, i) /\ Pending(approvals', q, j) => i = j
    BY <1>0, <1>2, <1>3, <2>1, <2>2, <2>3 DEF Sound, Decidable
  <2>5. \A q \in Packages : status'[q] = "awaiting_approval" =>
          \E i \in 1..Len(approvals') : Pending(approvals', q, i)
    BY <1>0, <1>2, <1>3, <1>4, <2>1, <2>2 DEF Sound, Decidable
  <2> QED
    BY <2>4, <2>5 DEF Decidable
<1> QED
  BY <1>1, <1>5, <1>6, <1>9, <1>10, <1>11, PersistSaves DEF Sound, Memory

\* Both rulings.
LEMMA RulingKeeps ==
  ASSUME CapsuleInv, NEW i \in 1..Len(approvals), Open(i), Persist,
         NEW s \in {"granted", "denied"}, Resolve(i, s), NEW p, p = approvals[i].package,
         UpdateInstallStatus(p, IF s = "granted" THEN "approved_for_install" ELSE "install_denied"),
         ruling' = [ruling EXCEPT ![p] = Ruling(s, version[p])],
         UNCHANGED <<trust, version, slot>>
  PROVE  CapsuleInv'
<1>0. Memory /\ Sound(status, trust, version, slot, approvals, ruling)
  BY DEF CapsuleInv, Memory
<1>1. p \in Packages /\ approvals' \in Seq(ApprovalRecords) /\ Len(approvals') = Len(approvals)
  BY <1>0, Resolved
<1>2. /\ status' \in [Packages -> Statuses] /\ ruling' \in [Packages -> Rulings]
      /\ \A q \in Packages \ {p} : status'[q] = status[q] /\ ruling'[q] = ruling[q]
      /\ status'[p] = (IF s = "granted" THEN "approved_for_install" ELSE "install_denied")
      /\ ruling'[p] = Ruling(s, version[p])
  BY <1>0, <1>1 DEF UpdateInstallStatus, Sound, Types, Statuses, Rulings, Ruling
<1>3. Types(status', trust', version', slot', approvals', ruling')
  BY <1>0, <1>1, <1>2 DEF Sound, Types
<1>4. Fresh(status', version') /\ Cleared(status', version', ruling')
  BY <1>0, <1>1, <1>2 DEF Sound, Fresh, Cleared, Activatable, Ruling
<1>5. Warranted(status', slot', approvals')
  BY <1>0, <1>1, <1>2, ResolvedKeeps DEF Sound, Warranted, Activatable
<1>6. Out(status', slot')
  BY <1>0, <1>1, <1>2 DEF Sound, Out
<1>7. Decidable(status', approvals')
  <2>1. /\ \A q \in Packages, j \in 1..Len(approvals) :
             /\ Pending(approvals', q, j) => Pending(approvals, q, j)
             /\ q # p => (Pending(approvals', q, j) <=> Pending(approvals, q, j))
    BY <1>0, ResolvedKeeps
  <2> QED
    BY <1>0, <1>1, <1>2, <2>1 DEF Sound, Decidable
<1> QED
  BY <1>3, <1>4, <1>5, <1>6, <1>7, PersistSaves DEF Sound, Memory

LEMMA ActivateKeeps ==
  ASSUME CapsuleInv, NEW p \in Packages, ActivateCapsulePackage(p) PROVE CapsuleInv'
<1>0. Memory /\ Sound(status, trust, version, slot, approvals, ruling)
  BY DEF CapsuleInv, Memory
<1>1. /\ status[p] \in Activatable /\ slot' = p /\ trust' = trust /\ version' = version
      /\ approvals' = approvals /\ ruling' = ruling /\ Persist
  BY DEF ActivateCapsulePackage
<1>2. /\ status' \in [Packages -> Statuses] /\ status'[p] = "installed"
      /\ \A q \in Packages : q # p => status'[q] = status[q]
  BY <1>0, StatusTyped DEF ActivateCapsulePackage, Statuses
<1>3. Types(status', trust', version', slot', approvals', ruling')
  BY <1>0, <1>1, <1>2 DEF Sound, Types
<1>4. Fresh(status', version') /\ Cleared(status', version', ruling')
  BY <1>0, <1>1, <1>2 DEF Sound, Fresh, Cleared
<1>5. Warranted(status', slot', approvals') /\ Out(status', slot')
  BY <1>0, <1>1, <1>2 DEF Sound, Warranted, Out
<1>6. Decidable(status', approvals')
  BY <1>0, <1>1, <1>2 DEF Sound, Decidable
<1> QED
  BY <1>1, <1>3, <1>4, <1>5, <1>6, PersistSaves DEF Sound, Memory

\* Deactivation and removal: the slot holds the package no longer.
LEMMA ReleaseKeeps ==
  ASSUME CapsuleInv, NEW p \in Packages, NEW s \in {"available", "uninstalled"},
         UpdateInstallStatus(p, s), slot' = IF slot = p THEN Vacant ELSE slot,
         UNCHANGED <<trust, version, approvals, ruling>>, Persist
  PROVE  CapsuleInv'
<1> USE PackageAssumption
<1>0. Memory /\ Sound(status, trust, version, slot, approvals, ruling)
  BY DEF CapsuleInv, Memory
<1>1. /\ slot' # p /\ slot' \in {slot, Vacant} /\ trust' = trust /\ version' = version
      /\ approvals' = approvals /\ ruling' = ruling
  OBVIOUS
<1>2. /\ status' \in [Packages -> Statuses] /\ status'[p] = s
      /\ \A q \in Packages : q # p => status'[q] = status[q]
  BY <1>0, StatusTyped DEF Statuses
<1>3. Types(status', trust', version', slot', approvals', ruling')
  BY <1>0, <1>1, <1>2 DEF Sound, Types
<1>4. Fresh(status', version') /\ Cleared(status', version', ruling')
  BY <1>0, <1>1, <1>2 DEF Sound, Fresh, Cleared, Activatable
<1>5. Warranted(status', slot', approvals') /\ Out(status', slot')
  BY <1>0, <1>1, <1>2 DEF Sound, Warranted, Out, Activatable
<1>6. Decidable(status', approvals')
  BY <1>0, <1>1, <1>2 DEF Sound, Decidable
<1> QED
  BY <1>3, <1>4, <1>5, <1>6, PersistSaves DEF Sound, Memory

LEMMA UpgradeKeeps ==
  ASSUME CapsuleInv, NEW p \in Packages, UpgradeCapsulePackage(p) PROVE CapsuleInv'
<1> USE CapsuleBoundAssumption
<1>0. Memory /\ Sound(status, trust, version, slot, approvals, ruling)
  BY DEF CapsuleInv, Memory
<1>1. /\ version' \in [Packages -> 1..MaxVersion]
      /\ \A q \in Packages : q # p => version'[q] = version[q]
      /\ trust' = trust /\ slot' = slot /\ approvals' = approvals /\ ruling' = ruling
      /\ status[p] # "absent" /\ Persist
  BY <1>0 DEF UpgradeCapsulePackage, Registered, Sound, Types
<1>2. /\ status' \in [Packages -> Statuses]
      /\ status'[p] \in {"update_available", "upgrade_ready"}
      /\ \A q \in Packages : q # p => status'[q] = status[q]
  <2>1. PICK s \in {"update_available", "upgrade_ready"} : UpdateInstallStatus(p, s)
    BY DEF UpgradeCapsulePackage
  <2> QED
    BY <1>0, <2>1, StatusTyped DEF Statuses
<1>3. Types(status', trust', version', slot', approvals', ruling')
  BY <1>0, <1>1, <1>2 DEF Sound, Types
<1>4. Fresh(status', version') /\ Cleared(status', version', ruling')
  BY <1>0, <1>1, <1>2 DEF Sound, Fresh, Cleared, Activatable
<1>5. Warranted(status', slot', approvals') /\ Out(status', slot')
  BY <1>0, <1>1, <1>2 DEF Sound, Warranted, Out, Activatable
<1>6. Decidable(status', approvals')
  BY <1>0, <1>1, <1>2 DEF Sound, Decidable
<1> QED
  BY <1>1, <1>3, <1>4, <1>5, <1>6, PersistSaves DEF Sound, Memory

LEMMA StepInv == ASSUME CapsuleInv, [Next]_vars PROVE CapsuleInv'
<1>1. CASE UNCHANGED vars
  BY <1>1 DEF vars, CapsuleInv, Memory, Saved
<1>2. CASE BootstrapCoreCapsule
  BY <1>2, BootstrapKeeps
<1>3. CASE \E p \in Packages : ImportDemoCapsule(p)
  BY <1>3, ImportKeeps
<1>4. CASE \E p \in Packages : \E t \in TrustLevels : UpdateCapsuleTrust(p, t)
  BY <1>4, TrustKeeps
<1>5. CASE \E p \in Packages : RequestCapsuleInstall(p)
  BY <1>5, RequestKeeps
<1>6. CASE \E p \in Packages : ActivateCapsulePackage(p)
  BY <1>6, ActivateKeeps
<1>7. CASE \E p \in Packages : DeactivateCapsulePackage(p)
  BY <1>7, ReleaseKeeps DEF DeactivateCapsulePackage
<1>8. CASE \E p \in Packages : UninstallCapsulePackage(p)
  BY <1>8, ReleaseKeeps DEF UninstallCapsulePackage
<1>9. CASE \E p \in Packages : UpgradeCapsulePackage(p)
  BY <1>9, UpgradeKeeps
<1>10. CASE \E i \in 1..Len(approvals) : GrantApproval(i)
  <2>1. PICK i \in 1..Len(approvals) : GrantApproval(i)
    BY <1>10
  <2> QED
    BY <2>1, RulingKeeps DEF GrantApproval
<1>11. CASE \E i \in 1..Len(approvals) : DenyApproval(i)
  <2>1. PICK i \in 1..Len(approvals) : DenyApproval(i)
    BY <1>11
  <2> QED
    BY <2>1, RulingKeeps DEF DenyApproval
<1>12. CASE CrashAndRestart
  BY <1>12 DEF CrashAndRestart, CapsuleInv, Memory, Saved
<1> QED
  BY <1>1, <1>2, <1>3, <1>4, <1>5, <1>6, <1>7, <1>8, <1>9, <1>10, <1>11, <1>12 DEF Next

LEMMA SpecInv == Spec => []CapsuleInv
BY InitInv, StepInv, PTL DEF Spec

-----------------------------------------------------------------------------
(* The theorems.                                                            *)

\* Every variable keeps its domain, in memory and on disk.
THEOREM CapsuleTypes == Spec => []TypeOK
<1>1. CapsuleInv => TypeOK
  BY DEF CapsuleInv, Memory, Saved, Sound, Types, TypeOK, HouseType, House
<1> QED
  BY <1>1, SpecInv, PTL

\* activate_capsule_package never finds a package activatable whose last
\* ruling was a denial, or was about an earlier version.
THEOREM NothingSlipsPast == Spec => []ActivatableIsCleared
<1>1. CapsuleInv => ActivatableIsCleared
  BY DEF CapsuleInv, Memory, Sound, Cleared, ActivatableIsCleared
<1> QED
  BY <1>1, SpecInv, PTL

\* With rulings on pending approvals only, as the cockpit offers them, an
\* imported package holds the slot on the strength of one of its requests.
THEOREM NoWayAround == CockpitOperator /\ Spec => []ActiveWasCleared
<1>1. CockpitOperator /\ CapsuleInv => ActiveWasCleared
  BY DEF CapsuleInv, Memory, Sound, Warranted, Evidence, ActiveWasCleared
<1>2. CockpitOperator => [](CapsuleInv => ActiveWasCleared)
  <2>1. SUFFICES ASSUME CockpitOperator PROVE [](CapsuleInv => ActiveWasCleared)
    OBVIOUS
  <2>2. CapsuleInv => ActiveWasCleared
    BY <1>1, <2>1
  <2> QED
    BY <2>2, PTL
<1> QED
  BY <1>2, SpecInv, PTL

\* What was released by the handlers stays out of the slot.
THEOREM ReleasedStaysOut == Spec => []ReleasedIsNotActive
<1>1. CapsuleInv => ReleasedIsNotActive
  BY DEF CapsuleInv, Memory, Sound, Out, ReleasedIsNotActive
<1> QED
  BY <1>1, SpecInv, PTL

\* A package that waits for the operator has exactly one request to rule on.
THEOREM WaitingIsNeverStuck == Spec => []AwaitingIsDecidable
<1>1. ASSUME CapsuleInv PROVE AwaitingIsDecidable
  <2>1. Decidable(status, approvals)
    BY <1>1 DEF CapsuleInv, Memory, Sound
  <2> QED
    BY <2>1 DEF Decidable, Pending, AwaitingIsDecidable
<1> QED
  BY <1>1, SpecInv, PTL

==============================================================================
