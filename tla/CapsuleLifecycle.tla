--------------------------- MODULE CapsuleLifecycle ---------------------------
(***************************************************************************)
(* The life of a capsule package: import, trust, install request, the      *)
(* operator's ruling on it, activation in the personality slot,            *)
(* deactivation, removal and upgrade.  Every handler is one section of the *)
(* runtime mutex that ends with a transaction; the properties are about    *)
(* long sequences of them, with failed transactions and crashes.           *)
(*                                                                         *)
(* The code knows one slot id, slot.jimi.superstar.primary, whose binding  *)
(* and activation are one section, so the slot is the package it holds.    *)
(***************************************************************************)
EXTENDS Naturals, Sequences, FiniteSets

CONSTANTS
  Packages,         \* package ids
  Core,             \* package.jimi.superstar.core.v1
  MaxVersion,       \* bound: versions of a package
  MaxApprovals,     \* bound: install requests
  CockpitOperator,  \* rulings are made in the cockpit, on pending approvals only
  Faults            \* the faults that may happen, a subset of CapsuleFaultKinds

CapsuleFaultKinds == {"persist", "crash"}

Vacant == "vacant"

ASSUME PackageAssumption == Core \in Packages /\ Vacant \notin Packages
ASSUME CapsuleBoundAssumption == MaxVersion \in Nat \ {0} /\ MaxApprovals \in Nat
ASSUME OperatorAssumption ==
  CockpitOperator \in BOOLEAN /\ Faults \subseteq CapsuleFaultKinds

VARIABLES
  status,     \* package -> install_status, "absent" before it is registered
  trust,      \* package -> trust_level
  version,    \* package -> version
  slot,       \* the package the primary slot holds, or Vacant
  approvals,  \* install approvals, in the order of their ids
  ruling,     \* history: package -> the last decision on its installation
  disk        \* what the last transaction saved

vars == <<status, trust, version, slot, approvals, ruling, disk>>

House == [status |-> status, trust |-> trust, version |-> version, slot |-> slot,
          approvals |-> approvals, ruling |-> ruling]

Statuses == {"absent", "imported", "install_ready", "awaiting_approval",
             "approved_for_install", "install_denied", "installed", "available",
             "uninstalled", "upgrade_ready", "update_available"}

\* Only "internal" changes what the handlers do.
TrustLevels == {"internal", "unverified"}

Activatable == {"approved_for_install", "install_ready", "installed"}

Approval(p, t, s) == [package |-> p, trust |-> t, status |-> s]

ApprovalRecords ==
  [package : Packages, trust : TrustLevels, status : {"pending", "granted", "denied"}]

(* The verdict on the version that was current then. *)
Ruling(verdict, v) == [verdict |-> verdict, version |-> v]

Rulings ==
  [verdict : {"none", "internal", "granted", "denied"}, version : 0..MaxVersion]

HouseType(h) ==
  /\ h.status \in [Packages -> Statuses]
  /\ h.trust \in [Packages -> TrustLevels]
  /\ h.version \in [Packages -> 1..MaxVersion]
  /\ h.slot \in Packages \cup {Vacant}
  /\ h.approvals \in Seq(ApprovalRecords)
  /\ h.ruling \in [Packages -> Rulings]

TypeOK == HouseType(House) /\ HouseType(disk)

Init ==
  /\ status = [p \in Packages |-> "absent"]
  /\ trust = [p \in Packages |-> "unverified"]
  /\ version = [p \in Packages |-> 1]
  /\ slot = Vacant
  /\ approvals = << >>
  /\ ruling = [p \in Packages |-> Ruling("none", 0)]
  /\ disk = House

-----------------------------------------------------------------------------
(* The transaction every handler ends with: all rows of memory are written *)
(* over those on disk.  When it fails the handler answers with an error    *)
(* and memory keeps the change.                                            *)
Persist ==
  \/ disk' = House'
  \/ "persist" \in Faults /\ UNCHANGED disk

Registered(p) == status[p] # "absent"

UpdateInstallStatus(p, s) == status' = [status EXCEPT ![p] = s]

-----------------------------------------------------------------------------
(* Registration.                                                            *)

(* The core package is registered once, the slot bound to it every time,   *)
(* whatever has become of the package.                                     *)
BootstrapCoreCapsule ==
  /\ IF Registered(Core)
     THEN UNCHANGED <<status, trust, ruling>>
     ELSE /\ UpdateInstallStatus(Core, "installed")
          /\ trust' = [trust EXCEPT ![Core] = "internal"]
          /\ ruling' = [ruling EXCEPT ![Core] = Ruling("internal", 1)]
  /\ slot' = Core
  /\ UNCHANGED <<version, approvals>>
  /\ Persist

(* Mutant: register() takes ten strings; the last two are swapped. *)
ImportSwapped(p) ==
  /\ p # Core /\ ~Registered(p)
  /\ UpdateInstallStatus(p, "unverified")
  /\ trust' = [trust EXCEPT ![p] = "imported"]
  /\ UNCHANGED <<version, slot, approvals, ruling>>
  /\ Persist

(* Importing again adds an import record and changes no package. *)
ImportDemoCapsule(p) ==
  /\ p # Core
  /\ IF Registered(p)
     THEN UNCHANGED <<status, trust>>
     ELSE /\ UpdateInstallStatus(p, "imported")
          /\ trust' = [trust EXCEPT ![p] = "unverified"]
  /\ UNCHANGED <<version, slot, approvals, ruling>>
  /\ Persist

UpdateCapsuleTrust(p, t) ==
  /\ Registered(p)
  /\ trust' = [trust EXCEPT ![p] = t]
  /\ UNCHANGED <<status, version, slot, approvals, ruling>>
  /\ Persist

-----------------------------------------------------------------------------
(* Requests and rulings.                                                    *)

HasPending(p) ==
  \E i \in 1..Len(approvals) : approvals[i].package = p /\ approvals[i].status = "pending"

(* Refused for an installed package; a request that is still undecided is  *)
(* answered with its approval.  An internal package is ready at once, and  *)
(* asks for an approval all the same.                                      *)
RequestCapsuleInstall(p) ==
  /\ Registered(p) /\ status[p] # "installed" /\ ~HasPending(p)
  /\ Len(approvals) < MaxApprovals
  /\ IF trust[p] = "internal"
     THEN /\ UpdateInstallStatus(p, "install_ready")
          /\ ruling' = [ruling EXCEPT ![p] = Ruling("internal", version[p])]
     ELSE UpdateInstallStatus(p, "awaiting_approval") /\ UNCHANGED ruling
  /\ approvals' = Append(approvals, Approval(p, trust[p], "pending"))
  /\ UNCHANGED <<trust, version, slot>>
  /\ Persist

Open(i) == CockpitOperator => approvals[i].status = "pending"

Resolve(i, s) ==
  approvals' = [approvals EXCEPT ![i] = Approval(@.package, @.trust, s)]

(* Mutant: the package is forgotten, as if the action were a dispatch's. *)
GrantForgettingThePackage(i) ==
  /\ Open(i) /\ Resolve(i, "granted")
  /\ UNCHANGED <<status, trust, version, slot, ruling>>
  /\ Persist

(* The package is approved or denied whatever its status is by now. *)
GrantApproval(i) ==
  LET p == approvals[i].package IN
  /\ Open(i) /\ Resolve(i, "granted")
  /\ UpdateInstallStatus(p, "approved_for_install")
  /\ ruling' = [ruling EXCEPT ![p] = Ruling("granted", version[p])]
  /\ UNCHANGED <<trust, version, slot>>
  /\ Persist

DenyApproval(i) ==
  LET p == approvals[i].package IN
  /\ Open(i) /\ Resolve(i, "denied")
  /\ UpdateInstallStatus(p, "install_denied")
  /\ ruling' = [ruling EXCEPT ![p] = Ruling("denied", version[p])]
  /\ UNCHANGED <<trust, version, slot>>
  /\ Persist

-----------------------------------------------------------------------------
(* Activation, removal and upgrade.                                         *)

(* Mutant: the status is not looked at. *)
ActivateAnything(p) ==
  /\ Registered(p)
  /\ slot' = p
  /\ UpdateInstallStatus(p, "installed")
  /\ UNCHANGED <<trust, version, approvals, ruling>>
  /\ Persist

(* Takes the slot over from the package that held it, which stays          *)
(* "installed".                                                            *)
ActivateCapsulePackage(p) ==
  /\ status[p] \in Activatable
  /\ slot' = p
  /\ UpdateInstallStatus(p, "installed")
  /\ UNCHANGED <<trust, version, approvals, ruling>>
  /\ Persist

DeactivateCapsulePackage(p) ==
  /\ Registered(p) /\ slot = p
  /\ slot' = Vacant
  /\ UpdateInstallStatus(p, "available")
  /\ UNCHANGED <<trust, version, approvals, ruling>>
  /\ Persist

(* Mutant: the slot keeps the package. *)
UninstallLeavingTheSlot(p) ==
  /\ Registered(p)
  /\ UpdateInstallStatus(p, "uninstalled")
  /\ UNCHANGED <<trust, version, slot, approvals, ruling>>
  /\ Persist

UninstallCapsulePackage(p) ==
  /\ Registered(p)
  /\ slot' = IF slot = p THEN Vacant ELSE slot
  /\ UpdateInstallStatus(p, "uninstalled")
  /\ UNCHANGED <<trust, version, approvals, ruling>>
  /\ Persist

(* Mutant: the new version inherits the status of the old one. *)
UpgradeKeepingTheStatus(p) ==
  /\ Registered(p) /\ version[p] < MaxVersion
  /\ version' = [version EXCEPT ![p] = @ + 1]
  /\ UNCHANGED <<status, trust, slot, approvals, ruling>>
  /\ Persist

(* The slot goes on holding the package. *)
UpgradeCapsulePackage(p) ==
  /\ Registered(p) /\ version[p] < MaxVersion
  /\ version' = [version EXCEPT ![p] = @ + 1]
  /\ UpdateInstallStatus(p, IF status[p] = "installed" THEN "update_available"
                            ELSE "upgrade_ready")
  /\ UNCHANGED <<trust, slot, approvals, ruling>>
  /\ Persist

(* The house is what the last transaction saved. *)
CrashAndRestart ==
  /\ "crash" \in Faults
  /\ status' = disk.status /\ trust' = disk.trust /\ version' = disk.version
  /\ slot' = disk.slot /\ approvals' = disk.approvals /\ ruling' = disk.ruling
  /\ UNCHANGED disk

Next ==
  \/ BootstrapCoreCapsule
  \/ \E p \in Packages :
       \/ ImportDemoCapsule(p)
       \/ \E t \in TrustLevels : UpdateCapsuleTrust(p, t)
       \/ RequestCapsuleInstall(p)
       \/ ActivateCapsulePackage(p) \/ DeactivateCapsulePackage(p)
       \/ UninstallCapsulePackage(p) \/ UpgradeCapsulePackage(p)
  \/ \E i \in 1..Len(approvals) : GrantApproval(i) \/ DenyApproval(i)
  \/ CrashAndRestart

Spec == Init /\ [][Next]_vars

-----------------------------------------------------------------------------
(* Properties.                                                              *)

(* A package can be activated only if the last decision about it cleared   *)
(* it, as internal at a request or by a grant, and was taken on the        *)
(* version it has now: no denial, and no upgrade, is ever slipped past.    *)
ActivatableIsCleared ==
  \A p \in Packages : status[p] \in Activatable =>
    ruling[p].verdict \in {"internal", "granted"} /\ ruling[p].version = version[p]

(* An imported package in the slot got there by an install request made    *)
(* while it was internal, or one the operator granted; no order of trust   *)
(* changes, upgrades, evictions and restarts leads around that.            *)
ActiveWasCleared ==
  \A p \in Packages \ {Core} : slot = p =>
    \E i \in 1..Len(approvals) :
      /\ approvals[i].package = p
      /\ approvals[i].status = "granted" \/ approvals[i].trust = "internal"

(* An imported package that was only imported, was deactivated or was      *)
(* uninstalled does not hold the slot (deactivate_capsule_package and      *)
(* uninstall_capsule_package unbind it, and no ruling that comes late, no  *)
(* eviction and no crash between the two binds it again).                  *)
ReleasedIsNotActive ==
  \A p \in Packages \ {Core} :
    status[p] \in {"imported", "available", "uninstalled"} => slot # p

(* A package that waits for an approval has one, and only one, the         *)
(* operator can rule on: it is never stuck.                                *)
AwaitingIsDecidable ==
  \A p \in Packages : status[p] = "awaiting_approval" =>
    \E i \in 1..Len(approvals) :
      /\ approvals[i].package = p /\ approvals[i].status = "pending"
      /\ \A j \in 1..Len(approvals) \ {i} :
           approvals[j].package = p => approvals[j].status # "pending"

(* "The package is no longer installed" (cockpit.html:845, for the status  *)
(* "uninstalled"): the slot does not hold it.                              *)
UninstalledIsNotActive ==
  \A p \in Packages : status[p] = "uninstalled" => slot # p

=============================================================================
