----------------------------- MODULE Inspection -----------------------------
(***************************************************************************)
(* qosfabric_cli status and verify on a directory whose owner is at work.  *)
(* Both open the registry observationally (claim_authority = false), which *)
(* spares the epoch and the leases; the Store under it opens as it always  *)
(* does, and closes with a clean-shutdown record of its own.  Nothing      *)
(* locks the directory, so the steps of the two Store objects interleave.  *)
(*                                                                         *)
(* The inspections modelled find a usable manifest with an identity, and   *)
(* see the owner's appends whole.                                          *)
(***************************************************************************)
EXTENDS Store

CONSTANT MaxInspections    \* bound on the inspections of a behaviour

VARIABLES
  inspector,     (* the Store object of the inspecting process             *)
  inspections    (* how many have begun                                    *)

inspection == <<inspector, inspections>>

(* at: the step its open has reached; snapshot, last, used: as in Store;   *)
(* listed: the snapshot files list_directory returned; current: is the log *)
(* it has open still the one in the directory.                             *)
NoInspector ==
  [at |-> "away", snapshot |-> 0, last |-> 0, used |-> 0, listed |-> {}, current |-> FALSE]

keepsOwner == <<object, owner, hist, manifest, inspections>>

(* load_manifest.                                                          *)
InspectManifest ==
  /\ inspector.at = "away"
  /\ inspections < MaxInspections
  /\ ManifestUsable /\ manifest.id # 0
  /\ inspector' = [NoInspector EXCEPT !.at = "listing", !.snapshot = manifest.snapshot,
                                      !.last = manifest.last]
  /\ inspections' = inspections + 1
  /\ UNCHANGED <<disk, object, owner, hist>>

InspectDirectory ==
  /\ inspector.at = "listing"
  /\ inspector' = [inspector EXCEPT !.at = "reading", !.listed = DOMAIN snapshots]
  /\ UNCHANGED <<keepsOwner, snapshots, wal>>

(* load_snapshot and replay_log, without repair.  A snapshot that has been *)
(* removed since, or a log that is refused, ends the inspection.           *)
InspectRecords ==
  /\ inspector.at = "reading"
  /\ IF inspector.snapshot \notin DOMAIN snapshots \union {0} \/ Refuses(wal, FALSE)
       THEN inspector' = NoInspector /\ UNCHANGED wal
       ELSE /\ wal' = Truncated(wal)
            /\ inspector' = [inspector EXCEPT
                               !.at = "retiring",
                               !.last = HighestSequence(GoodPrefix(wal), @),
                               !.used = Len(GoodPrefix(wal))]
  /\ UNCHANGED <<keepsOwner, snapshots>>

(* The listed snapshot files its manifest does not name are taken for      *)
(* orphans; then the log is opened for appending.                          *)
InspectRetireOrphans ==
  /\ inspector.at = "retiring"
  /\ snapshots' = [s \in DOMAIN snapshots \ (inspector.listed \ {inspector.snapshot}) |->
                     snapshots[s]]
  /\ inspector' = [inspector EXCEPT !.at = "open", !.current = TRUE]
  /\ UNCHANGED <<keepsOwner, wal>>

(* Close: the shutdown record goes to the log the inspector has open.      *)
InspectClose ==
  /\ inspector.at = "open"
  /\ wal' = IF inspector.current /\ inspector.used < MaxWalFrames
                     /\ inspector.last < MaxSequence
              THEN Append(wal, Frame("shutdown", inspector.last + 1, 0, NoValue))
              ELSE wal
  /\ inspector' = NoInspector
  /\ UNCHANGED <<keepsOwner, snapshots>>

-----------------------------------------------------------------------------
(* The owner's steps.  Replacing the log leaves the inspector with the old *)
(* one.                                                                    *)
OwnerStep ==
  /\ Next
  /\ inspector' = [inspector EXCEPT !.current = @ /\ ~(pc = "retire" /\ pc' = "drop")]
  /\ UNCHANGED inspections

InspectionInit == Init /\ inspector = NoInspector /\ inspections = 0

InspectionNext ==
  \/ OwnerStep
  \/ InspectManifest \/ InspectDirectory \/ InspectRecords
  \/ InspectRetireOrphans \/ InspectClose

InspectionSpec == InspectionInit /\ [][InspectionNext]_<<vars, inspection>>

(* Inspecting a directory takes nothing away: what was acknowledged is     *)
(* what a recovery would find (registry.hpp: a purely observational open   *)
(* claims nothing and therefore changes nothing).                          *)
InspectionTakesNothing == acked \subseteq Recoverable
=============================================================================
