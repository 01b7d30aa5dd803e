------------------------------ MODULE WireTypes ------------------------------
(***************************************************************************)
(* The frozen types of crates/ocp-types-v1.  Every struct is a table of    *)
(* its members, with the serde attributes of each one; an open struct has  *)
(* the flattened member `other` besides.  What reading and writing do with *)
(* them is the business of module Relay.                                   *)
(***************************************************************************)
EXTENDS TLC

Member(mode, names, ty) == [f \in names |-> [mode |-> mode, ty |-> ty]]
Must(names, ty) == Member("must", names, ty)
Opt(names, ty) == Member("opt", names, ty)
Vec(names, ty) == Member("vec", names, ty)
Map(names) == Member("map", names, "Any")
Zeroed(names) == Member("zero", names, "Text")

Identifier == [Identifier |-> Must({"fmt"}, "Tag") @@ Must({"value"}, "Text")]
Duration == [Duration |-> Must({"seconds"}, "Text") @@ Zeroed({"nanos"})]
ContentDigest == [ContentDigest |-> Must({"algo"}, "Tag") @@ Must({"digest"}, "Text")]
ToolRef == [ToolRef |-> Must({"family", "name", "version"}, "Text")]

\* The variants of PathRef by their `kind` (with an underscore for the dash),
\* without the unit variant Other.  The tag is read and written with each.
PathRef ==
  [local |-> Must({"kind", "path"}, "Text"), url |-> Must({"kind", "url"}, "Text"),
   run_relative |-> Must({"kind", "path"}, "Text"),
   content_addressed |-> Must({"kind"}, "Text") @@ Must({"digest"}, "ContentDigest")]

Envelope ==
  [Envelope |->
     Must({"ocp", "ts", "kind"}, "Text") @@ Must({"class"}, "EnvelopeClass")
     @@ Must({"id"}, "Identifier") @@ Opt({"run"}, "RunContext")
     @@ Opt({"payload"}, "Any") @@ Map({"ext"})]

RunContext ==
  [RunContext |->
     Must({"run_id"}, "Identifier") @@ Must({"tool"}, "ToolRef")
     @@ Opt({"task_id", "stage_id"}, "Text") @@ Opt({"parent_run_id"}, "Identifier")
     @@ Vec({"run_chain"}, "RunChainEntry") @@ Opt({"originating_tool"}, "ToolRef")
     @@ Map({"run_metadata"}),
   RunChainEntry |->
     Must({"run_id"}, "Identifier") @@ Must({"tool"}, "ToolRef") @@ Opt({"stage_id"}, "Text")]

RunPayloads ==
  [RunStartedPayload |->
     Opt({"seed", "label"}, "Text") @@ Opt({"output_dir"}, "PathRef") @@ Vec({"argv"}, "Text"),
   RunHeartbeatPayload |-> Opt({"elapsed"}, "Duration"),
   RunProgressPayload |->
     Opt({"iter_completed", "iter_target", "phase"}, "Text") @@ Opt({"fraction"}, "Float")
     @@ Vec({"metrics"}, "ProgressMetric") @@ Opt({"elapsed", "remaining"}, "Duration"),
   RunFinishedPayload |->
     Opt({"elapsed"}, "Duration") @@ Vec({"artifacts"}, "ArtifactRecord")
     @@ Opt({"summary"}, "Text") @@ Vec({"metrics"}, "ProgressMetric"),
   RunFailedPayload |->
     Must({"error"}, "Text") @@ Opt({"error_code"}, "Text") @@ Vec({"cause_chain"}, "Text")
     @@ Opt({"elapsed"}, "Duration") @@ Vec({"partial_artifacts"}, "ArtifactRecord")]

OtherRunPayloads ==
  [RunCancelledPayload |->
     Opt({"reason"}, "Text") @@ Opt({"elapsed"}, "Duration")
     @@ Vec({"partial_artifacts"}, "ArtifactRecord"),
   RunPausedPayload |-> Opt({"reason"}, "Text"),
   RunResumedPayload |-> Opt({"checkpoint_id", "resumed_at_iter"}, "Text"),
   StageStartedPayload |-> Opt({"label", "description"}, "Text"),
   StageFinishedPayload |->
     Must({"outcome"}, "StageOutcome") @@ Opt({"elapsed"}, "Duration")
     @@ Opt({"error", "summary"}, "Text"),
   CheckpointCommittedPayload |->
     Must({"checkpoint_id"}, "Text") @@ Must({"path"}, "PathRef")
     @@ Opt({"iter_committed", "exact"}, "Text") @@ Opt({"digest"}, "ContentDigest")]

ItemPayloads ==
  [ArtifactCreatedPayload |-> Must({"artifact"}, "ArtifactRecord"),
   ArtifactUpdatedPayload |-> Must({"artifact"}, "ArtifactRecord"),
   MessagePayload |->
     Must({"severity"}, "Severity") @@ Must({"message"}, "Text")
     @@ Opt({"code", "locator"}, "Text"),
   LogLinePayload |->
     Must({"severity"}, "Severity") @@ Must({"message"}, "Text")
     @@ Opt({"logger", "ts"}, "Text") @@ Map({"fields"}),
   MetricPayload |-> Must({"metric"}, "ProgressMetric") @@ Opt({"ts"}, "Text")]

Records ==
  [ValidationIssue |->
     Must({"severity"}, "Severity") @@ Must({"message"}, "Text")
     @@ Opt({"path", "code", "hint"}, "Text"),
   ArtifactRecord |->
     Must({"artifact_id", "kind"}, "Text") @@ Must({"path"}, "PathRef")
     @@ Opt({"media_type", "size_bytes", "created_at", "modified_at", "label",
             "description"}, "Text")
     @@ Opt({"digest"}, "ContentDigest") @@ Map({"ext"})]

Measures ==
  [OutputDescriptor |->
     Must({"kind"}, "Text")
     @@ Opt({"media_type", "always_produced", "label", "description"}, "Text"),
   ProgressMetric |->
     Must({"name"}, "Text") @@ Must({"value"}, "Float") @@ Opt({"unit"}, "Text")
     @@ Opt({"min", "max"}, "Float"),
   CostEstimate |->
     Opt({"estimated_duration"}, "Duration")
     @@ Opt({"estimated_peak_memory_bytes", "notes"}, "Text")
     @@ Opt({"estimated_cpu_units", "estimated_cost_usd", "confidence"}, "Float")]

ControlPayloads ==
  [ControlCancelPayload |-> Opt({"reason"}, "Text") @@ Opt({"deadline"}, "Duration"),
   ControlPausePayload |-> Opt({"reason"}, "Text"),
   ControlResumePayload |-> <<>>,
   ControlHeartbeatPayload |-> Opt({"seq"}, "Text"),
   ControlDeadlinePayload |-> Must({"new_deadline"}, "Duration") @@ Opt({"reason"}, "Text")]

ResponsePayloads ==
  [ValidateResponsePayload |->
     Must({"ok"}, "Text") @@ Vec({"issues"}, "ValidationIssue")
     @@ Opt({"cost_estimate"}, "CostEstimate") @@ Opt({"normalized_params"}, "Any"),
   SelfTestCheck |->
     Must({"id", "label"}, "Text") @@ Must({"status"}, "SelfTestStatus")
     @@ Opt({"message"}, "Text") @@ Opt({"elapsed"}, "Duration"),
   SelfTestResponsePayload |->
     Must({"ok"}, "Text") @@ Vec({"checks"}, "SelfTestCheck")
     @@ Opt({"elapsed"}, "Duration") @@ Opt({"summary"}, "Text")]

Manifest ==
  [Manifest |->
     Must({"schema_version", "plugin_id", "display_name", "version"}, "Text")
     @@ Opt({"publisher", "description"}, "Text") @@ Must({"runtime"}, "ManifestRuntime")
     @@ Must({"protocol"}, "ManifestProtocol") @@ Vec({"commands", "capabilities"}, "Text")
     @@ Opt({"sandbox"}, "ManifestSandbox") @@ Opt({"signing"}, "ManifestSigning")
     @@ Vec({"bundled_components"}, "BundledComponent") @@ Map({"ext"}),
   ManifestRuntime |->
     Must({"type"}, "Text") @@ Vec({"entrypoints"}, "RuntimeEntrypoint"),
   RuntimeEntrypoint |->
     Must({"os", "arch", "path"}, "Text") @@ Must({"digest"}, "ContentDigest")]

ManifestParts ==
  [ManifestProtocol |-> Must({"family", "version"}, "Text"),
   ManifestSandbox |-> Vec({"fs_read", "fs_write"}, "Text") @@ Opt({"network"}, "Text"),
   ManifestSigning |-> Must({"key_id", "signature_path"}, "Text") @@ Opt({"algorithm"}, "Text"),
   BundledComponent |->
     Must({"component_id", "display_name", "version", "path"}, "Text")
     @@ Must({"digest"}, "ContentDigest")]

FrozenStructs ==
  Identifier @@ Duration @@ ContentDigest @@ ToolRef @@ Envelope @@ RunContext
  @@ RunPayloads @@ OtherRunPayloads @@ ItemPayloads @@ Records @@ Measures
  @@ ControlPayloads @@ ResponsePayloads @@ Manifest @@ ManifestParts

\* The structs that have no flattened member `other`.
ClosedStructs == {"Identifier", "Duration", "ContentDigest", "ToolRef", "RunChainEntry"}

\* The enums with a unit variant for every other tag, and the one without.
FoldingEnums ==
  [Severity |-> {"info", "warning", "error", "other"},
   StageOutcome |-> {"success", "failure", "skipped", "cancelled", "other"},
   SelfTestStatus |-> {"pass", "fail", "skipped", "other"}]

EnvelopeClass == [EnvelopeClass |-> {"event", "response", "request", "control"}]
=============================================================================
