----------------------------- MODULE PbTransfer -----------------------------
(***************************************************************************)
(* The conversions between the enumerations of the protocol and those of   *)
(* the extent manager (utils/pb_transfer.cpp): every value that a request  *)
(* or an answer carries goes through one of them.  A switch is a function  *)
(* on the values it names; Via gives its default for all the others.       *)
(***************************************************************************)
Via(f, x, default) == IF x \in DOMAIN f THEN f[x] ELSE default

PbPoolTypes == {"POOL_TYPE_HDD", "POOL_TYPE_SSD", "POOL_TYPE_NVME_SSD", "POOL_TYPE_SPECIAL", "POOL_TYPE_UNKNOWN"}
PbBlobTypes == {"BLOB_TYPE_GENERAL", "BLOB_TYPE_SUPERIOR", "BLOB_TYPE_EXCELLENT", "BLOB_TYPE_UNKNOWN"}
PbDomains   == {"FAILURE_DOMAIN_RACK", "FAILURE_DOMAIN_HOST", "FAILURE_DOMAIN_NODE", "FAILURE_DOMAIN_UNKNOWN"}

(* What a request may ask for. *)
pool_type_valid(x) == x \in {"POOL_TYPE_HDD", "POOL_TYPE_SSD", "POOL_TYPE_NVME_SSD"}
blobtype_valid(x)  == x \in {"BLOB_TYPE_GENERAL", "BLOB_TYPE_SUPERIOR", "BLOB_TYPE_EXCELLENT"}
failure_domain_valid(x) == x \in {"FAILURE_DOMAIN_RACK", "FAILURE_DOMAIN_HOST", "FAILURE_DOMAIN_NODE"}

FromPbPoolType(x) ==
  Via([POOL_TYPE_HDD |-> "HDD", POOL_TYPE_SSD |-> "SSD",
      POOL_TYPE_NVME_SSD |-> "NVMeSSD", POOL_TYPE_SPECIAL |-> "Special"], x, "Unknown")

(* There is no case for a special pool. *)
ToPbPoolType(x) ==
  Via([HDD |-> "POOL_TYPE_HDD", SSD |-> "POOL_TYPE_SSD", NVMeSSD |-> "POOL_TYPE_NVME_SSD"], x, "POOL_TYPE_UNKNOWN")

FromPbBlobType(x) ==
  Via([BLOB_TYPE_GENERAL |-> "General", BLOB_TYPE_SUPERIOR |-> "Superior",
      BLOB_TYPE_EXCELLENT |-> "Excellent"], x, "Unknown")

toPbBlobType(x) ==
  Via([General |-> "BLOB_TYPE_GENERAL", Superior |-> "BLOB_TYPE_SUPERIOR",
      Excellent |-> "BLOB_TYPE_EXCELLENT"], x, "BLOB_TYPE_UNKNOWN")

FromPbFailureDomain(x) ==
  Via([FAILURE_DOMAIN_RACK |-> "Rack", FAILURE_DOMAIN_HOST |-> "Host",
      FAILURE_DOMAIN_NODE |-> "Node"], x, "Unknown")

ToPbFailureDomain(x) ==
  Via([Rack |-> "FAILURE_DOMAIN_RACK", Host |-> "FAILURE_DOMAIN_HOST",
      Node |-> "FAILURE_DOMAIN_NODE"], x, "FAILURE_DOMAIN_UNKNOWN")

ToPbUserStatus(x) ==
  Via([created |-> "USER_STATUS_CREATED", deleted |-> "USER_STATUS_DELETED"], x, "USER_STATUS_UNKNOWN")

toPbBlobStatus(x) ==
  Via([created |-> "BLOB_STATUS_CREATED", deleted |-> "BLOB_STATUS_DELETED",
      resizing |-> "BLOB_STATUS_RESIZING", snapshotting |-> "BLOB_STATUS_SNAPSHOTTING",
      cloning |-> "BLOB_STATUS_CLONING"], x, "BLOB_STATUS_UNKNOWN")

(* There is no case for kPoolStatusInitializing, which nothing sets. *)
ToPbPoolStatus(x) ==
  Via([created |-> "POOL_STATUS_CREATED", enabled |-> "POOL_STATUS_ENABLED",
      disabled |-> "POOL_STATUS_DISABLED"], x, "POOL_STATUS_UNKNOWN")

ToPbExtentServerStatus(x) ==
  Via([ok |-> "ES_STATUS_OK", failed |-> "ES_STATUS_FAILED",
      recovering |-> "ES_STATUS_RECOVERING", rebalancing |-> "ES_STATUS_REBALANCING"], x, "ES_STATUS_UNKNOWN")

ToPbRgStatus(x) ==
  Via([ok |-> "RG_STATUS_OK", downgrade |-> "RG_STATUS_DOWNGRADE",
      recovering |-> "RG_STATUS_RECOVERING", rebalancing |-> "RG_STATUS_REBALANCING"], x, "RG_STATUS_UNKNOWN")

(* What is accepted comes back as it was, and the statuses that are set    *)
(* are told apart.                                                         *)
ConversionsKeep ==
  /\ \A x \in PbPoolTypes : pool_type_valid(x) => ToPbPoolType(FromPbPoolType(x)) = x
  /\ \A x \in PbBlobTypes : blobtype_valid(x) => toPbBlobType(FromPbBlobType(x)) = x
  /\ \A x \in PbDomains : failure_domain_valid(x) => ToPbFailureDomain(FromPbFailureDomain(x)) = x
  /\ \A x, y \in {"ok", "failed", "recovering", "rebalancing"} :
       x # y => ToPbExtentServerStatus(x) # ToPbExtentServerStatus(y)
  /\ \A x, y \in {"ok", "downgrade", "recovering", "rebalancing"} : x # y => ToPbRgStatus(x) # ToPbRgStatus(y)
=============================================================================
