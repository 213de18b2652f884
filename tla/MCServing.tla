------------------------------ MODULE MCServing ------------------------------
(***************************************************************************)
(* Instances for TLC of what the backend's routes stand on: the HTTP       *)
(* layer, the providers, the configuration and the entry points, and of    *)
(* the device's download of one blob.  They share no state; a behaviour is *)
(* one of the six, chosen at the start, and the others stand still.        *)
(*                                                                         *)
(* The configuration: hosts that set nothing, that open a gate by name,    *)
(* that leave one undefined, and that bring a hook or a provider of their  *)
(* own.                                                                    *)
(***************************************************************************)
EXTENDS HttpServing, BlobStore, Databases, Caches, BlobDownload, Deployment, TLC

VARIABLE looked

MCFiles == 1..4

MCNumber == ("0" :> 0) @@ ("1" :> 1)

MCEnvironment ==
  [{"adminToken", "storageDir", "dataDir", "enrollRateLimit", "requireRequestSignature",
    "requireEnrollAuth", "redisUrl", "databaseUrl", "sqlitePath", "s3Bucket"} -> {Undefined}]

MCEnvironments ==
  UNION {{e,
          [e EXCEPT !.adminToken = "secret", !.enrollRateLimit = "junk", !.redisUrl = "url"],
          [e EXCEPT !.adminToken = "", !.requireEnrollAuth = "false", !.enrollRateLimit = "0"],
          [e EXCEPT !.requireRequestSignature = "false", !.databaseUrl = "url", !.s3Bucket = "url",
                    !.dataDir = "node_modules"],
          [e EXCEPT !.sqlitePath = "url", !.storageDir = "node_modules", !.adminToken = "secret"]}
         : e \in MCEnvironment}

MCOptionSets ==
  {<<>>,
   [requireEnrollAuth |-> Undefined, requireRequestSignature |-> Undefined, adminToken |-> Undefined],
   [requireEnrollAuth |-> FALSE, adminToken |-> "secret", enrollRateLimit |-> 0],
   [requireRequestSignature |-> FALSE, verifyEnrollToken |-> "allows", onConfirm |-> "rejects"],
   [verifyEnrollToken |-> "throws", providers |-> {"blob", "cache"}, onConfirm |-> "rejects"],
   [verifyEnrollToken |-> "refuses", providers |-> {"db", "cache"}, dataDir |-> "node_modules"]}

providersVars == <<blobVars, dbVars, caVars>>

all == <<vars, providersVars, dlVars, deployVars, looked>>

\* What stands still does so in one of its initial states.
BlobAtRest == provider = "disk"
DbAtRest == database = "disk" /\ reachable
CaAtRest == backing = "memory"
DlAtRest == size = 0 /\ served = <<>>

MCInit ==
  /\ looked \in {"http", "blobs", "database", "cache", "download", "deployment"}
  /\ Init /\ BlobInit /\ DbInit /\ CaInit /\ DlInit /\ DeployInit
  /\ looked # "blobs" => BlobAtRest
  /\ looked # "database" => DbAtRest
  /\ looked # "cache" => CaAtRest
  /\ looked # "download" => DlAtRest

MCHttp(A) ==
  looked = "http" /\ A /\ UNCHANGED <<providersVars, dlVars, deployVars, looked>>
MCBlobs(A) ==
  looked = "blobs" /\ A /\ UNCHANGED <<vars, dbVars, caVars, dlVars, deployVars, looked>>
MCDatabase(A) ==
  looked = "database" /\ A /\ UNCHANGED <<vars, blobVars, caVars, dlVars, deployVars, looked>>
MCCache(A) ==
  looked = "cache" /\ A /\ UNCHANGED <<vars, blobVars, dbVars, dlVars, deployVars, looked>>
MCDownload(A) ==
  looked = "download" /\ A /\ UNCHANGED <<vars, providersVars, deployVars, looked>>
MCDeployment(A) ==
  looked = "deployment" /\ A /\ UNCHANGED <<vars, providersVars, dlVars, looked>>

MCNext ==
  \/ MCHttp(Next) \/ MCBlobs(BlobNext) \/ MCDatabase(DbNext)
  \/ MCCache(CaNext) \/ MCDownload(DlNext) \/ MCDeployment(DeployNext)

\* The fairness of FairSpec, DbSpec and DlSpec.
MCSpec ==
  /\ MCInit /\ [][MCNext]_all
  /\ WF_all(MCHttp(Server)) /\ WF_all(MCHttp(Send \/ (left > 0 /\ Disconnect)))
  /\ WF_all(MCDatabase(SqliteOpens \/ PoolOpens)) /\ WF_all(MCDatabase(SchemaEnds))
  /\ \A c \in Calls : WF_all(MCDatabase(Serves(c)))
  /\ WF_all(MCDownload(DownloadBlob))
  /\ WF_all(MCDownload(Stat \/ Answer \/ Receive \/ StreamEnds \/ Verify \/ Decrypt \/ Place))
=============================================================================
